--------------------------- MODULE BrowserHistory ---------------------------
(* What the history of a panel promises, whatever keeps it: a trail of       *)
(* folders and a place on it.  Going back and forth moves the place and      *)
(* leaves the trail alone; a visit replaces what lay ahead of the place; and *)
(* a folder that is gone is replaced where it stood.                         *)
EXTENDS Integers, Sequences

CONSTANT Folders

VARIABLES trail, place

history == <<trail, place>>

Init == \E f \in Folders : trail = <<f>> /\ place = 1

Visit(f) ==
    /\ trail' = Append(SubSeq(trail, 1, place), f)
    /\ place' = place + 1

Back == place > 1 /\ place' = place - 1 /\ UNCHANGED trail

Forward == place < Len(trail) /\ place' = place + 1 /\ UNCHANGED trail

Replace(f) == trail' = [trail EXCEPT ![place] = f] /\ UNCHANGED place

Next ==
    \/ \E f \in Folders : Visit(f) \/ Replace(f)
    \/ Back
    \/ Forward

Spec == Init /\ [][Next]_history
=============================================================================
