----------------------------- MODULE BulkRename ------------------------------
(***************************************************************************)
(* A bulk rename: the sheet asks for new names, RenamePlanner checks and   *)
(* orders them against the names the directory held when the sheet opened, *)
(* and RenameJob runs the steps in a directory others may have changed.    *)
(***************************************************************************)
EXTENDS Integers, SequencesExt

CONSTANTS
    Names,           \* the names of the directory at first
    Others,          \* names it does not hold yet
    Unusable,        \* what no file may be called: empty, dots or with a separator
    MaxTemporaries   \* bound: how many cycles are broken

VARIABLES
    phase,       \* "closed", "sheet", "order", "submitted", "run", "done",
                 \* "failed", "cancelled" or "undone"
    directory,   \* what is there: whose content each name holds
    existing,    \* the names the sheet was opened with
    asked,       \* the selected names and what each is to become
    pending,     \* the changes that have no step yet
    occupied,    \* the names that are taken after the steps so far
    steps,       \* the plan
    completed,   \* the steps that were made
    disturbed    \* another program changed the directory

plan == <<pending, occupied, steps>>
vars == <<phase, directory, existing, asked, plan, completed, disturbed>>

Pair(from, to) == [from |-> from, to |-> to]

(* The name plus a suffix, unique in a plan. *)
TemporaryName(name, index) == [of |-> name, index |-> index]

(* What another program writes. *)
Foreign == [by |-> "others"]

Changes == SelectSeq(asked, LAMBDA p : p.from # p.to)
Sources == {p.from : p \in ToSet(asked)}
Temporaries == Len(SelectSeq(steps, LAMBDA s : s.to \notin Names \cup Others))

TypeOK ==
    /\ phase \in {"closed", "sheet", "order", "submitted", "run", "done", "failed", "cancelled", "undone"}
    /\ Sources \subseteq Names
    /\ ToSet(completed) \subseteq ToSet(steps)
    /\ disturbed \in BOOLEAN

Init ==
    /\ phase = "closed"
    /\ directory = [n \in Names |-> n]
    /\ existing = {}
    /\ asked = <<>>
    /\ pending = <<>>
    /\ occupied = {}
    /\ steps = <<>>
    /\ completed = <<>>
    /\ disturbed = FALSE

(* A rule makes any names of the selected ones, several the same or unusable. *)
Renamings(selected) == [selected -> Names \cup Others \cup {Unusable}]

Start(selected) ==
    /\ phase = "closed"
    /\ selected # {} /\ selected \subseteq DOMAIN directory
    /\ phase' = "sheet"
    /\ existing' = DOMAIN directory
    /\ \E to \in Renamings(selected) :
          asked' = [i \in 1 .. Cardinality(selected) |->
                        Pair(SetToSeq(selected)[i], to[SetToSeq(selected)[i]])]
    /\ UNCHANGED <<directory, plan, completed, disturbed>>

Usable(name) == name # Unusable

Valid ==
    /\ \A p \in ToSet(Changes) : Usable(p.to)
    /\ \A i, j \in 1 .. Len(Changes) : Changes[i].to = Changes[j].to => i = j
    /\ \A p \in ToSet(Changes) : p.to \in existing => p.to \in Sources

OccupiedAtFirst == Sources \cup ({p.to : p \in ToSet(Changes)} \cap existing)

CanRename == Valid /\ Changes # <<>>

Accept ==
    /\ phase = "sheet"
    /\ CanRename
    /\ phase' = "order"
    /\ pending' = Changes
    /\ occupied' = OccupiedAtFirst
    /\ UNCHANGED <<directory, existing, asked, steps, completed, disturbed>>

(* One pass: in turn, every change whose target is free by now. *)
Pass ==
    FoldLeft(LAMBDA s, p : IF p.to \in s.occupied THEN [s EXCEPT !.still = Append(@, p)]
                           ELSE [still |-> s.still,
                                 occupied |-> (s.occupied \ {p.from}) \cup {p.to},
                                 steps |-> Append(s.steps, p)],
             [still |-> <<>>, occupied |-> occupied, steps |-> steps], pending)

EmitFree ==
    /\ phase = "order"
    /\ pending # <<>>
    /\ Pass.still # pending
    /\ pending' = Pass.still
    /\ occupied' = Pass.occupied
    /\ steps' = Pass.steps
    /\ UNCHANGED <<phase, directory, existing, asked, completed, disturbed>>

BreakCycle ==
    /\ phase = "order"
    /\ pending # <<>>
    /\ Pass.still = pending
    /\ Temporaries < MaxTemporaries
    /\ LET victim == Head(pending)
           aside == TemporaryName(victim.from, Temporaries)
       IN /\ steps' = Append(steps, Pair(victim.from, aside))
          /\ occupied' = occupied \ {victim.from}
          /\ pending' = Append(Tail(pending), Pair(aside, victim.to))
    /\ UNCHANGED <<phase, directory, existing, asked, completed, disturbed>>

Submit ==
    /\ phase = "order"
    /\ pending = <<>>
    /\ phase' = "submitted"
    /\ UNCHANGED <<directory, existing, asked, plan, completed, disturbed>>

(* The plan named what existed a while ago; its own temporaries never did. *)
Enumerate ==
    /\ phase = "submitted"
    /\ phase' = IF \A s \in ToSet(steps) : s.from \in Names \cup Others => s.from \in DOMAIN directory
                THEN "run" ELSE "failed"
    /\ UNCHANGED <<directory, existing, asked, plan, completed, disturbed>>

Moved(dir, from, to) ==
    [n \in (DOMAIN dir \ {from}) \cup {to} |-> dir[IF n = to THEN from ELSE n]]

(* QFile::rename() refuses a name that is taken; the first refusal is the last step. *)
Execute ==
    /\ phase = "run"
    /\ completed # steps
    /\ LET step == steps[Len(completed) + 1] IN
       IF step.from \in DOMAIN directory /\ step.to \notin DOMAIN directory
       THEN /\ directory' = Moved(directory, step.from, step.to)
            /\ completed' = Append(completed, step)
            /\ phase' = phase
       ELSE /\ phase' = "failed"
            /\ UNCHANGED <<directory, completed>>
    /\ UNCHANGED <<existing, asked, plan, disturbed>>

Finish ==
    /\ phase = "run"
    /\ completed = steps
    /\ phase' = "done"
    /\ UNCHANGED <<directory, existing, asked, plan, completed, disturbed>>

Cancel ==
    /\ phase \in {"submitted", "run"}
    /\ phase' = "cancelled"
    /\ UNCHANGED <<directory, existing, asked, plan, completed, disturbed>>

(* Whatever was done is one entry of the undo stack, unless it was cancelled. *)
Undoable == phase \in {"done", "failed"} /\ completed # <<>>

UndoOne(dir, step) ==
    IF step.to \in DOMAIN dir /\ step.from \notin DOMAIN dir
    THEN Moved(dir, step.to, step.from)
    ELSE dir

Undo ==
    /\ Undoable
    /\ phase' = "undone"
    /\ directory' = FoldLeft(UndoOne, directory, Reverse(completed))
    /\ UNCHANGED <<existing, asked, plan, completed, disturbed>>

(* Once: a file goes, or one comes, perhaps what an earlier rename left aside. *)
Disturb ==
    /\ ~disturbed
    /\ disturbed' = TRUE
    /\ \/ \E n \in DOMAIN directory : directory' = Restrict(directory, DOMAIN directory \ {n})
       \/ \E n \in (Names \cup Others \cup {TemporaryName(m, 0) : m \in Names}) \ DOMAIN directory :
             directory' = [m \in DOMAIN directory \cup {n} |-> IF m = n THEN Foreign ELSE directory[m]]
    /\ UNCHANGED <<phase, existing, asked, plan, completed>>

Next ==
    \/ \E selected \in SUBSET Names : Start(selected)
    \/ Accept
    \/ EmitFree
    \/ BreakCycle
    \/ Submit
    \/ Enumerate
    \/ Execute
    \/ Finish
    \/ Cancel
    \/ Undo
    \/ Disturb

Spec == Init /\ [][Next]_vars

-----------------------------------------------------------------------------
Target(n) == IF \E p \in ToSet(asked) : p.from = n THEN (CHOOSE p \in ToSet(asked) : p.from = n).to ELSE n

(* What the sheet accepts it can do: through swaps, chains and cycles, a run *)
(* that nobody disturbs never meets a name that is gone or taken, and gives  *)
(* every file the name asked for it; and whoever disturbs it, no file is     *)
(* ever overwritten. Undo, in reverse, brings every one of them back.        *)
RenamesAsAsked ==
    /\ phase = "run" /\ ~disturbed /\ completed # steps =>
          LET step == steps[Len(completed) + 1] IN
          step.from \in DOMAIN directory /\ step.to \notin DOMAIN directory
    /\ phase = "done" /\ ~disturbed => \A n \in Names : directory[Target(n)] = n
    /\ phase = "undone" /\ ~disturbed => \A n \in Names : directory[n] = n
    /\ Cardinality(Names \ Range(directory)) <= IF disturbed THEN 1 ELSE 0
=============================================================================
