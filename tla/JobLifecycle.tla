---------------------------- MODULE JobLifecycle ----------------------------
(***************************************************************************)
(* What the job engine promises about every job, whatever its threads,     *)
(* timers and queued signals do: a job waits, becomes active and is done,  *)
(* in that order and never backwards; at most Cap jobs are active; nothing *)
(* waits while a slot is free; and slots go to jobs in the order in which  *)
(* they were submitted.  JobEngine implements this module.                 *)
(***************************************************************************)
EXTENDS Naturals, FiniteSets

CONSTANTS Jobs,   \* the ids of the jobs, natural numbers in submission order
          Cap     \* how many jobs may be active at once

VARIABLE status   \* status[j] is how far job j has got

Stage == {"none", "waiting", "active", "done"}

Rank == [none |-> 0, waiting |-> 1, active |-> 2, done |-> 3]

In(s, stage) == {j \in Jobs : s[j] = stage}

Init == status = [j \in Jobs |-> "none"]

(* No more than Cap jobs are active in s.                                  *)
Bounded(s) == Cardinality(In(s, "active")) <= Cap

(* A job waits only while every slot is taken.                             *)
WorkConserving(s) ==
    In(s, "waiting") # {} => Cardinality(In(s, "active")) = Cap

(* A job that becomes active overtakes no job that is left waiting.        *)
InOrder(s, t) ==
    \A i, j \in Jobs :
        /\ i < j
        /\ s[j] # "active"
        /\ t[j] = "active"
        => t[i] # "waiting"

(* Any number of jobs may move on together: a job that ends hands its slot *)
(* over in the same step.                                                  *)
Next ==
    /\ status' \in [Jobs -> Stage]
    /\ \A j \in Jobs : Rank[status[j]] <= Rank[status'[j]]
    /\ Bounded(status')
    /\ WorkConserving(status')
    /\ InOrder(status, status')

Spec == Init /\ [][Next]_status
=============================================================================
