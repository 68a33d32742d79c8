--------------------------- MODULE JobEngineProof ---------------------------
(***************************************************************************)
(* Proofs about JobEngine for any number of jobs, slots and conflicts: its *)
(* type invariant and, from an inductive invariant that ties the queue,    *)
(* the slots, the threads, the posted signals and the bar's lists to one   *)
(* another, the safety properties that the runs check.                     *)
(***************************************************************************)
EXTENDS JobEngine, FiniteSetTheorems, SequenceTheorems, TLAPS

Distinct(q) == \A i, k \in 1..Len(q) : q[i] = q[k] => i = k

(* The jobs in the queue are known, unreported and untouched. *)
QueueInv ==
    /\ Distinct(queue)
    /\ \A j \in Members(queue) :
        /\ j \in entries \ finished
        /\ j \notin running
        /\ state[j] = "Pending"
        /\ thread[j] = "null"

(* A slot is held exactly by the jobs whose thread is up. *)
SlotInv ==
    /\ Cardinality(running) <= Cap
    /\ running \subseteq entries \ finished
    /\ \A j \in Jobs : thread[j] = "up" <=> j \in running
    /\ \A j \in Jobs : state[j] \in InRun => j \in running

(* Ids not handed out yet have left no trace. *)
FreshInv ==
    \A j \in Jobs : j >= nextId =>
        /\ j \notin entries \cup finished \cup quiet
        /\ state[j] = "Pending"
        /\ thread[j] = "null"
        /\ reports[j] = 0

(* A finished signal in the GUI thread's queue belongs to a job that has   *)
(* ended and still holds its slot, and there is one per job.               *)
EventInv ==
    \A i \in 1..Len(events) : events[i].kind = "finished" =>
        /\ state[events[i].job] = "Finished"
        /\ events[i].job \in running
        /\ \A k \in 1..Len(events) :
            events[k].kind = "finished" /\ events[k].job = events[i].job => k = i

(* What the bar lists is what the engine has entries for. *)
BarInv ==
    /\ items = entries \ quiet
    /\ quietJobs = entries \cap quiet
    /\ quietFinished \subseteq quietJobs \cap finished

IInv ==
    /\ TypeOK
    /\ QueueInv
    /\ SlotInv
    /\ FreshInv
    /\ EventInv
    /\ BarInv
    /\ ReportedOnce

-----------------------------------------------------------------------------
(* Sequences of jobs *)

(* The elements of a queue of jobs are jobs. *)
LEMMA MembersAreJobs ==
    ASSUME NEW q \in Seq(Jobs)
    PROVE  Members(q) \subseteq Jobs
  BY ElementOfSeq DEF Members

(* Appending a new job adds it and keeps the queue free of duplicates. *)
LEMMA AppendMembers ==
    ASSUME NEW q \in Seq(Jobs), NEW x \in Jobs, Distinct(q), x \notin Members(q)
    PROVE  /\ Append(q, x) \in Seq(Jobs)
           /\ Members(Append(q, x)) = Members(q) \cup {x}
           /\ Distinct(Append(q, x))
  <1>1. /\ Append(q, x) \in Seq(Jobs)
        /\ Len(Append(q, x)) = Len(q) + 1
        /\ \A i \in 1..Len(q) : Append(q, x)[i] = q[i]
        /\ Append(q, x)[Len(q) + 1] = x
        /\ Len(q) \in Nat
    OBVIOUS
  <1>2. Members(Append(q, x)) = Members(q) \cup {x}
    BY <1>1 DEF Members
  <1>3. Distinct(Append(q, x))
    BY <1>1 DEF Distinct, Members
  <1> QED BY <1>1, <1>2, <1>3

(* Taking out position i removes exactly the job that stood there. *)
LEMMA CutMembers ==
    ASSUME NEW q \in Seq(Jobs), NEW i \in 1..Len(q), Distinct(q)
    PROVE  /\ CutAt(q, i) \in Seq(Jobs)
           /\ Members(CutAt(q, i)) = Members(q) \ {q[i]}
           /\ Distinct(CutAt(q, i))
  <1> DEFINE c == CutAt(q, i)
  <1>0. Len(q) \in Nat /\ Len(q) - 1 \in Nat /\ \A k \in 1..Len(q) : q[k] \in Jobs
    BY ElementOfSeq
  <1>1. c \in [1..(Len(q) - 1) -> Jobs]
    BY <1>0 DEF CutAt
  <1>2. c \in Seq(Jobs) /\ Len(c) = Len(q) - 1
    BY <1>0, <1>1, SeqDef
  <1>3. \A k \in 1..(Len(q) - 1) : c[k] = IF k < i THEN q[k] ELSE q[k + 1]
    BY DEF CutAt
  <1> HIDE DEF c
  <1>4. Members(c) \subseteq Members(q) \ {q[i]}
    BY <1>0, <1>2, <1>3 DEF Members, Distinct
  <1>5. ASSUME NEW k \in 1..Len(q), q[k] # q[i]
        PROVE  q[k] \in Members(c)
    <2>1. CASE k < i
      BY <2>1, <1>0, <1>2, <1>3 DEF Members
    <2>2. CASE k > i
      <3>1. k - 1 \in 1..(Len(q) - 1) /\ c[k - 1] = q[k]
        BY <2>2, <1>0, <1>3
      <3> QED BY <3>1, <1>2 DEF Members
    <2> QED BY <2>1, <2>2, <1>5
  <1>6. Members(c) = Members(q) \ {q[i]}
    BY <1>4, <1>5 DEF Members
  <1>7. Distinct(c)
    BY <1>0, <1>2, <1>3 DEF Distinct
  <1> QED BY <1>2, <1>6, <1>7 DEF c

(* What is left of a queue without duplicates once its first n jobs have   *)
(* been taken.                                                             *)
LEMMA TakenFromFront ==
    ASSUME NEW q \in Seq(Jobs), NEW n \in 0..Len(q), Distinct(q)
    PROVE  /\ {q[i] : i \in 1..n} \subseteq Members(q)
           /\ SubSeq(q, n + 1, Len(q)) \in Seq(Jobs)
           /\ Distinct(SubSeq(q, n + 1, Len(q)))
           /\ Members(SubSeq(q, n + 1, Len(q))) = Members(q) \ {q[i] : i \in 1..n}
  <1> DEFINE rest == SubSeq(q, n + 1, Len(q))
             taken == {q[i] : i \in 1..n}
  <1>1. Len(q) \in Nat /\ (\A k \in 1..Len(q) : q[k] \in Jobs)
    BY ElementOfSeq
  <1>2. taken \subseteq Members(q)
    BY <1>1 DEF Members
  <1>3. /\ rest \in Seq(Jobs)
        /\ Len(rest) = Len(q) - n
        /\ \A i \in 1..(Len(q) - n) : rest[i] = q[n + i]
    <2>1. \A i \in (n + 1)..Len(q) : q[i] \in Jobs
      BY <1>1
    <2>2. /\ rest \in Seq(Jobs)
          /\ Len(rest) = IF n + 1 <= Len(q) THEN Len(q) - (n + 1) + 1 ELSE 0
          /\ \A i \in 1..(Len(q) - (n + 1) + 1) : rest[i] = q[(n + 1) + i - 1]
      BY <2>1, <1>1, SubSeqProperties
    <2> QED BY <2>2, <1>1
  <1> HIDE DEF rest
  <1>4. Distinct(rest)
    BY <1>1, <1>3 DEF Distinct
  <1>5. Members(rest) = Members(q) \ taken
    <2>1. Members(rest) = {q[n + i] : i \in 1..(Len(q) - n)}
      BY <1>1, <1>3 DEF Members
    <2>2. {q[n + i] : i \in 1..(Len(q) - n)} = {q[k] : k \in (n + 1)..Len(q)}
      <3>1. \A k \in (n + 1)..Len(q) : (k - n) \in 1..(Len(q) - n) /\ n + (k - n) = k
        BY <1>1
      <3>2. \A i \in 1..(Len(q) - n) : (n + i) \in (n + 1)..Len(q)
        BY <1>1
      <3> QED BY <3>1, <3>2
    <2>3. \A k \in 1..Len(q) : k \in 1..n \/ k \in (n + 1)..Len(q)
      BY <1>1
    <2>4. \A i \in 1..n, k \in (n + 1)..Len(q) : q[i] # q[k]
      BY <1>1 DEF Distinct
    <2>5. \A k \in (n + 1)..Len(q) : k \in 1..Len(q)
      BY <1>1
    <2> QED BY <2>1, <2>2, <2>3, <2>4, <2>5 DEF Members
  <1> QED BY <1>2, <1>3, <1>4, <1>5 DEF rest

(* A posted signal names a job. *)
LEMMA EventsAreEvents ==
    ASSUME TypeOK, NEW i \in 1..Len(events)
    PROVE  events[i].job \in Jobs /\ events[i].kind \in {"conflict", "finished"}
  <1>1. events[i] \in Event
    BY ElementOfSeq DEF TypeOK
  <1> QED BY <1>1 DEF Event

(* Slots freed by one job leave room for the others. *)
LEMMA FewerJobs ==
    ASSUME NEW S \in SUBSET Jobs, NEW T \in SUBSET S
    PROVE  /\ IsFiniteSet(S)
           /\ Cardinality(T) \in Nat
           /\ Cardinality(S) \in Nat
           /\ Cardinality(T) <= Cardinality(S)
  <1>1. IsFiniteSet(Jobs)
    BY ConstantsAssumption, FS_Interval DEF Jobs
  <1>2. IsFiniteSet(S)
    BY <1>1, FS_Subset
  <1> QED BY <1>2, FS_Subset, FS_CardinalityType

-----------------------------------------------------------------------------
(* The inductive invariant *)

(* The inductive invariant holds in the beginning. *)
LEMMA InitInv == Init => IInv
  <1> SUFFICES ASSUME Init PROVE IInv
    OBVIOUS
  <1>1. nextId = 1 /\ nextId \in 1..(MaxJobs + 1)
    BY ConstantsAssumption DEF Init
  <1>2. Cardinality({}) = 0
    BY FS_EmptySet
  <1>3. queue \in Seq(Jobs) /\ events \in Seq(Event)
    BY DEF Init
  <1>4. TypeOK
    <2>1. thread \in [Jobs -> Thread] /\ state \in [Jobs -> State]
      BY DEF Init, Thread, State
    <2>2. asks \in [Jobs -> 0..MaxAsks] /\ reports \in [Jobs -> Nat]
      BY ConstantsAssumption DEF Init
    <2> QED BY <1>1, <1>3, <2>1, <2>2 DEF Init, TypeOK
  <1>5. Members(queue) = {} /\ Len(queue) = 0 /\ Len(events) = 0
    BY DEF Init, Members
  <1> QED
    BY <1>1, <1>2, <1>4, <1>5, ConstantsAssumption
    DEF Init, IInv, QueueInv, Distinct, SlotInv, FreshInv, EventInv, BarInv,
        ReportedOnce, InRun, Jobs

(* Setting the cancelled flag disturbs nothing. *)
LEMMA CancelStartedInv ==
    ASSUME IInv, NEW j \in Jobs, CancelStarted(j)
    PROVE  IInv'
  <1> USE DEF CancelStarted, IInv, vars, engineVars, workerVars, barVars
  <1>1. TypeOK'
    BY DEF TypeOK, State, Thread, Event
  <1>2. QueueInv'
    BY DEF QueueInv, Members, Distinct, TypeOK
  <1>3. SlotInv'
    BY DEF SlotInv, QueueInv, InRun, TypeOK
  <1>4. FreshInv'
    BY DEF FreshInv, TypeOK, Jobs
  <1>5. EventInv'
    BY DEF EventInv, TypeOK
  <1>6. BarInv' /\ ReportedOnce'
    BY DEF BarInv, ReportedOnce, Members
  <1> QED BY <1>1, <1>2, <1>3, <1>4, <1>5, <1>6

(* Answering disturbs nothing. *)
LEMMA ResolveConflictInv ==
    ASSUME IInv, NEW j \in Jobs, ResolveConflict(j)
    PROVE  IInv'
  <1> USE DEF ResolveConflict, IInv, vars, engineVars, workerVars, barVars
  <1>1. TypeOK'
    BY DEF TypeOK, State, Thread, Event
  <1>2. QueueInv'
    BY DEF QueueInv, Members, Distinct, TypeOK
  <1>3. SlotInv'
    BY DEF SlotInv, QueueInv, InRun, TypeOK
  <1>4. FreshInv'
    BY DEF FreshInv, TypeOK, Jobs
  <1>5. EventInv'
    BY DEF EventInv, TypeOK
  <1>6. BarInv' /\ ReportedOnce'
    BY DEF BarInv, ReportedOnce, Members
  <1> QED BY <1>1, <1>2, <1>3, <1>4, <1>5, <1>6

(* The appear timer only moves the bar. *)
LEMMA AppearTimeoutInv ==
    ASSUME IInv, AppearTimeout
    PROVE  IInv'
  <1> USE DEF AppearTimeout, IInv, vars, engineVars, workerVars, barVars
  <1>1. TypeOK'
    BY DEF TypeOK, State, Thread, Event
  <1>2. QueueInv'
    BY DEF QueueInv, Members, Distinct, TypeOK
  <1>3. SlotInv'
    BY DEF SlotInv, QueueInv, InRun, TypeOK
  <1>4. FreshInv'
    BY DEF FreshInv, TypeOK, Jobs
  <1>5. EventInv'
    BY DEF EventInv, TypeOK
  <1>6. BarInv' /\ ReportedOnce'
    BY DEF BarInv, ReportedOnce, Members
  <1> QED BY <1>1, <1>2, <1>3, <1>4, <1>5, <1>6

(* A started worker holds a slot. *)
LEMMA StartWorkerInv ==
    ASSUME IInv, NEW j \in Jobs, StartWorker(j)
    PROVE  IInv'
  <1> USE DEF StartWorker, IInv, vars, engineVars, workerVars, barVars
  <1>1. TypeOK'
    BY DEF TypeOK, State, Thread, Event
  <1>2. QueueInv'
    BY DEF QueueInv, Members, Distinct, TypeOK
  <1>3. SlotInv'
    BY DEF SlotInv, QueueInv, InRun, TypeOK
  <1>4. FreshInv'
    BY DEF FreshInv, TypeOK, Jobs
  <1>5. EventInv'
    BY DEF EventInv, TypeOK
  <1>6. BarInv' /\ ReportedOnce'
    BY DEF BarInv, ReportedOnce, Members
  <1> QED BY <1>1, <1>2, <1>3, <1>4, <1>5, <1>6

(* Enumeration over, the worker stays in its slot. *)
LEMMA EnumerateProceedsInv ==
    ASSUME IInv, NEW j \in Jobs, EnumerateProceeds(j)
    PROVE  IInv'
  <1> USE DEF EnumerateProceeds, IInv, vars, engineVars, workerVars, barVars
  <1>1. TypeOK'
    BY DEF TypeOK, State, Thread, Event
  <1>2. QueueInv'
    BY DEF QueueInv, Members, Distinct, TypeOK
  <1>3. SlotInv'
    BY DEF SlotInv, QueueInv, InRun, TypeOK
  <1>4. FreshInv'
    BY DEF FreshInv, TypeOK, Jobs
  <1>5. EventInv'
    BY DEF EventInv, TypeOK
  <1>6. BarInv' /\ ReportedOnce'
    BY DEF BarInv, ReportedOnce, Members
  <1> QED BY <1>1, <1>2, <1>3, <1>4, <1>5, <1>6

(* An answer puts the worker back to work. *)
LEMMA TakeAnswerInv ==
    ASSUME IInv, NEW j \in Jobs, NEW b \in BOOLEAN, TakeAnswer(j, b)
    PROVE  IInv'
  <1> USE DEF TakeAnswer, IInv, vars, engineVars, workerVars, barVars
  <1>1. TypeOK'
    BY DEF TypeOK, State, Thread, Event
  <1>2. QueueInv'
    BY DEF QueueInv, Members, Distinct, TypeOK
  <1>3. SlotInv'
    BY DEF SlotInv, QueueInv, InRun, TypeOK
  <1>4. FreshInv'
    BY DEF FreshInv, TypeOK, Jobs
  <1>5. EventInv'
    BY DEF EventInv, TypeOK
  <1>6. BarInv' /\ ReportedOnce'
    BY DEF BarInv, ReportedOnce, Members
  <1> QED BY <1>1, <1>2, <1>3, <1>4, <1>5, <1>6

(* So does the cancelled flag. *)
LEMMA NoticeCancelInv ==
    ASSUME IInv, NEW j \in Jobs, NoticeCancel(j)
    PROVE  IInv'
  <1> USE DEF NoticeCancel, IInv, vars, engineVars, workerVars, barVars
  <1>1. TypeOK'
    BY DEF TypeOK, State, Thread, Event
  <1>2. QueueInv'
    BY DEF QueueInv, Members, Distinct, TypeOK
  <1>3. SlotInv'
    BY DEF SlotInv, QueueInv, InRun, TypeOK
  <1>4. FreshInv'
    BY DEF FreshInv, TypeOK, Jobs
  <1>5. EventInv'
    BY DEF EventInv, TypeOK
  <1>6. BarInv' /\ ReportedOnce'
    BY DEF BarInv, ReportedOnce, Members
  <1> QED BY <1>1, <1>2, <1>3, <1>4, <1>5, <1>6

(* A thread that deletes itself held no slot. *)
LEMMA ThreadGoneInv ==
    ASSUME IInv, NEW j \in Jobs, ThreadGone(j)
    PROVE  IInv'
  <1> USE DEF ThreadGone, IInv, vars, engineVars, workerVars, barVars
  <1>1. TypeOK'
    BY DEF TypeOK, State, Thread, Event
  <1>2. QueueInv'
    BY DEF QueueInv, Members, Distinct, TypeOK
  <1>3. SlotInv'
    BY DEF SlotInv, QueueInv, InRun, TypeOK
  <1>4. FreshInv'
    BY DEF FreshInv, TypeOK, Jobs
  <1>5. EventInv'
    BY DEF EventInv, TypeOK
  <1>6. BarInv' /\ ReportedOnce'
    BY DEF BarInv, ReportedOnce, Members
  <1> QED BY <1>1, <1>2, <1>3, <1>4, <1>5, <1>6

(* A posted question is not a finished signal. *)
LEMMA AskConflictInv ==
    ASSUME IInv, NEW j \in Jobs, AskConflict(j)
    PROVE  IInv'
  <1> USE DEF AskConflict, IInv, vars, engineVars, workerVars, barVars
  <1>1. /\ Len(events') = Len(events) + 1
        /\ \A i \in 1..Len(events) : events'[i] = events[i]
        /\ events'[Len(events) + 1].kind = "conflict"
        /\ Len(events) \in Nat
        /\ events' \in Seq(Event)
    BY DEF TypeOK, Event
  <1>2. TypeOK'
    BY <1>1, ConstantsAssumption DEF TypeOK, State
  <1>3. QueueInv' /\ FreshInv'
    BY DEF QueueInv, FreshInv, SlotInv, InRun, Members, Distinct, TypeOK, Jobs
  <1>4. SlotInv'
    BY DEF SlotInv, InRun, TypeOK
  <1>5. EventInv'
    <2> SUFFICES ASSUME NEW i \in 1..Len(events'), events'[i].kind = "finished"
                 PROVE  /\ state'[events'[i].job] = "Finished"
                        /\ events'[i].job \in running'
                        /\ \A k \in 1..Len(events') :
                             events'[k].kind = "finished" /\ events'[k].job = events'[i].job
                                => k = i
      BY DEF EventInv
    <2>0. i \in 1..Len(events) /\ events[i] = events'[i]
      BY <1>1
    <2>1. i \in 1..Len(events) /\ events[i] = events'[i] /\ events[i].job \in Jobs
      BY <2>0, EventsAreEvents
    <2>2. state[events[i].job] = "Finished" /\ events[i].job \in running
      BY <2>1 DEF EventInv
    <2>3. state'[events[i].job] = "Finished"
      BY <2>1, <2>2 DEF TypeOK
    <2>4. ASSUME NEW k \in 1..Len(events'), events'[k].kind = "finished",
                 events'[k].job = events'[i].job
          PROVE  k = i
      <3>1. k \in 1..Len(events) /\ events[k] = events'[k]
        BY <2>4, <1>1
      <3> QED BY <3>1, <2>1, <2>4 DEF EventInv
    <2> QED BY <2>1, <2>2, <2>3, <2>4
  <1>6. BarInv' /\ ReportedOnce'
    BY DEF BarInv, ReportedOnce, Members
  <1> QED BY <1>2, <1>3, <1>4, <1>5, <1>6

(* A worker that ends still holds its slot and posts its only finished signal. *)
LEMMA FinishInv ==
    ASSUME IInv, NEW j \in Jobs, state[j] \in InRun, Finish(j)
    PROVE  IInv'
  <1> USE DEF Finish, IInv, vars, engineVars, workerVars, barVars
  <1>0. j \in running
    BY DEF SlotInv
  <1>1. /\ Len(events') = Len(events) + 1
        /\ \A i \in 1..Len(events) : events'[i] = events[i]
        /\ events'[Len(events) + 1] = [job |-> j, kind |-> "finished"]
        /\ Len(events) \in Nat
        /\ events' \in Seq(Event)
    BY DEF TypeOK, Event
  <1>2. TypeOK'
    BY <1>1 DEF TypeOK, State
  <1>3. QueueInv' /\ FreshInv'
    BY <1>0 DEF QueueInv, FreshInv, SlotInv, InRun, Members, Distinct, TypeOK, Jobs
  <1>4. SlotInv'
    BY DEF SlotInv, InRun, TypeOK
  <1>5. EventInv'
    <2>1. \A i \in 1..Len(events) : events[i].kind = "finished" => events[i].job # j
      BY DEF EventInv, InRun, TypeOK
    <2> SUFFICES ASSUME NEW i \in 1..Len(events'), events'[i].kind = "finished"
                 PROVE  /\ state'[events'[i].job] = "Finished"
                        /\ events'[i].job \in running'
                        /\ \A k \in 1..Len(events') :
                             events'[k].kind = "finished" /\ events'[k].job = events'[i].job
                                => k = i
      BY DEF EventInv
    <2>2. CASE i = Len(events) + 1
      BY <2>1, <2>2, <1>0, <1>1 DEF TypeOK
    <2>3. CASE i \in 1..Len(events)
      <3>1. events[i] = events'[i] /\ events[i].job \in Jobs
        BY <2>3, <1>1, EventsAreEvents
      <3>2. state[events[i].job] = "Finished" /\ events[i].job \in running
        BY <2>3, <3>1 DEF EventInv
      <3>3. state'[events[i].job] = "Finished" /\ events[i].job # j
        BY <2>1, <2>3, <3>1, <3>2 DEF TypeOK
      <3>4. ASSUME NEW k \in 1..Len(events'), events'[k].kind = "finished",
                   events'[k].job = events'[i].job
            PROVE  k = i
        <4>1. k \in 1..Len(events) /\ events[k] = events'[k]
          BY <3>1, <3>3, <3>4, <1>1
        <4> QED BY <4>1, <2>3, <3>1, <3>4 DEF EventInv
      <3> QED BY <3>1, <3>2, <3>3, <3>4
    <2> QED BY <2>2, <2>3, <1>1
  <1>6. BarInv' /\ ReportedOnce'
    BY DEF BarInv, ReportedOnce, Members
  <1> QED BY <1>2, <1>3, <1>4, <1>5, <1>6

(* Taking a question off the event queue keeps the signals behind it in order. *)
LEMMA DeliverConflictInv ==
    ASSUME IInv, DeliverConflict
    PROVE  IInv'
  <1> USE DEF DeliverConflict, IInv, vars, engineVars, workerVars, barVars
  <1>1. /\ events' \in Seq(Event)
        /\ Len(events') = Len(events) - 1
        /\ \A i \in 1..Len(events') : events'[i] = events[i + 1]
        /\ Head(events) \in Event
        /\ Len(events) \in Nat
    BY HeadTailProperties DEF TypeOK
  <1>2. TypeOK'
    BY <1>1 DEF TypeOK, Event
  <1>3. QueueInv' /\ SlotInv' /\ FreshInv'
    BY DEF QueueInv, SlotInv, FreshInv, Members, Distinct, Jobs
  <1>4. EventInv'
    BY <1>1 DEF EventInv
  <1>5. BarInv' /\ ReportedOnce'
    BY DEF BarInv, ReportedOnce, Members
  <1> QED BY <1>2, <1>3, <1>4, <1>5

(* A job cancelled in the queue leaves it and is reported then and there. *)
LEMMA CancelQueuedInv ==
    ASSUME IInv, NEW j \in Jobs, CancelQueued(j)
    PROVE  IInv'
  <1> USE DEF CancelQueued, EmitFinished, IInv, vars, engineVars, workerVars, barVars
  <1>1. PICK i \in 1..Len(queue) : queue[i] = j /\ queue' = CutAt(queue, i)
    OBVIOUS
  <1>2. j \in Members(queue) /\ j \in entries \ finished /\ j \notin running
    BY <1>1 DEF QueueInv, Members
  <1>3. /\ queue' \in Seq(Jobs)
        /\ Members(queue') = Members(queue) \ {j}
        /\ Distinct(queue')
    BY <1>1, CutMembers DEF QueueInv, TypeOK
  <1>4. TypeOK'
    <2>1. reports' \in [Jobs -> Nat]
      BY DEF TypeOK
    <2>2. quietFinished' \subseteq Jobs /\ appear' \in BOOLEAN /\ linger' \in BOOLEAN
      BY DEF TypeOK
    <2> QED BY <1>3, <2>1, <2>2 DEF TypeOK
  <1>5. QueueInv'
    BY <1>2, <1>3 DEF QueueInv
  <1>6. SlotInv' /\ FreshInv'
    BY <1>2 DEF SlotInv, FreshInv, TypeOK
  <1>7. EventInv'
    BY DEF EventInv
  <1>8. BarInv'
    BY <1>2 DEF BarInv
  <1>9. ReportedOnce'
    <2>1. reports[j] = 0
      BY <1>2 DEF ReportedOnce, TypeOK
    <2>2. reports' = [m \in Jobs |-> IF m = j THEN 1 ELSE reports[m]]
      BY <2>1 DEF TypeOK
    <2>3. \A m \in Jobs \ {j} :
              /\ reports'[m] = reports[m]
              /\ m \in finished' <=> m \in finished
              /\ m \in Members(queue') <=> m \in Members(queue)
      BY <1>3, <2>2
    <2>4. reports'[j] = 1 /\ j \in finished'
      BY <2>2
    <2> QED BY <1>2, <2>3, <2>4 DEF ReportedOnce
  <1> QED BY <1>4, <1>5, <1>6, <1>7, <1>8, <1>9

(* Cancelling everything empties the queue and reports all that was in it. *)
LEMMA CancelAllInv ==
    ASSUME IInv, CancelAll
    PROVE  IInv'
  <1> USE DEF CancelAll, IInv, vars, engineVars, workerVars, barVars
  <1>1. Members(queue') = {} /\ queue' \in Seq(Jobs) /\ Distinct(queue')
    BY DEF Members, Distinct
  <1>2. Members(queue) \subseteq Jobs
    BY MembersAreJobs DEF TypeOK
  <1>3. /\ reports' = [j \in Jobs |-> IF j \in Members(queue) THEN reports[j] + 1
                                    ELSE reports[j]]
        /\ quietFinished' = quietFinished \cup (Members(queue) \cap quietJobs)
        /\ UNCHANGED <<items, quietJobs, barUp>>
        /\ appear' \in BOOLEAN
        /\ linger' \in BOOLEAN
    <2>1. CASE queue = <<>>
      <3>1. Members(queue) = {}
        BY <2>1 DEF Members
      <3>2. reports' = [j \in Jobs |-> reports[j]]
        BY <2>1 DEF TypeOK
      <3> QED BY <2>1, <3>1, <3>2 DEF TypeOK
    <2>2. CASE queue # <<>>
      BY <2>2 DEF EmitFinished, TypeOK
    <2> QED BY <2>1, <2>2
  <1>4. TypeOK'
    <2>1. reports' \in [Jobs -> Nat]
      BY <1>3 DEF TypeOK
    <2> QED BY <1>1, <1>2, <1>3, <2>1 DEF TypeOK
  <1>5. QueueInv'
    BY <1>1 DEF QueueInv
  <1>6. SlotInv' /\ FreshInv'
    BY <1>2, <1>3 DEF SlotInv, FreshInv, QueueInv, TypeOK
  <1>7. EventInv'
    BY DEF EventInv
  <1>8. BarInv'
    BY <1>3 DEF BarInv
  <1>9. ReportedOnce'
    BY <1>1, <1>3 DEF ReportedOnce, QueueInv, TypeOK
  <1> QED BY <1>4, <1>5, <1>6, <1>7, <1>8, <1>9

(* What the linger timer forgets has been reported. *)
LEMMA LingerTimeoutInv ==
    ASSUME IInv, LingerTimeout
    PROVE  IInv'
  <1> USE DEF LingerTimeout, IInv, vars, engineVars, workerVars, barVars
  <1>1. CASE Visible(queue, running) # {}
    <2>1. TypeOK'
      BY <1>1 DEF TypeOK
    <2>2. QueueInv' /\ SlotInv' /\ FreshInv' /\ EventInv' /\ BarInv' /\ ReportedOnce'
      BY <1>1 DEF QueueInv, SlotInv, FreshInv, EventInv, BarInv, ReportedOnce,
                  Members, Distinct, Jobs
    <2> QED BY <2>1, <2>2
  <1>2. CASE Visible(queue, running) = {}
    <2>1. /\ entries' = entries \ (items \cup quietFinished)
          /\ quietJobs' = quietJobs \ quietFinished
          /\ quietFinished' = {} /\ items' = {}
      BY <1>2
    <2>2. Members(queue) \cup running \subseteq entries \cap quiet
      BY <1>2 DEF Visible
    <2>3. (items \cup quietFinished) \cap (Members(queue) \cup running) = {}
      BY <2>2 DEF BarInv, QueueInv, SlotInv
    <2>4. items \cup quietFinished \subseteq finished
      <3>1. items \cup quietFinished \subseteq entries
        BY DEF BarInv
      <3> QED BY <2>3, <3>1 DEF ReportedOnce, TypeOK
    <2>5. TypeOK'
      BY <1>2 DEF TypeOK
    <2>6. QueueInv'
      BY <2>1, <2>3 DEF QueueInv, Members, Distinct
    <2>7. SlotInv' /\ FreshInv'
      BY <2>1, <2>3 DEF SlotInv, FreshInv
    <2>8. EventInv' /\ BarInv'
      BY <2>1 DEF EventInv, BarInv
    <2>9. ReportedOnce'
      BY <2>1, <2>4 DEF ReportedOnce, BarInv, Members, TypeOK
    <2> QED BY <2>5, <2>6, <2>7, <2>8, <2>9
  <1> QED BY <1>1, <1>2

(* A new job is queued and, with it or instead of it, a queued one may start. *)
LEMMA SubmitInv ==
    ASSUME IInv, NEW isQuiet \in BOOLEAN, Submit(isQuiet)
    PROVE  IInv'
  <1> USE DEF Submit, IInv, vars, engineVars, workerVars, barVars
  <1> DEFINE id == nextId
             q == Append(queue, nextId)
  <1>1. /\ id \in Jobs /\ id \in Nat
        /\ id \notin entries \cup finished \cup quiet
        /\ state[id] = "Pending" /\ thread[id] = "null" /\ reports[id] = 0
    BY DEF FreshInv, Jobs
  <1>2. id \notin Members(queue) /\ id \notin running
    BY <1>1 DEF QueueInv, SlotInv
  <1>3. q \in Seq(Jobs) /\ Members(q) = Members(queue) \cup {id} /\ Distinct(q)
    BY <1>1, <1>2, AppendMembers DEF QueueInv, TypeOK
  <1>4. entries' = entries \cup {id}
    OBVIOUS
  <1>5. Members(q) \subseteq entries \cup {id} /\ Members(q) \cap running = {}
    BY <1>2, <1>3, <1>4 DEF QueueInv
  <1>6. StartNext(q, running, entries \cup {id}, thread)
    BY <1>4 DEF StartNext
  <1>7. running \in SUBSET Jobs /\ thread \in [Jobs -> Thread]
    BY DEF TypeOK
  <1> HIDE DEF q, Submit
  <1>8. PICK started \in SUBSET Members(q) :
            /\ queue' \in Seq(Jobs)
            /\ Distinct(queue')
            /\ Members(queue') = Members(q) \ started
            /\ running' = running \cup started
            /\ running' \in SUBSET Jobs
            /\ Cardinality(running') <= Cap
            /\ thread' \in [Jobs -> Thread]
            /\ \A j \in Jobs : thread'[j] = IF j \in started THEN "up" ELSE thread[j]
    <2>1. PICK n \in 0..Len(q) :
            LET new == {q[i] : i \in 1..n} \cap (entries \cup {id})
            IN  /\ Cardinality(running \cup new) <= Cap
                /\ queue' = SubSeq(q, n + 1, Len(q))
                /\ running' = running \cup new
                /\ thread' = [j \in Jobs |-> IF j \in new THEN "up" ELSE thread[j]]
      BY <1>6 DEF StartNext
    <2> DEFINE new == {q[i] : i \in 1..n}
    <2>2. /\ new \in SUBSET Members(q)
          /\ SubSeq(q, n + 1, Len(q)) \in Seq(Jobs)
          /\ Distinct(SubSeq(q, n + 1, Len(q)))
          /\ Members(SubSeq(q, n + 1, Len(q))) = Members(q) \ new
      BY <1>3, TakenFromFront
    <2>3. new \cap (entries \cup {id}) = new
      BY <1>5, <2>2
    <2>4. new \subseteq Jobs
      BY <1>3, <2>2, MembersAreJobs
    <2> HIDE DEF new
    <2>5. /\ queue' = SubSeq(q, n + 1, Len(q))
          /\ running' = running \cup new
          /\ Cardinality(running') <= Cap
          /\ thread' = [j \in Jobs |-> IF j \in new THEN "up" ELSE thread[j]]
      BY <2>1, <2>3 DEF new
    <2>6. thread' \in [Jobs -> Thread]
      BY <1>7, <2>5 DEF Thread
    <2> QED BY <1>7, <2>2, <2>4, <2>5, <2>6
  <1>9. /\ nextId' = id + 1
        /\ quiet' = IF isQuiet THEN quiet \cup {id} ELSE quiet
        /\ quietJobs' = IF isQuiet THEN quietJobs \cup {id} ELSE quietJobs
        /\ items' = IF isQuiet THEN items ELSE items \cup {id}
        /\ linger' = IF isQuiet THEN linger ELSE FALSE
        /\ appear' = IF isQuiet THEN appear ELSE TRUE
        /\ UNCHANGED <<finished, state, cancelled, answered, asks, events, open,
                       quietFinished, barUp, reports>>
    BY DEF Submit
  <1>10. Members(q) \subseteq Jobs
    BY <1>3, MembersAreJobs
  <1>11. TypeOK'
    <2>1. nextId' \in 1..(MaxJobs + 1)
      BY <1>1, <1>9, ConstantsAssumption DEF Jobs
    <2>2. linger' \in BOOLEAN /\ appear' \in BOOLEAN
      BY <1>9 DEF TypeOK
    <2>3. entries' \subseteq Jobs /\ quiet' \subseteq Jobs /\ quietJobs' \subseteq Jobs
          /\ items' \subseteq Jobs
      BY <1>1, <1>4, <1>9 DEF TypeOK
    <2> QED BY <2>1, <2>2, <2>3, <1>8, <1>9 DEF TypeOK
  <1>12. QueueInv'
    BY <1>1, <1>2, <1>3, <1>4, <1>8, <1>9, <1>10 DEF QueueInv
  <1>13. SlotInv'
    <2>1. running' \subseteq entries' \ finished'
      BY <1>1, <1>3, <1>4, <1>8, <1>9 DEF SlotInv, QueueInv
    <2>2. \A j \in Jobs : thread'[j] = "up" <=> j \in running'
      BY <1>8 DEF SlotInv
    <2>3. \A j \in Jobs : state'[j] \in InRun => j \in running'
      BY <1>8, <1>9 DEF SlotInv
    <2> QED BY <2>1, <2>2, <2>3, <1>8 DEF SlotInv
  <1>14. FreshInv'
    <2> SUFFICES ASSUME NEW j \in Jobs, j >= nextId'
                 PROVE  /\ j \notin entries' \cup finished' \cup quiet'
                        /\ state'[j] = "Pending" /\ thread'[j] = "null" /\ reports'[j] = 0
      BY DEF FreshInv
    <2>1. j >= nextId /\ j # id
      BY <1>1, <1>9 DEF Jobs
    <2>2. j \notin entries \cup finished \cup quiet /\ state[j] = "Pending" /\ thread[j] = "null"
          /\ reports[j] = 0
      BY <2>1 DEF FreshInv
    <2>3. j \notin started
      BY <2>1, <2>2, <1>3, <1>8 DEF QueueInv
    <2> QED BY <2>1, <2>2, <2>3, <1>4, <1>8, <1>9
  <1>15. EventInv'
    BY <1>8, <1>9 DEF EventInv
  <1>16. BarInv'
    <2>1. CASE isQuiet
      BY <2>1, <1>1, <1>4, <1>9 DEF BarInv
    <2>2. CASE ~isQuiet
      BY <2>2, <1>1, <1>4, <1>9 DEF BarInv
    <2> QED BY <2>1, <2>2
  <1>17. ReportedOnce'
    <2> SUFFICES ASSUME NEW j \in Jobs
                 PROVE  /\ reports'[j] <= 1
                        /\ j < nextId' /\ j \notin entries' => reports'[j] = 1
                        /\ j \in entries' => (j \in finished' <=> reports'[j] = 1)
                        /\ j \in entries' \ finished' => j \in Members(queue') \cup running'
      BY DEF ReportedOnce
    <2>1. CASE j = id
      BY <2>1, <1>1, <1>3, <1>4, <1>8, <1>9
    <2>2. CASE j # id
      <3>1. j < nextId' => j < nextId
        BY <2>2, <1>1, <1>9 DEF Jobs
      <3> QED BY <3>1, <2>2, <1>3, <1>4, <1>8, <1>9 DEF ReportedOnce
    <2> QED BY <2>1, <2>2
  <1> QED BY <1>11, <1>12, <1>13, <1>14, <1>15, <1>16, <1>17

(* The end of a job frees its slot, which goes to the jobs that waited. *)
LEMMA DeliverFinishedInv ==
    ASSUME IInv, DeliverFinished
    PROVE  IInv'
  <1> USE DEF IInv, vars, engineVars, workerVars, barVars
  <1> DEFINE j == Head(events).job
             run == running \ {j}
             thr == [i \in Jobs |-> IF i \in {j} \cap entries /\ thread[i] # "null"
                                    THEN "quitting" ELSE thread[i]]
  <1>1. /\ events # <<>>
        /\ Len(events) \in Nat /\ Len(events) >= 1
        /\ Head(events) = events[1]
        /\ events' \in Seq(Event)
        /\ Len(events') = Len(events) - 1
        /\ \A i \in 1..Len(events') : events'[i] = events[i + 1]
    BY HeadTailProperties, EmptySeq DEF TypeOK, DeliverFinished
  <1>2. j \in running /\ state[j] = "Finished" /\ j \in Jobs
    BY <1>1 DEF EventInv, TypeOK, DeliverFinished
  <1>3. j \in entries \ finished /\ thread[j] = "up" /\ j \notin Members(queue)
    BY <1>2 DEF SlotInv, QueueInv
  <1>4. thr \in [Jobs -> Thread] /\ run \in SUBSET Jobs
    BY DEF TypeOK, Thread
  <1>5. \A i \in Jobs : thr[i] = IF i = j THEN "quitting" ELSE thread[i]
    BY <1>3
  <1>6. /\ StartNext(queue, run, entries, thr)
        /\ finished' = finished \cup {j}
        /\ reports' = [i \in Jobs |-> IF i \in {j} THEN reports[i] + 1 ELSE reports[i]]
        /\ quietFinished' = quietFinished \cup ({j} \cap quietJobs)
        /\ UNCHANGED <<nextId, entries, quiet, state, cancelled, answered, asks,
                       open, items, quietJobs, barUp>>
    BY <1>3 DEF DeliverFinished, EmitFinished
  <1>7. appear' \in BOOLEAN /\ linger' \in BOOLEAN
    BY DEF DeliverFinished, EmitFinished, TypeOK
  <1> HIDE DEF j, run, thr
  <1>8. PICK started \in SUBSET Members(queue) :
            /\ queue' \in Seq(Jobs)
            /\ Distinct(queue')
            /\ Members(queue') = Members(queue) \ started
            /\ running' = run \cup started
            /\ running' \in SUBSET Jobs
            /\ Cardinality(running') <= Cap
            /\ thread' \in [Jobs -> Thread]
            /\ \A i \in Jobs : thread'[i] = IF i \in started THEN "up" ELSE thr[i]
    <2>1. PICK n \in 0..Len(queue) :
            LET new == {queue[i] : i \in 1..n} \cap entries
            IN  /\ Cardinality(run \cup new) <= Cap
                /\ queue' = SubSeq(queue, n + 1, Len(queue))
                /\ running' = run \cup new
                /\ thread' = [i \in Jobs |-> IF i \in new THEN "up" ELSE thr[i]]
      BY <1>6 DEF StartNext
    <2> DEFINE new == {queue[i] : i \in 1..n}
    <2>2. /\ new \in SUBSET Members(queue)
          /\ SubSeq(queue, n + 1, Len(queue)) \in Seq(Jobs)
          /\ Distinct(SubSeq(queue, n + 1, Len(queue)))
          /\ Members(SubSeq(queue, n + 1, Len(queue))) = Members(queue) \ new
      BY TakenFromFront DEF QueueInv, TypeOK
    <2>3. new \cap entries = new
      BY <2>2 DEF QueueInv
    <2>4. new \subseteq Jobs
      BY <2>2, MembersAreJobs DEF TypeOK
    <2> HIDE DEF new
    <2>5. /\ queue' = SubSeq(queue, n + 1, Len(queue))
          /\ running' = run \cup new
          /\ Cardinality(running') <= Cap
          /\ thread' = [i \in Jobs |-> IF i \in new THEN "up" ELSE thr[i]]
      BY <2>1, <2>3 DEF new
    <2>6. thread' \in [Jobs -> Thread]
      BY <1>4, <2>5 DEF Thread
    <2> QED BY <1>4, <2>2, <2>4, <2>5, <2>6
  <1>9. TypeOK'
    <2>1. reports' \in [Jobs -> Nat]
      BY <1>6 DEF TypeOK
    <2> QED BY <1>1, <1>2, <1>6, <1>7, <1>8, <2>1 DEF TypeOK
  <1>10. QueueInv'
    BY <1>3, <1>4, <1>5, <1>6, <1>8, MembersAreJobs DEF QueueInv, TypeOK, run
  <1>11. SlotInv'
    <2>1. running' \subseteq entries' \ finished'
      BY <1>3, <1>6, <1>8 DEF SlotInv, QueueInv, run
    <2>2. \A i \in Jobs : thread'[i] = "up" <=> i \in running'
      BY <1>5, <1>8 DEF SlotInv, run
    <2>3. \A i \in Jobs : state'[i] \in InRun => i \in running'
      BY <1>2, <1>6, <1>8 DEF SlotInv, InRun, run
    <2> QED BY <2>1, <2>2, <2>3, <1>8 DEF SlotInv
  <1>12. FreshInv'
    BY <1>3, <1>5, <1>6, <1>8 DEF FreshInv, QueueInv
  <1>13. EventInv'
    <2>1. \A i \in 2..Len(events) : events[i].kind = "finished" => events[i].job # j
      BY <1>1 DEF EventInv, DeliverFinished, j
    <2>2. \A i \in 1..Len(events') : i + 1 \in 2..Len(events)
      BY <1>1
    <2> SUFFICES ASSUME NEW i \in 1..Len(events'), events'[i].kind = "finished"
                 PROVE  /\ state'[events'[i].job] = "Finished"
                        /\ events'[i].job \in running'
                        /\ \A k \in 1..Len(events') :
                             events'[k].kind = "finished" /\ events'[k].job = events'[i].job
                                => k = i
      BY DEF EventInv
    <2>3. /\ events'[i] = events[i + 1]
          /\ i + 1 \in 1..Len(events)
          /\ events[i + 1].job # j
      BY <1>1, <2>1, <2>2
    <2>4. state[events[i + 1].job] = "Finished" /\ events[i + 1].job \in running
      BY <2>3 DEF EventInv
    <2>5. ASSUME NEW k \in 1..Len(events'), events'[k].kind = "finished",
                 events'[k].job = events'[i].job
          PROVE  k = i
      <3>1. events'[k] = events[k + 1] /\ k + 1 \in 1..Len(events)
        BY <1>1
      <3>2. k + 1 = i + 1
        BY <3>1, <2>3, <2>5 DEF EventInv
      <3> QED BY <3>2, <1>1
    <2> QED BY <2>3, <2>4, <2>5, <1>6, <1>8 DEF run
  <1>14. BarInv'
    BY <1>3, <1>6 DEF BarInv
  <1>15. ReportedOnce'
    <2>1. reports[j] = 0
      BY <1>2, <1>3 DEF ReportedOnce, TypeOK
    <2>2. reports'[j] = 1 /\ (\A i \in Jobs \ {j} : reports'[i] = reports[i])
      BY <1>2, <1>6, <2>1
    <2>3. \A i \in Jobs \ {j} :
            i \in Members(queue) \cup running => i \in Members(queue') \cup running'
      BY <1>8 DEF run
    <2> QED BY <1>3, <1>6, <2>2, <2>3 DEF ReportedOnce
  <1> QED BY <1>9, <1>10, <1>11, <1>12, <1>13, <1>14, <1>15

(* Every step keeps the inductive invariant. *)
LEMMA NextInv == IInv /\ [Next]_vars => IInv'
  <1> SUFFICES ASSUME IInv, [Next]_vars PROVE IInv'
    OBVIOUS
  <1>1. CASE \E b \in BOOLEAN : Submit(b)
    BY <1>1, SubmitInv
  <1>2. ASSUME NEW j \in Jobs, CancelQueued(j) \/ CancelStarted(j) \/ ResolveConflict(j)
        PROVE  IInv'
    BY <1>2, CancelQueuedInv, CancelStartedInv, ResolveConflictInv
  <1>3. CASE CancelAll
    BY <1>3, CancelAllInv
  <1>4. CASE EventLoop
    BY <1>4, DeliverConflictInv, DeliverFinishedInv DEF EventLoop
  <1>5. CASE AppearTimeout \/ LingerTimeout
    BY <1>5, AppearTimeoutInv, LingerTimeoutInv
  <1>6. ASSUME NEW j \in Jobs, Worker(j)
        PROVE  IInv'
    <2>1. CASE EnumerateStops(j) \/ ExecuteEnds(j)
      <3>1. state[j] \in InRun /\ Finish(j)
        BY <2>1 DEF EnumerateStops, ExecuteEnds, InRun
      <3> QED BY <3>1, FinishInv
    <2>2. CASE TakeAnswer(j, TRUE) \/ TakeAnswer(j, FALSE)
      BY <2>2, TakeAnswerInv
    <2>3. CASE StartWorker(j) \/ EnumerateProceeds(j) \/ NoticeCancel(j)
      BY <2>3, StartWorkerInv, EnumerateProceedsInv, NoticeCancelInv
    <2> QED BY <1>6, <2>1, <2>2, <2>3 DEF Worker
  <1>7. ASSUME NEW j \in Jobs, AskConflict(j) \/ ThreadGone(j)
        PROVE  IInv'
    BY <1>7, AskConflictInv, ThreadGoneInv
  <1>8. CASE UNCHANGED vars
    <2>1. TypeOK'
      BY <1>8 DEF IInv, TypeOK, vars, engineVars, workerVars, barVars
    <2>2. QueueInv' /\ SlotInv' /\ FreshInv'
      BY <1>8 DEF IInv, QueueInv, SlotInv, FreshInv, Members, Distinct,
                  vars, engineVars, workerVars, barVars
    <2>3. EventInv' /\ BarInv' /\ ReportedOnce'
      BY <1>8 DEF IInv, EventInv, BarInv, ReportedOnce, Members,
                  vars, engineVars, workerVars, barVars
    <2> QED BY <2>1, <2>2, <2>3 DEF IInv
  <1> QED BY <1>1, <1>2, <1>3, <1>4, <1>5, <1>6, <1>7, <1>8 DEF Next

(* Every reachable state satisfies the inductive invariant. *)
THEOREM Invariance == Spec => []IInv
  BY InitInv, NextInv, PTL DEF Spec

-----------------------------------------------------------------------------
(* What follows for every reachable state *)

(* Every variable keeps to its type, the bounds included. *)
THEOREM TypeCorrect == Spec => []TypeOK
  <1>1. IInv => TypeOK
    BY DEF IInv
  <1> QED BY <1>1, Invariance, PTL

(* Never more than Cap workers inside Job::run, however many jobs there    *)
(* are: a worker in run() holds a slot, and the slots are counted.         *)
THEOREM WorkersAreBounded == Spec => []WorkersBounded
  <1>1. IInv => WorkersBounded
    <2> SUFFICES ASSUME IInv PROVE WorkersBounded
      OBVIOUS
    <2> DEFINE busy == {j \in Jobs : state[j] \in InRun}
    <2>1. busy \subseteq running /\ running \in SUBSET Jobs
      BY DEF IInv, SlotInv, TypeOK
    <2> HIDE DEF busy
    <2>2. /\ Cardinality(busy) \in Nat
          /\ Cardinality(running) \in Nat
          /\ Cardinality(busy) <= Cardinality(running)
      BY <2>1, FewerJobs
    <2>3. Cardinality(busy) <= Cap
      BY <2>2, ConstantsAssumption DEF IInv, SlotInv
    <2> QED BY <2>3 DEF WorkersBounded, busy
  <1> QED BY <1>1, Invariance, PTL

(* No job is destroyed under its worker: forget() only ever meets jobs     *)
(* that have left run().                                                   *)
THEOREM WorkersHaveJobs == Spec => []NoWorkerWithoutJob
  <1>1. IInv => NoWorkerWithoutJob
    BY DEF IInv, SlotInv, NoWorkerWithoutJob
  <1> QED BY <1>1, Invariance, PTL

(* jobFinished is emitted exactly once for every job that leaves the       *)
(* engine, and every unreported job is still queued or running.            *)
THEOREM JobsReportedOnce == Spec => []ReportedOnce
  <1>1. IInv => ReportedOnce
    BY DEF IInv
  <1> QED BY <1>1, Invariance, PTL

(* After its report a job's worker takes no further step. *)
THEOREM ReportsAreFinal == Spec => ReportIsFinal
  <1>1. IInv /\ [Next]_vars =>
            [\A j \in Jobs : reports[j] > 0 => state'[j] = state[j]]_vars
    <2> SUFFICES ASSUME IInv, Next, NEW j \in Jobs, reports[j] > 0
                 PROVE  state'[j] = state[j]
      OBVIOUS
    <2>1. j \notin running /\ j \notin Members(queue)
      <3>1. reports[j] = 1
        BY DEF IInv, ReportedOnce, TypeOK
      <3> QED BY <3>1 DEF IInv, ReportedOnce, SlotInv, QueueInv
    <2>2. state[j] \notin InRun /\ thread[j] # "up"
      BY <2>1 DEF IInv, SlotInv
    <2>3. ASSUME NEW i \in Jobs, Worker(i) \/ AskConflict(i)
          PROVE  state'[j] = state[j]
      <3>1. i # j
        BY <2>2, <2>3 DEF Worker, AskConflict, StartWorker, EnumerateStops,
              EnumerateProceeds, TakeAnswer, NoticeCancel, ExecuteEnds, InRun
      <3>2. \E x \in State : state' = [state EXCEPT ![i] = x]
        BY <2>3 DEF Worker, AskConflict, StartWorker, EnumerateStops, Finish,
              EnumerateProceeds, TakeAnswer, NoticeCancel, ExecuteEnds, State
      <3> QED BY <3>1, <3>2 DEF IInv, TypeOK
    <2>4. CASE \E b \in BOOLEAN : Submit(b)
      BY <2>4 DEF Submit, workerVars
    <2>5. ASSUME NEW i \in Jobs,
                 CancelQueued(i) \/ CancelStarted(i) \/ ResolveConflict(i) \/ ThreadGone(i)
          PROVE  state'[j] = state[j]
      BY <2>5 DEF CancelQueued, CancelStarted, ResolveConflict, ThreadGone, workerVars
    <2>6. CASE CancelAll \/ EventLoop \/ AppearTimeout \/ LingerTimeout
      BY <2>6 DEF CancelAll, EventLoop, DeliverConflict, DeliverFinished,
            AppearTimeout, LingerTimeout, workerVars
    <2> QED BY <2>3, <2>4, <2>5, <2>6 DEF Next
  <1> QED BY <1>1, Invariance, PTL DEF Spec, ReportIsFinal

-----------------------------------------------------------------------------
(***************************************************************************)
(* Proofs that the process bar of JobEngine neither misses work nor stays  *)
(* for good.  They add to the inductive invariant of the engine the        *)
(* two properties themselves; what remains to show is how each action      *)
(* changes the set of visible jobs that are queued or running.             *)
(***************************************************************************)

Busy == Visible(queue, running)

BarLive == BarShowsWork /\ IdleBarIsReaped

(* Steps that touch neither the jobs nor the bar. *)
LEMMA Undisturbed ==
    ASSUME BarLive,
           UNCHANGED <<entries, quiet, queue, running, items, quietFinished,
                       appear, linger, barUp>>
    PROVE  BarLive'
  BY DEF BarLive, BarShowsWork, IdleBarIsReaped, Visible, Members

(* The check that follows every end of a job: less is visible than before, *)
(* and if that is nothing the linger timer takes over.                     *)
LEMMA IdleCheck ==
    ASSUME BarLive,
           Busy' \subseteq Busy,
           IF Busy' = {} THEN appear' = FALSE /\ linger' = TRUE
                         ELSE UNCHANGED <<appear, linger>>,
           UNCHANGED barUp
    PROVE  BarLive'
  <1>1. (Busy # {} => barUp \/ appear)
    BY DEF BarLive, BarShowsWork, Busy
  <1>2. Busy' # {} => barUp' \/ appear'
    BY <1>1
  <1>3. Busy' = {} => linger'
    OBVIOUS
  <1>4. BarShowsWork' /\ IdleBarIsReaped'
    BY <1>2, <1>3 DEF BarShowsWork, IdleBarIsReaped, Busy
  <1> QED BY <1>4 DEF BarLive

(* Starting jobs moves them from the queue to the slots, no more: nobody   *)
(* is lost, since everyone in the queue has an entry.                      *)
LEMMA StartMoves ==
    ASSUME NEW q \in Seq(Jobs), NEW run, NEW ents, NEW thr,
           Distinct(q), Members(q) \subseteq ents,
           StartNext(q, run, ents, thr)
    PROVE  Members(queue') \cup running' = Members(q) \cup run
  <1>1. PICK n \in 0..Len(q) :
            /\ queue' = SubSeq(q, n + 1, Len(q))
            /\ running' = run \cup ({q[i] : i \in 1..n} \cap ents)
    BY DEF StartNext
  <1>2. /\ {q[i] : i \in 1..n} \subseteq Members(q)
        /\ Members(SubSeq(q, n + 1, Len(q))) = Members(q) \ {q[i] : i \in 1..n}
    BY TakenFromFront
  <1> QED BY <1>1, <1>2

(* A new job either is quiet, and then nothing visible is added, or arms   *)
(* the appear timer.                                                       *)
LEMMA SubmitBar ==
    ASSUME IInv, BarLive, NEW isQuiet \in BOOLEAN, Submit(isQuiet)
    PROVE  BarLive'
  <1> DEFINE q == Append(queue, nextId)
  <1>1. /\ nextId \in Jobs /\ nextId \notin entries \cup quiet
        /\ entries' = entries \cup {nextId}
        /\ StartNext(q, running, entries \cup {nextId}, thread)
    BY DEF Submit, IInv, FreshInv, Jobs
  <1>2. q \in Seq(Jobs) /\ Members(q) = Members(queue) \cup {nextId} /\ Distinct(q)
    BY <1>1, AppendMembers DEF IInv, QueueInv, TypeOK
  <1>3. Members(q) \subseteq entries \cup {nextId}
    BY <1>2 DEF IInv, QueueInv
  <1> HIDE DEF q
  <1>4. Members(queue') \cup running' = Members(queue) \cup running \cup {nextId}
    BY <1>1, <1>2, <1>3, StartMoves
  <1>5. CASE isQuiet
    <2>1. /\ quiet' = quiet \cup {nextId}
          /\ UNCHANGED <<items, quietFinished, appear, linger, barUp>>
      BY <1>5 DEF Submit
    <2>2. nextId \notin Members(queue) \cup running
      BY <1>1 DEF IInv, QueueInv, SlotInv
    <2>3. Busy' = Busy
      BY <1>1, <1>4, <2>1, <2>2 DEF Busy, Visible
    <2> QED BY <2>1, <2>3 DEF BarLive, BarShowsWork, IdleBarIsReaped, Busy
  <1>6. CASE ~isQuiet
    <2>1. quiet' = quiet /\ appear' = TRUE
      BY <1>6 DEF Submit
    <2>2. nextId \in Busy'
      BY <1>1, <1>4, <2>1 DEF Busy, Visible
    <2> QED BY <2>1, <2>2 DEF BarLive, BarShowsWork, IdleBarIsReaped, Busy
  <1> QED BY <1>5, <1>6

(* Cancelling a queued job keeps the bar live, *)
LEMMA CancelQueuedBar ==
    ASSUME IInv, BarLive, NEW j \in Jobs, CancelQueued(j)
    PROVE  BarLive'
  <1>1. PICK i \in 1..Len(queue) : queue' = CutAt(queue, i)
    BY DEF CancelQueued
  <1>2. Members(queue') \subseteq Members(queue)
    BY <1>1, CutMembers DEF IInv, QueueInv, TypeOK
  <1>3. UNCHANGED <<entries, quiet, running, barUp>>
    BY DEF CancelQueued, EmitFinished
  <1>4. Busy' = Visible(queue', running)
    BY <1>3 DEF Busy, Visible
  <1>5. IF Busy' = {} THEN appear' = FALSE /\ linger' = TRUE
                      ELSE UNCHANGED <<appear, linger>>
    BY <1>4 DEF CancelQueued, EmitFinished
  <1>6. Busy' \subseteq Busy
    BY <1>2, <1>3 DEF Busy, Visible
  <1> QED BY <1>3, <1>5, <1>6, IdleCheck

(* so does cancelling all of them, *)
LEMMA CancelAllBar ==
    ASSUME IInv, BarLive, CancelAll
    PROVE  BarLive'
  <1>1. CASE queue = <<>>
    BY <1>1, Undisturbed DEF CancelAll, barVars
  <1>2. CASE queue # <<>>
    <2>1. /\ queue' = <<>>
          /\ EmitFinished(Members(queue), <<>>, running)
          /\ UNCHANGED <<entries, quiet, running, barUp>>
      BY <1>2 DEF CancelAll, EmitFinished
    <2>2. Busy' = Visible(<<>>, running)
      BY <2>1 DEF Busy, Visible
    <2>3. IF Busy' = {} THEN appear' = FALSE /\ linger' = TRUE
                        ELSE UNCHANGED <<appear, linger>>
      BY <2>1, <2>2 DEF EmitFinished
    <2>4. Members(<<>>) = {}
      BY DEF Members
    <2>5. Busy' \subseteq Busy
      BY <2>2, <2>4 DEF Busy, Visible
    <2> QED BY <2>1, <2>3, <2>5, IdleCheck
  <1> QED BY <1>1, <1>2

(* The check is made before the freed slot is handed on, but what is       *)
(* visible is the same before and after.                                   *)
LEMMA DeliverFinishedBar ==
    ASSUME IInv, BarLive, DeliverFinished
    PROVE  BarLive'
  <1> DEFINE j == Head(events).job
             thr == [i \in Jobs |-> IF i \in {j} \cap entries /\ thread[i] # "null"
                                    THEN "quitting" ELSE thread[i]]
  <1>1. /\ EmitFinished({j}, queue, running \ {j})
        /\ StartNext(queue, running \ {j}, entries, thr)
        /\ UNCHANGED <<entries, quiet>>
    BY DEF DeliverFinished
  <1> HIDE DEF j, thr
  <1>2. UNCHANGED barUp
    BY <1>1 DEF EmitFinished
  <1>3. Members(queue') \cup running' = Members(queue) \cup (running \ {j})
    BY <1>1, StartMoves DEF IInv, QueueInv, TypeOK
  <1>4. Busy' = Visible(queue, running \ {j})
    BY <1>1, <1>3 DEF Busy, Visible
  <1>5. IF Busy' = {} THEN appear' = FALSE /\ linger' = TRUE
                      ELSE UNCHANGED <<appear, linger>>
    BY <1>1, <1>4 DEF EmitFinished
  <1>6. Busy' \subseteq Busy
    BY <1>4 DEF Busy, Visible
  <1> QED BY <1>2, <1>5, <1>6, IdleCheck

(* and the timeout that shows the bar. *)
LEMMA AppearTimeoutBar ==
    ASSUME IInv, BarLive, AppearTimeout
    PROVE  BarLive'
  <1>1. /\ barUp' = (barUp \/ Busy # {})
        /\ UNCHANGED <<entries, quiet, queue, running, items, quietFinished, linger>>
    BY DEF AppearTimeout, engineVars, Busy
  <1>2. Busy' = Busy
    BY <1>1 DEF Busy, Visible, Members
  <1> QED BY <1>1, <1>2 DEF BarLive, BarShowsWork, IdleBarIsReaped, Busy

(* What the linger timer forgets is neither queued nor running, so no      *)
(* quiet job becomes visible by losing its entry.                          *)
LEMMA LingerTimeoutBar ==
    ASSUME IInv, BarLive, LingerTimeout
    PROVE  BarLive'
  <1>1. UNCHANGED <<quiet, queue, running, appear>>
    BY DEF LingerTimeout
  <1>2. CASE Busy = {}
    <2>1. /\ entries' = entries \ (items \cup quietFinished)
          /\ quietFinished' = {} /\ items' = {} /\ barUp' = FALSE
      BY <1>2 DEF LingerTimeout, Busy
    <2>2. Members(queue) \cup running \subseteq (entries \cap quiet) \ finished
      BY <1>2 DEF Busy, Visible, IInv, QueueInv, SlotInv
    <2>3. Members(queue) \cup running \subseteq entries' \cap quiet
      BY <2>1, <2>2 DEF IInv, BarInv
    <2>4. Busy' = {}
      BY <1>1, <2>3 DEF Busy, Visible, Members
    <2> QED BY <2>1, <2>4 DEF BarLive, BarShowsWork, IdleBarIsReaped, Busy
  <1>3. CASE Busy # {}
    <2>1. UNCHANGED <<entries, barUp>>
      BY <1>3 DEF LingerTimeout, Busy
    <2>2. Busy' = Busy
      BY <1>1, <2>1 DEF Busy, Visible, Members
    <2> QED BY <1>1, <1>3, <2>1, <2>2 DEF BarLive, BarShowsWork, IdleBarIsReaped, Busy
  <1> QED BY <1>2, <1>3

(* So every step keeps it: what the bar shows is what runs or waits, or it *)
(* is about to go.                                                         *)
LEMMA NextBar == IInv /\ BarLive /\ [Next]_vars => BarLive'
  <1> SUFFICES ASSUME IInv, BarLive, [Next]_vars PROVE BarLive'
    OBVIOUS
  <1> DEFINE Kept == UNCHANGED <<entries, quiet, queue, running, items,
                                 quietFinished, appear, linger, barUp>>
  <1>1. CASE \E b \in BOOLEAN : Submit(b)
    BY <1>1, SubmitBar
  <1>2. ASSUME NEW j \in Jobs, CancelQueued(j)
        PROVE  BarLive'
    BY <1>2, CancelQueuedBar
  <1>3. ASSUME NEW j \in Jobs, CancelStarted(j) \/ ResolveConflict(j)
        PROVE  BarLive'
    BY <1>3, Undisturbed DEF CancelStarted, ResolveConflict, engineVars, barVars
  <1>4. CASE CancelAll \/ DeliverFinished \/ AppearTimeout \/ LingerTimeout
    BY <1>4, CancelAllBar, DeliverFinishedBar, AppearTimeoutBar, LingerTimeoutBar
  <1>5. CASE DeliverConflict
    BY <1>5, Undisturbed DEF DeliverConflict, engineVars, barVars
  <1>6. ASSUME NEW j \in Jobs, Worker(j)
        PROVE  BarLive'
    <2>1. Kept
      BY <1>6 DEF Worker, StartWorker, EnumerateStops, EnumerateProceeds, TakeAnswer,
            NoticeCancel, ExecuteEnds, Finish, engineVars, barVars
    <2> QED BY <2>1, Undisturbed
  <1>7. ASSUME NEW j \in Jobs, AskConflict(j) \/ ThreadGone(j)
        PROVE  BarLive'
    BY <1>7, Undisturbed DEF AskConflict, ThreadGone, engineVars, barVars
  <1>8. CASE UNCHANGED vars
    BY <1>8, Undisturbed DEF vars, engineVars, barVars
  <1> QED BY <1>1, <1>2, <1>3, <1>4, <1>5, <1>6, <1>7, <1>8 DEF Next, EventLoop

(* The bar is live in every state. *)
LEMMA BarInvariance == Spec => []BarLive
  <1>1. Init => BarLive
    <2> SUFFICES ASSUME Init PROVE BarLive
      OBVIOUS
    <2>1. Members(queue) = {}
      BY DEF Init, Members
    <2> QED BY <2>1 DEF Init, BarLive, BarShowsWork, IdleBarIsReaped, Visible
  <1> QED BY <1>1, NextBar, Invariance, PTL DEF Spec

-----------------------------------------------------------------------------
(* However submissions, ends, cancellations and the two timers interleave, *)
(* visible work is on the bar or the timer that shows it is armed.         *)
THEOREM BarMissesNothing == Spec => []BarShowsWork
  <1>1. BarLive => BarShowsWork
    BY DEF BarLive
  <1> QED BY <1>1, BarInvariance, PTL

(* When nothing visible is left, the timer that clears what the bar lists, *)
(* and forgets the jobs, is armed: no entry is kept for good.              *)
THEOREM IdleBarIsCleared == Spec => []IdleBarIsReaped
  <1>1. BarLive => IdleBarIsReaped
    BY DEF BarLive
  <1> QED BY <1>1, BarInvariance, PTL

-----------------------------------------------------------------------------
(***************************************************************************)
(* Proof that JobEngine implements JobLifecycle: jobs only move forwards,  *)
(* no slot is left free while a job waits, and slots are given in the      *)
(* order of submission.  To the same inductive invariant it adds that the  *)
(* queue is sorted and that it is only kept while all slots are taken.     *)
(***************************************************************************)

Sorted(q) == \A i, k \in 1..Len(q) : i < k => q[i] < q[k]

OrderInv ==
    /\ Sorted(queue)
    /\ Members(queue) # {} => Cardinality(running) = Cap

(* What the status of a job says about the engine. *)
StatusInv ==
    /\ Status \in [Jobs -> {"none", "waiting", "active", "done"}]
    /\ \A j \in Jobs :
        /\ Status[j] = "none" <=> j >= nextId
        /\ Status[j] = "waiting" <=> j \in Members(queue)
        /\ Status[j] = "active" <=> j \in running
        /\ Status[j] = "done" <=> j < nextId /\ j \notin Members(queue) \cup running

(* The status of the abstract specification is what the engine's queue and *)
(* workers say it is.                                                      *)
LEMMA StatusIs == IInv => StatusInv
  <1> SUFFICES ASSUME IInv PROVE StatusInv
    OBVIOUS
  <1>1. nextId \in Nat /\ Jobs \subseteq Nat
    BY DEF IInv, TypeOK, Jobs
  <1>2. \A j \in Jobs : j \in Members(queue) \cup running => j < nextId
    <2> SUFFICES ASSUME NEW j \in Jobs, j \in Members(queue) \cup running, ~(j < nextId)
                 PROVE  FALSE
      OBVIOUS
    <2>1. j \in entries
      BY DEF IInv, QueueInv, SlotInv
    <2>2. j >= nextId
      BY <1>1
    <2> QED BY <2>1, <2>2 DEF IInv, FreshInv
  <1>3. Members(queue) \cap running = {}
    BY DEF IInv, QueueInv
  <1>4. \A j \in Jobs : Status[j] = IF j >= nextId THEN "none"
                                    ELSE IF j \in Members(queue) THEN "waiting"
                                    ELSE IF j \in running THEN "active" ELSE "done"
    BY <1>1, <1>3 DEF Status
  <1>5. Status = [j \in Jobs |-> Status[j]]
    BY DEF Status
  <1> HIDE DEF Status
  <1>6. Status \in [Jobs -> {"none", "waiting", "active", "done"}]
    BY <1>4, <1>5
  <1>7. ASSUME NEW j \in Jobs
        PROVE  /\ Status[j] = "none" <=> j >= nextId
               /\ Status[j] = "waiting" <=> j \in Members(queue)
               /\ Status[j] = "active" <=> j \in running
               /\ Status[j] = "done" <=> j < nextId /\ j \notin Members(queue) \cup running
    BY <1>1, <1>2, <1>3, <1>4
  <1> QED BY <1>6, <1>7 DEF StatusInv

(* JobLifecycle counts as JobEngine does. *)
LEMMA SameCount ==
    ASSUME NEW S
    PROVE  Lifecycle!Cardinality(S) = Cardinality(S)
  BY DEF Lifecycle!Cardinality, Cardinality

(* A step that moves jobs forwards, fills the slots and serves the queue   *)
(* in order is a step of JobLifecycle.                                     *)
LEMMA StepMaps ==
    ASSUME IInv, IInv', OrderInv',
           nextId <= nextId',
           \A j \in Members(queue') : j \in Members(queue) \/ j >= nextId,
           \A j \in running' : j \in Members(queue) \cup running \/ j >= nextId,
           \A i \in Members(queue'), j \in running' \ running : j < i
    PROVE  Lifecycle!Next
  <1>1. StatusInv
    BY StatusIs
  <1>2. StatusInv'
    BY StatusIs, PTL
  <1>3. nextId \in Nat /\ nextId' \in Nat /\ Jobs \subseteq Nat
    BY DEF IInv, TypeOK, Jobs
  <1>4. Status' \in [Jobs -> Lifecycle!Stage]
    BY <1>2 DEF StatusInv, Lifecycle!Stage
  <1>5. \A j \in Jobs : Lifecycle!Rank[Status[j]] <= Lifecycle!Rank[Status'[j]]
    <2> SUFFICES ASSUME NEW j \in Jobs
                 PROVE  Lifecycle!Rank[Status[j]] <= Lifecycle!Rank[Status'[j]]
      OBVIOUS
    <2> USE <1>1, <1>2 DEF StatusInv
    <2>1. CASE Status'[j] = "none"
      BY <1>3, <2>1 DEF Lifecycle!Rank
    <2>2. CASE Status'[j] = "waiting"
      BY <2>2 DEF Lifecycle!Rank
    <2>3. CASE Status'[j] = "active"
      BY <2>3 DEF Lifecycle!Rank
    <2>4. CASE Status'[j] = "done"
      BY <2>4 DEF Lifecycle!Rank
    <2> QED BY <2>1, <2>2, <2>3, <2>4
  <1>6. running' = {j \in Jobs : Status'[j] = "active"}
    BY <1>2 DEF StatusInv, IInv, TypeOK
  <1>7. Lifecycle!Bounded(Status')
    <2>1. Cardinality(running') <= Cap
      BY DEF IInv, SlotInv
    <2>2. Lifecycle!In(Status', "active") = running'
      BY <1>6 DEF Lifecycle!In
    <2> QED BY <2>1, <2>2, SameCount DEF Lifecycle!Bounded
  <1>8. Lifecycle!WorkConserving(Status')
    <2>1. Lifecycle!In(Status', "active") = running'
      BY <1>6 DEF Lifecycle!In
    <2>2. Lifecycle!In(Status', "waiting") \subseteq Members(queue')
      BY <1>2 DEF Lifecycle!In, StatusInv
    <2> QED BY <2>1, <2>2, SameCount DEF Lifecycle!WorkConserving, OrderInv
  <1>9. Lifecycle!InOrder(Status, Status')
    <2> SUFFICES ASSUME NEW i \in Jobs, NEW j \in Jobs, i < j,
                        Status[j] # "active", Status'[j] = "active", Status'[i] = "waiting"
                 PROVE  FALSE
      BY DEF Lifecycle!InOrder
    <2>1. j \in running' \ running /\ i \in Members(queue')
      BY <1>1, <1>2 DEF StatusInv
    <2> QED BY <1>3, <2>1
  <1> QED BY <1>4, <1>5, <1>7, <1>8, <1>9 DEF Lifecycle!Next

(* The jobs that are started come from the front of a sorted queue, and    *)
(* only full slots keep the rest waiting.                                  *)
LEMMA StartInOrder ==
    ASSUME NEW q \in Seq(Jobs), NEW run, NEW ents, NEW thr,
           Sorted(q), Distinct(q), Members(q) \subseteq ents,
           StartNext(q, run, ents, thr)
    PROVE  \E started \in SUBSET Members(q) :
               /\ Sorted(queue')
               /\ Members(queue') = Members(q) \ started
               /\ running' = run \cup started
               /\ \A x \in started, y \in Members(queue') : x < y
               /\ Members(queue') # {} => Cardinality(running') = Cap
  <1>1. PICK n \in 0..Len(q) :
            /\ queue' = SubSeq(q, n + 1, Len(q))
            /\ running' = run \cup ({q[i] : i \in 1..n} \cap ents)
            /\ \/ n = Len(q)
               \/ Cardinality(run \cup ({q[i] : i \in 1..n} \cap ents)) = Cap
    BY DEF StartNext
  <1> DEFINE started == {q[i] : i \in 1..n}
  <1>2. /\ started \in SUBSET Members(q)
        /\ Members(queue') = Members(q) \ started
    BY <1>1, TakenFromFront
  <1>3. /\ Len(q) \in Nat
        /\ Len(queue') = Len(q) - n
        /\ \A i \in 1..(Len(q) - n) : queue'[i] = q[n + i]
    <2>1. Len(q) \in Nat /\ \A i \in 1..Len(q) : q[i] \in Jobs
      BY ElementOfSeq
    <2>2. \A i \in (n + 1)..Len(q) : q[i] \in Jobs
      BY <2>1
    <2>3. /\ Len(queue') = IF n + 1 <= Len(q) THEN Len(q) - (n + 1) + 1 ELSE 0
          /\ \A i \in 1..(Len(q) - (n + 1) + 1) : queue'[i] = q[(n + 1) + i - 1]
      BY <1>1, <2>1, <2>2, SubSeqProperties
    <2> QED BY <2>1, <2>3
  <1>4. started \cap ents = started
    BY <1>2
  <1> HIDE DEF started
  <1>5. Sorted(queue')
    BY <1>3 DEF Sorted
  <1>6. \A x \in started, y \in Members(queue') : x < y
    <2> SUFFICES ASSUME NEW i \in 1..n, NEW k \in 1..Len(queue')
                 PROVE  q[i] < queue'[k]
      BY DEF started, Members
    <2>1. queue'[k] = q[n + k] /\ i \in 1..Len(q) /\ n + k \in 1..Len(q) /\ i < n + k
      BY <1>3
    <2> QED BY <2>1 DEF Sorted
  <1>7. running' = run \cup started
    BY <1>1, <1>4 DEF started
  <1>8. Members(queue') # {} => Cardinality(running') = Cap
    <2>1. CASE n = Len(q)
      BY <1>3, <2>1 DEF Members
    <2>2. CASE Cardinality(run \cup (started \cap ents)) = Cap
      BY <1>4, <1>7, <2>2
    <2> QED BY <1>1, <2>1, <2>2 DEF started
  <1> QED BY <1>2, <1>5, <1>6, <1>7, <1>8

-----------------------------------------------------------------------------
(* The steps *)

Maps == Lifecycle!Next \/ Status' = Status

(* A step that leaves queue and workers alone is a stutter of the abstract *)
(* specification.                                                          *)
LEMMA NothingMoves ==
    ASSUME OrderInv, UNCHANGED <<nextId, queue, running>>
    PROVE  OrderInv' /\ Maps
  <1>1. OrderInv'
    BY DEF OrderInv, Sorted, Members
  <1>2. Status' = Status
    BY DEF Status, Members
  <1> QED BY <1>1, <1>2 DEF Maps

(* A new id is larger than all before it, so the queue stays sorted.       *)
LEMMA SubmitMaps ==
    ASSUME IInv, IInv', OrderInv, NEW isQuiet \in BOOLEAN, Submit(isQuiet)
    PROVE  OrderInv' /\ Lifecycle!Next
  <1> DEFINE q == Append(queue, nextId)
  <1>1. /\ nextId \in Jobs /\ nextId \in Nat /\ Jobs \subseteq Nat
        /\ nextId' = nextId + 1
        /\ nextId \notin entries
        /\ StartNext(q, running, entries \cup {nextId}, thread)
    BY DEF Submit, IInv, FreshInv, Jobs
  <1>2. \A j \in Members(queue) : j \in Jobs /\ j < nextId
    <2>1. \A j \in Members(queue) : j \in Jobs /\ j \in entries
      BY MembersAreJobs DEF IInv, QueueInv, TypeOK
    <2>2. \A j \in Jobs : j >= nextId => j \notin entries
      BY DEF IInv, FreshInv
    <2>3. \A j \in Jobs : j >= nextId \/ j < nextId
      BY <1>1
    <2> QED BY <2>1, <2>2, <2>3
  <1>3. q \in Seq(Jobs) /\ Members(q) = Members(queue) \cup {nextId} /\ Distinct(q)
    BY <1>1, <1>2, AppendMembers DEF IInv, QueueInv, TypeOK
  <1>4. Sorted(q)
    <2>1. /\ Len(queue) \in Nat /\ Len(q) = Len(queue) + 1
          /\ \A i \in 1..Len(queue) : q[i] = queue[i] /\ queue[i] \in Members(queue)
          /\ q[Len(queue) + 1] = nextId
      BY <1>1 DEF IInv, TypeOK, Members
    <2> HIDE DEF q
    <2> SUFFICES ASSUME NEW i \in 1..Len(q), NEW k \in 1..Len(q), i < k
                 PROVE  q[i] < q[k]
      BY DEF Sorted
    <2>2. CASE k \in 1..Len(queue)
      <3>1. i \in 1..Len(queue)
        BY <2>1, <2>2
      <3> QED BY <2>1, <2>2, <3>1 DEF OrderInv, Sorted
    <2>3. CASE k = Len(queue) + 1
      <3>1. i \in 1..Len(queue)
        BY <2>1, <2>3
      <3> QED BY <1>2, <2>1, <2>3, <3>1
    <2> QED BY <2>1, <2>2, <2>3
  <1>5. Members(q) \subseteq entries \cup {nextId}
    BY <1>3 DEF IInv, QueueInv
  <1> HIDE DEF q
  <1>6. PICK started \in SUBSET Members(q) :
            /\ Sorted(queue')
            /\ Members(queue') = Members(q) \ started
            /\ running' = running \cup started
            /\ \A x \in started, y \in Members(queue') : x < y
            /\ Members(queue') # {} => Cardinality(running') = Cap
    BY <1>1, <1>3, <1>4, <1>5, StartInOrder
  <1>7. OrderInv'
    BY <1>6 DEF OrderInv
  <1>8. /\ nextId <= nextId'
        /\ \A j \in Members(queue') : j \in Members(queue) \/ j >= nextId
        /\ \A j \in running' : j \in Members(queue) \cup running \/ j >= nextId
        /\ \A i \in Members(queue'), j \in running' \ running : j < i
    BY <1>1, <1>3, <1>6
  <1> QED BY <1>7, <1>8, StepMaps

(* Who leaves the queue when it is cancelled is done; the others keep      *)
(* their order.                                                            *)
LEMMA CancelQueuedMaps ==
    ASSUME IInv, IInv', OrderInv, NEW j \in Jobs, CancelQueued(j)
    PROVE  OrderInv' /\ Lifecycle!Next
  <1>1. PICK i \in 1..Len(queue) : queue' = CutAt(queue, i)
    BY DEF CancelQueued
  <1>2. nextId' = nextId /\ running' = running /\ nextId \in Nat
    BY DEF CancelQueued, IInv, TypeOK
  <1>3. Members(queue') \subseteq Members(queue)
    BY <1>1, CutMembers DEF IInv, QueueInv, TypeOK
  <1>4. Sorted(queue')
    <2>0. queue \in Seq(Jobs) /\ Len(queue) \in Nat
      BY DEF IInv, TypeOK
    <2>1. Len(queue) \in Nat /\ Len(queue) - 1 \in Nat
          /\ \A k \in 1..Len(queue) : queue[k] \in Jobs
      BY <2>0, ElementOfSeq
    <2>2. queue' \in [1..(Len(queue) - 1) -> Jobs]
      BY <1>1, <2>1 DEF CutAt
    <2>3. Len(queue') = Len(queue) - 1
      BY <2>1, <2>2, SeqDef
    <2>4. \A k \in 1..Len(queue') : queue'[k] = IF k < i THEN queue[k] ELSE queue[k + 1]
      BY <1>1, <2>3 DEF CutAt
    <2> SUFFICES ASSUME NEW k \in 1..Len(queue'), NEW m \in 1..Len(queue'), k < m
                 PROVE  queue'[k] < queue'[m]
      BY DEF Sorted
    <2>5. k \in 1..Len(queue) /\ k + 1 \in 1..Len(queue)
          /\ m \in 1..Len(queue) /\ m + 1 \in 1..Len(queue)
      BY <2>1, <2>3
    <2>6. k < m + 1 /\ k + 1 < m + 1
      BY <2>5
    <2> QED BY <2>4, <2>5, <2>6 DEF OrderInv, Sorted
  <1>5. OrderInv'
    BY <1>2, <1>3, <1>4 DEF OrderInv
  <1> QED BY <1>2, <1>3, <1>5, StepMaps

(* cancelAll is a step of the abstract specification. *)
LEMMA CancelAllMaps ==
    ASSUME IInv, IInv', OrderInv, CancelAll
    PROVE  OrderInv' /\ Lifecycle!Next
  <1>1. queue' = <<>> /\ nextId' = nextId /\ running' = running /\ nextId \in Nat
    BY DEF CancelAll, IInv, TypeOK
  <1>2. Members(queue') = {} /\ Sorted(queue')
    BY <1>1 DEF Members, Sorted
  <1>3. OrderInv'
    BY <1>2 DEF OrderInv
  <1> QED BY <1>1, <1>2, <1>3, StepMaps

(* The slot that is freed goes to the head of the queue in the same step. *)
LEMMA DeliverFinishedMaps ==
    ASSUME IInv, IInv', OrderInv, DeliverFinished
    PROVE  OrderInv' /\ Lifecycle!Next
  <1> DEFINE run == running \ {Head(events).job}
             thr == [i \in Jobs |-> IF i \in {Head(events).job} \cap entries
                                        /\ thread[i] # "null"
                                    THEN "quitting" ELSE thread[i]]
  <1>1. StartNext(queue, run, entries, thr) /\ nextId' = nextId /\ nextId \in Nat
    BY DEF DeliverFinished, IInv, TypeOK
  <1>2. run \subseteq running
    OBVIOUS
  <1> HIDE DEF run, thr
  <1>3. queue \in Seq(Jobs) /\ Distinct(queue) /\ Members(queue) \subseteq entries
    BY DEF IInv, QueueInv, TypeOK
  <1>4. PICK started \in SUBSET Members(queue) :
            /\ Sorted(queue')
            /\ Members(queue') = Members(queue) \ started
            /\ running' = run \cup started
            /\ \A x \in started, y \in Members(queue') : x < y
            /\ Members(queue') # {} => Cardinality(running') = Cap
    BY <1>1, <1>3, StartInOrder DEF OrderInv
  <1>5. OrderInv'
    BY <1>4 DEF OrderInv
  <1>6. /\ nextId <= nextId'
        /\ \A j \in Members(queue') : j \in Members(queue)
        /\ \A j \in running' : j \in Members(queue) \cup running
        /\ \A i \in Members(queue'), j \in running' \ running : j < i
    <2>1. running' \ running \subseteq started
      BY <1>2, <1>4
    <2> QED BY <1>1, <1>2, <1>4, <2>1
  <1> QED BY <1>5, <1>6, StepMaps

(* Every step of the engine is one of the abstract specification, or a     *)
(* stutter.                                                                *)
LEMMA NextMaps == IInv /\ IInv' /\ OrderInv /\ [Next]_vars => OrderInv' /\ Maps
  <1> SUFFICES ASSUME IInv, IInv', OrderInv, [Next]_vars
               PROVE  OrderInv' /\ Maps
    OBVIOUS
  <1> DEFINE Kept == UNCHANGED <<nextId, queue, running>>
  <1>1. CASE \E b \in BOOLEAN : Submit(b)
    BY <1>1, SubmitMaps DEF Maps
  <1>2. ASSUME NEW j \in Jobs, CancelQueued(j)
        PROVE  OrderInv' /\ Maps
    BY <1>2, CancelQueuedMaps DEF Maps
  <1>3. CASE CancelAll \/ DeliverFinished
    BY <1>3, CancelAllMaps, DeliverFinishedMaps DEF Maps
  <1>4. ASSUME NEW j \in Jobs,
               CancelStarted(j) \/ ResolveConflict(j) \/ AskConflict(j) \/ ThreadGone(j)
        PROVE  Kept
    BY <1>4 DEF CancelStarted, ResolveConflict, AskConflict, ThreadGone, engineVars
  <1>5. CASE DeliverConflict \/ AppearTimeout \/ LingerTimeout \/ UNCHANGED vars
    <2>1. Kept
      BY <1>5 DEF DeliverConflict, AppearTimeout, LingerTimeout, vars, engineVars
    <2> QED BY <2>1, NothingMoves
  <1>6. ASSUME NEW j \in Jobs, Worker(j)
        PROVE  Kept
    BY <1>6 DEF Worker, StartWorker, EnumerateStops, EnumerateProceeds, TakeAnswer,
          NoticeCancel, ExecuteEnds, Finish, engineVars
  <1>7. Kept => OrderInv' /\ Maps
    BY NothingMoves
  <1> HIDE DEF Kept
  <1> QED BY <1>1, <1>2, <1>3, <1>4, <1>5, <1>6, <1>7 DEF Next, EventLoop

(* Jobs only move forwards through waiting, active and done, no more than  *)
(* Cap are active, none waits while a slot is free, and slots are given in *)
(* the order of submission: JobEngine implements JobLifecycle.             *)
THEOREM EngineKeepsPromises == Spec => ImplementsLifecycle
  <1>1. Init => OrderInv /\ Lifecycle!Init
    <2> SUFFICES ASSUME Init PROVE OrderInv /\ Lifecycle!Init
      OBVIOUS
    <2>1. Members(queue) = {} /\ Sorted(queue)
      BY DEF Init, Members, Sorted
    <2>2. Status = [j \in Jobs |-> "none"]
      BY DEF Init, Status, Jobs
    <2> QED BY <2>1, <2>2 DEF OrderInv, Lifecycle!Init
  <1>2. IInv /\ IInv' /\ OrderInv /\ [Next]_vars => OrderInv' /\ [Lifecycle!Next]_Status
    BY NextMaps DEF Maps
  <1> QED BY <1>1, <1>2, Invariance, PTL DEF Spec, ImplementsLifecycle, Lifecycle!Spec
=============================================================================
