-------------------------- MODULE ConflictFlowProof --------------------------
(***************************************************************************)
(* Proofs about ConflictFlow for any number of jobs and questions.  The    *)
(* properties rest on one fact: a question is in one place at a time, on   *)
(* its way to the GUI thread or open there, and it is the last its job has *)
(* asked.                                                                  *)
(***************************************************************************)
EXTENDS ConflictFlow, SequenceTheorems, TLAPS

(* What the modal shows, and when it was ticked. *)
ModalInv ==
    /\ modal.visible => modal.question \in Question
    /\ modal.ticked \in {None, modal.question}
    /\ open # {} => modal.visible

(* A posted question is the last of its job, and the job's only one.       *)
PostedInv ==
    /\ \A i \in 1..Len(events) : events[i] = <<events[i][1], asked[events[i][1]]>>
    /\ \A i, k \in 1..Len(events) : events[i][1] = events[k][1] => i = k

(* So is an open question, and it is posted no more. *)
OpenInv ==
    /\ \A q \in open : q = <<q[1], asked[q[1]]>>
    /\ \A q \in open, i \in 1..Len(events) : q[1] # events[i][1]

Asks(j) == (\E q \in open : q[1] = j) \/ (\E i \in 1..Len(events) : events[i][1] = j)

(* The job of a posted or open question waits, unless it was cancelled;    *)
(* then it asks nothing more.                                              *)
AskerInv ==
    \A j \in Jobs : Asks(j) =>
        /\ j \notin answered
        /\ pc[j] = "Waiting" \/ (pc[j] # "Asking" /\ blanket[j] = "Cancel")

(* A job is known until it has finished, one that is about to post has an  *)
(* empty channel, and an answered job is known and has its answer.         *)
WaiterInv ==
    \A j \in Jobs :
        /\ pc[j] # "Finished" => j \in entries
        /\ pc[j] = "Asking" => j \notin answered
        /\ pc[j] \in {"Asking", "Waiting"} => asked[j] \in 1..MaxAsks
        /\ j \in answered => j \in entries /\ resolution[j] \in Resolution

IInv ==
    /\ TypeOK
    /\ ModalInv
    /\ PostedInv
    /\ OpenInv
    /\ AskerInv
    /\ WaiterInv
    /\ AnswersAreCurrent
    /\ TransfersAnswerable
    /\ TicksAreFresh

-----------------------------------------------------------------------------
(* The inductive invariant *)

(* The inductive invariant holds in the beginning. *)
LEMMA InitInv == Init => IInv
  <1> SUFFICES ASSUME Init PROVE IInv
    OBVIOUS
  <1> USE JobsAssumption DEF Init
  <1>1. TypeOK
    BY DEF TypeOK, Question, Jobs
  <1>2. ModalInv /\ PostedInv /\ OpenInv
    BY DEF ModalInv, PostedInv, OpenInv
  <1>3. AskerInv /\ WaiterInv
    BY DEF AskerInv, Asks, WaiterInv
  <1>4. AnswersAreCurrent /\ TransfersAnswerable /\ TicksAreFresh
    BY DEF AnswersAreCurrent, TransfersAnswerable, Answerable, TicksAreFresh, Jobs
  <1> QED BY <1>1, <1>2, <1>3, <1>4 DEF IInv

(* The job that asks has no question under way. *)
LEMMA AskInv ==
    ASSUME IInv, NEW j \in Jobs, Ask(j)
    PROVE  IInv'
  <1> USE DEF IInv, Ask, vars, workerVars, channelVars, guiVars
  <1>1. /\ \A q \in open : q[1] # j
        /\ \A i \in 1..Len(events) : events[i][1] # j
    BY DEF AskerInv, Asks
  <1>2. \A k \in Jobs : asked'[k] = IF k = j THEN asked[k] + 1 ELSE asked[k]
    BY DEF TypeOK
  <1>3. \A i \in 1..Len(events) : events[i] \in Question
    BY DEF TypeOK
  <1>4. TypeOK'
    BY JobsAssumption DEF TypeOK
  <1>5. ModalInv'
    BY DEF TypeOK, ModalInv
  <1>6. PostedInv'
    BY <1>1, <1>2, <1>3 DEF PostedInv, Question
  <1>7. OpenInv'
    BY <1>1, <1>2 DEF TypeOK, OpenInv, Question
  <1>8. AskerInv'
    BY DEF TypeOK, AskerInv, Asks
  <1>9. WaiterInv'
    BY JobsAssumption DEF TypeOK, WaiterInv
  <1>10. AnswersAreCurrent'
    BY DEF TypeOK, AnswersAreCurrent
  <1>11. TransfersAnswerable'
    BY <1>2 DEF TypeOK, TransfersAnswerable, Answerable, Pending, Reachable, Jobs
  <1>12. TicksAreFresh'
    BY DEF TypeOK, TicksAreFresh
  <1> QED BY <1>4, <1>5, <1>6, <1>7, <1>8, <1>9, <1>10, <1>11, <1>12

(* The worker that wakes with an answer keeps it, *)
LEMMA TakeAnswerInv ==
    ASSUME IInv, NEW j \in Jobs, TakeAnswer(j)
    PROVE  IInv'
  <1> USE DEF IInv, TakeAnswer, vars, workerVars, channelVars, guiVars
  <1>1. TypeOK'
    BY DEF TypeOK, WaiterInv, Resolution
  <1>2. ModalInv'
    BY DEF TypeOK, ModalInv
  <1>3. PostedInv'
    BY DEF TypeOK, PostedInv
  <1>4. OpenInv'
    BY DEF TypeOK, OpenInv
  <1>5. AskerInv'
    BY DEF TypeOK, AskerInv, Asks
  <1>6. WaiterInv'
    BY DEF TypeOK, WaiterInv
  <1>7. AnswersAreCurrent'
    BY DEF TypeOK, AnswersAreCurrent
  <1>8. TransfersAnswerable'
    BY DEF TypeOK, TransfersAnswerable, Answerable, Pending, Reachable, Jobs
  <1>9. TicksAreFresh'
    BY DEF TypeOK, TicksAreFresh
  <1> QED BY <1>1, <1>2, <1>3, <1>4, <1>5, <1>6, <1>7, <1>8, <1>9

(* the one that wakes to a cancellation, *)
LEMMA NoticeCancelInv ==
    ASSUME IInv, NEW j \in Jobs, NoticeCancel(j)
    PROVE  IInv'
  <1> USE DEF IInv, NoticeCancel, vars, workerVars, channelVars, guiVars
  <1>1. TypeOK'
    BY DEF TypeOK, Action
  <1>2. ModalInv'
    BY DEF TypeOK, ModalInv
  <1>3. PostedInv'
    BY DEF TypeOK, PostedInv
  <1>4. OpenInv'
    BY DEF TypeOK, OpenInv
  <1>5. AskerInv'
    BY DEF TypeOK, AskerInv, Asks
  <1>6. WaiterInv'
    BY DEF TypeOK, WaiterInv
  <1>7. AnswersAreCurrent'
    BY DEF TypeOK, AnswersAreCurrent
  <1>8. TransfersAnswerable'
    BY DEF TypeOK, TransfersAnswerable, Answerable, Pending, Reachable, Jobs
  <1>9. TicksAreFresh'
    BY DEF TypeOK, TicksAreFresh
  <1> QED BY <1>1, <1>2, <1>3, <1>4, <1>5, <1>6, <1>7, <1>8, <1>9

(* the one whose job ends, *)
LEMMA FinishInv ==
    ASSUME IInv, NEW j \in Jobs, Finish(j)
    PROVE  IInv'
  <1> USE DEF IInv, Finish, vars, workerVars, channelVars, guiVars
  <1>1. TypeOK'
    BY DEF TypeOK
  <1>2. ModalInv'
    BY DEF TypeOK, ModalInv
  <1>3. PostedInv'
    BY DEF TypeOK, PostedInv
  <1>4. OpenInv'
    BY DEF TypeOK, OpenInv
  <1>5. AskerInv'
    BY DEF TypeOK, AskerInv, Asks
  <1>6. WaiterInv'
    BY DEF TypeOK, WaiterInv
  <1>7. AnswersAreCurrent'
    BY DEF TypeOK, AnswersAreCurrent
  <1>8. TransfersAnswerable'
    BY DEF TypeOK, TransfersAnswerable, Answerable, Pending, Reachable, Jobs
  <1>9. TicksAreFresh'
    BY DEF TypeOK, TicksAreFresh
  <1> QED BY <1>1, <1>2, <1>3, <1>4, <1>5, <1>6, <1>7, <1>8, <1>9

(* the user who cancels, *)
LEMMA CancelInv ==
    ASSUME IInv, NEW j \in Jobs, Cancel(j)
    PROVE  IInv'
  <1> USE DEF IInv, Cancel, vars, workerVars, channelVars, guiVars
  <1>1. TypeOK'
    BY DEF TypeOK
  <1>2. ModalInv'
    BY DEF TypeOK, ModalInv
  <1>3. PostedInv'
    BY DEF TypeOK, PostedInv
  <1>4. OpenInv'
    BY DEF TypeOK, OpenInv
  <1>5. AskerInv'
    BY DEF TypeOK, AskerInv, Asks
  <1>6. WaiterInv'
    BY DEF TypeOK, WaiterInv
  <1>7. AnswersAreCurrent'
    BY DEF TypeOK, AnswersAreCurrent
  <1>8. TransfersAnswerable'
    BY DEF TypeOK, TransfersAnswerable, Answerable, Pending, Reachable, Jobs
  <1>9. TicksAreFresh'
    BY DEF TypeOK, TicksAreFresh
  <1> QED BY <1>1, <1>2, <1>3, <1>4, <1>5, <1>6, <1>7, <1>8, <1>9

(* the GUI that forgets a job's choice, *)
LEMMA ForgetInv ==
    ASSUME IInv, NEW j \in Jobs, Forget(j)
    PROVE  IInv'
  <1> USE DEF IInv, Forget, vars, workerVars, channelVars, guiVars
  <1>1. TypeOK'
    BY DEF TypeOK
  <1>2. ModalInv'
    BY DEF TypeOK, ModalInv
  <1>3. PostedInv'
    BY DEF TypeOK, PostedInv
  <1>4. OpenInv'
    BY DEF TypeOK, OpenInv
  <1>5. AskerInv'
    BY DEF TypeOK, AskerInv, Asks
  <1>6. WaiterInv'
    BY DEF TypeOK, WaiterInv
  <1>7. AnswersAreCurrent'
    BY DEF TypeOK, AnswersAreCurrent
  <1>8. TransfersAnswerable'
    BY DEF TypeOK, TransfersAnswerable, Answerable, Pending, Reachable, Jobs
  <1>9. TicksAreFresh'
    BY DEF TypeOK, TicksAreFresh
  <1> QED BY <1>1, <1>2, <1>3, <1>4, <1>5, <1>6, <1>7, <1>8, <1>9

(* the timer that looks for questions, *)
LEMMA TickInv ==
    ASSUME IInv, Tick
    PROVE  IInv'
  <1> USE DEF IInv, Tick, vars, workerVars, channelVars, guiVars
  <1>1. TypeOK'
    BY DEF TypeOK
  <1>2. ModalInv'
    BY DEF TypeOK, ModalInv
  <1>3. PostedInv'
    BY DEF TypeOK, PostedInv
  <1>4. OpenInv'
    BY DEF TypeOK, OpenInv
  <1>5. AskerInv'
    BY DEF TypeOK, AskerInv, Asks
  <1>6. WaiterInv'
    BY DEF TypeOK, WaiterInv
  <1>7. AnswersAreCurrent'
    BY DEF TypeOK, AnswersAreCurrent
  <1>8. TransfersAnswerable'
    BY DEF TypeOK, TransfersAnswerable, Answerable, Pending, Reachable, Jobs
  <1>9. TicksAreFresh'
    BY DEF TypeOK, TicksAreFresh
  <1> QED BY <1>1, <1>2, <1>3, <1>4, <1>5, <1>6, <1>7, <1>8, <1>9

(* The question that is posted is the only one of its job. *)
LEMMA PostQuestionInv ==
    ASSUME IInv, NEW j \in Jobs, PostQuestion(j)
    PROVE  IInv'
  <1> USE DEF IInv, PostQuestion, vars, workerVars, channelVars, guiVars
  <1>1. /\ <<j, asked[j]>> \in Question
        /\ events' \in Seq(Question)
        /\ Len(events') = Len(events) + 1
        /\ Len(events) \in Nat
        /\ \A i \in 1..Len(events) : events'[i] = events[i]
        /\ events'[Len(events')] = <<j, asked[j]>>
    BY AppendProperties DEF TypeOK, WaiterInv, Question
  <1>2. /\ \A q \in open : q[1] # j
        /\ \A i \in 1..Len(events) : events[i][1] # j
    BY DEF AskerInv, Asks
  <1>3. \A i \in 1..Len(events') :
            \/ i \in 1..Len(events) /\ events'[i] = events[i]
            \/ i = Len(events') /\ events'[i] = <<j, asked[j]>>
    BY <1>1
  <1> HIDE DEF PostQuestion
  <1>4. /\ pc[j] = "Asking" /\ pc' = [pc EXCEPT ![j] = "Waiting"]
        /\ UNCHANGED <<asked, blanket, cancelled, channelVars, entries, open, modal>>
    BY DEF PostQuestion
  <1>5. TypeOK'
    BY <1>1, <1>4 DEF TypeOK
  <1>6. ModalInv'
    BY <1>4 DEF ModalInv
  <1>7. PostedInv'
    <2>1. \A i \in 1..Len(events') : events'[i] = <<events'[i][1], asked[events'[i][1]]>>
      BY <1>3 DEF PostedInv
    <2>2. ASSUME NEW i \in 1..Len(events'), NEW k \in 1..Len(events'), events'[i][1] = events'[k][1]
          PROVE  i = k
      BY <1>2, <1>3, <2>2 DEF PostedInv
    <2> QED BY <1>4, <2>1, <2>2 DEF PostedInv
  <1>8. OpenInv'
    BY <1>2, <1>3, <1>4 DEF OpenInv
  <1>9. AskerInv'
    <2> SUFFICES ASSUME NEW k \in Jobs, Asks(k)'
                 PROVE  /\ k \notin answered
                        /\ pc'[k] = "Waiting" \/ (pc'[k] # "Asking" /\ blanket[k] = "Cancel")
      BY <1>4 DEF AskerInv
    <2>1. CASE k = j
      BY <1>4, <2>1 DEF TypeOK, WaiterInv
    <2>2. CASE k # j
      <3>1. Asks(k)
        BY <1>3, <1>4, <2>2 DEF Asks
      <3>2. pc'[k] = pc[k]
        BY <1>4, <2>2 DEF TypeOK
      <3> QED BY <3>1, <3>2 DEF AskerInv
    <2> QED BY <2>1, <2>2
  <1>10. WaiterInv'
    BY <1>4 DEF TypeOK, WaiterInv
  <1>11. AnswersAreCurrent'
    BY <1>4 DEF TypeOK, AnswersAreCurrent, WaiterInv
  <1>12. TransfersAnswerable'
    <2>1. Pending(j)'
      BY <1>1, <1>4 DEF Pending
    <2>2. \A k \in Jobs : Pending(k) => Pending(k)'
      BY <1>1, <1>4 DEF Pending
    <2> QED BY <1>4, <2>1, <2>2 DEF TypeOK, TransfersAnswerable, Answerable, Reachable, Jobs
  <1>13. TicksAreFresh'
    BY <1>4 DEF TicksAreFresh
  <1> QED BY <1>5, <1>6, <1>7, <1>8, <1>9, <1>10, <1>11, <1>12, <1>13

(* The question that is delivered becomes open if it is a transfer's. *)
LEMMA DeliverConflictInv ==
    ASSUME IInv, DeliverConflict
    PROVE  IInv'
  <1> USE DEF IInv, DeliverConflict, vars, workerVars, channelVars, guiVars
  <1>1. /\ Len(events) \in Nat /\ Len(events) >= 1
        /\ Head(events) = events[1]
        /\ events' \in Seq(Question)
        /\ Len(events') = Len(events) - 1
        /\ \A i \in 1..Len(events') : events'[i] = events[i + 1]
    BY HeadTailProperties, EmptySeq DEF TypeOK
  <1>2. events[1] \in Question /\ events[1] = <<events[1][1], asked[events[1][1]]>>
    BY <1>1 DEF TypeOK, PostedInv
  <1>3. /\ \A i \in 1..Len(events') : i + 1 \in 1..Len(events) /\ events'[i][1] # events[1][1]
        /\ \A i \in 1..Len(events) : i # 1 => i - 1 \in 1..Len(events') /\ events'[i - 1] = events[i]
    BY <1>1 DEF PostedInv
  <1> HIDE DEF DeliverConflict
  <1>4. /\ IF events[1][1] \in Transfers
           THEN /\ open' = open \cup {events[1]}
                /\ modal' = [visible |-> TRUE, question |-> events[1], ticked |-> None]
           ELSE UNCHANGED <<open, modal>>
        /\ UNCHANGED <<workerVars, channelVars, entries>>
    BY <1>1 DEF DeliverConflict, Present
  <1>5. TypeOK'
    <2>1. open' \subseteq Question
      <3>1. CASE events[1][1] \in Transfers
        BY <1>2, <1>4, <3>1 DEF TypeOK
      <3>2. CASE events[1][1] \notin Transfers
        BY <1>4, <3>2 DEF TypeOK
      <3> QED BY <3>1, <3>2
    <2>2. modal' \in [visible : BOOLEAN, question : Question \cup {None},
                      ticked : Question \cup {None}]
      <3>1. CASE events[1][1] \in Transfers
        <4>1. modal' = [visible |-> TRUE, question |-> events[1], ticked |-> None]
          BY <1>4, <3>1
        <4>2. events[1] \in Question \cup {None} /\ None \in Question \cup {None}
          BY <1>2
        <4> QED BY <4>1, <4>2
      <3>2. CASE events[1][1] \notin Transfers
        BY <1>4, <3>2 DEF TypeOK
      <3> QED BY <3>1, <3>2
    <2> QED BY <1>1, <1>4, <2>1, <2>2 DEF TypeOK
  <1>6. ModalInv'
    BY <1>2, <1>4 DEF ModalInv
  <1>7. PostedInv'
    BY <1>1, <1>3, <1>4 DEF PostedInv
  <1>8. OpenInv'
    <2>1. \A q \in open' : q \in open \/ q = events[1]
      BY <1>4
    <2>2. \A q \in open' : q = <<q[1], asked[q[1]]>>
      BY <1>2, <2>1 DEF OpenInv
    <2>3. \A q \in open', i \in 1..Len(events') : q[1] # events'[i][1]
      <3> SUFFICES ASSUME NEW q \in open', NEW i \in 1..Len(events')
                   PROVE  q[1] # events'[i][1]
        OBVIOUS
      <3>1. /\ i + 1 \in 1..Len(events)
            /\ events'[i] = events[i + 1]
            /\ events'[i][1] # events[1][1]
        BY <1>1, <1>3
      <3>2. CASE q \in open
        BY <3>1, <3>2 DEF OpenInv
      <3>3. CASE q = events[1]
        BY <3>1, <3>3
      <3> QED BY <2>1, <3>2, <3>3
    <2> QED BY <1>4, <2>2, <2>3 DEF OpenInv
  <1>9. AskerInv'
    BY <1>1, <1>3, <1>4 DEF AskerInv, Asks
  <1>10. WaiterInv'
    BY <1>4 DEF WaiterInv
  <1>11. AnswersAreCurrent'
    BY <1>4 DEF AnswersAreCurrent
  <1>12. TransfersAnswerable'
    <2> SUFFICES ASSUME NEW k \in Transfers, Pending(k) \/ Reachable(k)
                 PROVE  (Pending(k) \/ Reachable(k))'
      BY <1>4 DEF TransfersAnswerable, Answerable
    <2>1. CASE Reachable(k)
      BY <1>4, <2>1 DEF Reachable
    <2>2. CASE Pending(k)
      <3>1. PICK i \in 1..Len(events) : events[i] = <<k, asked[k]>>
        BY <2>2 DEF Pending
      <3>2. CASE i = 1
        BY <1>4, <3>1, <3>2 DEF Reachable
      <3>3. CASE i # 1
        BY <1>3, <1>4, <3>1, <3>3 DEF Pending
      <3> QED BY <3>2, <3>3
    <2> QED BY <2>1, <2>2
  <1>13. TicksAreFresh'
    BY <1>4 DEF TicksAreFresh
  <1> QED BY <1>5, <1>6, <1>7, <1>8, <1>9, <1>10, <1>11, <1>12, <1>13

(* An answer reaches the jobs whose question is open, and those alone. *)
LEMMA EmitResolvedInv ==
    ASSUME IInv, modal.visible,
           NEW action \in Action, NEW ticked \in {None, modal.question},
           EmitResolved(action, ticked),
           modal' = [modal EXCEPT !.visible = FALSE],
           UNCHANGED <<workerVars, events, entries>>
    PROVE  IInv'
  <1> USE DEF IInv, workerVars
  <1> DEFINE told == {q[1] : q \in open} \cap entries
             answer(k) == [action |-> action, all |-> ticked # None,
                           question |-> <<k, asked[k]>>,
                           shown |-> modal.question, ticked |-> ticked]
  <1>1. \A k \in told : (CHOOSE q \in open : q[1] = k) = <<k, asked[k]>>
    BY DEF OpenInv
  <1>2. \A k \in told : k \in Jobs /\ <<k, asked[k]>> \in open /\ <<k, asked[k]>> \in Question
    <2> SUFFICES ASSUME NEW q \in open
                 PROVE  q[1] \in Jobs /\ q = <<q[1], asked[q[1]]>> /\ q \in Question
      OBVIOUS
    <2> QED BY DEF TypeOK, OpenInv, Question
  <1>3. /\ answered' = answered \cup told
        /\ \A k \in Jobs : resolution'[k] = IF k \in told THEN answer(k) ELSE resolution[k]
        /\ open' = {}
    BY <1>1 DEF EmitResolved
  <1>4. DOMAIN resolution' = Jobs
    BY DEF EmitResolved
  <1>5. \A k \in told : answer(k) \in Resolution
    BY <1>2 DEF Resolution, ModalInv
  <1>6. \A k \in told, i \in 1..Len(events) : events[i][1] # k
    BY <1>2 DEF OpenInv
  <1>7. \A k \in Jobs : /\ answer(k).question = <<k, asked[k]>>
                        /\ answer(k).all => answer(k).ticked = answer(k).shown
    OBVIOUS
  <1> HIDE DEF answer
  <1>8. TypeOK'
    <2>1. resolution' = [k \in Jobs |-> resolution'[k]]
      BY DEF EmitResolved
    <2>2. \A k \in Jobs : resolution'[k] \in Resolution \cup {None}
      BY <1>3, <1>5 DEF TypeOK
    <2>3. resolution' \in [Jobs -> Resolution \cup {None}]
      BY <2>1, <2>2
    <2> QED BY <1>2, <1>3, <2>3 DEF TypeOK
  <1>9. ModalInv' /\ OpenInv'
    BY <1>3 DEF ModalInv, OpenInv, TypeOK
  <1>10. PostedInv'
    BY DEF PostedInv
  <1>11. AskerInv'
    BY <1>3, <1>6 DEF AskerInv, Asks
  <1>12. WaiterInv'
    <2> SUFFICES ASSUME NEW k \in Jobs
                 PROVE  /\ pc[k] # "Finished" => k \in entries
                        /\ pc[k] = "Asking" => k \notin answered'
                        /\ pc[k] \in {"Asking", "Waiting"} => asked[k] \in 1..MaxAsks
                        /\ k \in answered' => k \in entries /\ resolution'[k] \in Resolution
      BY DEF WaiterInv
    <2>1. k \in told => pc[k] # "Asking"
      BY DEF AskerInv, Asks
    <2> QED BY <1>3, <1>5, <2>1 DEF WaiterInv
  <1>13. AnswersAreCurrent'
    BY <1>3, <1>7 DEF AnswersAreCurrent
  <1>14. TransfersAnswerable'
    <2> SUFFICES ASSUME NEW k \in Transfers, pc[k] = "Waiting"
                 PROVE  Pending(k)' \/ k \in answered' \/ k \in cancelled
      BY DEF TransfersAnswerable, Answerable
    <2>1. k \in entries
      BY DEF WaiterInv, Jobs
    <2>2. Reachable(k) => k \in told
      BY <2>1 DEF Reachable
    <2> QED BY <1>3, <2>2 DEF TransfersAnswerable, Answerable, Pending
  <1>15. TicksAreFresh'
    BY <1>3, <1>7 DEF TicksAreFresh
  <1> QED BY <1>8, <1>9, <1>10, <1>11, <1>12, <1>13, <1>14, <1>15

(* and the user who answers or dismisses one. *)
LEMMA AnswerInv ==
    ASSUME IInv, UserAnswers
    PROVE  IInv'
  <1>1. CASE Dismiss
    BY <1>1, EmitResolvedInv DEF Dismiss, Action
  <1>2. ASSUME NEW action \in Action, Choose(action)
        PROVE  IInv'
    <2>1. modal.ticked \in {None, modal.question}
      BY DEF IInv, ModalInv
    <2> QED BY <1>2, <2>1, EmitResolvedInv DEF Choose
  <1> QED BY <1>1, <1>2 DEF UserAnswers

(* So every step keeps the inductive invariant. *)
LEMMA NextInv == IInv /\ [Next]_vars => IInv'
  <1> SUFFICES ASSUME IInv, [Next]_vars PROVE IInv'
    OBVIOUS
  <1>1. ASSUME NEW j \in Jobs, Worker(j)
        PROVE  IInv'
    BY <1>1, PostQuestionInv, TakeAnswerInv, NoticeCancelInv, FinishInv DEF Worker
  <1>2. ASSUME NEW j \in Jobs, Ask(j) \/ Cancel(j) \/ Forget(j)
        PROVE  IInv'
    BY <1>2, AskInv, CancelInv, ForgetInv
  <1>3. CASE DeliverConflict \/ UserAnswers \/ Tick
    BY <1>3, DeliverConflictInv, AnswerInv, TickInv
  <1>4. CASE UNCHANGED vars
    <2> USE <1>4 DEF IInv, vars, workerVars, channelVars, guiVars
    <2>1. TypeOK' /\ ModalInv' /\ PostedInv' /\ OpenInv'
      BY DEF TypeOK, ModalInv, PostedInv, OpenInv
    <2>2. AskerInv' /\ WaiterInv'
      BY DEF AskerInv, Asks, WaiterInv
    <2>3. AnswersAreCurrent' /\ TransfersAnswerable' /\ TicksAreFresh'
      BY DEF AnswersAreCurrent, TransfersAnswerable, Answerable, Pending, Reachable,
             TicksAreFresh
    <2> QED BY <2>1, <2>2, <2>3
  <1> QED BY <1>1, <1>2, <1>3, <1>4 DEF Next

(* Every reachable state satisfies the inductive invariant. *)
THEOREM Invariance == Spec => []IInv
  BY InitInv, NextInv, PTL DEF Spec

-----------------------------------------------------------------------------
(* What follows for every reachable state *)

(* Every variable of the channels, the workers and the modal keeps its     *)
(* type.                                                                   *)
THEOREM TypeCorrect == Spec => []TypeOK
  <1>1. IInv => TypeOK
    BY DEF IInv
  <1> QED BY <1>1, Invariance, PTL

(* However many jobs ask however often, and whoever else was answered by   *)
(* the same click, a waiting job only finds the answer to its own last     *)
(* question in its channel.                                                *)
THEOREM NoStaleAnswer == Spec => []AnswersAreCurrent
  <1>1. IInv => AnswersAreCurrent
    BY DEF IInv
  <1> QED BY <1>1, Invariance, PTL

(* A waiting transfer's question is posted, or open under a visible modal, *)
(* or answered, or the transfer is cancelled: it can always go on.         *)
THEOREM TransfersNeverStranded == Spec => []TransfersAnswerable
  <1>1. IInv => TransfersAnswerable
    BY DEF IInv
  <1> QED BY <1>1, Invariance, PTL

(* "Apply to all" is only ever taken from a tick made on the question      *)
(* shown.                                                                  *)
THEOREM TicksNeverCarryOver == Spec => []TicksAreFresh
  <1>1. IInv => TicksAreFresh
    BY DEF IInv
  <1> QED BY <1>1, Invariance, PTL

(* A connection that outlives its job answers nobody. *)
THEOREM ForgottenStayUnanswered == Spec => []NoAnswerAfterForget
  <1>1. IInv => NoAnswerAfterForget
    BY DEF IInv, TypeOK, WaiterInv, NoAnswerAfterForget
  <1> QED BY <1>1, Invariance, PTL
=============================================================================
