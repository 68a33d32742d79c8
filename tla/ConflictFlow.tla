---------------------------- MODULE ConflictFlow ----------------------------
(***************************************************************************)
(* How the questions of running jobs reach the user, and the answers the   *)
(* jobs (src/fs/Job.cpp, src/app/FileOperations.cpp,                       *)
(* src/ui/modals/ConflictModal.cpp).                                       *)
(*                                                                         *)
(* A worker that finds its destination taken clears its channel, posts the *)
(* question to the GUI thread and waits.  For a transfer the GUI thread    *)
(* makes a fresh connection to the one modal all jobs share and presents   *)
(* the question there, over whatever it showed before.  Choosing a button, *)
(* or dismissing the modal, reaches every connection made since the last   *)
(* answer, and removes it.  The image and media jobs ask too, but nothing  *)
(* in FileOperations listens to them.                                      *)
(*                                                                         *)
(* Of the five buttons only the difference between an answer that writes,  *)
(* one that does not and one that cancels matters here.                    *)
(***************************************************************************)
EXTENDS Naturals, Sequences, FiniteSets

CONSTANTS Transfers,  \* the jobs started by FileOperations::runTransfer
          Others,     \* the image and media jobs
          MaxAsks     \* bound: how many questions one job asks

ASSUME JobsAssumption ==
    /\ Transfers \cap Others = {}
    /\ MaxAsks \in Nat

Jobs == Transfers \cup Others

Action == {"Overwrite", "Skip", "Cancel"}

Question == Jobs \X (1..MaxAsks)

None == <<>>

VARIABLES
    \* the workers
    pc,          \* where the worker is in askAboutConflict
    asked,       \* how many questions the job has asked
    blanket,     \* Job::m_blanketAction
    cancelled,   \* the jobs with m_cancelled set
    \* Job::ConflictChannel
    answered,    \* the jobs whose channel has m_answered set
    resolution,  \* m_resolution, and which question was on screen when given
    \* the GUI thread
    events,      \* questions posted to the GUI thread, oldest first
    entries,     \* the jobs the engine still knows
    open,        \* the connections to ConflictModal::resolved
    modal        \* what the modal shows, and the question its box was ticked at

workerVars  == <<pc, asked, blanket, cancelled>>
channelVars == <<answered, resolution>>
guiVars     == <<events, entries, open, modal>>
vars        == <<workerVars, channelVars, guiVars>>

Resolution == [action : Action, all : BOOLEAN,
               question : Question, shown : Question, ticked : Question \cup {None}]

TypeOK ==
    /\ pc \in [Jobs -> {"Running", "Asking", "Waiting", "Finished"}]
    /\ asked \in [Jobs -> 0..MaxAsks]
    /\ blanket \in [Jobs -> Action \cup {"none"}]
    /\ cancelled \subseteq Jobs
    /\ answered \subseteq Jobs
    /\ resolution \in [Jobs -> Resolution \cup {None}]
    /\ events \in Seq(Question)
    /\ entries \subseteq Jobs
    /\ open \subseteq Question
    /\ modal \in [visible : BOOLEAN, question : Question \cup {None},
                  ticked : Question \cup {None}]

Init ==
    /\ pc = [j \in Jobs |-> "Running"]
    /\ asked = [j \in Jobs |-> 0]
    /\ blanket = [j \in Jobs |-> "none"]
    /\ cancelled = {}
    /\ answered = {}
    /\ resolution = [j \in Jobs |-> None]
    /\ events = <<>>
    /\ entries = Jobs
    /\ open = {}
    /\ modal = [visible |-> FALSE, question |-> None, ticked |-> None]

-----------------------------------------------------------------------------
(* Worker threads: Job::askAboutConflict *)

(* A slip: the channel still holds the answer to the question before. *)
AskKeepsAnswer(j) ==
    /\ pc[j] = "Running"
    /\ blanket[j] = "none"
    /\ asked[j] < MaxAsks
    /\ asked' = [asked EXCEPT ![j] = @ + 1]
    /\ pc' = [pc EXCEPT ![j] = "Asking"]
    /\ UNCHANGED <<blanket, cancelled, channelVars, guiVars>>

(* A job with a blanket action asks nothing; any other clears its channel. *)
Ask(j) ==
    /\ pc[j] = "Running"
    /\ blanket[j] = "none"
    /\ asked[j] < MaxAsks
    /\ asked' = [asked EXCEPT ![j] = @ + 1]
    /\ pc' = [pc EXCEPT ![j] = "Asking"]
    /\ answered' = answered \ {j}
    /\ UNCHANGED <<blanket, cancelled, resolution, guiVars>>

(* The signal is emitted, that is posted to the GUI thread. *)
PostQuestion(j) ==
    /\ pc[j] = "Asking"
    /\ pc' = [pc EXCEPT ![j] = "Waiting"]
    /\ events' = Append(events, <<j, asked[j]>>)
    /\ UNCHANGED <<asked, blanket, cancelled, channelVars, entries, open, modal>>

(* ConflictChannel::wait returns the answer. *)
TakeAnswer(j) ==
    /\ pc[j] = "Waiting"
    /\ j \in answered
    /\ pc' = [pc EXCEPT ![j] = "Running"]
    /\ LET r == resolution[j]
       IN  /\ blanket' = [blanket EXCEPT ![j] = IF r.all THEN r.action ELSE @]
           /\ cancelled' = IF r.action = "Cancel" THEN cancelled \cup {j} ELSE cancelled
    /\ UNCHANGED <<asked, channelVars, guiVars>>

(* ConflictChannel::wait returns because the job was cancelled. *)
NoticeCancel(j) ==
    /\ pc[j] = "Waiting"
    /\ j \notin answered
    /\ j \in cancelled
    /\ pc' = [pc EXCEPT ![j] = "Running"]
    /\ blanket' = [blanket EXCEPT ![j] = "Cancel"]
    /\ UNCHANGED <<asked, cancelled, channelVars, guiVars>>

Finish(j) ==
    /\ pc[j] = "Running"
    /\ pc' = [pc EXCEPT ![j] = "Finished"]
    /\ UNCHANGED <<asked, blanket, cancelled, channelVars, guiVars>>

-----------------------------------------------------------------------------
(* GUI thread *)

(* ConflictModal::present *)
Present(q) == modal' = [visible |-> TRUE, question |-> q, ticked |-> None]

(* The jobConflict handler of runTransfer; nobody handles it for the others. *)
DeliverConflict ==
    /\ events # <<>>
    /\ events' = Tail(events)
    /\ IF Head(events)[1] \in Transfers
       THEN /\ open' = open \cup {Head(events)}
            /\ Present(Head(events))
       ELSE UNCHANGED <<open, modal>>
    /\ UNCHANGED <<workerVars, channelVars, entries>>

(* ConflictModal::resolved is emitted: every open connection removes       *)
(* itself and answers its job, if the engine still knows the job.          *)
EmitResolved(action, ticked) ==
    LET told == {q[1] : q \in open} \cap entries
    IN  /\ answered' = answered \cup told
        /\ resolution' = [j \in Jobs |->
               IF j \in told
               THEN [action |-> action, all |-> ticked # None,
                     question |-> CHOOSE q \in open : q[1] = j,
                     shown |-> modal.question, ticked |-> ticked]
               ELSE resolution[j]]
        /\ open' = {}

(* A button, or Enter for Skip: choose() emits, then dismisses the modal. *)
Choose(action) ==
    /\ modal.visible
    /\ EmitResolved(action, modal.ticked)
    /\ modal' = [modal EXCEPT !.visible = FALSE]
    /\ UNCHANGED <<workerVars, events, entries>>

(* A slip: dismissing the modal is not an answer. *)
DismissSilently ==
    /\ modal.visible
    /\ modal' = [modal EXCEPT !.visible = FALSE]
    /\ UNCHANGED <<workerVars, channelVars, events, entries, open>>

(* A slip: dismissing the modal sends an answer in which nothing is set. *)
DismissUnset ==
    /\ modal.visible
    /\ EmitResolved("none", None)
    /\ modal' = [modal EXCEPT !.visible = FALSE]
    /\ UNCHANGED <<workerVars, events, entries>>

(* Escape: a dismissal without a choice counts as Skip, for one question. *)
Dismiss ==
    /\ modal.visible
    /\ EmitResolved("Skip", None)
    /\ modal' = [modal EXCEPT !.visible = FALSE]
    /\ UNCHANGED <<workerVars, events, entries>>

(* The box "Apply to all remaining" is ticked or unticked. *)
Tick ==
    /\ modal.visible
    /\ modal' = [modal EXCEPT !.ticked = IF @ = None THEN modal.question ELSE None]
    /\ UNCHANGED <<workerVars, channelVars, events, entries, open>>

(* JobEngine::cancel of a started job. *)
Cancel(j) ==
    /\ j \in entries
    /\ cancelled' = cancelled \cup {j}
    /\ UNCHANGED <<pc, asked, blanket, channelVars, guiVars>>

(* JobEngine::forget, once the end of the job was reported.  Its questions *)
(* were posted before its end, so none of them is pending any more.        *)
Forget(j) ==
    /\ j \in entries
    /\ pc[j] = "Finished"
    /\ \A i \in 1..Len(events) : events[i][1] # j
    /\ entries' = entries \ {j}
    /\ answered' = answered \ {j}
    /\ UNCHANGED <<workerVars, resolution, events, open, modal>>

-----------------------------------------------------------------------------
Worker(j) == PostQuestion(j) \/ TakeAnswer(j) \/ NoticeCancel(j) \/ Finish(j)

UserAnswers == Dismiss \/ \E action \in Action : Choose(action)

Next ==
    \/ \E j \in Jobs : Worker(j) \/ Ask(j) \/ Cancel(j) \/ Forget(j)
    \/ DeliverConflict
    \/ UserAnswers
    \/ Tick

Spec == Init /\ [][Next]_vars

(* The event loop runs, workers that can go on do, and a user who is shown *)
(* a question answers it in the end.                                       *)
Fairness ==
    /\ WF_vars(DeliverConflict)
    /\ WF_vars(UserAnswers)
    /\ \A j \in Jobs : WF_vars(Worker(j))

FairSpec == Spec /\ Fairness

-----------------------------------------------------------------------------
(* Properties *)

(* A job never acts on the answer to an earlier question of its own.       *)
AnswersAreCurrent ==
    \A j \in Jobs : pc[j] = "Waiting" /\ j \in answered
                        => resolution[j].question = <<j, asked[j]>>

Pending(j) == \E i \in 1..Len(events) : events[i] = <<j, asked[j]>>

Reachable(j) == modal.visible /\ <<j, asked[j]>> \in open

(* While j waits for an answer, the question is on its way to the screen   *)
(* or a visible modal will answer it; Escape is no way around that.        *)
Answerable(j) ==
    pc[j] = "Waiting" => Pending(j) \/ Reachable(j) \/ j \in answered \/ j \in cancelled

TransfersAnswerable == \A j \in Transfers : Answerable(j)

(* "Apply to all" is only taken from a tick that was made while the        *)
(* question that was answered was the one on screen.                       *)
TicksAreFresh ==
    \A j \in Jobs : resolution[j] # None /\ resolution[j].all
                        => resolution[j].ticked = resolution[j].shown

(* The channel of a job that has been destroyed is never written to, not   *)
(* even by a connection that outlived a job cancelled during its question. *)
NoAnswerAfterForget == answered \subseteq entries

(* A waiting transfer does not wait for ever.                              *)
TransfersGoOn == \A j \in Transfers : pc[j] = "Waiting" ~> pc[j] # "Waiting"

(* Said of every job: the worker is blocked until the GUI answers, so      *)
(* somebody must be able to answer (src/fs/Job.h).                         *)
EverybodyAnswerable == \A j \in Jobs : Answerable(j)
=============================================================================
