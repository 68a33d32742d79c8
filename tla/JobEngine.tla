------------------------------ MODULE JobEngine ------------------------------
(***************************************************************************)
(* The job engine of Panefile (src/fs/Job.cpp, src/fs/JobEngine.cpp) with  *)
(* the process bar that reaps finished jobs (src/ui/ProcessBar.cpp).       *)
(*                                                                         *)
(* Two kinds of actor run concurrently.  The GUI thread submits, cancels   *)
(* and forgets jobs, takes queued signals from its event queue one at a    *)
(* time and runs the bar's two timers.  Each started job has a worker      *)
(* thread of its own which runs Job::run.  A signal emitted by a worker is *)
(* posted to the GUI thread's event queue and handled there later, so the  *)
(* engine learns of the end of a job some time after the fact.             *)
(*                                                                         *)
(* What execute() does to files is left to other modules: here it is a     *)
(* stretch of time in which the worker may ask about at most MaxAsks       *)
(* conflicts and after which it ends.  How a conflict question travels     *)
(* through the shared modal is the subject of ConflictFlow.                *)
(***************************************************************************)
EXTENDS Naturals, Sequences, FiniteSets

CONSTANTS MaxJobs,   \* bound: how many jobs are ever submitted
          Cap,       \* JobEngine::kMaxConcurrentJobs
          MaxAsks    \* bound: how many conflicts one job raises

ASSUME ConstantsAssumption ==
    /\ MaxJobs \in Nat
    /\ Cap \in Nat \ {0}
    /\ MaxAsks \in Nat

VARIABLES
    \* JobEngine
    nextId,         \* m_nextId
    entries,        \* the keys of m_entries
    quiet,          \* the jobs whose entry has quiet set
    finished,       \* the jobs whose entry has finished set
    queue,          \* m_queue
    running,        \* m_running
    thread,         \* what Entry::thread points to
    \* Job, shared between the worker and the GUI thread
    state,          \* m_state
    cancelled,      \* the jobs with m_cancelled set
    answered,       \* the jobs whose conflict channel holds an answer
    asks,           \* how many conflicts the job has raised
    \* between the threads
    events,         \* signals posted to the GUI thread, oldest first
    open,           \* the jobs whose conflict question has reached the GUI
    \* ProcessBar
    items,          \* the keys of m_items
    quietJobs,      \* m_quietJobs
    quietFinished,  \* m_quietFinished
    appear,         \* m_appearTimer is active
    linger,         \* m_lingerTimer is active
    barUp,          \* the main window shows the bar
    \* history
    reports         \* how often jobFinished was emitted for the job

engineVars == <<nextId, entries, quiet, finished, queue, running, thread>>
workerVars == <<state, cancelled, answered, asks>>
barVars    == <<items, quietJobs, quietFinished, appear, linger, barUp>>
vars       == <<engineVars, workerVars, events, open, barVars, reports>>

Jobs == 1..MaxJobs

State == {"Pending", "Enumerating", "Running",
          "AwaitingConflictResolution", "Finished"}

(* null: no thread yet, or one that has deleted itself (a QPointer reads   *)
(* null then).  up: started.  quitting: quit() was called.                 *)
Thread == {"null", "up", "quitting"}

Event == [job : Jobs, kind : {"conflict", "finished"}]

TypeOK ==
    /\ nextId \in 1..(MaxJobs + 1)
    /\ entries \subseteq Jobs
    /\ quiet \subseteq Jobs
    /\ finished \subseteq Jobs
    /\ queue \in Seq(Jobs)
    /\ running \subseteq Jobs
    /\ thread \in [Jobs -> Thread]
    /\ state \in [Jobs -> State]
    /\ cancelled \subseteq Jobs
    /\ answered \subseteq Jobs
    /\ asks \in [Jobs -> 0..MaxAsks]
    /\ events \in Seq(Event)
    /\ open \subseteq Jobs
    /\ items \subseteq Jobs
    /\ quietJobs \subseteq Jobs
    /\ quietFinished \subseteq Jobs
    /\ appear \in BOOLEAN
    /\ linger \in BOOLEAN
    /\ barUp \in BOOLEAN
    /\ reports \in [Jobs -> Nat]

Init ==
    /\ nextId = 1
    /\ entries = {}
    /\ quiet = {}
    /\ finished = {}
    /\ queue = <<>>
    /\ running = {}
    /\ thread = [j \in Jobs |-> "null"]
    /\ state = [j \in Jobs |-> "Pending"]
    /\ cancelled = {}
    /\ answered = {}
    /\ asks = [j \in Jobs |-> 0]
    /\ events = <<>>
    /\ open = {}
    /\ items = {}
    /\ quietJobs = {}
    /\ quietFinished = {}
    /\ appear = FALSE
    /\ linger = FALSE
    /\ barUp = FALSE
    /\ reports = [j \in Jobs |-> 0]

-----------------------------------------------------------------------------
(* Helpers *)

Members(q) == {q[i] : i \in 1..Len(q)}

CutAt(q, i) == [k \in 1..(Len(q) - 1) |-> IF k < i THEN q[k] ELSE q[k + 1]]

(* JobEngine::visibleCount, as the set that it counts: running and queued  *)
(* jobs, except those that have an entry and are quiet.                    *)
Visible(q, run) == (Members(q) \cup run) \ (entries \cap quiet)

(* A slip: one job too many is let in.                                     *)
StartNextOneMore(q, run, ents, thr) ==
    \E n \in 0..Len(q) :
        LET started == {q[i] : i \in 1..n} \cap ents
        IN  /\ Cardinality(run \cup started) <= Cap + 1
            /\ n = Len(q) \/ Cardinality(run \cup started) = Cap + 1
            /\ queue' = SubSeq(q, n + 1, Len(q))
            /\ running' = run \cup started
            /\ thread' = [j \in Jobs |-> IF j \in started THEN "up" ELSE thr[j]]

(* JobEngine::startNext with queue q, running jobs run, entries ents and   *)
(* threads thr: jobs are taken from the front until Cap of them run or the *)
(* queue is empty; an id whose entry is gone is dropped.                   *)
StartNext(q, run, ents, thr) ==
    \E n \in 0..Len(q) :
        LET started == {q[i] : i \in 1..n} \cap ents
        IN  /\ Cardinality(run \cup started) <= Cap
            /\ n = Len(q) \/ Cardinality(run \cup started) = Cap
            /\ queue' = SubSeq(q, n + 1, Len(q))
            /\ running' = run \cup started
            /\ thread' = [j \in Jobs |-> IF j \in started THEN "up" ELSE thr[j]]

(* A slip: every finish stops the appear timer, not only the last one.     *)
EmitFinishedStopsAppear(js, q, run) ==
    /\ reports' = [j \in Jobs |-> IF j \in js THEN reports[j] + 1 ELSE reports[j]]
    /\ quietFinished' = quietFinished \cup (js \cap quietJobs)
    /\ appear' = FALSE
    /\ linger' = (linger \/ Visible(q, run) = {})
    /\ UNCHANGED <<items, quietJobs, barUp>>

(* A slip: the appear timer is stopped but the linger timer not started.   *)
EmitFinishedNoLinger(js, q, run) ==
    /\ reports' = [j \in Jobs |-> IF j \in js THEN reports[j] + 1 ELSE reports[j]]
    /\ quietFinished' = quietFinished \cup (js \cap quietJobs)
    /\ appear' = (appear /\ Visible(q, run) # {})
    /\ UNCHANGED <<linger, items, quietJobs, barUp>>

(* The engine emits jobFinished for the jobs js while its queue is q and   *)
(* its running jobs are run: ProcessBar::onFinished notes the quiet ones   *)
(* and, when nothing visible is left, swaps the appear timer for the       *)
(* linger timer.                                                           *)
EmitFinished(js, q, run) ==
    /\ reports' = [j \in Jobs |-> IF j \in js THEN reports[j] + 1 ELSE reports[j]]
    /\ quietFinished' = quietFinished \cup (js \cap quietJobs)
    /\ IF Visible(q, run) = {}
       THEN appear' = FALSE /\ linger' = TRUE
       ELSE UNCHANGED <<appear, linger>>
    /\ UNCHANGED <<items, quietJobs, barUp>>

-----------------------------------------------------------------------------
(* GUI thread: calls on the engine *)

(* submit with ProcessBar::onSubmitted, which runs inside it. *)
Submit(isQuiet) ==
    /\ nextId \in Jobs
    /\ nextId' = nextId + 1
    /\ entries' = entries \cup {nextId}
    /\ quiet' = IF isQuiet THEN quiet \cup {nextId} ELSE quiet
    /\ IF isQuiet
       THEN /\ quietJobs' = quietJobs \cup {nextId}
            /\ UNCHANGED <<items, appear, linger>>
       ELSE /\ items' = items \cup {nextId}
            /\ linger' = FALSE
            /\ appear' = TRUE
            /\ UNCHANGED quietJobs
    /\ StartNext(Append(queue, nextId), running, entries', thread)
    /\ UNCHANGED <<finished, workerVars, events, open, quietFinished, barUp, reports>>

(* A slip: the job is reported as cancelled but stays in the queue. *)
CancelQueuedKeeps(j) ==
    /\ j \in entries \cap Members(queue)
    /\ finished' = finished \cup {j}
    /\ EmitFinished({j}, queue, running)
    /\ UNCHANGED <<nextId, entries, quiet, queue, running, thread, workerVars, events, open>>

(* cancel of a job that still waits in the queue. *)
CancelQueued(j) ==
    /\ j \in entries
    /\ \E i \in 1..Len(queue) :
        /\ queue[i] = j
        /\ queue' = CutAt(queue, i)
    /\ finished' = finished \cup {j}
    /\ EmitFinished({j}, queue', running)
    /\ UNCHANGED <<nextId, entries, quiet, running, thread, workerVars, events, open>>

(* cancel of any other job: the flag is set and the worker sees it later. *)
CancelStarted(j) ==
    /\ j \in entries \ Members(queue)
    /\ cancelled' = cancelled \cup {j}
    /\ UNCHANGED <<engineVars, state, answered, asks, events, open, barVars, reports>>

(* cancelAll: cancel() for every entry, so the whole queue goes at once. *)
CancelAll ==
    /\ entries # {}
    /\ queue' = <<>>
    /\ finished' = finished \cup Members(queue)
    /\ cancelled' = cancelled \cup (entries \ Members(queue))
    /\ IF queue = <<>>
       THEN UNCHANGED <<barVars, reports>>
       ELSE EmitFinished(Members(queue), <<>>, running)
    /\ UNCHANGED <<nextId, entries, quiet, running, thread, state, answered, asks,
                   events, open>>

(* The user answers a question that is on screen: resolveConflict. *)
ResolveConflict(j) ==
    /\ j \in open
    /\ open' = open \ {j}
    /\ answered' = answered \cup {j}
    /\ UNCHANGED <<engineVars, state, cancelled, asks, events, barVars, reports>>

-----------------------------------------------------------------------------
(* GUI thread: its event queue and the bar's timers *)

DeliverConflict ==
    /\ events # <<>>
    /\ Head(events).kind = "conflict"
    /\ events' = Tail(events)
    /\ open' = open \cup {Head(events).job}
    /\ UNCHANGED <<engineVars, workerVars, barVars, reports>>

(* A slip: the freed slot is not handed on. *)
DeliverFinishedOnly ==
    /\ events # <<>>
    /\ Head(events).kind = "finished"
    /\ events' = Tail(events)
    /\ LET j == Head(events).job
       IN  /\ finished' = finished \cup ({j} \cap entries)
           /\ EmitFinished({j}, queue, running \ {j})
           /\ running' = running \ {j}
           /\ thread' = [thread EXCEPT ![j] = IF @ = "null" THEN @ ELSE "quitting"]
    /\ UNCHANGED <<nextId, entries, quiet, queue, workerVars, open>>

(* onJobFinished: note the end, free the slot, tell the bar, then start    *)
(* whatever waited.                                                        *)
DeliverFinished ==
    /\ events # <<>>
    /\ Head(events).kind = "finished"
    /\ events' = Tail(events)
    /\ LET j == Head(events).job
           known == {j} \cap entries
           thr == [i \in Jobs |-> IF i \in known /\ thread[i] # "null"
                                  THEN "quitting" ELSE thread[i]]
       IN  /\ finished' = finished \cup known
           /\ EmitFinished({j}, queue, running \ {j})
           /\ StartNext(queue, running \ {j}, entries, thr)
    /\ UNCHANGED <<nextId, entries, quiet, workerVars, open>>

AppearTimeout ==
    /\ appear
    /\ appear' = FALSE
    /\ barUp' = (barUp \/ Visible(queue, running) # {})
    /\ UNCHANGED <<engineVars, workerVars, events, open, items, quietJobs,
                   quietFinished, linger, reports>>

(* A slip: the quiet jobs are forgotten whether they ended or not. *)
LingerTimeoutForgetsAll ==
    /\ linger
    /\ linger' = FALSE
    /\ IF Visible(queue, running) = {}
       THEN /\ entries' = entries \ (items \cup quietJobs)
            /\ quietJobs' = {}
            /\ quietFinished' = {}
            /\ items' = {}
            /\ barUp' = FALSE
       ELSE UNCHANGED <<entries, quietJobs, quietFinished, items, barUp>>
    /\ UNCHANGED <<nextId, quiet, finished, queue, running, thread, workerVars,
                   events, open, appear, reports>>

(* The bar forgets every job it lists and every quiet one that ended, and  *)
(* goes away.  forget() waits at most five seconds for the thread, then    *)
(* destroys the job whether or not the thread has ended.                   *)
LingerTimeout ==
    /\ linger
    /\ linger' = FALSE
    /\ IF Visible(queue, running) = {}
       THEN /\ entries' = entries \ (items \cup quietFinished)
            /\ quietJobs' = quietJobs \ quietFinished
            /\ quietFinished' = {}
            /\ items' = {}
            /\ barUp' = FALSE
       ELSE UNCHANGED <<entries, quietJobs, quietFinished, items, barUp>>
    /\ UNCHANGED <<nextId, quiet, finished, queue, running, thread, workerVars,
                   events, open, appear, reports>>

-----------------------------------------------------------------------------
(* Worker threads: Job::run *)

StartWorker(j) ==
    /\ thread[j] = "up"
    /\ state[j] = "Pending"
    /\ state' = [state EXCEPT ![j] = "Enumerating"]
    /\ UNCHANGED <<engineVars, cancelled, answered, asks, events, open, barVars, reports>>

(* run() ends: the state is stored and the finished signal is posted. *)
Finish(j) ==
    /\ state' = [state EXCEPT ![j] = "Finished"]
    /\ events' = Append(events, [job |-> j, kind |-> "finished"])
    /\ UNCHANGED <<engineVars, cancelled, answered, asks, open, barVars, reports>>

(* enumerate() failed, or the job was cancelled in the meantime. *)
EnumerateStops(j) ==
    /\ state[j] = "Enumerating"
    /\ Finish(j)

EnumerateProceeds(j) ==
    /\ state[j] = "Enumerating"
    /\ j \notin cancelled
    /\ state' = [state EXCEPT ![j] = "Running"]
    /\ UNCHANGED <<engineVars, cancelled, answered, asks, events, open, barVars, reports>>

(* askAboutConflict up to the wait: the channel is cleared, then the       *)
(* question is posted.                                                     *)
AskConflict(j) ==
    /\ state[j] = "Running"
    /\ asks[j] < MaxAsks
    /\ asks' = [asks EXCEPT ![j] = @ + 1]
    /\ state' = [state EXCEPT ![j] = "AwaitingConflictResolution"]
    /\ answered' = answered \ {j}
    /\ events' = Append(events, [job |-> j, kind |-> "conflict"])
    /\ UNCHANGED <<engineVars, cancelled, open, barVars, reports>>

(* The wait ends with an answer; the answer Cancel cancels the job. *)
TakeAnswer(j, isCancel) ==
    /\ state[j] = "AwaitingConflictResolution"
    /\ j \in answered
    /\ state' = [state EXCEPT ![j] = "Running"]
    /\ cancelled' = IF isCancel THEN cancelled \cup {j} ELSE cancelled
    /\ UNCHANGED <<engineVars, answered, asks, events, open, barVars, reports>>

(* A slip: an unbounded wait on the condition never looks at the flag. *)
NoticeCancelNever(j) ==
    /\ FALSE
    /\ state[j] = "AwaitingConflictResolution"
    /\ UNCHANGED vars

(* The wait, which wakes up every 100 ms, sees the cancelled flag. *)
NoticeCancel(j) ==
    /\ state[j] = "AwaitingConflictResolution"
    /\ j \notin answered
    /\ j \in cancelled
    /\ state' = [state EXCEPT ![j] = "Running"]
    /\ UNCHANGED <<engineVars, cancelled, answered, asks, events, open, barVars, reports>>

ExecuteEnds(j) ==
    /\ state[j] = "Running"
    /\ Finish(j)

(* A slip: the entry holds a raw pointer, which outlives the thread object. *)
ThreadGoneRaw(j) ==
    /\ thread[j] = "quitting"
    /\ state[j] = "Finished"
    /\ thread' = [thread EXCEPT ![j] = "dangling"]
    /\ UNCHANGED <<nextId, entries, quiet, finished, queue, running, workerVars,
                   events, open, barVars, reports>>

(* The thread's event loop, told to quit, ends once run() has returned;    *)
(* the thread object then deletes itself.                                  *)
ThreadGone(j) ==
    /\ thread[j] = "quitting"
    /\ state[j] = "Finished"
    /\ thread' = [thread EXCEPT ![j] = "null"]
    /\ UNCHANGED <<nextId, entries, quiet, finished, queue, running, workerVars,
                   events, open, barVars, reports>>

-----------------------------------------------------------------------------
Worker(j) ==
    \/ StartWorker(j)
    \/ EnumerateStops(j)
    \/ EnumerateProceeds(j)
    \/ TakeAnswer(j, TRUE) \/ TakeAnswer(j, FALSE)
    \/ NoticeCancel(j)
    \/ ExecuteEnds(j)

EventLoop == DeliverConflict \/ DeliverFinished

Next ==
    \/ \E isQuiet \in BOOLEAN : Submit(isQuiet)
    \/ \E j \in Jobs : CancelQueued(j) \/ CancelStarted(j) \/ ResolveConflict(j)
    \/ CancelAll
    \/ EventLoop
    \/ AppearTimeout
    \/ LingerTimeout
    \/ \E j \in Jobs : Worker(j) \/ AskConflict(j) \/ ThreadGone(j)

Spec == Init /\ [][Next]_vars

(* The GUI thread keeps taking events and its timers fire; a worker that   *)
(* can go on does, and execute() returns.  Nothing is assumed of the user: *)
(* no job need be submitted, cancelled or answered, and a job need not     *)
(* raise a conflict.                                                       *)
Fairness ==
    /\ WF_vars(EventLoop)
    /\ WF_vars(AppearTimeout)
    /\ WF_vars(LingerTimeout)
    /\ \A j \in Jobs : WF_vars(Worker(j)) /\ WF_vars(ThreadGone(j))

FairSpec == Spec /\ Fairness

-----------------------------------------------------------------------------
(* Properties *)

InRun == {"Enumerating", "Running", "AwaitingConflictResolution"}

(* However starts, ends, cancels and late signals interleave, no more than *)
(* Cap workers are inside Job::run at once.                                *)
WorkersBounded == Cardinality({j \in Jobs : state[j] \in InRun}) <= Cap

(* A job is never destroyed while its worker is inside run(): whatever the *)
(* linger timer forgets has ended (JobEngine::forget erases the entry even *)
(* when its five second wait for the thread times out).                    *)
NoWorkerWithoutJob == \A j \in Jobs : state[j] \in InRun => j \in entries

(* jobFinished is emitted at most once for a job, and never left out: a    *)
(* job that is forgotten or that nobody will run any more was reported.    *)
ReportedOnce ==
    \A j \in Jobs :
        /\ reports[j] <= 1
        /\ j < nextId /\ j \notin entries => reports[j] = 1
        /\ j \in entries => (j \in finished <=> reports[j] = 1)
        /\ j \in entries \ finished => j \in Members(queue) \cup running

(* While a visible job is queued or running, the bar is on screen or the   *)
(* timer that will put it there is armed.                                  *)
BarShowsWork == Visible(queue, running) # {} => barUp \/ appear

(* Once nothing visible is left, whatever is still listed, remembered or   *)
(* on screen is cleared by a timer that is armed.                          *)
IdleBarIsReaped ==
    Visible(queue, running) = {} /\ (barUp \/ items # {} \/ quietFinished # {})
        => linger

(* Once a job has been reported as finished its worker does nothing more:  *)
(* a job cancelled in the queue is never started, and a report is not      *)
(* premature.                                                              *)
ReportIsFinal ==
    [][\A j \in Jobs : reports[j] > 0 => state'[j] = state[j]]_vars

(* How far each job has got, as JobLifecycle sees it.                      *)
Status == [j \in Jobs |->
    CASE j >= nextId -> "none"
      [] j < nextId /\ j \in Members(queue) -> "waiting"
      [] j < nextId /\ j \in running \ Members(queue) -> "active"
      [] OTHER -> "done"]

Lifecycle == INSTANCE JobLifecycle WITH
    Jobs <- Jobs,
    Cap <- Cap,
    status <- Status

(* The engine keeps the promises of JobLifecycle: bounded, work conserving *)
(* and first in, first out, with no job going backwards.                   *)
ImplementsLifecycle == Lifecycle!Spec

Awaiting(js) == {j \in js : state[j] = "AwaitingConflictResolution"}

(* A cancelled job ends and is reported, even if it is waiting for the     *)
(* answer to a question the user never answers.                            *)
CancelIsObeyed == \A j \in Jobs : (j \in cancelled) ~> (reports[j] = 1)

(* A queued job gets its turn, unless every slot ends up held by a job     *)
(* that waits for the user.                                                *)
QueueMoves ==
    \A j \in Jobs :
        (j \in Members(queue)) ~>
            (j \notin Members(queue) \/ Cardinality(Awaiting(running)) = Cap)

(* The bar does not stay up for ever: it goes away unless a job that holds *)
(* a slot waits for the user.                                              *)
BarGoesAway == barUp ~> (~barUp \/ Awaiting(running) # {})
=============================================================================
