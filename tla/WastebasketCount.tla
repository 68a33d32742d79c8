-------------------------- MODULE WastebasketCount --------------------------
(* The count and size beside the wastebasket (ui/Sidebar.cpp): a watch, a    *)
(* timer that waits for a lull, a walk on a worker of its own, and a result  *)
(* that counts only if no later walk was asked for.                          *)
EXTENDS Naturals, Sequences

CONSTANTS MaxChanges    \* bound on the changes to the wastebasket

VARIABLES
    content,        \* what the wastebasket holds, as a version
    notified,       \* a notification of a change is on its way
    timer,          \* the timer is running
    generation,     \* m_trashSummaryGeneration
    queue,          \* walks the pool has not begun
    walking,        \* the walk under way: <<>> or [generation, counted]
    posts,          \* results on their way to the main thread
    summary         \* m_trashSummary: the versions counted and sized

vars == <<content, notified, timer, generation, queue, walking, posts, summary>>

(* Watching starts with a first walk. *)
Init ==
    /\ content = 0
    /\ notified = FALSE
    /\ timer = FALSE
    /\ generation = 1
    /\ queue = <<1>>
    /\ walking = <<>>
    /\ posts = <<>>
    /\ summary = <<>>

Change ==
    /\ content < MaxChanges
    /\ content' = content + 1
    /\ notified' = TRUE
    /\ UNCHANGED <<timer, generation, queue, walking, posts, summary>>

(* directoryChanged: the timer starts anew. *)
DirectoryChanged ==
    /\ notified
    /\ notified' = FALSE
    /\ timer' = TRUE
    /\ UNCHANGED <<content, generation, queue, walking, posts, summary>>

(* refreshTrashSummary() *)
RefreshTrashSummary ==
    /\ timer
    /\ timer' = FALSE
    /\ generation' = generation + 1
    /\ queue' = Append(queue, generation + 1)
    /\ UNCHANGED <<content, notified, walking, posts, summary>>

(* The walk: first the entries are listed, then each is gone into. *)
ListEntries ==
    /\ queue # <<>> /\ walking = <<>>
    /\ walking' = <<Head(queue), content>>
    /\ queue' = Tail(queue)
    /\ UNCHANGED <<content, notified, timer, generation, posts, summary>>

SizeEntries ==
    /\ walking # <<>>
    /\ posts' = Append(posts, <<walking[1], <<walking[2], content>> >>)
    /\ walking' = <<>>
    /\ UNCHANGED <<content, notified, timer, generation, queue, summary>>

ApplySummary ==
    /\ posts # <<>>
    /\ posts' = Tail(posts)
    /\ summary' = IF Head(posts)[1] = generation THEN Head(posts)[2] ELSE summary
    /\ UNCHANGED <<content, notified, timer, generation, queue, walking>>

Next ==
    \/ Change \/ DirectoryChanged \/ RefreshTrashSummary
    \/ ListEntries \/ SizeEntries \/ ApplySummary

Spec == Init /\ [][Next]_vars

-----------------------------------------------------------------------------
(* Once nothing is under way, what stands beside the wastebasket is the      *)
(* count and the size of what it holds now, though it may have changed under *)
(* every walk.                                                               *)
SummaryIsCurrent ==
    (~notified /\ ~timer /\ queue = <<>> /\ walking = <<>> /\ posts = <<>>) =>
        summary = <<content, content>>
=============================================================================
