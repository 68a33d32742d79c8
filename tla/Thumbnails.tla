----------------------------- MODULE Thumbnails ------------------------------
(***************************************************************************)
(* The thumbnails of one file: requests and their cancellation, workers    *)
(* that decode, store and report, the answers queued for the GUI thread,   *)
(* three caches (memory, disk, failure markers) and a file that changes    *)
(* meanwhile.                                                              *)
(***************************************************************************)
EXTENDS Integers, SequencesExt

CONSTANTS
    MaxRequests,   \* bound: how many tasks are started
    MaxEdits       \* bound: how often the file changes

Sizes == {"normal", "large"}
None == [of |-> -1, mtime |-> -1]      \* no picture
Tasks == 1 .. MaxRequests

VARIABLES
    file,          \* the version the file holds, and its modification time
    now,           \* the clock; it counts the edits it could tell apart
    memory,        \* per size, the picture's version and the time it is kept under
    disk,          \* per size, the same of the shared cache
    marker,        \* when the failure was recorded, and of which version
    pending,       \* the size asked for last and the flag of its task, or nothing
    task,          \* per task: size, mode, stage, picture, whether it is cancelled
    started,       \* how many tasks there have been
    posts,         \* the reports queued for the GUI thread
    noPlugin,      \* the video plugin is known to be missing
    blurred        \* an edit the modification times cannot tell: see Edit

caches == <<memory, disk, marker>>
work == <<pending, task, started>>
vars == <<file, now, caches, work, posts, noPlugin, blurred>>

NoRequest == [size |-> "none", id |-> 0]
NoTask == [size |-> "none", mode |-> "none", stage |-> "none", of |-> -1, cancelled |-> FALSE]

Versions == 0 .. MaxEdits
Pictures == [of : Versions \cup {-1}, mtime : Versions \cup {-1}]
Outcomes == {"generated", "failed", "unavailable"}
TaskStates == [size : Sizes \cup {"none"}, mode : {"none", "video", "external"},
               stage : {"none", "queued", "decoded", "stored", "over"},
               of : Versions \cup {-1}, cancelled : BOOLEAN]
Reports == [id : Tasks, size : Sizes, outcome : Outcomes]

TypeOK ==
    /\ file \in [of : Versions, mtime : Versions]
    /\ now \in 0 .. file.of
    /\ memory \in [Sizes -> Pictures] /\ disk \in [Sizes -> Pictures]
    /\ marker \in [of : Versions \cup {-1}, time : Versions \cup {-1}]
    /\ pending \in [size : Sizes \cup {"none"}, id : 0 .. MaxRequests]
    /\ task \in [Tasks -> TaskStates]
    /\ started \in 0 .. MaxRequests
    /\ posts \in Seq(Reports)
    /\ noPlugin \in BOOLEAN /\ blurred \in BOOLEAN

Init ==
    /\ file = [of |-> 0, mtime |-> 0]
    /\ now = 0
    /\ memory = [s \in Sizes |-> None] /\ disk = [s \in Sizes |-> None]
    /\ marker = [of |-> -1, time |-> -1]
    /\ pending = NoRequest
    /\ task = [id \in Tasks |-> NoTask]
    /\ started = 0
    /\ posts = <<>>
    /\ noPlugin = FALSE
    /\ blurred = FALSE

(* Binding as long as the file is not newer. *)
HasFailed == marker.time >= file.mtime

(* A picture on disk counts because it is there. *)
OnDiskSlip(size) == disk[size] # None

(* A picture counts when its time matches the file's: no more than that. *)
InMemory(size) == memory[size] # None /\ memory[size].mtime = file.mtime
OnDisk(size) == disk[size] # None /\ disk[size].mtime = file.mtime

(* Finding it on disk brings it to memory; finding it stale drops it. *)
Lookup(size) ==
    memory' = [memory EXCEPT ![size] =
                  IF InMemory(size) THEN @ ELSE IF OnDisk(size) THEN disk[size] ELSE None]

Found(size) == InMemory(size) \/ OnDisk(size)

(* A video goes to the plugin until that is known to be missing. *)
KindFor == IF noPlugin' THEN "external" ELSE "video"

Cancelled(tasks) ==
    IF pending.id = 0 THEN tasks ELSE [tasks EXCEPT ![pending.id].cancelled = TRUE]

(* What request() does once nothing is pending, given the other tasks. *)
Begin(size, tasks) ==
    IF HasFailed
    THEN pending' = NoRequest /\ task' = tasks /\ UNCHANGED <<started, memory>>
    ELSE /\ Lookup(size)
         /\ IF Found(size)
            THEN pending' = NoRequest /\ task' = tasks /\ started' = started
            ELSE /\ started < MaxRequests
                 /\ started' = started + 1
                 /\ pending' = [size |-> size, id |-> started + 1]
                 /\ task' = [tasks EXCEPT ![started + 1] =
                                [NoTask EXCEPT !.size = size, !.mode = KindFor, !.stage = "queued"]]

Request(size) ==
    /\ noPlugin' = noPlugin
    /\ pending.size # size
    /\ Begin(size, Cancelled(task))
    /\ UNCHANGED <<file, now, disk, marker, posts, blurred>>

(* A row that scrolled away, a panel that left, a cache that was turned off. *)
Cancel ==
    /\ pending # NoRequest
    /\ pending' = NoRequest
    /\ task' = Cancelled(task)
    /\ UNCHANGED <<file, now, caches, started, posts, noPlugin, blurred>>

(* The worker reports a failure unless its request was cancelled by then. *)
Report(id, outcome) ==
    posts' = IF task[id].cancelled THEN posts
             ELSE Append(posts, [id |-> id, size |-> task[id].size, outcome |-> outcome])

Over(id) == task' = [task EXCEPT ![id].stage = "over"]

Decoded(id) ==
    /\ task' = [task EXCEPT ![id].stage = "decoded", ![id].of = file.of]
    /\ posts' = posts

Fails(id, outcome) ==
    /\ task' = [task EXCEPT ![id].stage = "over", ![id].of = file.of]
    /\ Report(id, outcome)

Run(id) ==
    /\ task[id].stage = "queued" /\ task[id].mode = "video"
    /\ \/ task[id].cancelled /\ Over(id) /\ posts' = posts
       \/ ~task[id].cancelled /\ Decoded(id)
       \/ ~task[id].cancelled /\ \E outcome \in {"failed", "unavailable"} : Fails(id, outcome)
    /\ UNCHANGED <<file, now, caches, pending, started, noPlugin, blurred>>

(* Another program makes the picture; it is killed when nobody wants it any *)
(* more, or after ten seconds.                                              *)
RunExternal(id) ==
    /\ task[id].stage = "queued" /\ task[id].mode = "external"
    /\ Fails(id, "failed") \/ (~task[id].cancelled /\ Decoded(id))
    /\ UNCHANGED <<file, now, caches, pending, started, noPlugin, blurred>>

(* The modification time is read here, after the picture was made. *)
Store(id) ==
    /\ task[id].stage = "decoded"
    /\ IF task[id].cancelled
       THEN Over(id) /\ disk' = disk
       ELSE /\ task' = [task EXCEPT ![id].stage = "stored"]
            /\ disk' = [disk EXCEPT ![task[id].size] = [of |-> task[id].of, mtime |-> file.mtime]]
    /\ UNCHANGED <<file, now, memory, marker, pending, started, posts, noPlugin, blurred>>

Finish(id) ==
    /\ task[id].stage = "stored"
    /\ Over(id)
    /\ Report(id, "generated")
    /\ UNCHANGED <<file, now, caches, pending, started, noPlugin, blurred>>

(* remember(): the time is read again, now that the picture arrives. *)
Remember(post) ==
    memory' = [memory EXCEPT ![post.size] = [of |-> task[post.id].of, mtime |-> file.mtime]]

WriteFailMarker(post) == marker' = [of |-> task[post.id].of, time |-> now]

(* On the GUI thread. Nobody asks again whether the request was cancelled, *)
(* and the entry that is removed may be a later request's.                 *)
Deliver ==
    /\ posts # <<>>
    /\ posts' = Tail(posts)
    /\ LET post == Head(posts) IN
       /\ noPlugin' = (noPlugin \/ post.outcome = "unavailable")
       /\ \/ /\ post.outcome = "generated"
             /\ Remember(post)
             /\ pending' = NoRequest
             /\ UNCHANGED <<task, started, marker>>
          \/ /\ post.outcome = "failed"
             /\ WriteFailMarker(post)
             /\ pending' = NoRequest
             /\ UNCHANGED <<task, started, memory>>
          \/ /\ post.outcome = "unavailable"
             /\ Begin(post.size, task)
             /\ marker' = marker
    /\ UNCHANGED <<file, now, disk, blurred>>

(* The picture, or the failure, of a version is not yet stored and timed. *)
InFlight ==
    \/ \E id \in Tasks : task[id].stage \in {"decoded", "stored"}
    \/ posts # <<>>

(* The modification time says nothing of the edit: the clock did not tick, *)
(* or the time is read after the edit for a picture made before it.        *)
Edit ==
    /\ file.of < MaxEdits
    /\ \E tick \in BOOLEAN :
          /\ now' = IF tick THEN now + 1 ELSE now
          /\ file' = [of |-> file.of + 1, mtime |-> now']
          /\ blurred' = (blurred \/ ~tick \/ InFlight)
    /\ UNCHANGED <<caches, work, posts, noPlugin>>

(* The memory cache is full, and drops what was used longest ago. *)
Evict ==
    /\ \E size \in Sizes : memory[size] # None /\ memory' = [memory EXCEPT ![size] = None]
    /\ UNCHANGED <<file, now, disk, marker, work, posts, noPlugin, blurred>>

Next ==
    \/ \E size \in Sizes : Request(size)
    \/ Cancel
    \/ \E id \in Tasks : Run(id) \/ RunExternal(id) \/ Store(id) \/ Finish(id)
    \/ Deliver
    \/ Edit
    \/ Evict

Spec == Init /\ [][Next]_vars

-----------------------------------------------------------------------------
(* What a cache answers is of the version the file holds, and a failure    *)
(* binds no other version, whatever was cancelled, asked again, evicted or *)
(* edited; the edits that ThumbnailCache cannot see are told by blurred.   *)
PicturesAreCurrent ==
    blurred \/ /\ \A size \in Sizes : /\ InMemory(size) => memory[size].of = file.of
                                      /\ OnDisk(size) => disk[size].of = file.of
               /\ HasFailed => marker.of = file.of

(* A size that is waited for is being made: else request(), which asks      *)
(* nothing twice, would show the generic icon for good.                     *)
WaitingIsServed ==
    pending # NoRequest =>
        LET id == pending.id IN
        /\ task[id].size = pending.size /\ ~task[id].cancelled
        /\ \/ task[id].stage \in {"queued", "decoded", "stored"}
           \/ \E i \in DOMAIN posts : posts[i].id = id

(* What is pending and what is reported are tasks that were started, and   *)
(* one that was not has no size.                                           *)
TaskInv ==
    /\ pending # NoRequest => pending.size \in Sizes /\ pending.id \in 1 .. started
    /\ \A i \in DOMAIN posts : posts[i].id <= started
    /\ \A id \in Tasks : task[id].stage \in {"queued", "decoded", "stored"}
                            => id <= started /\ task[id].size \in Sizes

(* As long as the times tell the edits apart, a time is the version it     *)
(* stands for, and what is on its way is of the version the file holds.    *)
TimesInv ==
    \/ blurred
    \/ /\ file.mtime = file.of /\ now = file.of
       /\ \A size \in Sizes : /\ memory[size].of = memory[size].mtime
                              /\ disk[size].of = disk[size].mtime
       /\ marker.of = marker.time /\ marker.time <= now
       /\ \A id \in Tasks : task[id].stage \in {"decoded", "stored"} => task[id].of = file.of
       /\ \A i \in DOMAIN posts : task[posts[i].id].of = file.of
=============================================================================
