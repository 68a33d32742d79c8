-------------------------- MODULE DirectoryListing --------------------------
(***************************************************************************)
(* The listing of a panel: src/model/DirectoryModel.cpp with its scanner   *)
(* (src/fs/DirectoryScanner.cpp), the shared watchers                      *)
(* (src/fs/DirectoryWatcher.cpp) and the deletions that FileOperations     *)
(* announces to it.                                                        *)
(*                                                                         *)
(* A scanner thread reads the directory entry by entry while anybody may   *)
(* change it, and posts what it read to the GUI thread in batches.  The    *)
(* watcher reports changes after a delay, several at a time.  The GUI      *)
(* thread takes batches and deltas in any order between them.              *)
(*                                                                         *)
(* Every change of a directory stamps a fresh version on the file it       *)
(* touches, so a row can be told to be out of date.  Another panel shows   *)
(* the directories in Held throughout: their watchers outlive this panel's *)
(* stay.  A directory that goes away as a whole is left out.               *)
(***************************************************************************)
EXTENDS WatchDelta, FiniteSets, TLAPS

CONSTANTS Dirs,       \* the directories
          Held,       \* those another panel shows all the time
          BatchSize,  \* DirectoryScanner::kBatchSize
          MaxOps,     \* bound: how many changes are made
          MaxVisits,  \* bound: how often the panel is sent somewhere
          Lossy       \* those whose watch may lose events to a full queue

ListingAssumption ==
    /\ Held \subseteq Dirs
    /\ BatchSize \in Nat \ {0}
    /\ MaxOps \in Nat
    /\ MaxVisits \in Nat
    /\ Lossy \subseteq Dirs
    /\ "." \notin Names

VARIABLES
    \* the file system
    content,     \* the version of each name in each directory, 0 when absent
    ops,         \* how many changes have been made
    raw,         \* the events each directory's watcher has yet to report
    deleting,    \* the delete job that runs, if one does
    \* the scanner
    task,        \* the current scan as its worker sees it
    events,      \* what scans have posted to the GUI thread, oldest first
    \* the model
    path,        \* m_path
    rows,        \* m_entries, for each name the versions its rows show
    scanning,    \* m_scanning
    rescanning,  \* m_rescanning
    seen,        \* m_rescanSeen
    removals,    \* m_pendingRemovals
    deferred,    \* m_finishAfterRescan
    failed,      \* m_error is set
    watching,    \* refresh() has got as far as startWatching()
    conns,       \* connections from each directory's watcher to this model
    \* bound and history
    visits,      \* how often the panel was sent somewhere
    raced        \* names that changed, or were reported, at an awkward time

fsVars    == <<content, ops, raw>>
scanVars  == <<task, events>>
modelVars == <<path, rows, scanning, rescanning, seen, removals, deferred, failed>>
watchVars == <<watching, conns, visits>>
vars      == <<fsVars, deleting, scanVars, modelVars, watchVars, raced>>

Version == 0..(MaxOps + 1)

NoBatch == [n \in Names |-> 0]

NoTask == [runs |-> FALSE, todo |-> {}, batch |-> NoBatch]

NoDelete == [runs |-> FALSE, dir |-> CHOOSE d \in Dirs : TRUE, names |-> {}, todo |-> {}]

ScanEvent == [kind : {"entries", "finished", "failed"}, dir : Dirs,
              batch : [Names -> Version], live : BOOLEAN]

TypeOK ==
    /\ content \in [Dirs -> [Names -> Version]]
    /\ ops \in 0..MaxOps
    /\ raw \in [Dirs -> Seq(Event)]
    /\ deleting \in [runs : BOOLEAN, dir : Dirs, names : SUBSET Names, todo : SUBSET Names]
    /\ task \in [runs : BOOLEAN, todo : SUBSET Names, batch : [Names -> Version]]
    /\ events \in Seq(ScanEvent)
    /\ path \in Dirs
    /\ rows \in [Names -> Seq(Version \ {0})]
    /\ scanning \in BOOLEAN /\ rescanning \in BOOLEAN
    /\ failed \in BOOLEAN /\ watching \in BOOLEAN
    /\ seen \subseteq Names /\ removals \subseteq Names /\ deferred \subseteq Names
    /\ conns \in [Dirs -> Nat]
    /\ visits \in 0..MaxVisits
    /\ raced \subseteq Names

(* The panel has just been opened on some directory. *)
Init ==
    /\ content \in [Dirs -> [Names -> 0..1]]
    /\ ops = 0
    /\ raw = [d \in Dirs |-> <<>>]
    /\ deleting = NoDelete
    /\ path \in Dirs
    /\ rows = [n \in Names |-> <<>>]
    /\ scanning = TRUE
    /\ rescanning = FALSE
    /\ seen = {} /\ removals = {} /\ deferred = {}
    /\ failed = FALSE
    /\ watching = FALSE
    /\ conns = [d \in Dirs |-> 0]
    /\ task = [runs |-> TRUE, todo |-> Names, batch |-> NoBatch]
    /\ events = <<>>
    /\ visits = 0
    /\ raced = {}

-----------------------------------------------------------------------------
(* The file system: anybody, at any time *)

Watched(d) == d \in Held \/ (d = path /\ watching)

(* A change of directory d that stamps the names in changed and is         *)
(* reported as reports, unless the queue of the watch overflows.           *)
Change(d, new, changed, reports) ==
    /\ ops < MaxOps
    /\ ops' = ops + 1
    /\ content' = [content EXCEPT ![d] = new]
    /\ \E told \in {reports} \cup
                  (IF d \in Lossy THEN {<<[kind |-> "Overflow", name |-> "."]>>} ELSE {}) :
           raw' = [raw EXCEPT ![d] = IF Watched(d) THEN @ \o told ELSE @]
    /\ raced' = IF d = path /\ (scanning \/ ~watching) THEN raced \cup changed ELSE raced

Stamp == ops + 2

Create(d, n) ==
    /\ content[d][n] = 0
    /\ Change(d, [content[d] EXCEPT ![n] = Stamp], {n}, <<Report("Created", n)>>)
    /\ UNCHANGED <<deleting, scanVars, modelVars, watchVars>>

Modify(d, n) ==
    /\ content[d][n] # 0
    /\ Change(d, [content[d] EXCEPT ![n] = Stamp], {n}, <<Report("Modified", n)>>)
    /\ UNCHANGED <<deleting, scanVars, modelVars, watchVars>>

Delete(d, n) ==
    /\ content[d][n] # 0
    /\ Change(d, [content[d] EXCEPT ![n] = 0], {n}, <<Report("Deleted", n)>>)
    /\ UNCHANGED <<deleting, scanVars, modelVars, watchVars>>

Rename(d, n, m) ==
    /\ content[d][n] # 0 /\ n # m
    /\ Change(d, [content[d] EXCEPT ![n] = 0, ![m] = Stamp], {n, m},
              <<Report("MovedFrom", n), Report("MovedTo", m)>>)
    /\ UNCHANGED <<deleting, scanVars, modelVars, watchVars>>

(* The delete job tries one of its names, and removes it for good, moves   *)
(* it to the trash or fails.                                               *)
DeleteOne(n) ==
    /\ deleting.runs /\ n \in deleting.todo
    /\ deleting' = [deleting EXCEPT !.todo = @ \ {n}]
    /\ \/ /\ content[deleting.dir][n] # 0
          /\ \E kind \in {"Deleted", "MovedFrom"} :
                 Change(deleting.dir, [content[deleting.dir] EXCEPT ![n] = 0], {n},
                        <<Report(kind, n)>>)
       \/ UNCHANGED <<fsVars, raced>>
    /\ UNCHANGED <<scanVars, modelVars, watchVars>>

-----------------------------------------------------------------------------
(* The scanner's worker: ScanTask::run *)

InBatch(b) == {n \in Names : b[n] # 0}

Posted(kind, b) == [kind |-> kind, dir |-> path, batch |-> b, live |-> TRUE]

(* One entry is read; a full batch is posted. *)
ReadEntry(n) ==
    /\ task.runs /\ n \in task.todo
    /\ LET b == [task.batch EXCEPT ![n] = content[path][n]]
           full == Cardinality(InBatch(b)) >= BatchSize
       IN  /\ task' = [task EXCEPT !.todo = @ \ {n}, !.batch = IF full THEN NoBatch ELSE b]
           /\ events' = IF full THEN Append(events, Posted("entries", b)) ELSE events
    /\ UNCHANGED <<fsVars, deleting, modelVars, watchVars, raced>>

ReadEnds ==
    /\ task.runs /\ task.todo = {}
    /\ task' = NoTask
    /\ events' = events
           \o (IF InBatch(task.batch) = {} THEN <<>> ELSE <<Posted("entries", task.batch)>>)
           \o <<Posted("finished", NoBatch)>>
    /\ UNCHANGED <<fsVars, deleting, modelVars, watchVars, raced>>

(* opendir or readdir fails; what was read of the batch is dropped. *)
ReadFails ==
    /\ task.runs
    /\ task' = NoTask
    /\ events' = Append(events, Posted("failed", NoBatch))
    /\ UNCHANGED <<fsVars, deleting, modelVars, watchVars, raced>>

-----------------------------------------------------------------------------
(* Rows *)

(* refreshEntry: look the name up; a row is updated or appended. *)
RefreshRow(r, n) ==
    IF content[path][n] = 0 THEN r
    ELSE IF r = <<>> THEN <<content[path][n]>>
    ELSE [r EXCEPT ![1] = content[path][n]]

(* removeEntry: the first row of that name goes. *)
RemoveRow(r) == IF r = <<>> THEN r ELSE Tail(r)

(* releaseRemovals: names still pending are looked up again. *)
ReleaseRemovals(old, names) ==
    /\ removals' = removals \ names
    /\ rows' = [n \in Names |-> IF n \in names \cap removals THEN RefreshRow(old[n], n)
                                ELSE old[n]]

-----------------------------------------------------------------------------
(* GUI thread: navigation *)

(* The names in reports that are still to come. *)
Reported(log) == Names \cap {log[i].name : i \in 1..Len(log)}

(* What an earlier scan has posted is still delivered, and dead. *)
Superseded(es) == [i \in 1..Len(es) |-> [es[i] EXCEPT !.live = FALSE]]

(* DirectoryScanner::scan *)
StartScan ==
    /\ task' = [runs |-> TRUE, todo |-> Names, batch |-> NoBatch]
    /\ events' = Superseded(events)
    /\ scanning' = TRUE

(* setPath with refresh(), up to the start of the scan. *)
SetPath(d) ==
    /\ watching
    /\ visits < MaxVisits
    /\ visits' = visits + 1
    /\ path' = d
    /\ rows' = [n \in Names |-> <<>>]
    /\ rescanning' = FALSE
    /\ removals' = {} /\ deferred' = {}
    /\ failed' = FALSE
    /\ StartScan
    /\ watching' = FALSE
    \* the old watcher, held until startWatching, reports to nobody else
    /\ raw' = [x \in Dirs |-> IF x \in Held THEN raw[x] ELSE <<>>]
    /\ conns' = [x \in Dirs |-> IF x \in Held THEN conns[x] ELSE 0]
    /\ raced' = Reported(raw'[d])
    /\ UNCHANGED <<content, ops, deleting, seen>>

(* startWatching: the watcher of the path is acquired and connected.  A    *)
(* watcher kept alive elsewhere keeps the connections it has.              *)
StartWatching ==
    /\ ~watching
    /\ watching' = TRUE
    /\ conns' = [conns EXCEPT ![path] = @ + 1]
    /\ UNCHANGED <<fsVars, deleting, scanVars, modelVars, visits, raced>>

-----------------------------------------------------------------------------
(* GUI thread: what the scanner posted *)

(* A slip: a name that is being deleted is merged like any other. *)
MergeEntriesAll(b) ==
    /\ seen' = seen \cup InBatch(b)
    /\ rows' = [n \in Names |->
           IF n \notin InBatch(b) THEN rows[n]
           ELSE IF rows[n] = <<>> THEN <<b[n]>>
           ELSE [rows[n] EXCEPT ![Len(rows[n])] = b[n]]]

(* A slip: only names that had no row count as seen. *)
MergeEntriesSeesNew(b) ==
    /\ seen' = seen \cup {n \in InBatch(b) : rows[n] = <<>>}
    /\ rows' = [n \in Names |->
           IF n \notin InBatch(b) \ removals THEN rows[n]
           ELSE IF rows[n] = <<>> THEN <<b[n]>>
           ELSE [rows[n] EXCEPT ![Len(rows[n])] = b[n]]]

(* mergeEntries: rows are updated in place or added, unless being deleted. *)
MergeEntries(b) ==
    /\ seen' = seen \cup InBatch(b)
    /\ rows' = [n \in Names |->
           IF n \notin InBatch(b) \ removals THEN rows[n]
           ELSE IF rows[n] = <<>> THEN <<b[n]>>
           ELSE [rows[n] EXCEPT ![Len(rows[n])] = b[n]]]

(* onEntriesReady *)
EntriesReady(b) ==
    /\ IF rescanning THEN MergeEntries(b)
       ELSE /\ rows' = [n \in Names |-> IF b[n] = 0 THEN rows[n] ELSE Append(rows[n], b[n])]
            /\ seen' = seen
    /\ UNCHANGED <<scanning, rescanning, removals, deferred, failed>>

(* onScanFinished: a rescan drops the rows it has not seen and looks the   *)
(* deferred names up.                                                      *)
ScanFinished ==
    /\ scanning' = FALSE
    /\ rescanning' = FALSE
    /\ IF rescanning
       THEN /\ seen' = {}
            /\ deferred' = {}
            /\ ReleaseRemovals([n \in Names |-> IF n \in seen THEN rows[n] ELSE <<>>], deferred)
       ELSE UNCHANGED <<seen, deferred, removals, rows>>
    /\ UNCHANGED failed

(* onScanFailed *)
ScanFailed ==
    /\ scanning' = FALSE
    /\ rescanning' = FALSE
    /\ seen' = {}
    /\ deferred' = {}
    /\ failed' = TRUE
    /\ ReleaseRemovals(rows, deferred)

(* One posted event is taken; those of a superseded scan are ignored. *)
DeliverScan ==
    /\ watching
    /\ events # <<>>
    /\ events' = Tail(events)
    /\ LET e == Head(events)
       IN  IF ~e.live \/ e.dir # path
           THEN UNCHANGED <<rows, scanning, rescanning, seen, removals, deferred, failed>>
           ELSE \/ e.kind = "entries" /\ EntriesReady(e.batch)
                \/ e.kind = "finished" /\ ScanFinished
                \/ e.kind = "failed" /\ ScanFailed
    /\ UNCHANGED <<fsVars, deleting, task, path, watchVars, raced>>

-----------------------------------------------------------------------------
(* GUI thread: what the watcher reports *)

(* The rows after the lists of a delta have been gone through once. *)
AppliedOnce(old, delta) ==
    LET gone   == delta.deleted \cup {p[1] : p \in delta.renamed}
        lookUp == (delta.created \cup delta.modified \cup {p[2] : p \in delta.renamed})
                      \ removals
    IN  [n \in Names |-> IF n \in gone THEN RemoveRow(old[n])
                         ELSE IF n \in lookUp THEN RefreshRow(old[n], n)
                         ELSE old[n]]

Applied(delta, times) ==
    LET after[k \in 0..times] == IF k = 0 THEN rows ELSE AppliedOnce(after[k - 1], delta)
    IN  after[times]

(* A slip: any large burst of which no row shows a trace counts as echo. *)
IsEchoOfAnything(delta) == \A n \in delta.deleted : rows[n] = <<>>

(* A burst of nothing but deletions, and no row shows any of the names. *)
IsEcho(delta) == delta.deleted # {} /\ \A n \in delta.deleted : rows[n] = <<>>

(* rescan(): the rows stay, a new scan will confirm them. *)
Rescan ==
    /\ rescanning' = TRUE
    /\ seen' = {}
    /\ StartScan
    /\ UNCHANGED rows

(* applyDelta, called once for every connection of the watcher of d.       *)
ApplyDelta(d, delta) ==
    IF conns[d] = 0 \/ (delta.needsFullRescan /\ IsEcho(delta))
    THEN UNCHANGED <<rows, scanning, rescanning, seen, scanVars>>
    ELSE IF delta.needsFullRescan THEN Rescan
    ELSE /\ rows' = Applied(delta, conns[d])
         /\ UNCHANGED <<scanning, rescanning, seen, scanVars>>

(* Some time after the events were raised the debounce timer fires, with   *)
(* the first k of them at hand.                                            *)
Flush(d, k) ==
    /\ watching
    /\ LET log == SubSeq(raw[d], 1, k)
       IN  /\ ApplyDelta(d, Coalesce(log))
           /\ raced' = IF d = path THEN raced \cup Untold(log)
                       ELSE IF conns[d] > 0 THEN raced \cup Reported(log)
                       ELSE raced
    /\ raw' = [raw EXCEPT ![d] = SubSeq(@, k + 1, Len(@))]
    /\ UNCHANGED <<content, ops, deleting, path, removals, deferred, failed, watchVars>>

-----------------------------------------------------------------------------
(* GUI thread: deletions *)

(* The rows go before the files do, in one removal for each run of them. *)
ExpectRemoval(names) ==
    /\ removals' = removals \cup names
    /\ rows' = [n \in Names |-> IF n \in removals' THEN <<>> ELSE rows[n]]

(* startDelete: the rows go at once.  The names come from rows of this     *)
(* panel or from another panel on the same directory.                      *)
StartDelete(names) ==
    /\ watching /\ ~deleting.runs
    /\ \A n \in names : rows[n] # <<>> \/ (path \in Held /\ content[path][n] # 0)
    /\ deleting' = [runs |-> TRUE, dir |-> path, names |-> names, todo |-> names]
    /\ ExpectRemoval(names)
    /\ raced' = IF scanning /\ ~rescanning THEN raced \cup names ELSE raced
    /\ UNCHANGED <<fsVars, scanVars, path, scanning, rescanning, seen, deferred, failed,
                   watchVars>>

(* The end of the job, done or cancelled, reaches the panels that show the *)
(* directory: finishRemoval.                                               *)
EndDelete ==
    /\ watching /\ deleting.runs
    /\ deleting' = NoDelete
    /\ IF deleting.dir # path THEN UNCHANGED <<rows, removals, deferred>>
       ELSE IF rescanning
       THEN deferred' = deferred \cup deleting.names /\ UNCHANGED <<rows, removals>>
       ELSE ReleaseRemovals(rows, deleting.names) /\ UNCHANGED deferred
    /\ UNCHANGED <<fsVars, scanVars, path, scanning, rescanning, seen, failed, watchVars, raced>>

-----------------------------------------------------------------------------
Anybody ==
    \E d \in Dirs, n \in Names :
        \/ Create(d, n) \/ Modify(d, n) \/ Delete(d, n)
        \/ \E m \in Names : Rename(d, n, m)

Worker == ReadEnds \/ \E n \in Names : ReadEntry(n)

Timer == \E d \in Dirs : \E k \in 1..Len(raw[d]) : Flush(d, k)

Next ==
    \/ Anybody
    \/ \E n \in Names : DeleteOne(n)
    \/ Worker \/ ReadFails
    \/ \E d \in Dirs : SetPath(d)
    \/ StartWatching
    \/ DeliverScan
    \/ Timer
    \/ \E names \in SUBSET Names \ {{}} : StartDelete(names)
    \/ EndDelete

Spec == Init /\ [][Next]_vars

-----------------------------------------------------------------------------
(* Properties *)

(* Nothing is under way that could still change the rows. *)
Settled ==
    /\ watching /\ ~scanning
    /\ events = <<>> /\ raw[path] = <<>>
    /\ ~deleting.runs

Exact(n) == rows[n] = IF content[path][n] = 0 THEN <<>> ELSE <<content[path][n]>>

(* Once everything has settled, each name that did not change during a     *)
(* scan has exactly the row it should have, with the present version:      *)
(* through navigation, superseded scans, bursts, overflows, rescans and    *)
(* deletions that succeed or fail.                                         *)
SettledIsExact == Settled /\ ~failed => \A n \in Names \ raced : Exact(n)

(* The row of a file being deleted stays away until the job has ended,     *)
(* whatever a rescan or the watcher reports in the meantime.               *)
DeletedStayHidden == \A n \in removals \ raced : rows[n] = <<>>

(* No name is hidden for good: once no delete job of this directory runs,  *)
(* only names that the end of a rescan will release are still pending.     *)
RemovalsAreReleased ==
    /\ deferred # {} => rescanning
    /\ removals \subseteq
           deferred \cup (IF deleting.runs /\ deleting.dir = path THEN deleting.names ELSE {})

(* A row goes only when its file has gone, is being deleted or changed     *)
(* lately, that is during a scan or with reports outstanding: no scan,     *)
(* delta or rescan drops the row of a file that stayed where it was.       *)
RowsOfFilesStay ==
    path' = path /\ visits' = visits =>
        \A n \in Names : rows[n] # <<>> /\ rows'[n] = <<>> =>
            \/ content[path][n] # rows[n][1]
            \/ n \in removals' \cup raced' \cup Reported(raw[path])

(* While the model says it is scanning, a scan of its directory runs or    *)
(* its end is on its way: no navigation, burst or failure leaves the panel *)
(* waiting for a scan that nobody makes.                                   *)
ScansAreUnderWay ==
    scanning => \/ task.runs
                \/ \E i \in 1..Len(events) :
                       events[i].live /\ events[i].dir = path
                       /\ events[i].kind \in {"finished", "failed"}

-----------------------------------------------------------------------------
(* Proofs, for any directories, names, batches and bounds.                 *)
(*                                                                         *)
(* First, the rows after a delta has been applied by every connection.     *)

(* A delta is applied one connection after the other. *)
LEMMA AppliedSteps ==
    ASSUME NEW delta, NEW times \in Nat, NEW S, rows \in S,
           \A old \in S : AppliedOnce(old, delta) \in S
    PROVE  \E g : /\ g[0] = rows
                  /\ \A k \in 1..times : g[k] = AppliedOnce(g[k - 1], delta)
                  /\ Applied(delta, times) = g[times]
  <1> DEFINE Rec(g) == [k \in 0..times |-> IF k = 0 THEN rows ELSE AppliedOnce(g[k - 1], delta)]
             step == [k \in 1..times |-> [old \in S |-> AppliedOnce(old, delta)]]
             made == CHOOSE g : g = Rec(g)
  <1>1. step \in [1..times -> [S -> S]]
    OBVIOUS
  <1>2. PICK f : f \in [0..times -> S] /\ f[0] = rows /\ \A k \in 1..times : f[k] = step[k][f[k - 1]]
    <2> HIDE DEF step
    <2>1. \E f : Takes(f, S, times, rows, step)
      BY <1>1, StepsExist
    <2> QED BY <2>1 DEF Takes
  <1>3. f = Rec(f)
    <2>1. ASSUME NEW k \in 0..times
          PROVE  f[k] = IF k = 0 THEN rows ELSE AppliedOnce(f[k - 1], delta)
      <3>1. k = 0 \/ (k \in 1..times /\ k - 1 \in 0..times)
        OBVIOUS
      <3> QED BY <1>2, <3>1
    <2>2. f = [k \in 0..times |-> f[k]]
      BY <1>2
    <2> QED BY <2>1, <2>2
  <1>4. Applied(delta, times) = made[times]
    BY DEF Applied
  <1>5. made = Rec(made)
    BY <1>3
  <1> HIDE DEF made
  <1>6. /\ made[0] = rows
        /\ \A k \in 1..times : made[k] = AppliedOnce(made[k - 1], delta)
    BY <1>5
  <1> QED BY <1>4, <1>6

(* What each application keeps, all of them keep. *)
LEMMA AppliedEach ==
    ASSUME NEW delta, NEW times \in Nat, NEW S, rows \in S,
           \A old \in S : AppliedOnce(old, delta) \in S
    PROVE  Applied(delta, times) \in S
  <1>1. PICK g : /\ g[0] = rows
                 /\ \A k \in 1..times : g[k] = AppliedOnce(g[k - 1], delta)
                 /\ Applied(delta, times) = g[times]
    BY AppliedSteps
  <1> DEFINE Good == {k \in 0..times : g[k] \in S}
  <1>2. 0 \in Good /\ Good \in SUBSET Nat
    BY <1>1
  <1>3. \A k \in 1..times : k - 1 \in Good => k \in Good
    BY <1>1
  <1> HIDE DEF Good
  <1>4. times \in Good
    BY <1>2, <1>3, StepByStep
  <1> QED BY <1>1, <1>4 DEF Good

-----------------------------------------------------------------------------
(* Types *)

Row == Seq(Version \ {0})

(* Looking a name up leaves it a row if it had one. *)
LEMMA RowTypes ==
    ASSUME TypeOK, NEW n \in Names, NEW r \in Row
    PROVE  /\ RefreshRow(r, n) \in Row
           /\ r # <<>> => RefreshRow(r, n) # <<>>
           /\ RemoveRow(r) \in Row
           /\ r = <<>> => RemoveRow(r) = <<>>
  <1>1. content[path][n] \in Version
    BY DEF TypeOK
  <1>2. CASE r = <<>>
    <2>1. RemoveRow(r) = <<>>
      BY <1>2 DEF RemoveRow
    <2>2. <<>> \in Row
      BY DEF Row
    <2>3. content[path][n] # 0 => <<content[path][n]>> \in Row
      BY <1>1 DEF Row
    <2>4. RefreshRow(r, n) = IF content[path][n] = 0 THEN <<>> ELSE <<content[path][n]>>
      BY <1>2 DEF RefreshRow
    <2> QED BY <1>2, <2>1, <2>2, <2>3, <2>4
  <1>3. CASE r # <<>>
    <2>1. [r EXCEPT ![1] = content[path][n]] \in Row \/ content[path][n] = 0
      BY <1>1, <1>3 DEF Row
    <2>2. [r EXCEPT ![1] = content[path][n]] # <<>>
      <3>1. Len(r) \in Nat /\ Len(r) # 0 /\ DOMAIN r = 1..Len(r)
        BY <1>3 DEF Row
      <3>2. DOMAIN [r EXCEPT ![1] = content[path][n]] = 1..Len(r) /\ 1 \in 1..Len(r)
        BY <3>1
      <3> QED BY <3>2
    <2>3. Tail(r) \in Row
      BY <1>3 DEF Row
    <2>4. RefreshRow(r, n) = IF content[path][n] = 0 THEN r ELSE [r EXCEPT ![1] = content[path][n]]
      BY <1>3 DEF RefreshRow
    <2>5. RemoveRow(r) = Tail(r)
      BY <1>3 DEF RemoveRow
    <2> QED BY <1>3, <2>1, <2>2, <2>3, <2>4, <2>5
  <1> QED BY <1>2, <1>3

(* However often a delta is applied, rows stay rows. *)
LEMMA AppliedTypes ==
    ASSUME TypeOK, NEW delta, NEW times \in Nat
    PROVE  Applied(delta, times) \in [Names -> Row]
  <1>1. rows \in [Names -> Row]
    BY DEF TypeOK, Row
  <1>2. ASSUME NEW old \in [Names -> Row]
        PROVE  AppliedOnce(old, delta) \in [Names -> Row]
    <2>1. \A n \in Names : RemoveRow(old[n]) \in Row /\ RefreshRow(old[n], n) \in Row
      BY RowTypes
    <2> QED BY <2>1 DEF AppliedOnce
  <1> QED BY <1>1, <1>2, AppliedEach

(* What earlier scans have posted is dead and still there. *)
LEMMA SupersededAre ==
    ASSUME NEW es \in Seq(ScanEvent)
    PROVE  /\ Superseded(es) \in Seq(ScanEvent)
           /\ \A i \in 1..Len(Superseded(es)) : ~Superseded(es)[i].live
  <1> DEFINE s == Superseded(es)
  <1>0. \A i \in 1..Len(es) : es[i] \in ScanEvent
    OBVIOUS
  <1>1. ASSUME NEW e \in ScanEvent
        PROVE  [e EXCEPT !.live = FALSE] \in ScanEvent /\ ~[e EXCEPT !.live = FALSE].live
    BY DEF ScanEvent
  <1>2. s = [i \in 1..Len(es) |-> [es[i] EXCEPT !.live = FALSE]]
    BY DEF Superseded
  <1>3. \A i \in 1..Len(es) : s[i] \in ScanEvent /\ ~s[i].live
    BY <1>0, <1>1, <1>2
  <1>4. s \in [1..Len(es) -> ScanEvent]
    BY <1>2, <1>3
  <1> HIDE DEF s
  <1>5. Len(es) \in Nat
    OBVIOUS
  <1>6. s \in Seq(ScanEvent) /\ Len(s) = Len(es)
    BY <1>4, <1>5
  <1> QED BY <1>3, <1>6 DEF s

(* What a delta, however often it is applied, makes of a row: it goes if    *)
(* the name has gone, and otherwise shows the file if it is looked up.      *)
LEMMA AppliedRow ==
    ASSUME TypeOK, NEW delta, NEW times \in Nat \ {0}, NEW n \in Names, Len(rows[n]) <= 1
    PROVE  LET new == Applied(delta, times)[n]
               c   == content[path][n]
           IN  IF n \in Gone(delta) THEN new = <<>>
               ELSE IF n \in LookUp(delta) \ removals /\ c # 0 THEN new = <<c>>
               ELSE new = rows[n]
  <1> DEFINE c == content[path][n]
             new == IF n \in Gone(delta) THEN <<>>
                    ELSE IF n \in LookUp(delta) \ removals /\ c # 0 THEN <<c>>
                    ELSE rows[n]
  <1>0. rows \in [Names -> Row] /\ times \in Nat
    BY DEF TypeOK, Row
  <1>1. \A old \in [Names -> Row] : AppliedOnce(old, delta) \in [Names -> Row]
    <2>1. \A old \in [Names -> Row], m \in Names : RemoveRow(old[m]) \in Row /\ RefreshRow(old[m], m) \in Row
      BY RowTypes
    <2> QED BY <2>1 DEF AppliedOnce
  <1>2. PICK g : /\ g[0] = rows
                 /\ \A k \in 1..times : g[k] = AppliedOnce(g[k - 1], delta)
                 /\ Applied(delta, times) = g[times]
    BY <1>0, <1>1, AppliedSteps
  <1>3. ASSUME NEW r \in {rows[n], new}
        PROVE  new = IF n \in Gone(delta) THEN RemoveRow(r)
                     ELSE IF n \in LookUp(delta) \ removals THEN RefreshRow(r, n)
                     ELSE r
    <2>1. rows[n] = <<>> \/ rows[n] = <<rows[n][1]>>
      <3>1. rows[n] \in Seq(Version \ {0}) /\ Len(rows[n]) \in Nat
        BY DEF TypeOK
      <3>2. \A l \in Nat : l <= 1 => l = 0 \/ l = 1
        OBVIOUS
      <3>3. Len(rows[n]) = 0 \/ Len(rows[n]) = 1
        BY <3>1, <3>2, Zenon
      <3> QED BY <3>1, <3>3
    <2>2. CASE n \in Gone(delta)
      <3>1. new = <<>> /\ \A x : Tail(<<x>>) = <<>>
        BY <2>2
      <3>2. RemoveRow(r) = <<>>
        BY <1>3, <2>1, <3>1 DEF RemoveRow
      <3> QED BY <2>2, <3>1, <3>2
    <2>3. CASE n \notin Gone(delta) /\ n \in LookUp(delta) \ removals /\ c # 0
      <3>1. new = <<c>>
        BY <2>3
      <3>2. \A x : [<<x>> EXCEPT ![1] = c] = <<c>>
        OBVIOUS
      <3>3. r = <<>> \/ \E x : r = <<x>>
        BY <1>3, <2>1, <3>1
      <3> HIDE DEF new
      <3>4. RefreshRow(r, n) = <<c>>
        BY <2>3, <3>2, <3>3 DEF RefreshRow
      <3> QED BY <2>3, <3>1, <3>4
    <2>4. CASE n \notin Gone(delta) /\ ~(n \in LookUp(delta) \ removals /\ c # 0)
      BY <1>3, <2>4 DEF RefreshRow
    <2> QED BY <2>2, <2>3, <2>4
  <1> HIDE DEF new
  <1>4. \A old \in [Names -> Row] :
            old[n] \in {rows[n], new} => AppliedOnce(old, delta)[n] = new
    <2>1. \A old : AppliedOnce(old, delta)[n] = IF n \in Gone(delta) THEN RemoveRow(old[n])
                       ELSE IF n \in LookUp(delta) \ removals THEN RefreshRow(old[n], n)
                       ELSE old[n]
      BY DEF AppliedOnce, Gone, LookUp
    <2> QED BY <1>3, <2>1
  <1> DEFINE Good == {k \in 0..times : g[k] \in [Names -> Row] /\ (IF k = 0 THEN g[k] = rows ELSE g[k][n] = new)}
  <1>5. 0 \in Good /\ Good \in SUBSET Nat
    BY <1>0, <1>2
  <1>6. ASSUME NEW k \in 1..times, k - 1 \in Good
        PROVE  k \in Good
    <2>1. g[k] = AppliedOnce(g[k - 1], delta) /\ g[k - 1] \in [Names -> Row] /\ k \in 0..times /\ k # 0
      BY <1>2, <1>6
    <2>2. g[k - 1][n] \in {rows[n], new}
      BY <1>6
    <2> QED BY <1>1, <1>4, <2>1, <2>2
  <1> HIDE DEF Good
  <1>7. times \in Good
    BY <1>0, <1>5, <1>6, StepByStep
  <1>8. g[times][n] = new
    BY <1>7 DEF Good
  <1> QED BY <1>2, <1>8 DEF new

(* What the file system, or a job, does to a directory. *)
LEMMA ChangeTypes ==
    ASSUME ListingAssumption, TypeOK,
           NEW d \in Dirs, NEW new \in [Names -> Version], NEW changed \in SUBSET Names,
           NEW reports \in Seq(Event), Change(d, new, changed, reports)
    PROVE  /\ content' \in [Dirs -> [Names -> Version]]
           /\ ops' \in 0..MaxOps
           /\ raw' \in [Dirs -> Seq(Event)]
           /\ raced' \subseteq Names
  <1>1. <<[kind |-> "Overflow", name |-> "."]>> \in Seq(Event)
    <2>1. [kind |-> "Overflow", name |-> "."] \in Event
      BY DEF Event
    <2> QED BY <2>1
  <1>2. PICK told \in Seq(Event) : raw' = [raw EXCEPT ![d] = IF Watched(d) THEN @ \o told ELSE @]
    BY <1>1 DEF Change
  <1>3. raw[d] \in Seq(Event)
    BY DEF TypeOK
  <1>4. raw[d] \o told \in Seq(Event)
    BY <1>3
  <1>5. raw' \in [Dirs -> Seq(Event)]
    BY <1>2, <1>4 DEF TypeOK
  <1>6. content' \in [Dirs -> [Names -> Version]]
    BY DEF Change, TypeOK
  <1>7. ops' \in 0..MaxOps
    BY DEF Change, TypeOK, ListingAssumption
  <1>8. raced' \subseteq Names
    BY DEF Change, TypeOK
  <1> QED BY <1>5, <1>6, <1>7, <1>8

(* What can be reported of a name. *)
LEMMA ReportTypes ==
    ASSUME NEW n \in Names, NEW kind \in {"Created", "Deleted", "Modified", "MovedFrom", "MovedTo"}
    PROVE  Report(kind, n) \in Event /\ <<Report(kind, n)>> \in Seq(Event)
  <1>1. Report(kind, n) \in Event
    BY DEF Report, Event
  <1> QED BY <1>1

(* The types through a change by anybody ... *)
LEMMA AnybodyTypes ==
    ASSUME ListingAssumption, TypeOK, Anybody
    PROVE  TypeOK'
  <1>1. PICK d \in Dirs, n \in Names :
            \/ Create(d, n) \/ Modify(d, n) \/ Delete(d, n)
            \/ \E m \in Names : Rename(d, n, m)
    BY DEF Anybody
  <1>2. \E new \in [Names -> Version], changed \in SUBSET Names, reports \in Seq(Event) :
            Change(d, new, changed, reports)
    <2>1. content[d] \in [Names -> Version] /\ 0 \in Version
      BY DEF TypeOK, Version, ListingAssumption
    <2>2. ops < MaxOps => Stamp \in Version
      BY DEF TypeOK, Version, Stamp, ListingAssumption
    <2>3. CASE Create(d, n)
      <3>1. [content[d] EXCEPT ![n] = Stamp] \in [Names -> Version]
        BY <2>1, <2>2, <2>3 DEF Create, Change
      <3> QED BY <2>3, <3>1, ReportTypes DEF Create
    <2>4. CASE Modify(d, n)
      <3>1. [content[d] EXCEPT ![n] = Stamp] \in [Names -> Version]
        BY <2>1, <2>2, <2>4 DEF Modify, Change
      <3> QED BY <2>4, <3>1, ReportTypes DEF Modify
    <2>5. CASE Delete(d, n)
      <3>1. [content[d] EXCEPT ![n] = 0] \in [Names -> Version]
        BY <2>1
      <3> QED BY <2>5, <3>1, ReportTypes DEF Delete
    <2>6. ASSUME NEW m \in Names, Rename(d, n, m)
          PROVE  \E new \in [Names -> Version], changed \in SUBSET Names, reports \in Seq(Event) :
                     Change(d, new, changed, reports)
      <3>1. [content[d] EXCEPT ![n] = 0, ![m] = Stamp] \in [Names -> Version]
        BY <2>1, <2>2, <2>6 DEF Rename, Change
      <3>2. Report("MovedFrom", n) \in Event /\ Report("MovedTo", m) \in Event
        BY ReportTypes
      <3>3. <<Report("MovedFrom", n), Report("MovedTo", m)>> \in Seq(Event)
        BY <3>2
      <3> QED BY <2>6, <3>1, <3>3 DEF Rename
    <2> QED BY <1>1, <2>3, <2>4, <2>5, <2>6
  <1>3. /\ content' \in [Dirs -> [Names -> Version]] /\ ops' \in 0..MaxOps
        /\ raw' \in [Dirs -> Seq(Event)] /\ raced' \subseteq Names
    BY <1>2, ChangeTypes
  <1>4. UNCHANGED <<deleting, scanVars, modelVars, watchVars>>
    BY <1>1 DEF Create, Modify, Delete, Rename
  <1> QED BY <1>3, <1>4 DEF TypeOK, scanVars, modelVars, watchVars

(* ... by the delete job ... *)
LEMMA DeleteOneTypes ==
    ASSUME ListingAssumption, TypeOK, NEW n \in Names, DeleteOne(n)
    PROVE  TypeOK'
  <1>1. /\ deleting' = [deleting EXCEPT !.todo = @ \ {n}]
        /\ UNCHANGED <<scanVars, modelVars, watchVars>>
    BY DEF DeleteOne
  <1>2. deleting' \in [runs : BOOLEAN, dir : Dirs, names : SUBSET Names, todo : SUBSET Names]
    BY <1>1 DEF TypeOK
  <1>3. /\ content' \in [Dirs -> [Names -> Version]] /\ ops' \in 0..MaxOps
        /\ raw' \in [Dirs -> Seq(Event)] /\ raced' \subseteq Names
    <2>1. CASE UNCHANGED <<fsVars, raced>>
      BY <2>1 DEF TypeOK, fsVars
    <2>2. CASE ~UNCHANGED <<fsVars, raced>>
      <3>1. deleting.dir \in Dirs /\ 0 \in Version
        BY DEF TypeOK, Version, ListingAssumption
      <3>2. [content[deleting.dir] EXCEPT ![n] = 0] \in [Names -> Version]
        BY <3>1 DEF TypeOK
      <3>3. PICK kind \in {"Deleted", "MovedFrom"} :
                Change(deleting.dir, [content[deleting.dir] EXCEPT ![n] = 0], {n}, <<Report(kind, n)>>)
        BY <2>2 DEF DeleteOne
      <3> QED BY <3>1, <3>2, <3>3, ReportTypes, ChangeTypes
    <2> QED BY <2>1, <2>2
  <1> QED BY <1>1, <1>2, <1>3 DEF TypeOK, scanVars, modelVars, watchVars

(* What the scanner posts. *)
LEMMA PostedTypes ==
    ASSUME TypeOK, NEW kind \in {"entries", "finished", "failed"}, NEW b \in [Names -> Version]
    PROVE  Posted(kind, b) \in ScanEvent
  BY DEF Posted, ScanEvent, TypeOK

(* ... and through the scanner's steps. *)
LEMMA ScannerTypes ==
    ASSUME ListingAssumption, TypeOK, Worker \/ ReadFails
    PROVE  TypeOK'
  <1>1. NoBatch \in [Names -> Version] /\ task.batch \in [Names -> Version] /\ events \in Seq(ScanEvent)
    BY DEF NoBatch, Version, ListingAssumption, TypeOK
  <1>2. NoTask \in [runs : BOOLEAN, todo : SUBSET Names, batch : [Names -> Version]]
    BY <1>1 DEF NoTask
  <1>3. UNCHANGED <<fsVars, deleting, modelVars, watchVars, raced>>
    BY DEF Worker, ReadEntry, ReadEnds, ReadFails
  <1>4. /\ task' \in [runs : BOOLEAN, todo : SUBSET Names, batch : [Names -> Version]]
        /\ events' \in Seq(ScanEvent)
    <2>1. ASSUME NEW n \in Names, ReadEntry(n)
          PROVE  /\ task' \in [runs : BOOLEAN, todo : SUBSET Names, batch : [Names -> Version]]
                 /\ events' \in Seq(ScanEvent)
      <3> DEFINE b == [task.batch EXCEPT ![n] = content[path][n]]
                 full == Cardinality(InBatch(b)) >= BatchSize
      <3>1. content[path][n] \in Version
        BY DEF TypeOK
      <3>2. b \in [Names -> Version]
        BY <1>1, <3>1
      <3>3. /\ task' = [task EXCEPT !.todo = @ \ {n}, !.batch = IF full THEN NoBatch ELSE b]
            /\ events' = IF full THEN Append(events, Posted("entries", b)) ELSE events
        BY <2>1 DEF ReadEntry
      <3> HIDE DEF b, full
      <3>4. Append(events, Posted("entries", b)) \in Seq(ScanEvent)
        BY <1>1, <3>2, PostedTypes
      <3> QED BY <1>1, <3>2, <3>3, <3>4 DEF TypeOK
    <2>2. CASE ReadEnds
      <3>1. Posted("entries", task.batch) \in ScanEvent /\ Posted("finished", NoBatch) \in ScanEvent
        BY <1>1, PostedTypes
      <3>2. /\ <<Posted("entries", task.batch)>> \in Seq(ScanEvent)
            /\ <<Posted("finished", NoBatch)>> \in Seq(ScanEvent)
            /\ <<>> \in Seq(ScanEvent)
        BY <3>1
      <3> QED BY <1>1, <1>2, <2>2, <3>2 DEF ReadEnds
    <2>3. CASE ReadFails
      <3>1. Posted("failed", NoBatch) \in ScanEvent
        BY <1>1, PostedTypes
      <3> QED BY <1>1, <1>2, <2>3, <3>1 DEF ReadFails
    <2> QED BY <2>1, <2>2, <2>3 DEF Worker
  <1> QED BY <1>3, <1>4 DEF TypeOK, fsVars, modelVars, watchVars

(* Looking up the names that are released leaves rows as they are or fresh. *)
LEMMA ReleaseTypes ==
    ASSUME TypeOK, NEW old \in [Names -> Row], NEW names, ReleaseRemovals(old, names)
    PROVE  /\ rows' \in [Names -> Row]
           /\ removals' \subseteq Names
           /\ \A n \in Names : old[n] # <<>> => rows'[n] # <<>>
           /\ \A n \in Names : n \in removals' => rows'[n] = old[n]
  <1>1. rows' = [n \in Names |-> IF n \in names \cap removals THEN RefreshRow(old[n], n) ELSE old[n]]
    BY DEF ReleaseRemovals
  <1>2. \A n \in Names : /\ RefreshRow(old[n], n) \in Row
                         /\ old[n] # <<>> => RefreshRow(old[n], n) # <<>>
    BY RowTypes
  <1>3. removals' = removals \ names
    BY DEF ReleaseRemovals
  <1> QED BY <1>1, <1>2, <1>3 DEF TypeOK

(* Merging a batch takes no row away and leaves those being deleted alone. *)
LEMMA MergeTypes ==
    ASSUME TypeOK, NEW b \in [Names -> Version], MergeEntries(b)
    PROVE  /\ rows' \in [Names -> Row]
           /\ seen' = seen \cup InBatch(b)
           /\ seen' \subseteq Names
           /\ \A n \in Names : rows[n] # <<>> => rows'[n] # <<>>
           /\ \A n \in removals : rows'[n] = rows[n]
  <1>1. rows' = [n \in Names |->
           IF n \notin InBatch(b) \ removals THEN rows[n]
           ELSE IF rows[n] = <<>> THEN <<b[n]>>
           ELSE [rows[n] EXCEPT ![Len(rows[n])] = b[n]]]
    BY DEF MergeEntries
  <1>2. \A n \in Names : rows[n] \in Row
    BY DEF TypeOK, Row
  <1>3. ASSUME NEW n \in Names, n \in InBatch(b) \ removals
        PROVE  rows'[n] \in Row /\ rows'[n] # <<>>
    <2>1. b[n] \in Version \ {0}
      BY <1>3 DEF InBatch
    <2>2. CASE rows[n] = <<>>
      <3>1. rows'[n] = <<b[n]>>
        BY <1>1, <1>3, <2>2
      <3> QED BY <2>1, <3>1 DEF Row
    <2>3. CASE rows[n] # <<>>
      <3> DEFINE r == rows[n]
      <3>1. rows'[n] = [r EXCEPT ![Len(r)] = b[n]]
        BY <1>1, <1>3, <2>3
      <3>2. r \in Seq(Version \ {0}) /\ r # <<>>
        BY <1>2, <2>3 DEF Row
      <3> HIDE DEF r
      <3>3. [r EXCEPT ![Len(r)] = b[n]] \in Seq(Version \ {0})
        BY <2>1, <3>2
      <3>4. Len(r) \in Nat /\ Len(r) # 0 /\ DOMAIN r = 1..Len(r)
        BY <3>2
      <3>5. DOMAIN [r EXCEPT ![Len(r)] = b[n]] = 1..Len(r) /\ 1 \in 1..Len(r)
        BY <3>4
      <3>6. [r EXCEPT ![Len(r)] = b[n]] # <<>>
        BY <3>5
      <3> QED BY <3>1, <3>3, <3>6 DEF Row
    <2> QED BY <2>2, <2>3
  <1>4. ASSUME NEW n \in Names, n \notin InBatch(b) \ removals
        PROVE  rows'[n] = rows[n]
    BY <1>1, <1>4
  <1>5. \A n \in Names : rows'[n] \in Row /\ (rows[n] # <<>> => rows'[n] # <<>>)
    BY <1>2, <1>3, <1>4
  <1>6. rows' \in [Names -> Row]
    <2>1. rows' = [n \in Names |-> rows'[n]]
      BY <1>1
    <2> QED BY <1>5, <2>1
  <1>7. seen' = seen \cup InBatch(b) /\ seen' \subseteq Names
    BY DEF MergeEntries, InBatch, TypeOK
  <1>8. \A n \in removals : n \in Names
    BY DEF TypeOK
  <1> QED BY <1>4, <1>5, <1>6, <1>7, <1>8

(* A first scan appends. *)
LEMMA EntriesTypes ==
    ASSUME TypeOK, NEW b \in [Names -> Version], EntriesReady(b)
    PROVE  /\ rows' \in [Names -> Row]
           /\ seen' \subseteq Names
           /\ \A n \in Names : rows[n] # <<>> => rows'[n] # <<>>
  <1>1. CASE rescanning
    BY <1>1, MergeTypes DEF EntriesReady
  <1>2. CASE ~rescanning
    <2>1. /\ rows' = [n \in Names |-> IF b[n] = 0 THEN rows[n] ELSE Append(rows[n], b[n])]
          /\ seen' = seen
      BY <1>2 DEF EntriesReady
    <2>2. ASSUME NEW n \in Names
          PROVE  rows'[n] \in Row /\ (rows[n] # <<>> => rows'[n] # <<>>)
      <3> DEFINE r == rows[n]
      <3>1. r \in Seq(Version \ {0}) /\ b[n] \in Version
        BY DEF TypeOK
      <3>2. rows'[n] = IF b[n] = 0 THEN r ELSE Append(r, b[n])
        BY <2>1
      <3> HIDE DEF r
      <3>3. b[n] # 0 => Append(r, b[n]) \in Seq(Version \ {0}) /\ Append(r, b[n]) # <<>>
        <4>1. ASSUME b[n] # 0
              PROVE  Append(r, b[n]) \in Seq(Version \ {0}) /\ Len(Append(r, b[n])) = Len(r) + 1
          BY <3>1, <4>1
        <4>2. ASSUME b[n] # 0 PROVE Append(r, b[n]) # <<>>
          <5>1. Len(r) \in Nat
            BY <3>1
          <5>2. Len(r) + 1 # 0 /\ Len(<<>>) = 0
            BY <5>1
          <5> QED BY <4>1, <4>2, <5>2
        <4> QED BY <4>1, <4>2
      <3>4. rows'[n] \in Seq(Version \ {0}) /\ (r # <<>> => rows'[n] # <<>>)
        <4>1. CASE b[n] = 0
          BY <3>1, <3>2, <4>1
        <4>2. CASE b[n] # 0
          BY <3>2, <3>3, <4>2
        <4> QED BY <4>1, <4>2
      <3> QED BY <3>4 DEF Row, r
    <2>3. rows' \in [Names -> Row]
      <3>1. rows' = [n \in Names |-> rows'[n]]
        BY <2>1
      <3> QED BY <2>2, <3>1
    <2> QED BY <2>1, <2>2, <2>3 DEF TypeOK
  <1> QED BY <1>1, <1>2

(* What the GUI thread finds in front of it. *)
LEMMA FrontOfEvents ==
    ASSUME TypeOK, events # <<>>
    PROVE  /\ Head(events) = events[1] /\ events[1] \in ScanEvent
           /\ Len(events) \in Nat /\ 1 \in 1..Len(events)
           /\ Tail(events) \in Seq(ScanEvent)
           /\ Len(Tail(events)) = Len(events) - 1
           /\ \A i \in 1..Len(Tail(events)) :
                  /\ i + 1 \in 1..Len(events)
                  /\ Tail(events)[i] = events[i + 1]
           /\ \A i \in 1..Len(events) : i # 1 =>
                  /\ i - 1 \in 1..Len(Tail(events))
                  /\ Tail(events)[i - 1] = events[i]
  <1>1. events \in Seq(ScanEvent)
    BY DEF TypeOK
  <1>2. Len(events) \in Nat /\ Len(events) # 0
    BY <1>1
  <1>3. Len(Tail(events)) = Len(events) - 1 /\ Tail(events) \in Seq(ScanEvent)
    BY <1>1
  <1>4. \A i \in 1..Len(Tail(events)) : i + 1 \in 1..Len(events) /\ Tail(events)[i] = events[i + 1]
    BY <1>1, <1>2, <1>3
  <1>5. ASSUME NEW i \in 1..Len(events), i # 1
        PROVE  i - 1 \in 1..Len(Tail(events)) /\ Tail(events)[i - 1] = events[i]
    <2>1. i - 1 \in 1..Len(Tail(events)) /\ (i - 1) + 1 = i
      BY <1>2, <1>3, <1>5
    <2> QED BY <1>4, <2>1
  <1>6. Head(events) = events[1] /\ events[1] \in ScanEvent /\ 1 \in 1..Len(events)
    BY <1>1, <1>2
  <1> QED BY <1>2, <1>3, <1>4, <1>5, <1>6

(* One posted event is ignored, or is of one of three kinds. *)
LEMMA DeliverCases ==
    ASSUME TypeOK, DeliverScan
    PROVE  /\ events # <<>> /\ events' = Tail(events)
           /\ UNCHANGED <<fsVars, deleting, task, path, watchVars, raced>>
           /\ \/ /\ ~events[1].live \/ events[1].dir # path
                 /\ UNCHANGED <<rows, scanning, rescanning, seen, removals, deferred, failed>>
              \/ /\ events[1].live /\ events[1].dir = path
                 /\ \/ events[1].kind = "entries" /\ EntriesReady(events[1].batch)
                    \/ events[1].kind = "finished" /\ ScanFinished
                    \/ events[1].kind = "failed" /\ ScanFailed
  <1>1. Head(events) = events[1]
    BY FrontOfEvents DEF DeliverScan
  <1> QED BY <1>1 DEF DeliverScan

(* The types when the GUI thread takes what the scanner posted. *)
LEMMA DeliverTypes ==
    ASSUME TypeOK, DeliverScan
    PROVE  TypeOK'
  <1>1. /\ events' \in Seq(ScanEvent)
        /\ UNCHANGED <<fsVars, deleting, task, path, watchVars, raced>>
    BY DeliverCases, FrontOfEvents
  <1>2. /\ rows' \in [Names -> Row] /\ seen' \subseteq Names
        /\ removals' \subseteq Names /\ deferred' \subseteq Names
        /\ scanning' \in BOOLEAN /\ rescanning' \in BOOLEAN /\ failed' \in BOOLEAN
    <2>0. rows \in [Names -> Row]
      BY DEF TypeOK, Row
    <2>1. CASE UNCHANGED <<rows, scanning, rescanning, seen, removals, deferred, failed>>
      BY <2>0, <2>1 DEF TypeOK
    <2>2. CASE EntriesReady(events[1].batch)
      <3>1. events[1].batch \in [Names -> Version]
        BY DeliverCases, FrontOfEvents DEF ScanEvent
      <3>2. UNCHANGED <<scanning, rescanning, removals, deferred, failed>>
        BY <2>2 DEF EntriesReady
      <3> QED BY <2>2, <3>1, <3>2, EntriesTypes DEF TypeOK
    <2>3. CASE ScanFinished
      <3>1. CASE rescanning
        <4> DEFINE old == [n \in Names |-> IF n \in seen THEN rows[n] ELSE <<>>]
        <4>1. ReleaseRemovals(old, deferred) /\ seen' = {} /\ deferred' = {}
          BY <2>3, <3>1 DEF ScanFinished
        <4>2. old \in [Names -> Row]
          <5>1. <<>> \in Row
            BY DEF Row
          <5> QED BY <2>0, <5>1
        <4> HIDE DEF old
        <4>3. rows' \in [Names -> Row] /\ removals' \subseteq Names
          BY <4>1, <4>2, ReleaseTypes
        <4> QED BY <2>3, <4>1, <4>3 DEF ScanFinished, TypeOK
      <3>2. CASE ~rescanning
        BY <2>0, <2>3, <3>2 DEF ScanFinished, TypeOK
      <3> QED BY <3>1, <3>2
    <2>4. CASE ScanFailed
      <3>1. rows' \in [Names -> Row] /\ removals' \subseteq Names
        BY <2>0, <2>4, ReleaseTypes DEF ScanFailed
      <3> QED BY <2>4, <3>1 DEF ScanFailed
    <2> QED BY <2>1, <2>2, <2>3, <2>4, DeliverCases
  <1> QED BY <1>1, <1>2 DEF TypeOK, fsVars, watchVars, Row

(* The types through a navigation. *)
LEMMA SetPathTypes ==
    ASSUME ListingAssumption, TypeOK, NEW d \in Dirs, SetPath(d)
    PROVE  TypeOK'
  <1>1. NoBatch \in [Names -> Version]
    BY DEF NoBatch, Version, ListingAssumption
  <1>2. task' \in [runs : BOOLEAN, todo : SUBSET Names, batch : [Names -> Version]]
    BY <1>1 DEF SetPath, StartScan
  <1>3. events' \in Seq(ScanEvent)
    BY SupersededAre DEF SetPath, StartScan, TypeOK
  <1>4. rows' \in [Names -> Seq(Version \ {0})]
    <2>1. <<>> \in Seq(Version \ {0}) /\ rows' = [n \in Names |-> <<>>]
      BY DEF SetPath
    <2> QED BY <2>1
  <1>5. raw' \in [Dirs -> Seq(Event)]
    <2>1. <<>> \in Seq(Event) /\ raw' = [x \in Dirs |-> IF x \in Held THEN raw[x] ELSE <<>>]
      BY DEF SetPath
    <2> QED BY <2>1 DEF TypeOK
  <1>6. conns' \in [Dirs -> Nat] /\ visits' \in 0..MaxVisits
    BY DEF SetPath, TypeOK, ListingAssumption
  <1>7. raced' \subseteq Names
    BY DEF SetPath, Reported
  <1> QED BY <1>2, <1>3, <1>4, <1>5, <1>6, <1>7 DEF SetPath, StartScan, TypeOK

(* The events of one firing of the debounce timer, and those that stay. *)
LEMMA FlushedAre ==
    ASSUME TypeOK, NEW d \in Dirs, NEW k \in 1..Len(raw[d])
    PROVE  /\ SubSeq(raw[d], 1, k) \in Seq(Event)
           /\ SubSeq(raw[d], k + 1, Len(raw[d])) \in Seq(Event)
           /\ Mentioned(SubSeq(raw[d], 1, k)) \subseteq Mentioned(raw[d])
  <1>1. raw[d] \in Seq(Event) /\ Len(raw[d]) \in Nat
    BY DEF TypeOK
  <1>2. SubSeq(raw[d], 1, k) \in Seq(Event) /\ Len(SubSeq(raw[d], 1, k)) = k
    BY <1>1
  <1>3. SubSeq(raw[d], k + 1, Len(raw[d])) \in Seq(Event)
    BY <1>1
  <1>4. \A i \in 1..k : i \in 1..Len(raw[d]) /\ SubSeq(raw[d], 1, k)[i] = raw[d][i]
    BY <1>1
  <1> QED BY <1>2, <1>3, <1>4 DEF Mentioned

(* What a delta does to the model: nothing, a rescan or a pass per connection. *)
LEMMA FlushCases ==
    ASSUME NEW d, NEW k, Flush(d, k)
    PROVE  LET log == SubSeq(raw[d], 1, k)
           IN  \/ UNCHANGED <<rows, scanning, rescanning, seen, scanVars>>
               \/ Rescan
               \/ /\ conns[d] # 0
                  /\ rows' = Applied(Coalesce(log), conns[d])
                  /\ UNCHANGED <<scanning, rescanning, seen, scanVars>>
  BY DEF Flush, ApplyDelta

(* The types when the debounce timer fires. *)
LEMMA FlushTypes ==
    ASSUME ListingAssumption, TypeOK, NEW d \in Dirs, NEW k \in 1..Len(raw[d]), Flush(d, k)
    PROVE  TypeOK'
  <1>1. /\ UNCHANGED <<content, ops, deleting, path, removals, deferred, failed, watchVars>>
        /\ raw' = [raw EXCEPT ![d] = SubSeq(@, k + 1, Len(@))]
    BY DEF Flush
  <1>2. raw' \in [Dirs -> Seq(Event)]
    BY <1>1, FlushedAre DEF TypeOK
  <1>3. raced' \subseteq Names
    BY DEF Flush, Untold, Reported, TypeOK
  <1>4. /\ rows' \in [Names -> Row] /\ seen' \subseteq Names
        /\ scanning' \in BOOLEAN /\ rescanning' \in BOOLEAN
        /\ task' \in [runs : BOOLEAN, todo : SUBSET Names, batch : [Names -> Version]]
        /\ events' \in Seq(ScanEvent)
    <2>0. rows \in [Names -> Row]
      BY DEF TypeOK, Row
    <2>1. CASE UNCHANGED <<rows, scanning, rescanning, seen, scanVars>>
      BY <2>0, <2>1 DEF TypeOK, scanVars
    <2>2. CASE Rescan
      <3>1. NoBatch \in [Names -> Version]
        BY DEF NoBatch, Version, ListingAssumption
      <3>2. events' \in Seq(ScanEvent)
        BY <2>2, SupersededAre DEF Rescan, StartScan, TypeOK
      <3> QED BY <2>0, <2>2, <3>1, <3>2 DEF Rescan, StartScan
    <2>3. ASSUME NEW delta, rows' = Applied(delta, conns[d]),
                 UNCHANGED <<scanning, rescanning, seen, scanVars>>
          PROVE  /\ rows' \in [Names -> Row] /\ seen' \subseteq Names
                 /\ scanning' \in BOOLEAN /\ rescanning' \in BOOLEAN
                 /\ task' \in [runs : BOOLEAN, todo : SUBSET Names, batch : [Names -> Version]]
                 /\ events' \in Seq(ScanEvent)
      <3>1. conns[d] \in Nat
        BY DEF TypeOK
      <3>2. rows' \in [Names -> Row]
        BY <2>3, <3>1, AppliedTypes
      <3> QED BY <2>3, <3>2 DEF TypeOK, scanVars
    <2> QED BY <2>1, <2>2, <2>3, FlushCases
  <1> QED BY <1>1, <1>2, <1>3, <1>4 DEF TypeOK, watchVars, Row

(* The types through the beginning and the end of a deletion. *)
LEMMA DeletionTypes ==
    ASSUME TypeOK, EndDelete \/ \E names \in SUBSET Names \ {{}} : StartDelete(names)
    PROVE  TypeOK'
  <1>0. rows \in [Names -> Row] /\ path \in Dirs
    BY DEF TypeOK, Row
  <1>1. ASSUME NEW names \in SUBSET Names, StartDelete(names)
        PROVE  TypeOK'
    <2>1. deleting' \in [runs : BOOLEAN, dir : Dirs, names : SUBSET Names, todo : SUBSET Names]
      BY <1>0, <1>1 DEF StartDelete
    <2>2. removals' \subseteq Names /\ raced' \subseteq Names
      BY <1>1 DEF StartDelete, ExpectRemoval, TypeOK
    <2>3. rows' \in [Names -> Seq(Version \ {0})]
      <3>1. rows' = [n \in Names |-> IF n \in removals' THEN <<>> ELSE rows[n]]
        BY <1>1 DEF StartDelete, ExpectRemoval
      <3>2. <<>> \in Seq(Version \ {0})
        OBVIOUS
      <3> QED BY <3>1, <3>2 DEF TypeOK
    <2>4. UNCHANGED <<fsVars, scanVars, path, scanning, rescanning, seen, deferred, failed, watchVars>>
      BY <1>1 DEF StartDelete
    <2> QED BY <2>1, <2>2, <2>3, <2>4 DEF TypeOK, fsVars, scanVars, watchVars
  <1>2. CASE EndDelete
    <2>1. deleting' \in [runs : BOOLEAN, dir : Dirs, names : SUBSET Names, todo : SUBSET Names]
      BY <1>0, <1>2 DEF EndDelete, NoDelete
    <2>2. rows' \in [Names -> Row] /\ removals' \subseteq Names /\ deferred' \subseteq Names
      <3>1. ReleaseRemovals(rows, deleting.names) => rows' \in [Names -> Row] /\ removals' \subseteq Names
        BY <1>0, ReleaseTypes
      <3> QED BY <1>0, <1>2, <3>1 DEF EndDelete, TypeOK
    <2>3. UNCHANGED <<fsVars, scanVars, path, scanning, rescanning, seen, failed, watchVars, raced>>
      BY <1>2 DEF EndDelete
    <2> QED BY <2>1, <2>2, <2>3 DEF TypeOK, fsVars, scanVars, watchVars, Row
  <1> QED BY <1>1, <1>2

(* A panel that has just been opened. *)
LEMMA InitTypes ==
    ASSUME ListingAssumption, Init
    PROVE  TypeOK
  <1>1. content \in [Dirs -> [Names -> Version]]
    BY DEF Init, Version, ListingAssumption
  <1>2. raw \in [Dirs -> Seq(Event)] /\ events \in Seq(ScanEvent)
    <2>1. <<>> \in Seq(Event) /\ <<>> \in Seq(ScanEvent)
      OBVIOUS
    <2> QED BY <2>1 DEF Init
  <1>3. deleting \in [runs : BOOLEAN, dir : Dirs, names : SUBSET Names, todo : SUBSET Names]
    BY DEF Init, NoDelete
  <1>4. task \in [runs : BOOLEAN, todo : SUBSET Names, batch : [Names -> Version]]
    BY DEF Init, NoBatch, Version, ListingAssumption
  <1>5. rows \in [Names -> Seq(Version \ {0})]
    <2>1. <<>> \in Seq(Version \ {0})
      OBVIOUS
    <2> QED BY <2>1 DEF Init
  <1>6. conns \in [Dirs -> Nat] /\ visits \in 0..MaxVisits /\ ops \in 0..MaxOps
    BY DEF Init, ListingAssumption
  <1> QED BY <1>1, <1>2, <1>3, <1>4, <1>5, <1>6 DEF Init, TypeOK

(* Every step keeps the types. *)
LEMMA TypeStep ==
    ASSUME ListingAssumption, TypeOK, [Next]_vars
    PROVE  TypeOK'
  <1>1. CASE StartWatching
    <2>1. conns' \in [Dirs -> Nat]
      BY <1>1 DEF StartWatching, TypeOK
    <2> QED BY <1>1, <2>1 DEF StartWatching, TypeOK, fsVars, scanVars, modelVars
  <1>2. CASE UNCHANGED vars
    BY <1>2 DEF vars, TypeOK, fsVars, scanVars, modelVars, watchVars
  <1>3. CASE Timer
    BY <1>3, FlushTypes DEF Timer
  <1> QED BY <1>1, <1>2, <1>3, AnybodyTypes, DeleteOneTypes, ScannerTypes, SetPathTypes, DeliverTypes,
             DeletionTypes DEF Next

(* Every variable of the listing keeps its type. *)
THEOREM TypesHold ==
    ASSUME ListingAssumption
    PROVE  Spec => []TypeOK
  <1>1. Init => TypeOK
    BY InitTypes
  <1>2. TypeOK /\ [Next]_vars => TypeOK'
    BY TypeStep
  <1> QED BY <1>1, <1>2, PTL DEF Spec

-----------------------------------------------------------------------------
(* Names that are being deleted                                            *)

(* No name stays hidden for good: whatever is pending is released by the   *)
(* end of the job or, when it came during a rescan, by that of the rescan. *)
THEOREM RemovalsAlwaysReleased ==
    ASSUME ListingAssumption
    PROVE  Spec => []RemovalsAreReleased
  <1>1. Init => RemovalsAreReleased
    BY DEF Init, RemovalsAreReleased
  <1>2. ASSUME TypeOK, RemovalsAreReleased, [Next]_vars
        PROVE  RemovalsAreReleased'
    <2>1. ASSUME UNCHANGED <<deleting, path, rescanning, removals, deferred>>
          PROVE  RemovalsAreReleased'
      BY <1>2, <2>1 DEF RemovalsAreReleased
    <2>2. CASE Anybody \/ Worker \/ ReadFails \/ StartWatching \/ UNCHANGED vars
      BY <2>1, <2>2 DEF Anybody, Create, Modify, Delete, Rename, Worker, ReadEntry, ReadEnds, ReadFails,
                        StartWatching, vars, modelVars
    <2>3. ASSUME NEW n \in Names, DeleteOne(n)
          PROVE  RemovalsAreReleased'
      <3>1. deleting' = [deleting EXCEPT !.todo = @ \ {n}] /\ UNCHANGED modelVars
        BY <2>3 DEF DeleteOne
      <3>2. deleting'.runs = deleting.runs /\ deleting'.dir = deleting.dir
            /\ deleting'.names = deleting.names
        BY <3>1, <1>2 DEF TypeOK
      <3> QED BY <1>2, <3>1, <3>2 DEF RemovalsAreReleased, modelVars
    <2>4. ASSUME NEW d \in Dirs, SetPath(d)
          PROVE  RemovalsAreReleased'
      BY <2>4 DEF SetPath, RemovalsAreReleased
    <2>5. CASE DeliverScan
      <3>1. UNCHANGED <<deleting, path>>
        BY <1>2, <2>5, DeliverCases
      <3>2. CASE UNCHANGED <<rows, scanning, rescanning, seen, removals, deferred, failed>>
        BY <2>1, <3>1, <3>2
      <3>3. CASE EntriesReady(events[1].batch)
        BY <2>1, <3>1, <3>3 DEF EntriesReady
      <3>4. CASE ScanFinished \/ ScanFailed
        BY <1>2, <3>1, <3>4 DEF ScanFinished, ScanFailed, ReleaseRemovals, RemovalsAreReleased
      <3> QED BY <1>2, <2>5, <3>2, <3>3, <3>4, DeliverCases
    <2>6. CASE Timer
      <3>1. PICK d \in Dirs : \E k \in 1..Len(raw[d]) : Flush(d, k)
        BY <2>6 DEF Timer
      <3>2. /\ UNCHANGED <<deleting, path, removals, deferred>>
            /\ rescanning' = rescanning \/ rescanning' = TRUE
        BY <3>1, FlushCases DEF Flush, Rescan
      <3> QED BY <1>2, <3>2 DEF RemovalsAreReleased
    <2>7. ASSUME NEW names \in SUBSET Names, StartDelete(names)
          PROVE  RemovalsAreReleased'
      BY <1>2, <2>7 DEF StartDelete, ExpectRemoval, RemovalsAreReleased
    <2>8. CASE EndDelete
      <3>1. ~deleting'.runs /\ UNCHANGED <<path, rescanning>>
        BY <2>8 DEF EndDelete, NoDelete
      <3> QED BY <1>2, <2>8, <3>1 DEF EndDelete, ReleaseRemovals, RemovalsAreReleased
    <2> QED BY <1>2, <2>2, <2>3, <2>4, <2>5, <2>6, <2>7, <2>8 DEF Next
  <1> QED BY <1>1, <1>2, TypesHold, PTL DEF Spec

-----------------------------------------------------------------------------
(* Scans                                                                   *)

(* A scan runs or has events on their way only while the model expects     *)
(* them, they are of its directory, and the end of one is its last.        *)
LiveInv ==
    /\ task.runs \/ rescanning => scanning
    /\ \A i \in 1..Len(events) :
           events[i].live =>
               /\ scanning /\ events[i].dir = path
               /\ events[i].kind # "entries" => ~task.runs /\ i = Len(events)

(* What the worker posts comes after what it has posted. *)
LEMMA ReadEntryPosts ==
    ASSUME TypeOK, NEW n \in Names, ReadEntry(n)
    PROVE  LET b == [task.batch EXCEPT ![n] = content[path][n]]
           IN  /\ b \in [Names -> Version]
               /\ task.runs /\ task'.runs /\ task'.todo = task.todo \ {n}
               /\ \/ task'.batch = b /\ events' = events
                  \/ /\ task'.batch = NoBatch
                     /\ Len(events') = Len(events) + 1
                     /\ events'[Len(events) + 1] = Posted("entries", b)
                     /\ \A i \in 1..Len(events) : events'[i] = events[i]
  <1> DEFINE b == [task.batch EXCEPT ![n] = content[path][n]]
             full == Cardinality(InBatch(b)) >= BatchSize
  <1>1. /\ task' = [task EXCEPT !.todo = @ \ {n}, !.batch = IF full THEN NoBatch ELSE b]
        /\ events' = IF full THEN Append(events, Posted("entries", b)) ELSE events
        /\ task.runs
    BY DEF ReadEntry
  <1>2. b \in [Names -> Version]
    BY DEF TypeOK
  <1> HIDE DEF b, full
  <1>3. Posted("entries", b) \in ScanEvent /\ events \in Seq(ScanEvent)
    BY <1>2, PostedTypes DEF TypeOK
  <1>4. task'.runs /\ task'.todo = task.todo \ {n} /\ task'.batch = IF full THEN NoBatch ELSE b
    BY <1>1 DEF TypeOK
  <1>5. \/ task'.batch = b /\ events' = events
        \/ /\ task'.batch = NoBatch
           /\ Len(events') = Len(events) + 1
           /\ events'[Len(events) + 1] = Posted("entries", b)
           /\ \A i \in 1..Len(events) : events'[i] = events[i]
    BY <1>1, <1>3, <1>4
  <1> QED BY <1>1, <1>2, <1>4, <1>5 DEF b

(* ... with the end of the scan at the very end ... *)
LEMMA ReadEndsPosts ==
    ASSUME ListingAssumption, TypeOK, ReadEnds
    PROVE  /\ task.runs /\ ~task'.runs /\ task.todo = {}
           /\ \A i \in 1..Len(events) : events'[i] = events[i]
           /\ events'[Len(events')] = Posted("finished", NoBatch)
           /\ \/ InBatch(task.batch) = {} /\ Len(events') = Len(events) + 1
              \/ /\ InBatch(task.batch) # {} /\ Len(events') = Len(events) + 2
                 /\ events'[Len(events) + 1] = Posted("entries", task.batch)
  <1>0. NoBatch \in [Names -> Version] /\ task.batch \in [Names -> Version]
    BY DEF NoBatch, Version, ListingAssumption, TypeOK
  <1>1. /\ Posted("finished", NoBatch) \in ScanEvent /\ Posted("entries", task.batch) \in ScanEvent
        /\ events \in Seq(ScanEvent)
    BY <1>0, PostedTypes DEF TypeOK
  <1>2. task.runs /\ ~task'.runs /\ task.todo = {}
    BY DEF ReadEnds, NoTask
  <1>3. CASE InBatch(task.batch) = {}
    <2>1. events' = events \o <<>> \o <<Posted("finished", NoBatch)>>
      BY <1>3 DEF ReadEnds
    <2> QED BY <1>1, <1>2, <1>3, <2>1
  <1>4. CASE InBatch(task.batch) # {}
    <2>1. events' = events \o <<Posted("entries", task.batch)>> \o <<Posted("finished", NoBatch)>>
      BY <1>4 DEF ReadEnds
    <2> QED BY <1>1, <1>2, <1>4, <2>1
  <1> QED BY <1>3, <1>4

(* ... or its failure. *)
LEMMA ReadFailsPosts ==
    ASSUME ListingAssumption, TypeOK, ReadFails
    PROVE  /\ task.runs /\ ~task'.runs
           /\ \A i \in 1..Len(events) : events'[i] = events[i]
           /\ Len(events') = Len(events) + 1
           /\ events'[Len(events) + 1] = Posted("failed", NoBatch)
  <1>0. NoBatch \in [Names -> Version]
    BY DEF NoBatch, Version, ListingAssumption
  <1>1. Posted("failed", NoBatch) \in ScanEvent /\ events \in Seq(ScanEvent)
    BY <1>0, PostedTypes DEF TypeOK
  <1>2. events' = Append(events, Posted("failed", NoBatch)) /\ task.runs /\ ~task'.runs
    BY DEF ReadFails, NoTask
  <1> QED BY <1>1, <1>2

(* The steps that leave the scan alone. *)
LEMMA ScanAlone ==
    ASSUME \/ Anybody \/ StartWatching \/ EndDelete \/ UNCHANGED vars
           \/ \E n \in Names : DeleteOne(n)
           \/ \E names \in SUBSET Names \ {{}} : StartDelete(names)
    PROVE  UNCHANGED <<task, events, path, scanning, rescanning, seen>>
  BY DEF Anybody, Create, Modify, Delete, Rename, StartWatching, EndDelete, DeleteOne, StartDelete,
         vars, scanVars, modelVars

(* Firing the timer leaves the scan alone, or starts a rescan. *)
LEMMA ScanFlush ==
    ASSUME TypeOK, Timer
    PROVE  /\ UNCHANGED path
           /\ \/ UNCHANGED <<task, events, scanning, rescanning, seen>>
              \/ Rescan
  <1>1. PICK d \in Dirs : \E k \in 1..Len(raw[d]) : Flush(d, k)
    BY DEF Timer
  <1> QED BY <1>1, FlushCases DEF Flush, scanVars

(* A new scan begins with nothing alive. *)
LEMMA NewScan ==
    ASSUME TypeOK, StartScan
    PROVE  /\ task'.runs /\ task'.todo = Names /\ scanning'
           /\ \A i \in 1..Len(events') : ~events'[i].live
  BY SupersededAre DEF StartScan, TypeOK

(* Every step keeps both. *)
LEMMA ScanStep ==
    ASSUME ListingAssumption, TypeOK, LiveInv, ScansAreUnderWay, [Next]_vars
    PROVE  LiveInv' /\ ScansAreUnderWay'
  <1>0. Len(events) \in Nat /\ events \in Seq(ScanEvent)
    BY DEF TypeOK
  <1>1. ASSUME UNCHANGED <<task, events, path, scanning, rescanning>>
        PROVE  LiveInv' /\ ScansAreUnderWay'
    BY <1>1 DEF LiveInv, ScansAreUnderWay
  <1>2. ASSUME StartScan
        PROVE  LiveInv' /\ ScansAreUnderWay'
    BY <1>2, NewScan DEF LiveInv, ScansAreUnderWay
  <1>3. ASSUME NEW n \in Names, ReadEntry(n)
        PROVE  LiveInv' /\ ScansAreUnderWay'
    <2>1. UNCHANGED <<path, scanning, rescanning>>
      BY <1>3 DEF ReadEntry, modelVars
    <2>2. task'.runs /\ task.runs
      BY <1>3, ReadEntryPosts
    <2>3. CASE events' = events
      BY <2>1, <2>2, <2>3 DEF LiveInv, ScansAreUnderWay
    <2>4. ASSUME NEW b, Len(events') = Len(events) + 1,
                 events'[Len(events) + 1] = Posted("entries", b),
                 \A i \in 1..Len(events) : events'[i] = events[i]
          PROVE  LiveInv' /\ ScansAreUnderWay'
      <3>1. \A i \in 1..Len(events') : i \in 1..Len(events) \/ i = Len(events) + 1
        BY <1>0, <2>4
      <3>2. Posted("entries", b).dir = path /\ Posted("entries", b).kind = "entries"
        BY DEF Posted
      <3> QED BY <2>1, <2>2, <2>4, <3>1, <3>2 DEF LiveInv, ScansAreUnderWay
    <2> QED BY <1>3, <2>3, <2>4, ReadEntryPosts
  <1>4. CASE ReadEnds \/ ReadFails
    <2>1. UNCHANGED <<path, scanning, rescanning>>
      BY <1>4 DEF ReadEnds, ReadFails, modelVars
    <2> DEFINE m == Len(events')
    <2>2. /\ task.runs /\ ~task'.runs
          /\ m \in {Len(events) + 1, Len(events) + 2}
          /\ \A i \in 1..Len(events) : events'[i] = events[i]
          /\ events'[m].live /\ events'[m].dir = path /\ events'[m].kind \in {"finished", "failed"}
          /\ m = Len(events) + 2 => events'[Len(events) + 1].dir = path
                                    /\ events'[Len(events) + 1].kind = "entries"
      BY <1>0, <1>4, ReadEndsPosts, ReadFailsPosts DEF Posted
    <2> HIDE DEF m
    <2>3. /\ \A i \in 1..m : \/ i \in 1..Len(events) \/ i = m
                             \/ m = Len(events) + 2 /\ i = Len(events) + 1
          /\ m \in 1..m
      BY <1>0, <2>2
    <2>4. scanning /\ \A i \in 1..Len(events) : events[i].live => events[i].kind = "entries" /\ events[i].dir = path
      BY <2>2 DEF LiveInv
    <2>5. LiveInv'
      BY <2>1, <2>2, <2>3, <2>4 DEF LiveInv, m
    <2>6. ScansAreUnderWay'
      BY <2>1, <2>2, <2>3 DEF ScansAreUnderWay, m
    <2> QED BY <2>5, <2>6
  <1>5. CASE DeliverScan
    <2>1. /\ UNCHANGED <<task, path>> /\ events # <<>> /\ events' = Tail(events)
      BY <1>5, DeliverCases
    <2>2. CASE UNCHANGED <<scanning, rescanning>> /\ (~events[1].live \/ events[1].dir # path \/ events[1].kind = "entries")
      <3>1. LiveInv'
        <4>1. task'.runs \/ rescanning' => scanning'
          BY <2>1, <2>2 DEF LiveInv
        <4>2. ASSUME NEW i \in 1..Len(events'), events'[i].live
              PROVE  /\ scanning' /\ events'[i].dir = path'
                     /\ events'[i].kind # "entries" => ~task'.runs /\ i = Len(events')
          <5>1. /\ i + 1 \in 1..Len(events) /\ events'[i] = events[i + 1]
                /\ Len(events') = Len(events) - 1 /\ i \in Nat
            BY <2>1, FrontOfEvents
          <5>2. /\ scanning /\ events[i + 1].dir = path
                /\ events[i + 1].kind # "entries" => ~task.runs /\ i + 1 = Len(events)
            BY <4>2, <5>1 DEF LiveInv
          <5>3. i + 1 = Len(events) => i = Len(events')
            BY <1>0, <5>1
          <5> QED BY <2>1, <2>2, <5>1, <5>2, <5>3
        <4> QED BY <4>1, <4>2 DEF LiveInv
      <3>2. ScansAreUnderWay'
        <4>1. SUFFICES ASSUME scanning, ~task.runs
              PROVE  \E i \in 1..Len(events') : events'[i].live /\ events'[i].dir = path
                                             /\ events'[i].kind \in {"finished", "failed"}
          BY <2>1, <2>2 DEF ScansAreUnderWay
        <4>2. PICK i \in 1..Len(events) : events[i].live /\ events[i].dir = path
                                          /\ events[i].kind \in {"finished", "failed"}
          BY <4>1 DEF ScansAreUnderWay
        <4>3. i # 1
          BY <2>2, <4>2
        <4> QED BY <2>1, <4>2, <4>3, FrontOfEvents
      <3> QED BY <3>1, <3>2
    <2>3. CASE events[1].live /\ events[1].kind # "entries" /\ ~scanning' /\ ~rescanning'
      <3>1. ~task.runs /\ 1 = Len(events)
        BY <2>1, <2>3, FrontOfEvents DEF LiveInv
      <3>2. Len(events') = 0
        BY <2>1, <3>1, FrontOfEvents
      <3>3. ~task'.runs /\ ~rescanning' /\ ~scanning' /\ \A i \in 1..Len(events') : FALSE
        <4>1. \A i \in 1..Len(events') : FALSE
          BY <3>2
        <4>2. ~task'.runs
          BY <2>1, <3>1
        <4> QED BY <2>3, <4>1, <4>2, Zenon
      <3>4. LiveInv'
        BY <3>3 DEF LiveInv
      <3>5. ScansAreUnderWay'
        BY <3>3 DEF ScansAreUnderWay
      <3> QED BY <3>4, <3>5
    <2>4. ASSUME EntriesReady(events[1].batch) PROVE UNCHANGED <<scanning, rescanning>>
      BY <2>4 DEF EntriesReady
    <2>5. ASSUME ScanFinished \/ ScanFailed PROVE ~scanning' /\ ~rescanning'
      BY <2>5 DEF ScanFinished, ScanFailed
    <2>6. \/ UNCHANGED <<scanning, rescanning>> /\ (~events[1].live \/ events[1].dir # path)
          \/ events[1].live /\ events[1].kind = "entries" /\ EntriesReady(events[1].batch)
          \/ events[1].live /\ events[1].kind # "entries" /\ (ScanFinished \/ ScanFailed)
      BY <1>5, DeliverCases
    <2> QED BY <2>2, <2>3, <2>4, <2>5, <2>6
  <1>6. CASE Timer
    BY <1>1, <1>2, <1>6, ScanFlush DEF Rescan, LiveInv
  <1> QED BY <1>1, <1>2, <1>3, <1>4, <1>5, <1>6, ScanAlone DEF Next, Worker, SetPath

(* The panel never waits for a scan that nobody makes. *)
THEOREM ScansAlwaysUnderWay ==
    ASSUME ListingAssumption
    PROVE  Spec => []ScansAreUnderWay
  <1>1. Init => LiveInv /\ ScansAreUnderWay
    BY DEF Init, LiveInv, ScansAreUnderWay
  <1>2. TypeOK /\ LiveInv /\ ScansAreUnderWay /\ [Next]_vars => LiveInv' /\ ScansAreUnderWay'
    BY ScanStep
  <1> QED BY <1>1, <1>2, TypesHold, PTL DEF Spec

(* Outside a rescan a deletion marks its names, which the scan may have    *)
(* posted already.                                                         *)
HiddenInv == scanning /\ ~rescanning => removals \subseteq raced

(* What becomes of a file that anybody changes during a scan is marked. *)
LEMMA ChangesRace ==
    ASSUME TypeOK, Anybody \/ \E n \in Names : DeleteOne(n)
    PROVE  /\ raced \subseteq raced'
           /\ scanning => \A n \in Names \ raced' : content'[path][n] = content[path][n]
  <1>1. ASSUME NEW d \in Dirs, NEW new, NEW changed, NEW reports, Change(d, new, changed, reports),
               \A n \in Names \ changed : new[n] = content[d][n]
        PROVE  /\ raced \subseteq raced'
               /\ scanning => \A n \in Names \ raced' : content'[path][n] = content[path][n]
    <2>1. /\ content' = [content EXCEPT ![d] = new]
          /\ raced' = IF d = path /\ (scanning \/ ~watching) THEN raced \cup changed ELSE raced
      BY <1>1 DEF Change
    <2>2. raced \subseteq raced'
      BY <2>1
    <2>3. path \in Dirs /\ content \in [Dirs -> [Names -> Version]]
      BY DEF TypeOK
    <2>4. CASE d # path
      <3>1. content'[path] = content[path]
        BY <2>1, <2>3, <2>4
      <3> QED BY <2>2, <3>1
    <2>5. CASE d = path
      <3>1. content'[path] = new
        BY <2>1, <2>3, <2>5
      <3>2. scanning => raced' = raced \cup changed
        BY <2>1, <2>5
      <3> QED BY <1>1, <2>2, <2>5, <3>1, <3>2
    <2> QED BY <2>4, <2>5
  <1>2. ASSUME NEW d \in Dirs, NEW n \in Names
        PROVE  /\ content[d] = [m \in Names |-> content[d][m]]
               /\ \A v : \A m \in Names \ {n} : [content[d] EXCEPT ![n] = v][m] = content[d][m]

    BY DEF TypeOK
  <1>3. ASSUME NEW d \in Dirs, NEW n \in Names,
               \/ Create(d, n) \/ Modify(d, n) \/ Delete(d, n)
               \/ \E m \in Names : Rename(d, n, m)
        PROVE  /\ raced \subseteq raced'
               /\ scanning => \A m \in Names \ raced' : content'[path][m] = content[path][m]
    <2>1. CASE Create(d, n) \/ Modify(d, n)
      <3> DEFINE new == [content[d] EXCEPT ![n] = Stamp]
      <3>1. PICK reports : Change(d, new, {n}, reports)
        BY <2>1 DEF Create, Modify
      <3>2. \A m \in Names \ {n} : new[m] = content[d][m]
        BY <1>2
      <3> HIDE DEF new
      <3> QED BY <1>1, <3>1, <3>2
    <2>2. CASE Delete(d, n)
      <3> DEFINE new == [content[d] EXCEPT ![n] = 0]
      <3>1. PICK reports : Change(d, new, {n}, reports)
        BY <2>2 DEF Delete
      <3>2. \A m \in Names \ {n} : new[m] = content[d][m]
        BY <1>2
      <3> HIDE DEF new
      <3> QED BY <1>1, <3>1, <3>2
    <2>3. ASSUME NEW k \in Names, Rename(d, n, k)
          PROVE  /\ raced \subseteq raced'
                 /\ scanning => \A m \in Names \ raced' : content'[path][m] = content[path][m]
      <3> DEFINE new == [content[d] EXCEPT ![n] = 0, ![k] = Stamp]
      <3>1. Change(d, new, {n, k}, <<Report("MovedFrom", n), Report("MovedTo", k)>>)
        BY <2>3 DEF Rename
      <3>2. \A m \in Names \ {n, k} : new[m] = content[d][m]
        BY DEF TypeOK
      <3> HIDE DEF new
      <3> QED BY <1>1, <3>1, <3>2
    <2> QED BY <1>3, <2>1, <2>2, <2>3
  <1>4. ASSUME NEW n \in Names, DeleteOne(n)
        PROVE  /\ raced \subseteq raced'
               /\ scanning => \A m \in Names \ raced' : content'[path][m] = content[path][m]
    <2>1. deleting.dir \in Dirs
      BY DEF TypeOK
    <2>2. CASE UNCHANGED <<fsVars, raced>>
      BY <2>2 DEF fsVars
    <2>3. CASE ~UNCHANGED <<fsVars, raced>>
      <3> DEFINE new == [content[deleting.dir] EXCEPT ![n] = 0]
      <3>1. PICK kind : Change(deleting.dir, new, {n},
                               <<Report(kind, n)>>)
        BY <1>4, <2>3 DEF DeleteOne
      <3>2. \A m \in Names \ {n} : new[m] = content[deleting.dir][m]
        BY <1>2, <2>1
      <3> HIDE DEF new
      <3> QED BY <1>1, <2>1, <3>1, <3>2
    <2> QED BY <2>2, <2>3
  <1> QED BY <1>3, <1>4 DEF Anybody

(* However often a delta is applied, a name that is pending gets no row. *)
LEMMA AppliedHides ==
    ASSUME TypeOK, NEW delta, NEW times \in Nat, NEW hidden \in SUBSET removals,
           \A n \in hidden : rows[n] = <<>>
    PROVE  \A n \in hidden : Applied(delta, times)[n] = <<>>
  <1> DEFINE S == {old \in [Names -> Row] : \A n \in hidden : old[n] = <<>>}
  <1>1. rows \in S
    BY DEF TypeOK, Row
  <1>2. ASSUME NEW old \in S
        PROVE  AppliedOnce(old, delta) \in S
    <2>1. \A n \in Names : /\ RemoveRow(old[n]) \in Row /\ RefreshRow(old[n], n) \in Row
                           /\ old[n] = <<>> => RemoveRow(old[n]) = <<>>
      BY RowTypes
    <2>2. hidden \subseteq Names
      BY DEF TypeOK
    <2> QED BY <2>1, <2>2 DEF AppliedOnce
  <1> HIDE DEF S
  <1>3. Applied(delta, times) \in S
    BY <1>1, <1>2, AppliedEach
  <1> QED BY <1>3 DEF S

(* Every step keeps a pending name without a row. *)
LEMMA HiddenStep ==
    ASSUME ListingAssumption, TypeOK, LiveInv, HiddenInv, DeletedStayHidden, [Next]_vars
    PROVE  HiddenInv' /\ DeletedStayHidden'
  <1>0. rows \in [Names -> Row] /\ removals \subseteq Names /\ <<>> \in Row
    BY DEF TypeOK, Row
  <1>1. ASSUME UNCHANGED <<rows, removals, scanning, rescanning>>, raced \subseteq raced'
        PROVE  HiddenInv' /\ DeletedStayHidden'
    BY <1>1 DEF HiddenInv, DeletedStayHidden
  <1>2. CASE Worker \/ ReadFails \/ StartWatching \/ UNCHANGED vars
    BY <1>1, <1>2 DEF Worker, ReadEntry, ReadEnds, ReadFails, StartWatching, vars, modelVars
  <1>3. CASE Anybody \/ \E n \in Names : DeleteOne(n)
    <2>1. UNCHANGED modelVars
      BY <1>3 DEF Anybody, Create, Modify, Delete, Rename, DeleteOne
    <2> QED BY <1>1, <1>3, <2>1, ChangesRace DEF modelVars
  <1>4. ASSUME NEW d \in Dirs, SetPath(d)
        PROVE  HiddenInv' /\ DeletedStayHidden'
    BY <1>4 DEF SetPath, HiddenInv, DeletedStayHidden
  <1>5. CASE DeliverScan
    <2>1. UNCHANGED raced
      BY <1>5, DeliverCases
    <2>2. CASE UNCHANGED <<rows, scanning, rescanning, seen, removals, deferred, failed>>
      BY <1>1, <2>1, <2>2
    <2>3. CASE events[1].live /\ EntriesReady(events[1].batch)
      <3>1. scanning /\ UNCHANGED <<scanning, rescanning, removals>> /\ events[1].batch \in [Names -> Version]
        BY <1>5, <2>3, FrontOfEvents, DeliverCases DEF LiveInv, EntriesReady, ScanEvent
      <3>2. CASE rescanning
        <4>1. \A n \in removals : rows'[n] = rows[n]
          BY <2>3, <3>1, <3>2, MergeTypes DEF EntriesReady
        <4> QED BY <2>1, <3>1, <3>2, <4>1 DEF HiddenInv, DeletedStayHidden
      <3>3. CASE ~rescanning
        BY <2>1, <3>1, <3>3 DEF HiddenInv, DeletedStayHidden
      <3> QED BY <3>2, <3>3
    <2>4. ASSUME NEW old \in [Names -> Row], ReleaseRemovals(old, deferred), ~scanning',
                 \A n \in Names : old[n] = rows[n] \/ old[n] = <<>>
          PROVE  HiddenInv' /\ DeletedStayHidden'
      <3>1. removals' \subseteq removals /\ \A n \in removals' : n \in Names /\ rows'[n] = old[n]
        BY <1>0, <2>4, ReleaseTypes DEF ReleaseRemovals
      <3> QED BY <2>1, <2>4, <3>1 DEF HiddenInv, DeletedStayHidden
    <2>5. CASE ScanFailed
      BY <1>0, <2>4, <2>5 DEF ScanFailed
    <2>6. CASE ScanFinished
      <3>1. CASE rescanning
        <4> DEFINE old == [n \in Names |-> IF n \in seen THEN rows[n] ELSE <<>>]
        <4>1. old \in [Names -> Row] /\ \A n \in Names : old[n] = rows[n] \/ old[n] = <<>>
          BY <1>0
        <4>2. ReleaseRemovals(old, deferred) /\ ~scanning'
          BY <2>6, <3>1 DEF ScanFinished
        <4> HIDE DEF old
        <4> QED BY <2>4, <4>1, <4>2
      <3>2. CASE ~rescanning
        BY <2>1, <2>6, <3>2 DEF ScanFinished, HiddenInv, DeletedStayHidden
      <3> QED BY <3>1, <3>2
    <2> QED BY <1>5, <2>2, <2>3, <2>5, <2>6, DeliverCases
  <1>6. ASSUME NEW d \in Dirs, NEW k \in 1..Len(raw[d]), Flush(d, k)
        PROVE  HiddenInv' /\ DeletedStayHidden'
    <2>1. UNCHANGED removals /\ raced \subseteq raced'
      BY <1>6 DEF Flush
    <2>2. CASE UNCHANGED <<rows, scanning, rescanning, seen, scanVars>>
      BY <1>1, <2>1, <2>2
    <2>3. CASE Rescan
      BY <2>1, <2>3 DEF Rescan, StartScan, HiddenInv, DeletedStayHidden
    <2>4. ASSUME NEW delta, rows' = Applied(delta, conns[d]), UNCHANGED <<scanning, rescanning>>
          PROVE  HiddenInv' /\ DeletedStayHidden'
      <3>1. conns[d] \in Nat
        BY DEF TypeOK
      <3>2. \A n \in removals \ raced : rows'[n] = <<>>
        BY <2>4, <3>1, AppliedHides DEF DeletedStayHidden
      <3> QED BY <2>1, <2>4, <3>2 DEF HiddenInv, DeletedStayHidden
    <2> QED BY <1>6, <2>2, <2>3, <2>4, FlushCases
  <1>7. ASSUME NEW names \in SUBSET Names, StartDelete(names)
        PROVE  HiddenInv' /\ DeletedStayHidden'
    <2>1. /\ removals' = removals \cup names
          /\ rows' = [n \in Names |-> IF n \in removals' THEN <<>> ELSE rows[n]]
          /\ raced' = IF scanning /\ ~rescanning THEN raced \cup names ELSE raced
          /\ UNCHANGED <<scanning, rescanning>>
      BY <1>7 DEF StartDelete, ExpectRemoval
    <2> QED BY <1>0, <2>1 DEF HiddenInv, DeletedStayHidden
  <1>8. CASE EndDelete
    <2>1. UNCHANGED <<scanning, rescanning, raced>>
      BY <1>8 DEF EndDelete
    <2>2. CASE UNCHANGED <<rows, removals>>
      BY <1>1, <2>1, <2>2
    <2>3. CASE ReleaseRemovals(rows, deleting.names)
      <3>1. removals' \subseteq removals /\ \A n \in removals' : n \in Names /\ rows'[n] = rows[n]
        BY <1>0, <2>3, ReleaseTypes DEF ReleaseRemovals
      <3> QED BY <2>1, <3>1 DEF HiddenInv, DeletedStayHidden
    <2> QED BY <1>8, <2>2, <2>3 DEF EndDelete
  <1> QED BY <1>2, <1>3, <1>4, <1>5, <1>6, <1>7, <1>8 DEF Next, Timer

(* The row of a file being deleted stays away until the job has ended. *)
THEOREM DeletedAlwaysHidden ==
    ASSUME ListingAssumption
    PROVE  Spec => []DeletedStayHidden
  <1>1. Init => LiveInv /\ ScansAreUnderWay /\ HiddenInv /\ DeletedStayHidden
    BY DEF Init, LiveInv, ScansAreUnderWay, HiddenInv, DeletedStayHidden
  <1>2. TypeOK /\ LiveInv /\ ScansAreUnderWay /\ HiddenInv /\ DeletedStayHidden /\ [Next]_vars
            => LiveInv' /\ ScansAreUnderWay' /\ HiddenInv' /\ DeletedStayHidden'
    BY ScanStep, HiddenStep
  <1> QED BY <1>1, <1>2, TypesHold, PTL DEF Spec

-----------------------------------------------------------------------------
(* Rows that stay                                                          *)

(* A batch that is still to be delivered. *)
Carries(i, n) == events[i].live /\ events[i].kind = "entries" /\ events[i].batch[n] # 0

(* A name that the scan has yet to read or to deliver. *)
Coming(n) ==
    \/ task.runs /\ (n \in task.todo \/ task.batch[n] # 0)
    \/ \E i \in 1..Len(events) : Carries(i, n)

OnItsWay(n) == n \in seen \/ Coming(n)

FailureComes == \E i \in 1..Len(events) : events[i].live /\ events[i].kind = "failed"

(* Unless its end is a failure, a rescan sees what did not change during it. *)
SeenInv ==
    rescanning =>
        \/ FailureComes
        \/ \A n \in Names \ raced : content[path][n] # 0 => OnItsWay(n)

(* All of these together are checked by TLC, too. *)
ListingInv == LiveInv /\ HiddenInv /\ SeenInv

(* Every step keeps this. *)
LEMMA SeenStep ==
    ASSUME ListingAssumption, TypeOK, LiveInv, SeenInv, [Next]_vars
    PROVE  SeenInv'
  <1>0. Len(events) \in Nat /\ path \in Dirs
    BY DEF TypeOK
  <1>1. ASSUME UNCHANGED <<content, task, events, path, rescanning, seen>>, raced \subseteq raced'
        PROVE  SeenInv'
    BY <1>1 DEF SeenInv, FailureComes, OnItsWay, Coming, Carries
  <1>2. ASSUME StartScan
        PROVE  SeenInv'
    BY <1>2, NewScan DEF SeenInv, FailureComes, OnItsWay, Coming, Carries
  <1>3. CASE Anybody \/ \E n \in Names : DeleteOne(n)
    <2>1. UNCHANGED <<task, events, path, scanning, rescanning, seen>>
      BY <1>3, ScanAlone
    <2>2. raced \subseteq raced'
          /\ (scanning => \A n \in Names \ raced' : content'[path][n] = content[path][n])
      BY <1>3, ChangesRace
    <2>3. rescanning => scanning
      BY DEF LiveInv
    <2> QED BY <2>1, <2>2, <2>3 DEF SeenInv, FailureComes, OnItsWay, Coming, Carries
  <1>4. CASE StartWatching \/ EndDelete \/ UNCHANGED vars \/ \E names \in SUBSET Names \ {{}} : StartDelete(names)
    <2>1. UNCHANGED <<task, events, path, scanning, rescanning, seen>>
      BY <1>4, ScanAlone
    <2>2. UNCHANGED content /\ raced \subseteq raced'
      BY <1>4 DEF StartWatching, EndDelete, StartDelete, vars, fsVars
    <2> QED BY <1>1, <2>1, <2>2
  <1>5. ASSUME NEW n \in Names, ReadEntry(n)
        PROVE  SeenInv'
    <2> DEFINE b == [task.batch EXCEPT ![n] = content[path][n]]
    <2>1. UNCHANGED <<content, path, rescanning, seen, raced>>
      BY <1>5 DEF ReadEntry, modelVars, fsVars
    <2>2. task.runs /\ task'.runs /\ task'.todo = task.todo \ {n}
      BY <1>5, ReadEntryPosts
    <2>3. ASSUME NEW m \in Names, m # n, task.batch[m] # 0
          PROVE  b[m] # 0
      BY <2>3 DEF TypeOK
    <2>4. b[n] = content[path][n]
      BY DEF TypeOK
    <2>5. \/ task'.batch = b /\ events' = events
          \/ /\ Len(events') = Len(events) + 1
             /\ events'[Len(events) + 1] = Posted("entries", b)
             /\ \A i \in 1..Len(events) : events'[i] = events[i]
      BY <1>5, ReadEntryPosts
    <2> HIDE DEF b
    <2>6. /\ Posted("entries", b).live /\ Posted("entries", b).kind = "entries"
          /\ Posted("entries", b).batch = b
      BY DEF Posted
    <2>7. \A i \in 1..Len(events) : /\ i \in 1..Len(events') /\ events'[i] = events[i]
      BY <1>0, <2>5
    <2>8. ASSUME NEW m \in Names, content[path][m] # 0, OnItsWay(m)
          PROVE  OnItsWay(m)'
      <3>1. CASE m \in seen
        BY <2>1, <3>1 DEF OnItsWay, Coming, Carries
      <3>2. CASE m \in task.todo /\ m # n
        BY <2>2, <3>2 DEF OnItsWay, Coming, Carries
      <3>3. CASE m = n \/ task.batch[m] # 0
        <4>1. b[m] # 0
          BY <2>3, <2>4, <2>8, <3>3
        <4>2. CASE task'.batch = b
          BY <2>2, <4>1, <4>2 DEF OnItsWay, Coming, Carries
        <4>3. CASE Len(events') = Len(events) + 1 /\ events'[Len(events) + 1] = Posted("entries", b)
          <5>1. Len(events) + 1 \in 1..Len(events')
            BY <1>0, <4>3
          <5> QED BY <2>6, <4>1, <4>3, <5>1 DEF OnItsWay, Coming, Carries
        <4> QED BY <2>5, <4>2, <4>3
      <3>4. CASE \E i \in 1..Len(events) :
                     events[i].live /\ events[i].kind = "entries" /\ events[i].batch[m] # 0
        BY <2>7, <3>4 DEF OnItsWay, Coming, Carries
      <3> QED BY <2>8, <3>1, <3>2, <3>3, <3>4 DEF OnItsWay, Coming, Carries
    <2> QED BY <2>1, <2>7, <2>8 DEF SeenInv, FailureComes
  <1>6. CASE ReadEnds
    <2>1. UNCHANGED <<content, path, rescanning, seen, raced>>
      BY <1>6 DEF ReadEnds, modelVars, fsVars
    <2>2. /\ task.todo = {}
          /\ \A i \in 1..Len(events) : i \in 1..Len(events') /\ events'[i] = events[i]
          /\ InBatch(task.batch) # {} =>
                 Len(events) + 1 \in 1..Len(events')
                 /\ events'[Len(events) + 1] = Posted("entries", task.batch)
      BY <1>0, <1>6, ReadEndsPosts
    <2>3. ASSUME NEW m \in Names, OnItsWay(m)
          PROVE  OnItsWay(m)'
      <3>1. CASE m \in seen
        BY <2>1, <3>1 DEF OnItsWay, Coming, Carries
      <3>2. CASE task.batch[m] # 0
        <4>1. InBatch(task.batch) # {}
          BY <3>2 DEF InBatch
        <4> QED BY <2>2, <3>2, <4>1 DEF OnItsWay, Coming, Carries, Posted
      <3>3. CASE \E i \in 1..Len(events) :
                     events[i].live /\ events[i].kind = "entries" /\ events[i].batch[m] # 0
        BY <2>2, <3>3 DEF OnItsWay, Coming, Carries
      <3> QED BY <2>2, <2>3, <3>1, <3>2, <3>3 DEF OnItsWay, Coming, Carries
    <2> QED BY <2>1, <2>2, <2>3 DEF SeenInv, FailureComes
  <1>7. CASE ReadFails
    <2>1. Len(events) + 1 \in 1..Len(events') /\ events'[Len(events) + 1] = Posted("failed", NoBatch)
      BY <1>0, <1>7, ReadFailsPosts
    <2> QED BY <2>1 DEF SeenInv, FailureComes, Posted
  <1>8. CASE DeliverScan
    <2>1. /\ UNCHANGED <<content, task, path, raced>> /\ events # <<>> /\ events' = Tail(events)
      BY <1>8, DeliverCases DEF fsVars
    <2>2. ASSUME rescanning, UNCHANGED rescanning, seen \subseteq seen',
                 ~events[1].live \/ events[1].dir # path \/ events[1].kind = "entries",
                 events[1].live => \A m \in Names : events[1].batch[m] # 0 => m \in seen'
          PROVE  SeenInv'
      <3>1. \A i \in 1..Len(events) : i # 1 => i - 1 \in 1..Len(events') /\ events'[i - 1] = events[i]
        BY <2>1, FrontOfEvents
      <3>2. ASSUME NEW i \in 1..Len(events), events[i].live, events[i].kind = "failed"
            PROVE  SeenInv'
        <4>1. i # 1
          BY <2>2, <3>2 DEF LiveInv
        <4> QED BY <3>1, <3>2, <4>1 DEF SeenInv, FailureComes
      <3>3. ASSUME NEW m \in Names, OnItsWay(m)
            PROVE  OnItsWay(m)'
        <4>1. CASE m \in seen
          BY <2>2, <4>1 DEF OnItsWay, Coming, Carries
        <4>2. CASE task.runs /\ (m \in task.todo \/ task.batch[m] # 0)
          BY <2>1, <4>2 DEF OnItsWay, Coming, Carries
        <4>3. ASSUME NEW i \in 1..Len(events),
                     events[i].live, events[i].kind = "entries", events[i].batch[m] # 0
              PROVE  OnItsWay(m)'
          <5>1. CASE i = 1
            BY <2>2, <4>3, <5>1 DEF OnItsWay, Coming, Carries
          <5>2. CASE i # 1
            BY <3>1, <4>3, <5>2 DEF OnItsWay, Coming, Carries
          <5> QED BY <5>1, <5>2
        <4> QED BY <3>3, <4>1, <4>2, <4>3 DEF OnItsWay, Coming, Carries
      <3> QED BY <2>1, <2>2, <3>2, <3>3 DEF SeenInv, FailureComes
    <2>3. CASE ~rescanning'
      BY <2>3 DEF SeenInv, FailureComes
    <2>4. CASE ~events[1].live \/ events[1].dir # path
      <3>1. ~events[1].live
        BY <2>1, <2>4, FrontOfEvents DEF LiveInv
      <3>2. UNCHANGED <<rescanning, seen>>
        BY <1>8, <2>4, DeliverCases
      <3> QED BY <2>2, <2>3, <3>1, <3>2
    <2>5. CASE events[1].kind = "entries" /\ EntriesReady(events[1].batch) /\ rescanning
      <3>1. events[1].batch \in [Names -> Version]
        BY <2>1, FrontOfEvents DEF ScanEvent
      <3>2. UNCHANGED rescanning /\ seen' = seen \cup InBatch(events[1].batch)
        BY <2>5, <3>1, MergeTypes DEF EntriesReady
      <3>3. \A m \in Names : events[1].batch[m] # 0 => m \in seen'
        BY <3>2 DEF InBatch
      <3> QED BY <2>2, <2>5, <3>2, <3>3
    <2>6. CASE EntriesReady(events[1].batch) /\ ~rescanning
      BY <2>3, <2>6 DEF EntriesReady
    <2>7. CASE ScanFinished \/ ScanFailed
      BY <2>3, <2>7 DEF ScanFinished, ScanFailed
    <2> QED BY <1>8, <2>4, <2>5, <2>6, <2>7, DeliverCases
  <1>9. CASE Timer
    <2>1. UNCHANGED <<content, path>> /\ raced \subseteq raced'
      BY <1>9 DEF Timer, Flush
    <2> QED BY <1>1, <1>2, <1>9, <2>1, ScanFlush DEF Rescan
  <1> QED BY <1>2, <1>3, <1>4, <1>5, <1>6, <1>7, <1>8, <1>9 DEF Next, Worker, SetPath

(* However often a delta is applied, a name it does not report gone keeps  *)
(* its row.                                                                *)
LEMMA AppliedStays ==
    ASSUME TypeOK, NEW delta, NEW times \in Nat
    PROVE  \A n \in Names \ Gone(delta) : rows[n] # <<>> => Applied(delta, times)[n] # <<>>
  <1> DEFINE S == {old \in [Names -> Row] :
                       \A n \in Names \ Gone(delta) : rows[n] # <<>> => old[n] # <<>>}
  <1>1. rows \in S
    BY DEF TypeOK, Row
  <1>2. ASSUME NEW old \in S
        PROVE  AppliedOnce(old, delta) \in S
    <2>1. \A n \in Names : /\ RemoveRow(old[n]) \in Row /\ RefreshRow(old[n], n) \in Row
                           /\ old[n] # <<>> => RefreshRow(old[n], n) # <<>>
      BY RowTypes
    <2> QED BY <2>1 DEF AppliedOnce, Gone
  <1> HIDE DEF S
  <1>3. Applied(delta, times) \in S
    BY <1>1, <1>2, AppliedEach
  <1> QED BY <1>3 DEF S

(* A row that shows its file is dropped only for a reason. *)
LEMMA StayStep ==
    ASSUME ListingAssumption, TypeOK, LiveInv, SeenInv, [Next]_vars
    PROVE  RowsOfFilesStay
  <1> SUFFICES ASSUME path' = path, visits' = visits, NEW n \in Names, rows[n] # <<>>,
                      rows'[n] = <<>>, content[path][n] = rows[n][1],
                      n \notin removals', n \notin raced', n \notin Reported(raw[path])
               PROVE  FALSE
    BY DEF RowsOfFilesStay
  <1>0. rows \in [Names -> Row] /\ <<>> \in Row
    BY DEF TypeOK, Row
  <1>1. content[path][n] # 0
    <2>1. rows[n] \in Seq(Version \ {0})
      BY DEF TypeOK
    <2>2. rows[n][1] \in Version \ {0}
      BY <2>1
    <2> QED BY <2>2
  <1>2. ~UNCHANGED rows
    OBVIOUS
  <1>3. ASSUME NEW d \in Dirs, SetPath(d)
        PROVE  FALSE
    <2>1. visits \in Nat /\ visits' = visits + 1
      BY <1>3 DEF SetPath, TypeOK, ListingAssumption
    <2> QED BY <2>1
  <1>4. CASE DeliverScan
    <2>1. UNCHANGED raced /\ events # <<>>
      BY <1>4, DeliverCases
    <2>2. CASE EntriesReady(events[1].batch)
      <3>1. events[1].batch \in [Names -> Version]
        BY <2>1, FrontOfEvents DEF ScanEvent
      <3> QED BY <2>2, <3>1, EntriesTypes
    <2>3. CASE ScanFailed
      BY <1>0, <2>3, ReleaseTypes DEF ScanFailed
    <2>4. CASE events[1].live /\ events[1].kind = "finished" /\ ScanFinished
      <3> DEFINE old == [m \in Names |-> IF m \in seen THEN rows[m] ELSE <<>>]
      <3>1. rescanning /\ ReleaseRemovals(old, deferred)
        BY <1>2, <2>4 DEF ScanFinished
      <3>2. old \in [Names -> Row] /\ (n \in seen => old[n] # <<>>)
        BY <1>0
      <3> HIDE DEF old
      <3>3. n \notin seen
        <4>1. \A m \in Names : old[m] # <<>> => rows'[m] # <<>>
          BY <3>1, <3>2, ReleaseTypes, Zenon
        <4> QED BY <3>2, <4>1
      <3>4. ~task.runs /\ 1 = Len(events)
        BY <2>1, <2>4, FrontOfEvents DEF LiveInv
      <3>5. \A i \in 1..Len(events) : i = 1
        <4>1. \A i \in 1..1 : i = 1
          OBVIOUS
        <4> QED BY <3>4, <4>1, Zenon
      <3>6. \A i \in 1..Len(events) : events[i].kind = "finished"
        BY <2>4, <3>5
      <3>7. ~OnItsWay(n)
        BY <3>3, <3>4, <3>6 DEF OnItsWay, Coming, Carries
      <3> QED BY <1>1, <2>1, <3>1, <3>6, <3>7 DEF SeenInv, FailureComes
    <2> QED BY <1>2, <1>4, <2>2, <2>3, <2>4, DeliverCases
  <1>5. ASSUME NEW d \in Dirs, NEW k \in 1..Len(raw[d]), Flush(d, k)
        PROVE  FALSE
    <2> DEFINE log == SubSeq(raw[d], 1, k)
    <2>0. ~Rescan
      BY <1>2 DEF Rescan
    <2>1. conns[d] # 0 /\ rows' = Applied(Coalesce(log), conns[d])
      BY <1>2, <1>5, <2>0, FlushCases, Zenon
    <2>2. conns[d] \in Nat
      BY DEF TypeOK
    <2>3. log \in Seq(Event) /\ Mentioned(log) \subseteq Mentioned(raw[d])
      BY FlushedAre
    <2>4. raced' = IF d = path THEN raced \cup Untold(log)
                   ELSE IF conns[d] > 0 THEN raced \cup Reported(log) ELSE raced
      BY <1>5 DEF Flush
    <2> HIDE DEF log
    <2>5. n \in Gone(Coalesce(log))
      BY <2>1, <2>2, AppliedStays
    <2>6. n \in Mentioned(log)
      BY <2>3, <2>5, GoneAreReported
    <2>7. d # path /\ conns[d] > 0 => n \in raced'
      BY <2>4, <2>6 DEF Mentioned, Reported
    <2>8. d = path => n \in Reported(raw[path])
      BY <2>3, <2>6 DEF Mentioned, Reported
    <2>9. conns[d] > 0
      BY <2>1, <2>2
    <2> QED BY <2>7, <2>8, <2>9
  <1>6. ASSUME NEW names \in SUBSET Names, StartDelete(names)
        PROVE  FALSE
    BY <1>6 DEF StartDelete, ExpectRemoval
  <1>7. CASE EndDelete
    BY <1>0, <1>2, <1>7, ReleaseTypes DEF EndDelete
  <1>8. CASE Anybody \/ Worker \/ ReadFails \/ StartWatching \/ UNCHANGED vars
             \/ \E m \in Names : DeleteOne(m)
    BY <1>2, <1>8 DEF Anybody, Create, Modify, Delete, Rename, Worker, ReadEntry, ReadEnds, ReadFails,
                      StartWatching, DeleteOne, vars, modelVars
  <1> QED BY <1>3, <1>4, <1>5, <1>6, <1>7, <1>8 DEF Next, Timer

(* What is expected of a scan, of names in hiding and of a rescan.         *)
THEOREM ListingInvHolds ==
    ASSUME ListingAssumption
    PROVE  Spec => []ListingInv
  <1>1. Init => ListingInv /\ ScansAreUnderWay /\ DeletedStayHidden
    BY DEF Init, ListingInv, LiveInv, HiddenInv, SeenInv, FailureComes, ScansAreUnderWay,
           DeletedStayHidden
  <1>2. TypeOK /\ ListingInv /\ ScansAreUnderWay /\ DeletedStayHidden /\ [Next]_vars
            => ListingInv' /\ ScansAreUnderWay' /\ DeletedStayHidden'
    BY ScanStep, SeenStep, HiddenStep DEF ListingInv
  <1> QED BY <1>1, <1>2, TypesHold, PTL DEF Spec

(* No scan, delta or rescan drops the row of a file that stayed.           *)
THEOREM RowsAlwaysStay ==
    ASSUME ListingAssumption
    PROVE  Spec => [][RowsOfFilesStay]_vars
  <1>1. TypeOK /\ ListingInv /\ [Next]_vars => RowsOfFilesStay
    BY StayStep DEF ListingInv
  <1> QED BY <1>1, TypesHold, ListingInvHolds, PTL DEF Spec

-----------------------------------------------------------------------------
(* Once everything has settled                                             *)
(*                                                                         *)
(* The rows of a panel are right except where something is outstanding: a  *)
(* name that is hidden while it is deleted, one with reports still to come *)
(* from the watcher, or any at all when the watcher has lost events and    *)
(* has yet to say so.                                                      *)

Overflown(log) == \E i \in 1..Len(log) : log[i].kind = "Overflow"

Lasting(log) == \A i \in 1..Len(log) : log[i].kind # "SelfGone"

Doubtful(n) == n \in removals \cup Mentioned(raw[path]) \/ Overflown(raw[path])

(* The last report on a name, if nothing was lost since, tells the truth. *)
Truthful(log, n, there) ==
    \A i \in 1..Len(log) :
        /\ LastOf(log, n, i)
        /\ \A k \in (i + 1)..Len(log) : log[k].kind # "Overflow"
        => (Shows(log[i]) <=> there)

(* Only a panel whose first scan has not ended may have no watcher. *)
WatchInv == IF watching THEN conns[path] # 0 ELSE scanning /\ ~rescanning

LogInv ==
    /\ \A d \in Dirs : Lasting(raw[d])
    /\ \A n \in Names \ raced : Truthful(raw[path], n, content[path][n] # 0)

(* A scan reports the files as they are. *)
BatchInv ==
    \A n \in Names \ raced :
        /\ task.runs => task.batch[n] \in {0, content[path][n]}
        /\ \A i \in 1..Len(events) : Carries(i, n) => events[i].batch[n] = content[path][n]

(* During a first scan a name is to be read, in a batch or in a row, and   *)
(* in one of these only.                                                   *)
InOnePlace(n) ==
    /\ rows[n] \in {<<>>, <<content[path][n]>>}
    /\ rows[n] # <<>> => ~Coming(n)
    /\ task.runs /\ n \in task.todo => task.batch[n] = 0
    /\ task.runs /\ (n \in task.todo \/ task.batch[n] # 0) =>
           \A i \in 1..Len(events) : ~Carries(i, n)
    /\ \A i, k \in 1..Len(events) : Carries(i, n) /\ Carries(k, n) => i = k
    /\ content[path][n] # 0 => FailureComes \/ rows[n] # <<>> \/ Coming(n)

(* Nothing else touches it meanwhile. *)
FirstInv ==
    scanning /\ ~rescanning =>
        \A n \in Names \ raced : n \notin Mentioned(raw[path]) /\ InOnePlace(n)

(* Outside of scans each name has at most one row, which is right or in    *)
(* doubt; in a rescan this goes for the names it has seen.                 *)
RowIsRight(n) ==
    /\ Len(rows[n]) <= 1
    /\ ~scanning \/ (rescanning /\ n \in seen) => Doubtful(n) \/ Exact(n)
    /\ rescanning /\ n \in seen => content[path][n] # 0

RowInv == ~failed => \A n \in Names \ raced : RowIsRight(n)

(* What is known of rows, watcher, reports and scans together: the         *)
(* invariant behind SettledIsExact.                                        *)
ExactInv == WatchInv /\ LogInv /\ BatchInv /\ FirstInv /\ RowInv

(* One more event. *)
LEMMA AppendedTells ==
    ASSUME NEW log \in Seq(Event), NEW e \in Event
    PROVE  /\ Append(log, e) \in Seq(Event)
           /\ Mentioned(Append(log, e)) = Mentioned(log) \cup {e.name}
           /\ Overflown(Append(log, e)) <=> Overflown(log) \/ e.kind = "Overflow"
           /\ \A n : \A was, is \in BOOLEAN :
                  /\ Truthful(log, n, was)
                  /\ e.kind # "Overflow"
                  /\ IF e.name = n THEN Shows(e) <=> is ELSE was <=> is
                  => Truthful(Append(log, e), n, is)
           /\ \A n : \A is \in BOOLEAN :
                  e.kind = "Overflow" /\ e.name # n => Truthful(Append(log, e), n, is)
           /\ Lasting(log) /\ e.kind # "SelfGone" => Lasting(Append(log, e))
  <1> DEFINE more == Append(log, e)
             m == Len(log) + 1
  <1>1. /\ more \in Seq(Event) /\ Len(more) = m /\ more[m] = e /\ m \in Nat /\ Len(log) \in Nat
        /\ \A i \in 1..Len(log) : more[i] = log[i]
    OBVIOUS
  <1>2. /\ \A i \in 1..m : i = m \/ i \in 1..Len(log)
        /\ \A i \in 1..Len(log) : i \in 1..m /\ m \in (i + 1)..m
        /\ \A i \in 1..Len(log) : \A k \in (i + 1)..Len(log) : k \in (i + 1)..m /\ k \in 1..Len(log)
        /\ m \in 1..m
    BY <1>1
  <1> HIDE DEF more, m
  <1>3. Mentioned(more) = Mentioned(log) \cup {e.name}
    BY <1>1, <1>2 DEF Mentioned
  <1>4. Overflown(more) <=> Overflown(log) \/ e.kind = "Overflow"
    BY <1>1, <1>2 DEF Overflown
  <1>5. ASSUME NEW n, NEW was \in BOOLEAN, NEW is \in BOOLEAN, Truthful(log, n, was),
               e.kind # "Overflow", IF e.name = n THEN Shows(e) <=> is ELSE was <=> is,
               NEW i \in 1..m, LastOf(more, n, i), \A k \in (i + 1)..m : more[k].kind # "Overflow"
        PROVE  Shows(more[i]) <=> is
    <2>1. CASE i = m
      BY <1>1, <1>5, <2>1 DEF LastOf
    <2>2. CASE i \in 1..Len(log)
      <3>1. e.name # n /\ more[i] = log[i]
        BY <1>1, <1>2, <1>5, <2>2 DEF LastOf
      <3>2. LastOf(log, n, i)
        BY <1>1, <1>2, <1>5, <2>2 DEF LastOf
      <3>3. \A k \in (i + 1)..Len(log) : log[k].kind # "Overflow"
        BY <1>1, <1>2, <1>5, <2>2
      <3> QED BY <1>5, <2>2, <3>1, <3>2, <3>3 DEF Truthful
    <2> QED BY <1>2, <2>1, <2>2
  <1>6. ASSUME NEW n, e.kind = "Overflow", e.name # n,
               NEW i \in 1..m, LastOf(more, n, i), \A k \in (i + 1)..m : more[k].kind # "Overflow"
        PROVE  FALSE
    BY <1>1, <1>2, <1>6 DEF LastOf
  <1>7. \A n : \A was, is \in BOOLEAN :
            /\ Truthful(log, n, was)
            /\ e.kind # "Overflow"
            /\ IF e.name = n THEN Shows(e) <=> is ELSE was <=> is
            => Truthful(more, n, is)
    BY <1>1, <1>5 DEF Truthful
  <1>8. \A n : \A is \in BOOLEAN :
            e.kind = "Overflow" /\ e.name # n => Truthful(more, n, is)
    BY <1>1, <1>6 DEF Truthful
  <1>9. Lasting(log) /\ e.kind # "SelfGone" => Lasting(more)
    BY <1>1, <1>2 DEF Lasting
  <1> QED BY <1>1, <1>3, <1>4, <1>7, <1>8, <1>9 DEF more

(* What is left when the first events have been taken. *)
LEMMA RestTells ==
    ASSUME NEW log \in Seq(Event), NEW k \in 1..Len(log)
    PROVE  LET taken == SubSeq(log, 1, k)
               rest  == SubSeq(log, k + 1, Len(log))
           IN  /\ Mentioned(log) = Mentioned(taken) \cup Mentioned(rest)
               /\ Overflown(log) <=> Overflown(taken) \/ Overflown(rest)
               /\ Lasting(log) => Lasting(taken) /\ Lasting(rest)
               /\ \A n, there : Truthful(log, n, there) => Truthful(rest, n, there)
               /\ \A n : \A there : \A i \in 1..Len(taken) :
                      Truthful(log, n, there) /\ LastOf(taken, n, i) /\ n \notin Mentioned(rest)
                          /\ ~Overflown(log)
                      => (Shows(taken[i]) <=> there)
  <1> DEFINE m == Len(log)
             taken == SubSeq(log, 1, k)
             rest == SubSeq(log, k + 1, m)
  <1>1. /\ m \in Nat /\ k \in Nat /\ k <= m
        /\ taken \in Seq(Event) /\ rest \in Seq(Event)
        /\ Len(taken) = k /\ Len(rest) = m - k
        /\ \A i \in 1..k : taken[i] = log[i]
        /\ \A i \in 1..(m - k) : rest[i] = log[k + i]
    OBVIOUS
  <1> HIDE DEF m, taken, rest
  <1>2. /\ \A i \in 1..m : i \in 1..k \/ (i - k \in 1..(m - k) /\ k + (i - k) = i)
        /\ \A i \in 1..k : i \in 1..m
        /\ \A i \in 1..(m - k) : k + i \in 1..m
        /\ \A i \in 1..(m - k) : \A j \in (k + i + 1)..m :
               j - k \in (i + 1)..(m - k) /\ j - k \in 1..(m - k) /\ k + (j - k) = j
        /\ \A i \in 1..k : \A j \in (i + 1)..m : j \in (i + 1)..k \/ (j - k \in 1..(m - k) /\ k + (j - k) = j)
        /\ \A i \in 1..k : \A j \in (i + 1)..k : j \in 1..k
        /\ \A i \in 1..m : \A j \in (i + 1)..m : j \in 1..m
    BY <1>1
  <1>8. \A i \in 1..m : \/ i \in 1..k /\ log[i] = taken[i]
                        \/ \E j \in 1..(m - k) : log[i] = rest[j]
    <2> SUFFICES ASSUME NEW i \in 1..m
                 PROVE  \/ i \in 1..k /\ log[i] = taken[i]
                        \/ \E j \in 1..(m - k) : log[i] = rest[j]
      OBVIOUS
    <2>1. CASE i \in 1..k
      BY <1>1, <2>1
    <2>2. CASE i - k \in 1..(m - k) /\ k + (i - k) = i
      BY <1>1, <2>2
    <2> QED BY <1>2, <2>1, <2>2
  <1>9. \A i \in 1..(m - k) : k + i \in 1..m /\ rest[i] = log[k + i]
    BY <1>1, <1>2
  <1>3. Mentioned(log) = Mentioned(taken) \cup Mentioned(rest)
    <2>1. \A i \in 1..m : log[i].name \in Mentioned(taken) \cup Mentioned(rest)
      BY <1>1, <1>8 DEF Mentioned
    <2>2. \A i \in 1..k : taken[i].name \in Mentioned(log)
      BY <1>1, <1>2 DEF Mentioned, m
    <2>3. \A i \in 1..(m - k) : rest[i].name \in Mentioned(log)
      BY <1>1, <1>2 DEF Mentioned, m
    <2> QED BY <1>1, <2>1, <2>2, <2>3 DEF Mentioned, m
  <1>4. Overflown(log) <=> Overflown(taken) \/ Overflown(rest)
    <2>1. \A i \in 1..m : log[i].kind = "Overflow" => Overflown(taken) \/ Overflown(rest)
      BY <1>1, <1>8 DEF Overflown
    <2>2. \A i \in 1..k : taken[i].kind = "Overflow" => Overflown(log)
      BY <1>1, <1>2 DEF Overflown, m
    <2>3. \A i \in 1..(m - k) : rest[i].kind = "Overflow" => Overflown(log)
      BY <1>9 DEF Overflown, m
    <2> QED BY <1>1, <2>1, <2>2, <2>3 DEF Overflown, m
  <1>5. ASSUME NEW n, NEW there, Truthful(log, n, there), NEW i \in 1..(m - k), LastOf(rest, n, i),
               \A j \in (i + 1)..(m - k) : rest[j].kind # "Overflow"
        PROVE  Shows(rest[i]) <=> there
    <2>1. rest[i] = log[k + i] /\ k + i \in 1..m
      BY <1>1, <1>2
    <2>2. \A j \in (k + i + 1)..m : log[j].name # n /\ log[j].kind # "Overflow"
      <3>1. ASSUME NEW j \in (k + i + 1)..m
            PROVE  log[j] = rest[j - k] /\ j - k \in (i + 1)..(m - k)
        <4>1. j - k \in (i + 1)..(m - k) /\ j - k \in 1..(m - k) /\ k + (j - k) = j
          BY <1>2, <3>1
        <4> DEFINE l == j - k
        <4>2. l \in 1..(m - k) => rest[l] = log[k + l]
          BY <1>1
        <4> QED BY <4>1, <4>2
      <3>2. \A l \in (i + 1)..(m - k) : rest[l].name # n /\ rest[l].kind # "Overflow"
        BY <1>1, <1>5 DEF LastOf
      <3>3. ASSUME NEW j \in (k + i + 1)..m
            PROVE  log[j].name # n /\ log[j].kind # "Overflow"
        <4> DEFINE l == j - k
        <4>1. log[j] = rest[l] /\ l \in (i + 1)..(m - k)
          BY <3>1
        <4> HIDE DEF l
        <4> QED BY <3>2, <4>1
      <3> QED BY <3>3
    <2>3. LastOf(log, n, k + i)
      BY <1>1, <1>5, <2>1, <2>2 DEF LastOf, m
    <2> QED BY <1>5, <2>1, <2>2, <2>3 DEF Truthful, m
  <1>6. ASSUME NEW n, NEW there, NEW i \in 1..k, Truthful(log, n, there), LastOf(taken, n, i),
               n \notin Mentioned(rest), ~Overflown(log)
        PROVE  Shows(taken[i]) <=> there
    <2>1. taken[i] = log[i] /\ i \in 1..m
      BY <1>1, <1>2
    <2>2. \A j \in (i + 1)..m : log[j].name # n
      <3> SUFFICES ASSUME NEW j \in (i + 1)..m
                   PROVE  log[j].name # n
        OBVIOUS
      <3>1. CASE j \in (i + 1)..k
        BY <1>1, <1>2, <1>6, <3>1 DEF LastOf
      <3>2. CASE j - k \in 1..(m - k) /\ k + (j - k) = j
        <4>1. log[j] = rest[j - k]
          BY <1>1, <3>2
        <4> QED BY <1>1, <1>6, <3>2, <4>1 DEF Mentioned
      <3> QED BY <1>2, <3>1, <3>2
    <2>3. \A j \in (i + 1)..m : log[j].kind # "Overflow"
      BY <1>2, <1>6, <2>1 DEF Overflown, m
    <2>4. LastOf(log, n, i)
      BY <1>1, <1>6, <2>1, <2>2 DEF LastOf, m
    <2> QED BY <1>6, <2>1, <2>3, <2>4 DEF Truthful, m
  <1>7. \A n, there : Truthful(log, n, there) => Truthful(rest, n, there)
    BY <1>1, <1>5 DEF Truthful
  <1>10. Lasting(log) => Lasting(taken) /\ Lasting(rest)
    <2>1. \A i \in 1..k : i \in 1..m /\ taken[i] = log[i]
      BY <1>1, <1>2
    <2> QED BY <1>1, <1>9, <2>1 DEF Lasting, m
  <1> QED BY <1>1, <1>3, <1>4, <1>6, <1>7, <1>10 DEF taken, rest, m

(* What a change does to the reports that wait: they grow by what is told  *)
(* of the names that changed, or an overflow stands for it.                *)
GrowsBy(log, more, changed, was, is) ==
    /\ more \in Seq(Event)
    /\ Mentioned(log) \subseteq Mentioned(more)
    /\ Mentioned(more) \subseteq Mentioned(log) \cup changed \cup {"."}
    /\ Overflown(log) => Overflown(more)
    /\ changed \subseteq Mentioned(more) \/ Overflown(more)
    /\ Lasting(log) => Lasting(more)
    /\ \A n \in Names : Truthful(log, n, was[n] # 0) => Truthful(more, n, is[n] # 0)

(* One report tells of one name ... *)
LEMMA OneReport ==
    ASSUME NEW log \in Seq(Event), NEW e \in Event, e.kind \notin {"SelfGone", "Overflow"},
           NEW was, NEW is, \A m \in Names \ {e.name} : is[m] = was[m],
           Shows(e) <=> is[e.name] # 0
    PROVE  GrowsBy(log, log \o <<e>>, {e.name}, was, is)
  <1>1. log \o <<e>> = Append(log, e)
    OBVIOUS
  <1>2. ASSUME NEW n \in Names, Truthful(log, n, was[n] # 0)
        PROVE  Truthful(Append(log, e), n, is[n] # 0)
    <2>1. IF e.name = n THEN Shows(e) <=> is[n] # 0 ELSE was[n] # 0 <=> is[n] # 0
      OBVIOUS
    <2>2. (was[n] # 0) \in BOOLEAN /\ (is[n] # 0) \in BOOLEAN
      OBVIOUS
    <2> DEFINE w == was[n] # 0
               s == is[n] # 0
    <2> HIDE DEF w, s
    <2>3. w \in BOOLEAN /\ s \in BOOLEAN /\ Truthful(log, n, w) /\ e.kind # "Overflow"
          /\ (IF e.name = n THEN Shows(e) <=> s ELSE w <=> s)
      BY <1>2, <2>1, <2>2 DEF w, s
    <2>4. Truthful(Append(log, e), n, s)
      BY <2>3, AppendedTells
    <2> QED BY <2>4 DEF s
  <1>3. /\ Append(log, e) \in Seq(Event)
        /\ Mentioned(Append(log, e)) = Mentioned(log) \cup {e.name}
        /\ Overflown(Append(log, e)) <=> Overflown(log) \/ e.kind = "Overflow"
        /\ Lasting(log) /\ e.kind # "SelfGone" => Lasting(Append(log, e))
    BY AppendedTells
  <1> QED BY <1>1, <1>2, <1>3 DEF GrowsBy

(* ... two tell of two ... *)
LEMMA TwoReports ==
    ASSUME NEW log \in Seq(Event), NEW e \in Event, e.kind \notin {"SelfGone", "Overflow"},
           NEW f \in Event, f.kind \notin {"SelfGone", "Overflow"}, e.name # f.name,
           NEW was, NEW is, \A m \in Names \ {e.name, f.name} : is[m] = was[m],
           e.name \in Names, Shows(e) <=> is[e.name] # 0, Shows(f) <=> is[f.name] # 0
    PROVE  GrowsBy(log, log \o <<e, f>>, {e.name, f.name}, was, is)
  <1> DEFINE mid == [m \in Names |-> IF m = e.name THEN is[m] ELSE was[m]]
             half == log \o <<e>>
  <1>1. log \o <<e, f>> = half \o <<f>> /\ half \in Seq(Event)
    OBVIOUS
  <1>2. /\ \A m \in Names \ {e.name} : mid[m] = was[m]
        /\ \A m \in Names \ {f.name} : is[m] = mid[m]
        /\ mid[e.name] = is[e.name]
    OBVIOUS
  <1> HIDE DEF mid
  <1>3. GrowsBy(log, half, {e.name}, was, mid)
    BY <1>2, OneReport
  <1> HIDE DEF half
  <1>4. GrowsBy(half, half \o <<f>>, {f.name}, mid, is)
    BY <1>1, <1>2, OneReport
  <1> QED BY <1>1, <1>3, <1>4 DEF GrowsBy

(* ... and an overflow of any. *)
LEMMA LostReports ==
    ASSUME "." \notin Names, NEW log \in Seq(Event), NEW changed, NEW was, NEW is
    PROVE  GrowsBy(log, log \o <<[kind |-> "Overflow", name |-> "."]>>, changed, was, is)
  <1> DEFINE e == [kind |-> "Overflow", name |-> "."]
  <1>1. log \o <<e>> = Append(log, e)
    OBVIOUS
  <1>2. e \in Event /\ e.kind = "Overflow" /\ e.name = "."
    BY DEF Event
  <1> HIDE DEF e
  <1>3. /\ Append(log, e) \in Seq(Event)
        /\ Mentioned(Append(log, e)) = Mentioned(log) \cup {e.name}
        /\ Overflown(Append(log, e)) <=> Overflown(log) \/ e.kind = "Overflow"
        /\ Lasting(log) /\ e.kind # "SelfGone" => Lasting(Append(log, e))
        /\ \A n : \A s \in BOOLEAN :
               e.kind = "Overflow" /\ e.name # n => Truthful(Append(log, e), n, s)
    BY <1>2, AppendedTells
  <1>4. \A n \in Names : Truthful(Append(log, e), n, is[n] # 0)
    BY <1>2, <1>3
  <1> QED BY <1>1, <1>2, <1>3, <1>4 DEF GrowsBy, e

(* A change, whoever makes it, is of one directory, and its reports wait   *)
(* if that one is watched.                                                 *)
ChangeIn(d, changed) ==
    /\ \A x \in Dirs \ {d} : content'[x] = content[x] /\ raw'[x] = raw[x]
    /\ \A n \in Names \ changed : content'[d][n] = content[d][n]
    /\ IF Watched(d) THEN GrowsBy(raw[d], raw'[d], changed, content[d], content'[d])
       ELSE raw'[d] = raw[d]
    /\ raced' = IF d = path /\ (scanning \/ ~watching) THEN raced \cup changed ELSE raced

(* That is so for every one of them. *)
LEMMA ChangesAre ==
    ASSUME ListingAssumption, TypeOK, Anybody \/ \E n \in Names : DeleteOne(n)
    PROVE  \/ UNCHANGED <<content, raw, raced>>
           \/ \E d \in Dirs, changed \in SUBSET Names : ChangeIn(d, changed)
  <1>1. ASSUME NEW d \in Dirs, NEW new \in [Names -> Version], NEW changed \in SUBSET Names,
               NEW reports, Change(d, new, changed, reports),
               \A n \in Names \ changed : new[n] = content[d][n],
               GrowsBy(raw[d], raw[d] \o reports, changed, content[d], new)
        PROVE  ChangeIn(d, changed)
    <2>1. PICK told \in {reports, <<[kind |-> "Overflow", name |-> "."]>>} :
              raw' = [raw EXCEPT ![d] = IF Watched(d) THEN @ \o told ELSE @]
      BY <1>1 DEF Change
    <2>2. content' = [content EXCEPT ![d] = new]
          /\ raced' = IF d = path /\ (scanning \/ ~watching) THEN raced \cup changed ELSE raced
      BY <1>1 DEF Change
    <2>3. /\ \A x \in Dirs \ {d} : content'[x] = content[x] /\ raw'[x] = raw[x]
          /\ content'[d] = new
          /\ raw'[d] = IF Watched(d) THEN raw[d] \o told ELSE raw[d]
      BY <2>1, <2>2 DEF TypeOK
    <2>4. GrowsBy(raw[d], raw[d] \o told, changed, content[d], new)
      <3>1. raw[d] \in Seq(Event) /\ "." \notin Names
        BY DEF TypeOK, ListingAssumption
      <3> QED BY <1>1, <2>1, <3>1, LostReports
    <2> QED BY <1>1, <2>2, <2>3, <2>4 DEF ChangeIn
  <1>2. ASSUME NEW d \in Dirs, NEW n \in Names, NEW v \in Version,
               NEW kind \in {"Created", "Modified", "Deleted", "MovedFrom"},
               kind \in {"Created", "Modified"} <=> v # 0,
               Change(d, [content[d] EXCEPT ![n] = v], {n}, <<Report(kind, n)>>)
        PROVE  ChangeIn(d, {n})
    <2> DEFINE new == [content[d] EXCEPT ![n] = v]
    <2>1. new \in [Names -> Version] /\ new[n] = v
          /\ \A m \in Names \ {n} : new[m] = content[d][m]
      BY DEF TypeOK
    <2>2. Change(d, new, {n}, <<Report(kind, n)>>)
      BY <1>2
    <2> HIDE DEF new
    <2>3. /\ Report(kind, n) \in Event /\ Report(kind, n).name = n
          /\ Report(kind, n).kind \notin {"SelfGone", "Overflow"}
          /\ Shows(Report(kind, n)) <=> new[n] # 0
      BY <1>2, <2>1, ReportTypes DEF Report, Shows
    <2>4. raw[d] \in Seq(Event)
      BY DEF TypeOK
    <2> DEFINE was == content[d]
               e == Report(kind, n)
               log == raw[d]
    <2>5. /\ log \in Seq(Event) /\ e \in Event /\ e.kind \notin {"SelfGone", "Overflow"}
          /\ \A m \in Names \ {e.name} : new[m] = was[m]
          /\ Shows(e) <=> new[e.name] # 0
          /\ e.name = n
      BY <2>1, <2>3, <2>4
    <2> HIDE DEF was, e, log
    <2>6. GrowsBy(log, log \o <<e>>, {e.name}, was, new)
      BY <2>5, OneReport
    <2>7. GrowsBy(raw[d], raw[d] \o <<Report(kind, n)>>, {n}, content[d], new)
      BY <2>5, <2>6 DEF was, e, log
    <2> QED BY <1>1, <2>1, <2>2, <2>7
  <1>3. ASSUME NEW d \in Dirs, NEW n \in Names, NEW m \in Names, NEW v \in Version \ {0}, n # m,
               Change(d, [content[d] EXCEPT ![n] = 0, ![m] = v], {n, m},
                      <<Report("MovedFrom", n), Report("MovedTo", m)>>)
        PROVE  ChangeIn(d, {n, m})
    <2> DEFINE new == [content[d] EXCEPT ![n] = 0, ![m] = v]
    <2>1. new \in [Names -> Version] /\ new[n] = 0 /\ new[m] = v
          /\ \A k \in Names \ {n, m} : new[k] = content[d][k]
      <3>1. content[d] \in [Names -> Version] /\ 0 \in Version
        BY DEF TypeOK, Version, ListingAssumption
      <3> QED BY <1>3, <3>1
    <2>2. Change(d, new, {n, m}, <<Report("MovedFrom", n), Report("MovedTo", m)>>)
      BY <1>3
    <2> HIDE DEF new
    <2> DEFINE was == content[d]
               e == Report("MovedFrom", n)
               f == Report("MovedTo", m)
               log == raw[d]
    <2>3. /\ log \in Seq(Event) /\ e \in Event /\ e.kind \notin {"SelfGone", "Overflow"}
          /\ f \in Event /\ f.kind \notin {"SelfGone", "Overflow"}
          /\ e.name = n /\ f.name = m
          /\ ~Shows(e) /\ Shows(f)
      BY ReportTypes DEF Report, Shows, TypeOK
    <2>4. \A k \in Names \ {e.name, f.name} : new[k] = was[k]
      BY <2>1, <2>3
    <2> HIDE DEF was, e, f, log
    <2>5. GrowsBy(log, log \o <<e, f>>, {e.name, f.name}, was, new)
      BY <1>3, <2>1, <2>3, <2>4, TwoReports
    <2>6. GrowsBy(raw[d], raw[d] \o <<Report("MovedFrom", n), Report("MovedTo", m)>>, {n, m},
                  content[d], new)
      BY <2>3, <2>5 DEF was, e, f, log
    <2> QED BY <1>1, <2>1, <2>2, <2>6
  <1>4. 0 \in Version /\ (ops < MaxOps => Stamp \in Version \ {0})
    BY DEF TypeOK, Version, Stamp, ListingAssumption
  <1>5. ASSUME NEW d \in Dirs, NEW n \in Names,
               \/ Create(d, n) \/ Modify(d, n) \/ Delete(d, n)
               \/ \E m \in Names : Rename(d, n, m)
        PROVE  \E changed \in SUBSET Names : ChangeIn(d, changed)
    <2>1. CASE Create(d, n)
      <3>1. Change(d, [content[d] EXCEPT ![n] = Stamp], {n}, <<Report("Created", n)>>) /\ ops < MaxOps
        BY <2>1 DEF Create, Change
      <3> QED BY <1>2, <1>4, <3>1
    <2>2. CASE Modify(d, n)
      <3>1. Change(d, [content[d] EXCEPT ![n] = Stamp], {n}, <<Report("Modified", n)>>) /\ ops < MaxOps
        BY <2>2 DEF Modify, Change
      <3> QED BY <1>2, <1>4, <3>1
    <2>3. CASE Delete(d, n)
      <3>1. Change(d, [content[d] EXCEPT ![n] = 0], {n}, <<Report("Deleted", n)>>)
        BY <2>3 DEF Delete
      <3> QED BY <1>2, <1>4, <3>1
    <2>4. ASSUME NEW m \in Names, Rename(d, n, m)
          PROVE  \E changed \in SUBSET Names : ChangeIn(d, changed)
      <3>1. /\ Change(d, [content[d] EXCEPT ![n] = 0, ![m] = Stamp], {n, m},
                      <<Report("MovedFrom", n), Report("MovedTo", m)>>)
            /\ ops < MaxOps /\ n # m
        BY <2>4 DEF Rename, Change
      <3> QED BY <1>3, <1>4, <3>1
    <2> QED BY <1>5, <2>1, <2>2, <2>3, <2>4
  <1>6. ASSUME NEW n \in Names, DeleteOne(n)
        PROVE  \/ UNCHANGED <<content, raw, raced>>
               \/ \E d \in Dirs, changed \in SUBSET Names : ChangeIn(d, changed)
    <2>1. deleting.dir \in Dirs
      BY DEF TypeOK
    <2>2. CASE UNCHANGED <<fsVars, raced>>
      BY <2>2 DEF fsVars
    <2>3. CASE ~UNCHANGED <<fsVars, raced>>
      <3>1. PICK kind \in {"Deleted", "MovedFrom"} :
                Change(deleting.dir, [content[deleting.dir] EXCEPT ![n] = 0], {n}, <<Report(kind, n)>>)
        BY <1>6, <2>3 DEF DeleteOne
      <3> QED BY <1>2, <1>4, <2>1, <3>1
    <2> QED BY <2>2, <2>3
  <1> QED BY <1>5, <1>6 DEF Anybody

(* So reports stay truthful, no doubt goes away by a change, and a name    *)
(* that changes is marked during a scan and in doubt at other times.       *)
LEMMA ChangeTells ==
    ASSUME ListingAssumption, TypeOK, WatchInv, LogInv, Anybody \/ \E n \in Names : DeleteOne(n)
    PROVE  /\ LogInv'
           /\ raced \subseteq raced'
           /\ Mentioned(raw[path]) \subseteq Mentioned(raw'[path])
           /\ Overflown(raw[path]) => Overflown(raw'[path])
           /\ scanning => \A n \in Names \ raced' :
                  /\ content'[path][n] = content[path][n]
                  /\ n \in Mentioned(raw'[path]) => n \in Mentioned(raw[path])
           /\ ~scanning => \A n \in Names :
                  \/ content'[path][n] = content[path][n]
                  \/ n \in Mentioned(raw'[path]) \/ Overflown(raw'[path])
  <1>0. path \in Dirs /\ path' = path
    BY ScanAlone DEF TypeOK
  <1>1. CASE UNCHANGED <<content, raw, raced>>
    BY <1>0, <1>1 DEF LogInv
  <1>2. ASSUME NEW d \in Dirs, NEW changed \in SUBSET Names, ChangeIn(d, changed)
        PROVE  /\ LogInv'
               /\ raced \subseteq raced'
               /\ Mentioned(raw[path]) \subseteq Mentioned(raw'[path])
               /\ Overflown(raw[path]) => Overflown(raw'[path])
               /\ scanning => \A n \in Names \ raced' :
                      /\ content'[path][n] = content[path][n]
                      /\ n \in Mentioned(raw'[path]) => n \in Mentioned(raw[path])
               /\ ~scanning => \A n \in Names :
                      \/ content'[path][n] = content[path][n]
                      \/ n \in Mentioned(raw'[path]) \/ Overflown(raw'[path])
    <2>1. /\ \A x \in Dirs \ {d} : content'[x] = content[x] /\ raw'[x] = raw[x]
          /\ \A n \in Names \ changed : content'[d][n] = content[d][n]
          /\ IF Watched(d) THEN GrowsBy(raw[d], raw'[d], changed, content[d], content'[d])
             ELSE raw'[d] = raw[d]
          /\ raced' = IF d = path /\ (scanning \/ ~watching) THEN raced \cup changed ELSE raced
      BY <1>2 DEF ChangeIn
    <2>2. raced \subseteq raced'
      BY <2>1
    <2>3. \A x \in Dirs : Lasting(raw'[x])
      BY <2>1 DEF LogInv, GrowsBy
    <2>4. CASE d # path
      <3>1. content'[path] = content[path] /\ raw'[path] = raw[path]
        BY <1>0, <2>1, <2>4
      <3>2. LogInv'
        BY <1>0, <2>2, <2>3, <3>1 DEF LogInv
      <3> QED BY <2>2, <3>1, <3>2
    <2>5. CASE d = path /\ Watched(path)
      <3>1. GrowsBy(raw[path], raw'[path], changed, content[path], content'[path])
        BY <2>1, <2>5
      <3>2. \A n \in Names \ raced' : Truthful(raw'[path], n, content'[path][n] # 0)
        BY <2>2, <3>1 DEF LogInv, GrowsBy
      <3>3. LogInv'
        BY <1>0, <2>3, <3>2 DEF LogInv
      <3>4. scanning => changed \subseteq raced'
        BY <2>1, <2>5
      <3> QED BY <2>1, <2>2, <2>5, <3>1, <3>3, <3>4 DEF GrowsBy, ListingAssumption
    <2>6. CASE d = path /\ ~Watched(path)
      <3>1. ~watching /\ scanning
        BY <2>6 DEF Watched, WatchInv
      <3>2. raw'[path] = raw[path] /\ changed \subseteq raced'
        BY <2>1, <2>6, <3>1
      <3>3. \A n \in Names \ raced' : content'[path][n] = content[path][n]
        BY <2>1, <2>6, <3>2
      <3>4. LogInv'
        BY <1>0, <2>2, <2>3, <3>2, <3>3 DEF LogInv
      <3> QED BY <2>2, <3>1, <3>2, <3>3, <3>4
    <2> QED BY <2>4, <2>5, <2>6
  <1> QED BY <1>1, <1>2, ChangesAre

(* A panel that has no watcher yet is waiting for its first scan.          *)
LEMMA WatchStep ==
    ASSUME ListingAssumption, TypeOK, WatchInv, [Next]_vars
    PROVE  WatchInv'
  <1>1. CASE StartWatching
    <2>1. path' = path /\ watching' /\ conns'[path] = conns[path] + 1 /\ conns[path] \in Nat
      BY <1>1 DEF StartWatching, modelVars, TypeOK
    <2>2. conns[path] + 1 # 0
      BY <2>1
    <2> QED BY <2>1, <2>2 DEF WatchInv
  <1>2. ASSUME NEW d \in Dirs, SetPath(d)
        PROVE  WatchInv'
    BY <1>2 DEF SetPath, StartScan, WatchInv
  <1>3. CASE DeliverScan \/ Timer
    <2>1. watching /\ UNCHANGED <<path, watching, conns>>
      BY <1>3 DEF DeliverScan, Timer, Flush, watchVars
    <2> QED BY <2>1 DEF WatchInv
  <1>4. ASSUME UNCHANGED <<path, scanning, rescanning, watchVars>>
        PROVE  WatchInv'
    BY <1>4 DEF WatchInv, watchVars
  <1>5. CASE Anybody \/ Worker \/ ReadFails \/ EndDelete \/ UNCHANGED vars
             \/ (\E n \in Names : DeleteOne(n)) \/ \E names \in SUBSET Names \ {{}} : StartDelete(names)
    BY <1>4, <1>5 DEF Anybody, Create, Modify, Delete, Rename, Worker, ReadEntry, ReadEnds, ReadFails,
                      EndDelete, DeleteOne, StartDelete, vars, modelVars
  <1> QED BY <1>1, <1>2, <1>3, <1>5 DEF Next

(* What a firing of the timer leaves of the reports. *)
LEMMA FlushLeaves ==
    ASSUME TypeOK, NEW d \in Dirs, NEW k \in 1..Len(raw[d]), Flush(d, k)
    PROVE  /\ UNCHANGED <<content, path, deleting, removals, deferred, failed, watchVars>> /\ watching
           /\ raw'[d] = SubSeq(raw[d], k + 1, Len(raw[d]))
           /\ \A x \in Dirs \ {d} : raw'[x] = raw[x]
           /\ raced' = IF d = path THEN raced \cup Untold(SubSeq(raw[d], 1, k))
                       ELSE IF conns[d] > 0 THEN raced \cup Reported(SubSeq(raw[d], 1, k))
                       ELSE raced
           /\ raced \subseteq raced'
  BY DEF Flush, TypeOK

(* Reports tell the truth through every step. *)
LEMMA LogStep ==
    ASSUME ListingAssumption, TypeOK, WatchInv, LogInv, [Next]_vars
    PROVE  LogInv'
  <1>1. ASSUME UNCHANGED <<content, raw, path>>, raced \subseteq raced'
        PROVE  LogInv'
    BY <1>1 DEF LogInv
  <1>2. CASE StartWatching \/ EndDelete \/ Worker \/ ReadFails \/ DeliverScan \/ UNCHANGED vars
             \/ \E names \in SUBSET Names \ {{}} : StartDelete(names)
    <2>1. UNCHANGED <<content, raw, path>> /\ raced \subseteq raced'
      BY <1>2 DEF StartWatching, EndDelete, Worker, ReadEntry, ReadEnds, ReadFails, DeliverScan, StartDelete,
                  vars, fsVars, modelVars
    <2> QED BY <1>1, <2>1
  <1>3. ASSUME NEW d \in Dirs, SetPath(d)
        PROVE  LogInv'
    <2>1. /\ raw' = [x \in Dirs |-> IF x \in Held THEN raw[x] ELSE <<>>]
          /\ path' = d /\ raced' = Reported(raw'[d])
      BY <1>3 DEF SetPath
    <2>2. Lasting(<<>>)
      BY DEF Lasting
    <2>3. \A x \in Dirs : Lasting(raw'[x])
      BY <2>1, <2>2 DEF LogInv
    <2>4. \A n \in Names \ raced' : n \notin Mentioned(raw'[d])
      BY <2>1 DEF Reported, Mentioned
    <2>5. \A n \in Names \ raced' : Truthful(raw'[d], n, content'[d][n] # 0)
      BY <2>4 DEF Truthful, LastOf, Mentioned
    <2> QED BY <2>1, <2>3, <2>5 DEF LogInv
  <1>4. ASSUME NEW d \in Dirs, NEW k \in 1..Len(raw[d]), Flush(d, k)
        PROVE  LogInv'
    <2> DEFINE log == raw[d]
               rest == SubSeq(log, k + 1, Len(log))
    <2>1. /\ UNCHANGED <<content, path>> /\ raw'[d] = rest /\ \A x \in Dirs \ {d} : raw'[x] = raw[x]
          /\ raced \subseteq raced'
      BY <1>4, FlushLeaves
    <2>2. log \in Seq(Event) /\ path \in Dirs
      BY DEF TypeOK
    <2>3. /\ Lasting(log) => Lasting(rest)
          /\ \A n, there : Truthful(log, n, there) => Truthful(rest, n, there)
      BY <2>2, RestTells
    <2> HIDE DEF rest
    <2>4. \A x \in Dirs : Lasting(raw'[x])
      BY <2>1, <2>3 DEF LogInv
    <2>5. ASSUME NEW n \in Names \ raced'
          PROVE  Truthful(raw'[path], n, content[path][n] # 0)
      <3>1. Truthful(raw[path], n, content[path][n] # 0)
        BY <2>1 DEF LogInv
      <3>2. CASE d = path
        <4>1. Truthful(rest, n, content[path][n] # 0)
          BY <2>3, <3>1, <3>2
        <4> QED BY <2>1, <3>2, <4>1
      <3>3. CASE d # path
        BY <2>1, <2>2, <3>1, <3>3
      <3> QED BY <3>2, <3>3
    <2> QED BY <2>1, <2>4, <2>5 DEF LogInv
  <1> QED BY <1>2, <1>3, <1>4, ChangeTells DEF Next, Timer

(* What a scan has read of a name that did not change is what is there.    *)
LEMMA BatchStep ==
    ASSUME ListingAssumption, TypeOK, LiveInv, BatchInv, [Next]_vars
    PROVE  BatchInv'
  <1>0. Len(events) \in Nat /\ path \in Dirs
    BY DEF TypeOK
  <1>1. ASSUME UNCHANGED <<task, events, path>>, raced \subseteq raced',
               scanning => \A n \in Names \ raced' : content'[path][n] = content[path][n]
        PROVE  BatchInv'
    <2>1. CASE scanning
      BY <1>1, <2>1 DEF BatchInv, Carries
    <2>2. CASE ~scanning
      BY <1>1, <2>2 DEF BatchInv, Carries, LiveInv
    <2> QED BY <2>1, <2>2
  <1>2. CASE Anybody \/ \E n \in Names : DeleteOne(n)
    BY <1>1, <1>2, ScanAlone, ChangesRace
  <1>3. CASE StartWatching \/ EndDelete \/ UNCHANGED vars \/ \E names \in SUBSET Names \ {{}} : StartDelete(names)
    <2>1. UNCHANGED <<task, events, path>>
      BY <1>3, ScanAlone
    <2>2. UNCHANGED content /\ raced \subseteq raced'
      BY <1>3 DEF StartWatching, EndDelete, StartDelete, vars, fsVars
    <2> QED BY <1>1, <2>1, <2>2
  <1>4. ASSUME StartScan
        PROVE  BatchInv'
    <2>1. \A n \in Names : task'.batch[n] = 0
      BY <1>4 DEF StartScan, NoBatch
    <2> QED BY <1>4, <2>1, NewScan DEF BatchInv, Carries
  <1>5. ASSUME NEW n \in Names, ReadEntry(n)
        PROVE  BatchInv'
    <2> DEFINE b == [task.batch EXCEPT ![n] = content[path][n]]
    <2>1. UNCHANGED <<content, path, raced>>
      BY <1>5 DEF ReadEntry, modelVars, fsVars
    <2>2. \A m \in Names \ raced : b[m] \in {0, content[path][m]}
      <3>1. task.runs /\ task.batch \in [Names -> Version]
        BY <1>5 DEF ReadEntry, TypeOK
      <3> QED BY <3>1 DEF BatchInv
    <2>3. \/ task'.batch = b /\ events' = events
          \/ /\ task'.batch = NoBatch
             /\ Len(events') = Len(events) + 1
             /\ events'[Len(events) + 1] = Posted("entries", b)
             /\ \A i \in 1..Len(events) : events'[i] = events[i]
      BY <1>5, ReadEntryPosts
    <2> HIDE DEF b
    <2>4. CASE task'.batch = b /\ events' = events
      BY <2>1, <2>2, <2>4 DEF BatchInv, Carries
    <2>5. CASE /\ task'.batch = NoBatch
               /\ Len(events') = Len(events) + 1
               /\ events'[Len(events) + 1] = Posted("entries", b)
               /\ \A i \in 1..Len(events) : events'[i] = events[i]
      <3>1. \A i \in 1..Len(events') : i \in 1..Len(events) \/ i = Len(events) + 1
        BY <1>0, <2>5
      <3>2. \A m \in Names \ raced : \A i \in 1..Len(events') :
                Carries(i, m)' => events'[i].batch[m] = content[path][m]
        BY <2>2, <2>5, <3>1 DEF BatchInv, Carries, Posted
      <3>3. \A m \in Names : NoBatch[m] = 0
        BY DEF NoBatch
      <3> QED BY <2>1, <2>5, <3>2, <3>3 DEF BatchInv
    <2> QED BY <2>3, <2>4, <2>5
  <1>6. CASE ReadEnds \/ ReadFails
    <2>1. UNCHANGED <<content, path, raced>>
      BY <1>6 DEF ReadEnds, ReadFails, modelVars, fsVars
    <2> DEFINE m == Len(events')
    <2>2. /\ task.runs /\ ~task'.runs
          /\ m \in {Len(events) + 1, Len(events) + 2}
          /\ \A i \in 1..Len(events) : events'[i] = events[i]
          /\ events'[m].kind \in {"finished", "failed"}
          /\ m = Len(events) + 2 => events'[Len(events) + 1].batch = task.batch
      BY <1>0, <1>6, ReadEndsPosts, ReadFailsPosts DEF Posted
    <2> HIDE DEF m
    <2>3. \A i \in 1..m : \/ i \in 1..Len(events) \/ i = m
                          \/ m = Len(events) + 2 /\ i = Len(events) + 1
      BY <1>0, <2>2
    <2>4. ASSUME NEW n \in Names \ raced, NEW i \in 1..m, Carries(i, n)'
          PROVE  events'[i].batch[n] = content[path][n]
      <3>1. CASE i \in 1..Len(events)
        BY <2>2, <2>4, <3>1 DEF BatchInv, Carries
      <3>2. CASE i = m
        BY <2>2, <2>4, <3>2 DEF Carries
      <3>3. CASE m = Len(events) + 2 /\ i = Len(events) + 1
        BY <2>2, <2>4, <3>3 DEF BatchInv, Carries
      <3> QED BY <2>3, <3>1, <3>2, <3>3
    <2> QED BY <2>1, <2>2, <2>4 DEF BatchInv, m
  <1>7. CASE DeliverScan
    <2>1. UNCHANGED <<content, task, path, raced>> /\ events # <<>> /\ events' = Tail(events)
      BY <1>7, DeliverCases DEF fsVars
    <2>2. \A i \in 1..Len(events') : i + 1 \in 1..Len(events) /\ events'[i] = events[i + 1]
      BY <2>1, FrontOfEvents
    <2> QED BY <2>1, <2>2 DEF BatchInv, Carries
  <1>8. CASE Timer
    <2>1. UNCHANGED <<content, path>> /\ raced \subseteq raced'
      BY <1>8 DEF Timer, Flush
    <2> QED BY <1>1, <1>4, <1>8, <2>1, ScanFlush DEF Rescan
  <1> QED BY <1>2, <1>3, <1>4, <1>5, <1>6, <1>7, <1>8 DEF Next, Worker, SetPath

(* A delta is only about the names its events are about. *)
LEMMA OthersAreLeft ==
    ASSUME TypeOK, NEW log \in Seq(Event), NEW times \in Nat \ {0}, NEW n \in Names,
           n \notin Mentioned(log), Len(rows[n]) <= 1
    PROVE  Applied(Coalesce(log), times)[n] = rows[n]
  <1> DEFINE delta == Coalesce(log)
  <1>1. n \notin Gone(delta)
    BY GoneAreReported
  <1>2. n \notin LookUp(delta)
    <2>1. CASE Len(log) > RescanThreshold
      BY <2>1 DEF Coalesce, BurstDelta, EmptyDelta, LookUp
    <2>2. CASE ~(Len(log) > RescanThreshold) /\ Whole(log) # {}
      BY <2>2 DEF Coalesce, EmptyDelta, LookUp
    <2>3. CASE ~(Len(log) > RescanThreshold) /\ Whole(log) = {}
      BY <2>3, DeltaTells
    <2> QED BY <2>1, <2>2, <2>3
  <1> HIDE DEF delta
  <1> QED BY <1>1, <1>2, AppliedRow DEF delta

(* A first scan keeps each name in one place: while it reads ... *)
LEMMA FirstReads ==
    ASSUME ListingAssumption, TypeOK, NEW k \in Names, ReadEntry(k), NEW n \in Names, InOnePlace(n)
    PROVE  InOnePlace(n)'
  <1> DEFINE b == [task.batch EXCEPT ![k] = content[path][k]]
  <1>0. Len(events) \in Nat
    BY DEF TypeOK
  <1>1. UNCHANGED <<content, path, rows>>
    BY DEF ReadEntry, modelVars, fsVars
  <1>2. /\ task.runs /\ task'.runs /\ task'.todo = task.todo \ {k}
        /\ \/ task'.batch = b /\ events' = events
           \/ /\ task'.batch = NoBatch
              /\ Len(events') = Len(events) + 1
              /\ events'[Len(events) + 1] = Posted("entries", b)
              /\ \A i \in 1..Len(events) : events'[i] = events[i]
    BY ReadEntryPosts
  <1>3. k \in task.todo
    BY DEF ReadEntry
  <1>4. b[n] = IF n = k THEN content[path][n] ELSE task.batch[n]
    BY DEF TypeOK
  <1> HIDE DEF b
  <1>5. b[n] # 0 => n \in task.todo \/ task.batch[n] # 0
    BY <1>3, <1>4
  <1>6. n \in task.todo \ {k} => b[n] = task.batch[n]
    BY <1>4
  <1>7. content[path][n] # 0 /\ (n \in task.todo \/ task.batch[n] # 0) =>
            n \in task.todo \ {k} \/ b[n] # 0
    BY <1>3, <1>4
  <1>8. CASE task'.batch = b /\ events' = events
    <2>1. \A i \in 1..Len(events') : i \in 1..Len(events) /\ (Carries(i, n)' <=> Carries(i, n))
      BY <1>8 DEF Carries
    <2>2. FailureComes' <=> FailureComes
      BY <1>8 DEF FailureComes
    <2>3. Coming(n)' => Coming(n)
      BY <1>2, <1>5, <1>8, <2>1 DEF Coming
    <2>4. content[path][n] # 0 /\ Coming(n) => Coming(n)'
      BY <1>2, <1>7, <1>8, <2>1 DEF Coming
    <2> QED BY <1>1, <1>2, <1>5, <1>6, <1>8, <2>1, <2>2, <2>3, <2>4 DEF InOnePlace
  <1>9. CASE /\ task'.batch = NoBatch
             /\ Len(events') = Len(events) + 1
             /\ events'[Len(events) + 1] = Posted("entries", b)
             /\ \A i \in 1..Len(events) : events'[i] = events[i]
    <2>0. PICK m \in Nat : m = Len(events) + 1
      BY <1>0
    <2>1. /\ \A i \in 1..Len(events') : i \in 1..Len(events) \/ i = m
          /\ \A i \in 1..Len(events) : i \in 1..Len(events')
          /\ m \in 1..Len(events')
      BY <1>0, <1>9, <2>0
    <2>2. /\ \A i \in 1..Len(events) : Carries(i, n)' <=> Carries(i, n)
          /\ Carries(m, n)' <=> b[n] # 0
      BY <1>9, <2>0 DEF Carries, Posted
    <2>3. FailureComes => FailureComes'
      BY <1>9, <2>1 DEF FailureComes
    <2>4. task'.batch[n] = 0
      BY <1>9 DEF NoBatch
    <2>5. Coming(n)' => Coming(n)
      BY <1>2, <1>5, <2>1, <2>2, <2>4 DEF Coming
    <2>6. content[path][n] # 0 /\ Coming(n) => Coming(n)'
      BY <1>2, <1>7, <2>1, <2>2 DEF Coming
    <2>7. n \in task'.todo => b[n] = 0
      BY <1>2, <1>6 DEF InOnePlace
    <2>8. \A i \in 1..Len(events) : Carries(i, n) => b[n] = 0
      BY <1>2, <1>5 DEF InOnePlace
    <2>9. \A i, j \in 1..Len(events') : Carries(i, n)' /\ Carries(j, n)' => i = j
      BY <2>1, <2>2, <2>8 DEF InOnePlace
    <2>10. n \in task'.todo => \A i \in 1..Len(events') : ~Carries(i, n)'
      BY <1>2, <2>1, <2>2, <2>7 DEF InOnePlace
    <2> QED BY <1>1, <1>2, <2>3, <2>4, <2>5, <2>6, <2>9, <2>10 DEF InOnePlace
  <1> QED BY <1>2, <1>8, <1>9

(* ... when it ends ... *)
LEMMA FirstReadEnds ==
    ASSUME ListingAssumption, TypeOK, ReadEnds \/ ReadFails, NEW n \in Names, InOnePlace(n)
    PROVE  InOnePlace(n)'
  <1>0. Len(events) \in Nat
    BY DEF TypeOK
  <1>1. UNCHANGED <<content, path, rows>>
    BY DEF ReadEnds, ReadFails, modelVars, fsVars
  <1>2. PICK l \in Nat, m \in Nat :
            /\ l = Len(events) + 1 /\ m = Len(events')
            /\ m = l \/ m = l + 1
            /\ task.runs /\ ~task'.runs
            /\ \A i \in 1..Len(events) : events'[i] = events[i]
            /\ events'[m].live /\ events'[m].kind \in {"finished", "failed"}
            /\ events'[m].kind = "finished" => task.todo = {} /\ (InBatch(task.batch) # {} => m # l)
            /\ m # l => events'[l] = Posted("entries", task.batch)
    <2>1. CASE ReadEnds
      <3> DEFINE l == Len(events) + 1
                 m == Len(events')
      <3>1. /\ l \in Nat /\ m \in Nat /\ (m = l \/ m = l + 1)
            /\ InBatch(task.batch) # {} => m # l
            /\ m # l => events'[l] = Posted("entries", task.batch)
        BY <1>0, <2>1, ReadEndsPosts
      <3>2. /\ task.runs /\ ~task'.runs /\ task.todo = {}
            /\ \A i \in 1..Len(events) : events'[i] = events[i]
            /\ events'[m].live /\ events'[m].kind = "finished"
        BY <2>1, ReadEndsPosts DEF Posted
      <3> QED BY <3>1, <3>2
    <2>2. CASE ReadFails
      <3> DEFINE l == Len(events) + 1
      <3>1. l \in Nat /\ l = Len(events') /\ ~(l # l)
        BY <1>0, <2>2, ReadFailsPosts
      <3>2. /\ task.runs /\ ~task'.runs
            /\ \A i \in 1..Len(events) : events'[i] = events[i]
            /\ events'[l].live /\ events'[l].kind = "failed"
        BY <2>2, ReadFailsPosts DEF Posted
      <3> QED BY <3>1, <3>2
    <2> QED BY <2>1, <2>2
  <1>3. /\ \A i \in 1..m : i \in 1..Len(events) \/ i = m \/ (m # l /\ i = l)
        /\ m \in 1..m /\ l \in 1..m /\ l \notin 1..Len(events)
        /\ \A i \in 1..Len(events) : i \in 1..m
    <2>1. \A p \in Nat :
              /\ \A i \in 1..(p + 1) : i \in 1..p \/ i = p + 1
              /\ p + 1 \in 1..(p + 1) /\ p + 1 \notin 1..p
              /\ \A i \in 1..p : i \in 1..(p + 1)
      OBVIOUS
    <2>2. /\ \A i \in 1..l : i \in 1..Len(events) \/ i = l
          /\ l \in 1..l /\ l \notin 1..Len(events)
          /\ \A i \in 1..Len(events) : i \in 1..l
      <3>1. l = Len(events) + 1
        BY <1>2
      <3> QED BY <1>0, <2>1, <3>1
    <2>3. CASE m = l + 1
      <3>1. /\ \A i \in 1..m : i \in 1..l \/ i = m
            /\ m \in 1..m /\ l \in 1..m /\ m # l
            /\ \A i \in 1..l : i \in 1..m
        BY <2>2, <2>3
      <3> QED BY <2>2, <3>1
    <2> QED BY <1>2, <2>2, <2>3
  <1>4. /\ \A i \in 1..Len(events) : Carries(i, n)' <=> Carries(i, n)
        /\ ~Carries(m, n)'
        /\ m # l => (Carries(l, n)' <=> task.batch[n] # 0)
    BY <1>2 DEF Carries, Posted
  <1>5. Coming(n)' => Coming(n)
    BY <1>2, <1>3, <1>4 DEF Coming
  <1>6. \A i, j \in 1..m : Carries(i, n)' /\ Carries(j, n)' => i = j
    <2>1. task.batch[n] # 0 => \A i \in 1..Len(events) : ~Carries(i, n)
      BY <1>2 DEF InOnePlace
    <2>2. \A i, j \in 1..Len(events) : Carries(i, n) /\ Carries(j, n) => i = j
      BY DEF InOnePlace
    <2> QED BY <1>3, <1>4, <2>1, <2>2
  <1>7. FailureComes \/ Coming(n) => FailureComes' \/ Coming(n)'
    <2>1. CASE events'[m].kind = "failed"
      BY <1>2, <1>3, <2>1 DEF FailureComes
    <2>2. CASE events'[m].kind = "finished"
      <3>1. FailureComes => FailureComes'
        BY <1>2, <1>3 DEF FailureComes
      <3>2. task.batch[n] # 0 => m # l
        BY <1>2, <2>2 DEF InBatch
      <3>3. Coming(n) => Coming(n)'
        BY <1>2, <1>3, <1>4, <2>2, <3>2 DEF Coming
      <3> QED BY <3>1, <3>3
    <2> QED BY <1>2, <2>1, <2>2
  <1> QED BY <1>1, <1>2, <1>5, <1>6, <1>7 DEF InOnePlace

(* ... and while what it has read is taken. *)
LEMMA FirstDelivers ==
    ASSUME ListingAssumption, TypeOK, LiveInv, BatchInv, DeliverScan, scanning', ~rescanning',
           NEW n \in Names \ raced, InOnePlace(n), ~rescanning
    PROVE  InOnePlace(n)'
  <1>1. /\ UNCHANGED <<content, task, path>> /\ events # <<>> /\ events' = Tail(events)
        /\ path \in Dirs
    BY DeliverCases DEF fsVars, TypeOK
  <1>2. /\ \A i \in 1..Len(events') : i + 1 \in 1..Len(events) /\ events'[i] = events[i + 1]
        /\ \A i \in 1..Len(events) : i # 1 => i - 1 \in 1..Len(events') /\ events'[i - 1] = events[i]
        /\ 1 \in 1..Len(events) /\ events[1] \in ScanEvent
        /\ \A i \in 1..Len(events') : i \in Nat /\ i + 1 # 1
    <2>1. Len(events') \in Nat
      BY <1>1, FrontOfEvents
    <2> QED BY <1>1, <2>1, FrontOfEvents
  <1>3. \A i \in 1..Len(events') : Carries(i, n)' <=> Carries(i + 1, n)
    BY <1>2 DEF Carries
  <1>4. \A i, k \in 1..Len(events') : Carries(i, n)' /\ Carries(k, n)' => i = k
    <2>1. \A i, k \in 1..Len(events') : Carries(i + 1, n) /\ Carries(k + 1, n) => i + 1 = k + 1
      BY <1>2 DEF InOnePlace
    <2>2. \A i, k \in 1..Len(events') : i + 1 = k + 1 => i = k
      BY <1>2
    <2> QED BY <1>3, <2>1, <2>2
  <1>5. Coming(n)' => Coming(n)
    BY <1>1, <1>2, <1>3 DEF Coming
  <1>6. task.runs /\ (n \in task.todo \/ task.batch[n] # 0) =>
            \A i \in 1..Len(events') : ~Carries(i, n)'
    BY <1>2, <1>3 DEF InOnePlace
  <1>7. ASSUME rows'[n] = rows[n], ~Carries(1, n), ~events[1].live \/ events[1].kind # "failed"
        PROVE  InOnePlace(n)'
    <2>1. Coming(n) => Coming(n)'
      <3>1. ASSUME NEW i \in 1..Len(events), Carries(i, n)
            PROVE  Coming(n)'
        <4>1. i # 1
          BY <1>7, <3>1
        <4>2. i - 1 \in 1..Len(events') /\ events'[i - 1] = events[i]
          BY <1>2, <4>1
        <4>3. PICK j \in 1..Len(events') : events'[j] = events[i]
          BY <4>2
        <4>4. Carries(j, n)'
          BY <3>1, <4>3 DEF Carries
        <4> QED BY <4>4 DEF Coming
      <3> QED BY <1>1, <3>1 DEF Coming
    <2>2. FailureComes => FailureComes'
      BY <1>2, <1>7 DEF FailureComes
    <2> QED BY <1>1, <1>4, <1>5, <1>6, <1>7, <2>1, <2>2 DEF InOnePlace
  <1>8. CASE ~events[1].live \/ events[1].dir # path
    <2>1. ~events[1].live
      BY <1>2, <1>8 DEF LiveInv
    <2>2. rows' = rows
      BY <1>8, DeliverCases
    <2> QED BY <1>7, <2>1, <2>2 DEF Carries
  <1>9. CASE events[1].live /\ events[1].kind = "entries" /\ EntriesReady(events[1].batch)
    <2> DEFINE b == events[1].batch
    <2>1. rows'[n] = IF b[n] = 0 THEN rows[n] ELSE Append(rows[n], b[n])
      BY <1>9 DEF EntriesReady
    <2>2. CASE b[n] = 0
      BY <1>7, <1>9, <2>1, <2>2 DEF Carries
    <2>3. CASE b[n] # 0
      <3>1. Carries(1, n)
        BY <1>9, <2>3 DEF Carries
      <3>2. Coming(n)
        BY <1>2, <3>1 DEF Coming
      <3>3. rows[n] = <<>>
        BY <3>2 DEF InOnePlace
      <3>4. b[n] = content[path][n]
        BY <1>2, <3>1 DEF BatchInv
      <3>5. rows'[n] = <<content[path][n]>>
        <4>1. \A x : Append(<<>>, x) = <<x>>
          OBVIOUS
        <4> QED BY <2>1, <2>3, <3>3, <3>4, <4>1
      <3>6. \A i \in 1..Len(events') : ~Carries(i, n)'
        BY <1>2, <1>3, <3>1 DEF InOnePlace
      <3>7. ~(task.runs /\ (n \in task.todo \/ task.batch[n] # 0))
        BY <1>2, <3>1 DEF InOnePlace
      <3>8. ~Coming(n)'
        BY <1>1, <3>6, <3>7 DEF Coming
      <3>9. rows'[n] # <<>>
        BY <3>5
      <3> QED BY <1>1, <1>4, <3>5, <3>6, <3>7, <3>8, <3>9 DEF InOnePlace
    <2> QED BY <2>2, <2>3
  <1>10. ~ScanFinished /\ ~ScanFailed
    BY DEF ScanFinished, ScanFailed
  <1> QED BY <1>8, <1>9, <1>10, DeliverCases

(* Every step keeps each name in one place. *)
LEMMA FirstStep ==
    ASSUME ListingAssumption, TypeOK, LiveInv, HiddenInv, WatchInv, LogInv, BatchInv, FirstInv, [Next]_vars
    PROVE  FirstInv'
  <1> SUFFICES ASSUME scanning', ~rescanning', NEW n \in Names, n \notin raced'
               PROVE  n \notin Mentioned(raw'[path']) /\ InOnePlace(n)'
    BY DEF FirstInv
  <1>0. path \in Dirs /\ rows \in [Names -> Row]
    BY DEF TypeOK, Row
  <1>1. ASSUME UNCHANGED <<scanning, rescanning, path>>, raced \subseteq raced'
        PROVE  n \notin raced /\ n \notin Mentioned(raw[path]) /\ InOnePlace(n)
    BY <1>1 DEF FirstInv
  <1>2. ASSUME UNCHANGED <<scanning, rescanning, path, task, events>>, raced \subseteq raced',
               content'[path][n] = content[path][n], rows'[n] = rows[n]
        PROVE  InOnePlace(n)'
    BY <1>1, <1>2 DEF InOnePlace, Coming, Carries, FailureComes
  <1>3. CASE Anybody \/ \E m \in Names : DeleteOne(m)
    <2>1. UNCHANGED <<task, events, path, scanning, rescanning, rows>>
      BY <1>3, ScanAlone DEF Anybody, Create, Modify, Delete, Rename, DeleteOne, modelVars
    <2>2. /\ raced \subseteq raced'
          /\ content'[path][n] = content[path][n]
          /\ n \in Mentioned(raw'[path]) => n \in Mentioned(raw[path])
      BY <1>3, <2>1, ChangeTells
    <2> QED BY <1>1, <1>2, <2>1, <2>2
  <1>4. CASE StartWatching \/ UNCHANGED vars
    <2>1. UNCHANGED <<task, events, path, scanning, rescanning, rows, content, raw, raced>>
      BY <1>4, ScanAlone DEF StartWatching, vars, modelVars, fsVars
    <2> QED BY <1>1, <1>2, <2>1
  <1>5. CASE EndDelete
    <2>1. UNCHANGED <<task, events, path, scanning, rescanning, content, raw, raced>>
      BY <1>5, ScanAlone DEF EndDelete, fsVars
    <2>2. n \notin removals
      BY <2>1 DEF HiddenInv
    <2>3. rows'[n] = rows[n]
      BY <1>5, <2>2 DEF EndDelete, ReleaseRemovals
    <2> QED BY <1>1, <1>2, <2>1, <2>3
  <1>6. ASSUME NEW names \in SUBSET Names, StartDelete(names)
        PROVE  n \notin Mentioned(raw'[path']) /\ InOnePlace(n)'
    <2>1. UNCHANGED <<task, events, path, scanning, rescanning, content, raw>>
      BY <1>6 DEF StartDelete, fsVars, scanVars
    <2>2. raced' = raced \cup names
      BY <1>6, <2>1 DEF StartDelete
    <2>3. n \notin removals'
      BY <1>6, <2>1, <2>2 DEF HiddenInv, StartDelete, ExpectRemoval
    <2>4. rows'[n] = rows[n]
      BY <1>6, <2>3 DEF StartDelete, ExpectRemoval
    <2> QED BY <1>1, <1>2, <2>1, <2>2, <2>4
  <1>7. ASSUME NEW d \in Dirs, SetPath(d)
        PROVE  n \notin Mentioned(raw'[path']) /\ InOnePlace(n)'
    <2>1. /\ raced' = Reported(raw'[d]) /\ path' = d /\ rows'[n] = <<>> /\ StartScan
      BY <1>7 DEF SetPath
    <2>2. task'.runs /\ n \in task'.todo /\ task'.batch[n] = 0
      BY <2>1 DEF StartScan, NoBatch
    <2>3. \A i \in 1..Len(events') : ~Carries(i, n)'
      BY <2>1, NewScan DEF Carries
    <2>4. Coming(n)'
      BY <2>2 DEF Coming
    <2>5. n \notin Mentioned(raw'[path'])
      BY <2>1 DEF Reported, Mentioned
    <2> QED BY <2>1, <2>2, <2>3, <2>4, <2>5 DEF InOnePlace
  <1>8. CASE Worker \/ ReadFails
    <2>1. UNCHANGED <<path, scanning, rescanning, raw, raced>>
      BY <1>8 DEF Worker, ReadEntry, ReadEnds, ReadFails, modelVars, fsVars
    <2> QED BY <1>1, <1>8, <2>1, FirstReads, FirstReadEnds DEF Worker
  <1>9. CASE DeliverScan
    <2>1. UNCHANGED <<path, raw, raced>>
      BY <1>9, DeliverCases DEF fsVars
    <2>2. UNCHANGED <<scanning, rescanning>>
      <3>1. ~ScanFinished /\ ~ScanFailed
        BY DEF ScanFinished, ScanFailed
      <3> QED BY <1>9, <3>1, DeliverCases DEF EntriesReady
    <2>3. n \notin raced /\ n \notin Mentioned(raw[path]) /\ InOnePlace(n)
      BY <1>1, <2>1, <2>2
    <2> QED BY <1>9, <2>1, <2>2, <2>3, FirstDelivers
  <1>10. ASSUME NEW d \in Dirs, NEW k \in 1..Len(raw[d]), Flush(d, k)
         PROVE  n \notin Mentioned(raw'[path']) /\ InOnePlace(n)'
    <2> DEFINE all == raw[d]
               log == SubSeq(all, 1, k)
               rest == SubSeq(all, k + 1, Len(all))
    <2>1. /\ UNCHANGED <<content, path>> /\ raw'[d] = rest /\ \A x \in Dirs \ {d} : raw'[x] = raw[x]
          /\ raced \subseteq raced'
          /\ raced' = IF d = path THEN raced \cup Untold(log)
                      ELSE IF conns[d] > 0 THEN raced \cup Reported(log) ELSE raced
      BY <1>10, FlushLeaves
    <2>2. ~Rescan
      BY DEF Rescan
    <2>3. UNCHANGED <<scanning, rescanning, seen, scanVars>>
          /\ (rows' = rows \/ (conns[d] # 0 /\ rows' = Applied(Coalesce(log), conns[d])))
      BY <1>10, <2>2, FlushCases
    <2>4. all \in Seq(Event) /\ log \in Seq(Event) /\ conns[d] \in Nat
      BY FlushedAre DEF TypeOK
    <2>5. Mentioned(all) = Mentioned(log) \cup Mentioned(rest)
      BY <2>4, RestTells
    <2> HIDE DEF log, rest, all
    <2>6. n \notin raced /\ n \notin Mentioned(raw[path]) /\ InOnePlace(n)
      BY <1>1, <2>1, <2>3
    <2>7. n \notin Mentioned(raw'[path])
      BY <1>0, <2>1, <2>5, <2>6 DEF all
    <2>8. conns[d] # 0 => n \notin Mentioned(log)
      <3>1. conns[d] # 0 => conns[d] > 0
        BY <2>4
      <3>2. d # path /\ conns[d] > 0 => n \notin Mentioned(log)
        BY <2>1 DEF Reported, Mentioned
      <3>3. d = path => n \notin Mentioned(log)
        BY <2>5, <2>6 DEF all
      <3> QED BY <3>1, <3>2, <3>3
    <2>9. rows'[n] = rows[n]
      <3>1. Len(rows[n]) <= 1
        <4>1. Len(<<>>) <= 1 /\ \A x : Len(<<x>>) <= 1
          OBVIOUS
        <4> QED BY <2>6, <4>1 DEF InOnePlace
      <3> QED BY <2>3, <2>4, <2>8, <3>1, OthersAreLeft
    <2>10. UNCHANGED <<task, events>>
      BY <2>3 DEF scanVars
    <2> QED BY <1>2, <2>1, <2>3, <2>7, <2>9, <2>10
  <1> QED BY <1>3, <1>4, <1>5, <1>6, <1>7, <1>8, <1>9, <1>10 DEF Next, Timer

(* A name that has been mentioned has been mentioned last. *)
LEMMA LastIsThere ==
    ASSUME NEW log \in Seq(Event), NEW n \in Mentioned(log)
    PROVE  \E i \in 1..Len(log) : LastOf(log, n, i)
  <1> DEFINE m == Len(log)
             S == {c \in 0..m : m - c \in 1..m /\ log[m - c].name = n}
  <1>1. m \in Nat /\ S \in SUBSET Nat
    OBVIOUS
  <1>2. S # {}
    <2>1. PICK i \in 1..m : log[i].name = n
      BY DEF Mentioned
    <2>2. m - i \in 0..m /\ m - (m - i) = i
      BY <1>1
    <2>3. m - i \in S
      BY <2>1, <2>2
    <2> QED BY <2>3
  <1>3. PICK c \in S : \A e \in S : c <= e
    BY <1>1, <1>2, LeastNumber
  <1>4. ASSUME NEW k \in (m - c + 1)..m
        PROVE  log[k].name # n
    <2>1. m - k \in 0..m /\ m - (m - k) = k /\ ~(c <= m - k) /\ k \in 1..m
      BY <1>1, <1>3
    <2> QED BY <1>3, <2>1
  <1>5. m - c \in 1..m /\ log[m - c].name = n
    BY <1>3
  <1> QED BY <1>4, <1>5 DEF LastOf

(* When the last reports on a name are taken, and none was lost, the delta *)
(* says whether the file is there.                                         *)
LEMMA LastIsTrue ==
    ASSUME TypeOK, LogInv, NEW k \in 1..Len(raw[path]), NEW n \in Names \ raced,
           n \in Mentioned(SubSeq(raw[path], 1, k)),
           n \notin Mentioned(SubSeq(raw[path], k + 1, Len(raw[path]))), ~Overflown(raw[path])
    PROVE  LET log == SubSeq(raw[path], 1, k)
           IN  \E i \in 1..Len(log) : LastOf(log, n, i) /\ (Shows(log[i]) <=> content[path][n] # 0)
  <1> DEFINE all == raw[path]
             log == SubSeq(all, 1, k)
             rest == SubSeq(all, k + 1, Len(all))
  <1>1. all \in Seq(Event) /\ log \in Seq(Event)
    BY FlushedAre DEF TypeOK
  <1>2. Truthful(all, n, content[path][n] # 0)
    BY DEF LogInv
  <1>3. \A there : \A i \in 1..Len(log) :
            Truthful(all, n, there) /\ LastOf(log, n, i) /\ n \notin Mentioned(rest) /\ ~Overflown(all)
                => (Shows(log[i]) <=> there)
    BY <1>1, RestTells
  <1>4. n \in Mentioned(log) /\ n \notin Mentioned(rest) /\ ~Overflown(all)
    OBVIOUS
  <1> HIDE DEF log, rest, all
  <1>5. PICK i \in 1..Len(log) : LastOf(log, n, i)
    BY <1>1, <1>4, LastIsThere
  <1>6. Shows(log[i]) <=> content[path][n] # 0
    BY <1>2, <1>3, <1>4, <1>5
  <1> QED BY <1>5, <1>6 DEF log, all

(* No delta gives a name a second row. *)
LEMMA FlushKeepsOne ==
    ASSUME TypeOK, NEW d \in Dirs, NEW k \in 1..Len(raw[d]), Flush(d, k), NEW n \in Names,
           Len(rows[n]) <= 1
    PROVE  Len(rows'[n]) <= 1
  <1> DEFINE delta == Coalesce(SubSeq(raw[d], 1, k))
  <1>1. CASE rows' = rows
    BY <1>1
  <1>2. CASE conns[d] # 0 /\ rows' = Applied(delta, conns[d])
    <2>1. conns[d] \in Nat \ {0}
      BY <1>2 DEF TypeOK
    <2> HIDE DEF delta
    <2> DEFINE times == conns[d]
    <2>2. /\ times \in Nat \ {0} /\ rows' = Applied(delta, times)
      BY <1>2, <2>1
    <2> HIDE DEF times
    <2>4. rows'[n] \in {<<>>, <<content[path][n]>>, rows[n]}
      BY <2>2, AppliedRow
    <2>3. Len(<<>>) <= 1 /\ \A x : Len(<<x>>) <= 1
      OBVIOUS
    <2> QED BY <2>3, <2>4
  <1> QED BY <1>1, <1>2, FlushCases DEF Rescan

(* Taking reports resolves the doubts about the names they are about. *)
LEMMA FlushSettles ==
    ASSUME ListingAssumption, TypeOK, WatchInv, LogInv, NEW k \in 1..Len(raw[path]), Flush(path, k),
           ~Rescan, NEW n \in Names \ raced', Len(rows[n]) <= 1, Doubtful(n) \/ Exact(n)
    PROVE  Doubtful(n)' \/ Exact(n)'
  <1> DEFINE all == raw[path]
             log == SubSeq(all, 1, k)
             rest == SubSeq(all, k + 1, Len(all))
             delta == Coalesce(log)
             c == content[path][n]
  <1>0. path \in Dirs
    BY DEF TypeOK
  <1>1. /\ UNCHANGED <<content, path, removals>> /\ raw'[path] = rest /\ watching
        /\ raced' = raced \cup Untold(log) /\ n \notin raced
    BY <1>0, FlushLeaves
  <1>2. conns[path] \in Nat \ {0}
    BY <1>0, <1>1 DEF WatchInv, TypeOK
  <1>3. \/ delta.needsFullRescan /\ IsEcho(delta) /\ rows' = rows
        \/ ~delta.needsFullRescan /\ rows' = Applied(delta, conns[path])
    BY <1>2 DEF Flush, ApplyDelta
  <1>4. all \in Seq(Event) /\ log \in Seq(Event) /\ Lasting(log) /\ Mentioned(all) = Mentioned(log) \cup Mentioned(rest)
        /\ (Overflown(all) <=> Overflown(log) \/ Overflown(rest))
    <2>1. all \in Seq(Event) /\ log \in Seq(Event) /\ Lasting(all)
      BY <1>0, FlushedAre DEF LogInv, TypeOK
    <2> QED BY <2>1, RestTells
  <1> SUFFICES ASSUME n \notin removals, n \notin Mentioned(rest), ~Overflown(rest), ~Exact(n)'
               PROVE  FALSE
    BY <1>1 DEF Doubtful
  <1>5. n \in Mentioned(log) /\ ~Overflown(log) =>
            \E i \in 1..Len(log) : LastOf(log, n, i) /\ (Shows(log[i]) <=> c # 0)
    BY <1>0, <1>1, <1>4, LastIsTrue
  <1> HIDE DEF log, rest, delta, c
  <1>6. n \notin Mentioned(log) /\ ~Overflown(log) => Exact(n)
    BY <1>4 DEF Doubtful, all
  <1>7. Exact(n)' <=> rows'[n] = IF c = 0 THEN <<>> ELSE <<c>>
    BY <1>1 DEF Exact, c
  <1>8. Exact(n) <=> rows[n] = IF c = 0 THEN <<>> ELSE <<c>>
    BY DEF Exact, c
  <1>9. CASE delta.needsFullRescan /\ IsEcho(delta) /\ rows' = rows
    <2>1. delta.deleted # {} /\ \A m \in delta.deleted : rows[m] = <<>>
      BY <1>9 DEF IsEcho
    <2>2. \A i \in 1..Len(log) : ~Shows(log[i]) /\ log[i].kind # "Overflow" /\ log[i].name \in delta.deleted
      <3>1. Len(log) > RescanThreshold \/ Whole(log) # {}
        BY <1>4, <1>9, DeltaTells DEF delta
      <3>2. \A i \in 1..Len(log) : log[i].kind # "SelfGone"
        BY <1>4 DEF Lasting
      <3> QED BY <1>4, <2>1, <3>1, <3>2, RescanTells DEF delta
    <2>3. ~Overflown(log)
      BY <2>2 DEF Overflown
    <2>4. n \in Mentioned(log)
      BY <1>6, <1>7, <1>8, <1>9, <2>3
    <2>5. rows[n] = <<>>
      BY <2>1, <2>2, <2>4 DEF Mentioned
    <2>6. c = 0
      BY <1>5, <2>2, <2>3, <2>4
    <2> QED BY <1>7, <1>9, <2>5, <2>6
  <1>10. CASE ~delta.needsFullRescan /\ rows' = Applied(delta, conns[path])
    <2>1. ~(Len(log) > RescanThreshold) /\ Whole(log) = {}
      <3>1. \A i \in 1..Len(log) : log[i].kind # "SelfGone"
        BY <1>4 DEF Lasting
      <3> QED BY <1>4, <1>10, <3>1, RescanTells DEF delta
    <2>2. ~Overflown(log)
      BY <2>1 DEF Whole, Overflown
    <2>3. rows'[n] = IF n \in Gone(delta) THEN <<>>
                     ELSE IF n \in LookUp(delta) \ removals /\ c # 0 THEN <<c>>
                     ELSE rows[n]
      BY <1>2, <1>10, AppliedRow DEF c
    <2>4. CASE n \notin Mentioned(log)
      <3>1. n \notin Gone(delta) /\ n \notin LookUp(delta)
        BY <1>4, <2>1, <2>4, DeltaTells DEF delta
      <3> QED BY <1>6, <1>7, <1>8, <2>2, <2>3, <2>4, <3>1
    <2>5. CASE n \in Mentioned(log)
      <3>1. PICK i \in 1..Len(log) : LastOf(log, n, i) /\ (Shows(log[i]) <=> c # 0)
        BY <1>5, <2>2, <2>5
      <3>2. IF Shows(log[i]) THEN n \in LookUp(delta) /\ n \notin Gone(delta)
            ELSE n \in Gone(delta) \/ n \in Untold(log)
        BY <1>4, <2>1, <3>1, DeltaTells DEF delta
      <3>3. n \notin Untold(log)
        BY <1>1
      <3> QED BY <1>7, <2>3, <3>1, <3>2, <3>3
    <2> QED BY <2>4, <2>5
  <1> QED BY <1>3, <1>9, <1>10

(* When a scan ends the names that did not change during it have been      *)
(* delivered, all of them.                                                 *)
LEMMA AllDelivered ==
    ASSUME TypeOK, LiveInv, events # <<>>, events[1].live, events[1].kind = "finished"
    PROVE  /\ ~FailureComes
           /\ \A n \in Names : ~Coming(n)
  <1>1. ~task.runs /\ 1 = Len(events)
    BY FrontOfEvents DEF LiveInv
  <1>2. \A i \in 1..Len(events) : i = 1
    <2>1. \A i \in 1..1 : i = 1
      OBVIOUS
    <2> QED BY <1>1, <2>1, Zenon
  <1>3. \A i \in 1..Len(events) : events[i].kind = "finished"
    BY <1>2
  <1> QED BY <1>1, <1>3 DEF FailureComes, Coming, Carries

(* Names that are released are looked up again, and those that were hidden *)
(* get the row they should have.                                           *)
LEMMA ReleaseSettles ==
    ASSUME TypeOK, NEW old \in [Names -> Row], NEW names, ReleaseRemovals(old, names),
           UNCHANGED <<content, raw, path>>, NEW n \in Names, Len(old[n]) <= 1,
           n \in removals => old[n] = <<>>,
           \/ Doubtful(n)
           \/ old[n] = IF content[path][n] = 0 THEN <<>> ELSE <<content[path][n]>>
    PROVE  Len(rows'[n]) <= 1 /\ (Doubtful(n)' \/ Exact(n)')
  <1> DEFINE c == content[path][n]
  <1>1. /\ removals' = removals \ names
        /\ rows'[n] = IF n \in names \cap removals THEN RefreshRow(old[n], n) ELSE old[n]
    BY DEF ReleaseRemovals
  <1>2. Exact(n)' <=> rows'[n] = IF c = 0 THEN <<>> ELSE <<c>>
    BY DEF Exact
  <1>3. Doubtful(n)' <=> n \in removals' \cup Mentioned(raw[path]) \/ Overflown(raw[path])
    BY DEF Doubtful
  <1> HIDE DEF c
  <1>4. CASE n \in names \cap removals
    <2>1. rows'[n] = IF c = 0 THEN <<>> ELSE <<c>>
      BY <1>1, <1>4 DEF RefreshRow, c
    <2>2. Len(<<>>) <= 1 /\ Len(<<c>>) <= 1
      OBVIOUS
    <2> QED BY <1>2, <2>1, <2>2
  <1>5. CASE n \notin names \cap removals
    BY <1>1, <1>2, <1>3, <1>5 DEF Doubtful, c
  <1> QED BY <1>4, <1>5

(* What the end of a scan leaves is right. *)
LEMMA FinishedRows ==
    ASSUME ListingAssumption, TypeOK, LiveInv, SeenInv, FirstInv, DeletedStayHidden, ~failed, RowInv,
           DeliverScan, events[1].live, events[1].kind = "finished", ScanFinished,
           NEW n \in Names \ raced
    PROVE  RowIsRight(n)'
  <1> DEFINE c == content[path][n]
  <1>1. UNCHANGED <<content, raw, path>> /\ events # <<>> /\ ~scanning' /\ ~rescanning' /\ path \in Dirs
    BY DeliverCases DEF ScanFinished, fsVars, TypeOK
  <1>2. ~FailureComes /\ ~Coming(n)
    BY <1>1, AllDelivered
  <1>3. scanning
    BY <1>1, FrontOfEvents DEF LiveInv
  <1>4. RowIsRight(n) /\ (n \in removals => rows[n] = <<>>)
    BY DEF RowInv, DeletedStayHidden
  <1>5. rows \in [Names -> Row]
    BY DEF TypeOK, Row
  <1>6. CASE rescanning
    <2> DEFINE old == [m \in Names |-> IF m \in seen THEN rows[m] ELSE <<>>]
    <2>1. ReleaseRemovals(old, deferred)
      BY <1>6 DEF ScanFinished
    <2>2. old \in [Names -> Row]
      <3>1. <<>> \in Row
        BY DEF Row
      <3> QED BY <1>5, <3>1
    <2>3. old[n] = IF n \in seen THEN rows[n] ELSE <<>>
      OBVIOUS
    <2> HIDE DEF old
    <2>4. n \in removals => old[n] = <<>>
      BY <1>4, <2>3
    <2>5. Len(old[n]) <= 1
      <3>1. Len(<<>>) <= 1
        OBVIOUS
      <3> QED BY <1>4, <2>3, <3>1 DEF RowIsRight
    <2>6. Doubtful(n) \/ old[n] = IF c = 0 THEN <<>> ELSE <<c>>
      <3>1. CASE n \in seen
        BY <1>4, <1>6, <2>3, <3>1 DEF RowIsRight, Exact
      <3>2. CASE n \notin seen
        <4>1. c = 0
          BY <1>2, <1>6, <3>2 DEF SeenInv, OnItsWay
        <4> QED BY <2>3, <3>2, <4>1
      <3> QED BY <3>1, <3>2
    <2>7. Len(rows'[n]) <= 1 /\ (Doubtful(n)' \/ Exact(n)')
      BY <1>1, <2>1, <2>2, <2>4, <2>5, <2>6, ReleaseSettles
    <2> QED BY <1>1, <2>7 DEF RowIsRight
  <1>7. CASE ~rescanning
    <2>1. UNCHANGED <<removals, rows>>
      BY <1>7 DEF ScanFinished
    <2>2. InOnePlace(n)
      BY <1>3, <1>7 DEF FirstInv
    <2>3. rows[n] \in {<<>>, <<c>>} /\ (c # 0 => rows[n] # <<>>)
      BY <1>2, <2>2 DEF InOnePlace
    <2>4. c = 0 => rows[n] = <<>>
      <3>1. rows[n] \in Seq(Version \ {0})
        BY DEF TypeOK
      <3>2. rows[n] = <<c>> => rows[n][1] \in Version \ {0} /\ rows[n][1] = c
        <4>1. ASSUME rows[n] = <<c>>
              PROVE  1 \in 1..Len(rows[n]) /\ rows[n][1] = c
          BY <4>1
        <4>2. \A r \in Seq(Version \ {0}) : 1 \in 1..Len(r) => r[1] \in Version \ {0}
          OBVIOUS
        <4> QED BY <3>1, <4>1, <4>2
      <3> QED BY <2>3, <3>2
    <2>5. Exact(n)
      BY <2>3, <2>4 DEF Exact
    <2> QED BY <1>1, <1>4, <2>1, <2>5 DEF RowIsRight, Exact
  <1> QED BY <1>6, <1>7

(* A batch of a rescan confirms the rows of the names in it. *)
LEMMA MergedRows ==
    ASSUME ListingAssumption, TypeOK, LiveInv, BatchInv, DeliverScan, rescanning,
           events[1].live, events[1].kind = "entries", EntriesReady(events[1].batch),
           NEW n \in Names \ raced, RowIsRight(n)
    PROVE  RowIsRight(n)'
  <1> DEFINE b == events[1].batch
             c == content[path][n]
  <1>1. /\ UNCHANGED <<content, raw, path, scanning, rescanning, removals>> /\ events # <<>>
        /\ scanning
    BY DeliverCases DEF EntriesReady, fsVars, LiveInv
  <1>2. /\ seen' = seen \cup InBatch(b)
        /\ rows'[n] = IF n \notin InBatch(b) \ removals THEN rows[n]
                      ELSE IF rows[n] = <<>> THEN <<b[n]>>
                      ELSE [rows[n] EXCEPT ![Len(rows[n])] = b[n]]
    BY DEF EntriesReady, MergeEntries
  <1>3. b[n] # 0 => b[n] = c
    BY <1>1, FrontOfEvents DEF BatchInv, Carries
  <1>4. rows[n] = <<>> \/ \E x : rows[n] = <<x>>
    <2>1. rows[n] \in Seq(Version \ {0}) /\ Len(rows[n]) \in Nat /\ Len(rows[n]) <= 1
      BY DEF TypeOK, RowIsRight
    <2>2. \A l \in Nat : l <= 1 => l = 0 \/ l = 1
      OBVIOUS
    <2>3. Len(rows[n]) = 0 \/ Len(rows[n]) = 1
      BY <2>1, <2>2, Zenon
    <2>4. rows[n] = <<>> \/ rows[n] = <<rows[n][1]>>
      BY <2>1, <2>3
    <2> QED BY <2>4
  <1>5. (Doubtful(n)' <=> Doubtful(n)) /\ (Exact(n)' <=> rows'[n] = IF c = 0 THEN <<>> ELSE <<c>>)
    BY <1>1 DEF Doubtful, Exact
  <1> HIDE DEF b, c
  <1>6. CASE n \in InBatch(b) \ removals
    <2>1. b[n] = c /\ c # 0
      BY <1>3, <1>6 DEF InBatch
    <2>2. \A x : [<<x>> EXCEPT ![Len(<<x>>)] = c] = <<c>>
      OBVIOUS
    <2>3. rows'[n] = <<c>>
      <3>1. rows'[n] = IF rows[n] = <<>> THEN <<c>> ELSE [rows[n] EXCEPT ![Len(rows[n])] = c]
        BY <1>2, <1>6, <2>1
      <3>2. CASE rows[n] = <<>>
        BY <3>1, <3>2
      <3>3. CASE rows[n] # <<>>
        <4>1. PICK x : rows[n] = <<x>>
          BY <1>4, <3>3
        <4>2. rows'[n] = [<<x>> EXCEPT ![Len(<<x>>)] = c]
          BY <3>1, <3>3, <4>1
        <4> QED BY <2>2, <4>2
      <3> QED BY <3>2, <3>3
    <2>4. Len(<<c>>) <= 1
      OBVIOUS
    <2> QED BY <1>1, <1>5, <2>1, <2>3, <2>4 DEF RowIsRight, c
  <1>7. CASE n \in InBatch(b) \cap removals
    <2>1. rows'[n] = rows[n] /\ c # 0 /\ Doubtful(n)
      BY <1>2, <1>3, <1>7 DEF InBatch, Doubtful
    <2> QED BY <1>1, <1>5, <2>1 DEF RowIsRight, c
  <1>8. CASE n \notin InBatch(b)
    BY <1>1, <1>2, <1>5, <1>8 DEF RowIsRight, Exact, c
  <1> QED BY <1>6, <1>7, <1>8

(* Every step leaves rows that are right, or in doubt. *)
LEMMA RowStep ==
    ASSUME ListingAssumption, TypeOK, LiveInv, HiddenInv, DeletedStayHidden, SeenInv,
           WatchInv, LogInv, BatchInv, FirstInv, RowInv, FirstInv', [Next]_vars
    PROVE  RowInv'
  <1> SUFFICES ASSUME ~failed', NEW n \in Names, n \notin raced'
               PROVE  RowIsRight(n)'
    BY DEF RowInv
  <1>0. path \in Dirs /\ rows \in [Names -> Row]
    BY DEF TypeOK, Row
  <1>1. ASSUME UNCHANGED failed, raced \subseteq raced'
        PROVE  n \notin raced /\ RowIsRight(n) /\ ~failed
    BY <1>1 DEF RowInv
  <1>2. ASSUME UNCHANGED <<content, raw, path, rows, scanning, rescanning, seen, removals, failed>>,
               raced \subseteq raced'
        PROVE  RowIsRight(n)'
    <2>1. RowIsRight(n)
      BY <1>1, <1>2
    <2> QED BY <1>2, <2>1 DEF RowIsRight, Doubtful, Exact
  <1>3. CASE Anybody \/ \E m \in Names : DeleteOne(m)
    <2>1. UNCHANGED <<path, rows, scanning, rescanning, seen, removals, failed>>
      BY <1>3 DEF Anybody, Create, Modify, Delete, Rename, DeleteOne, modelVars
    <2>2. /\ raced \subseteq raced'
          /\ Mentioned(raw[path]) \subseteq Mentioned(raw'[path])
          /\ Overflown(raw[path]) => Overflown(raw'[path])
          /\ scanning => content'[path][n] = content[path][n]
          /\ ~scanning => \/ content'[path][n] = content[path][n]
                          \/ n \in Mentioned(raw'[path]) \/ Overflown(raw'[path])
      BY <1>3, ChangeTells
    <2>3. RowIsRight(n) /\ (rescanning => scanning)
      BY <1>1, <2>1, <2>2 DEF LiveInv
    <2>4. Doubtful(n) => Doubtful(n)'
      BY <2>1, <2>2 DEF Doubtful
    <2>5. CASE content'[path][n] = content[path][n]
      BY <2>1, <2>3, <2>4, <2>5 DEF RowIsRight, Exact
    <2>6. CASE content'[path][n] # content[path][n]
      <3>1. Doubtful(n)'
        BY <2>1, <2>2, <2>6 DEF Doubtful
      <3> QED BY <2>1, <2>2, <2>3, <2>6, <3>1 DEF RowIsRight
    <2> QED BY <2>5, <2>6
  <1>4. CASE StartWatching \/ Worker \/ ReadFails \/ UNCHANGED vars
    <2>1. UNCHANGED <<content, raw, path, rows, scanning, rescanning, seen, removals, failed, raced>>
      BY <1>4 DEF StartWatching, Worker, ReadEntry, ReadEnds, ReadFails, vars, modelVars, fsVars
    <2> QED BY <1>2, <2>1
  <1>5. ASSUME NEW d \in Dirs, SetPath(d)
        PROVE  RowIsRight(n)'
    <2>1. rows'[n] = <<>> /\ scanning' /\ ~rescanning'
      BY <1>5 DEF SetPath, StartScan
    <2>2. Len(<<>>) <= 1
      OBVIOUS
    <2> QED BY <2>1, <2>2 DEF RowIsRight
  <1>6. ASSUME NEW names \in SUBSET Names, StartDelete(names)
        PROVE  RowIsRight(n)'
    <2>1. /\ UNCHANGED <<content, raw, path, scanning, rescanning, seen, failed>>
          /\ raced \subseteq raced' /\ removals' = removals \cup names
          /\ rows'[n] = IF n \in removals' THEN <<>> ELSE rows[n]
      BY <1>6 DEF StartDelete, ExpectRemoval, fsVars
    <2>2. RowIsRight(n)
      BY <1>1, <2>1
    <2>3. n \in removals' => Doubtful(n)'
      BY DEF Doubtful
    <2>4. Len(<<>>) <= 1
      OBVIOUS
    <2> QED BY <2>1, <2>2, <2>3, <2>4 DEF RowIsRight, Doubtful, Exact
  <1>7. CASE EndDelete
    <2>1. UNCHANGED <<content, raw, path, scanning, rescanning, seen, failed, raced>>
      BY <1>7 DEF EndDelete, fsVars
    <2>2. RowIsRight(n) /\ (n \in removals => rows[n] = <<>>)
      BY <1>1, <2>1 DEF DeletedStayHidden
    <2>3. CASE UNCHANGED <<rows, removals>>
      BY <1>2, <2>1, <2>3
    <2>4. CASE ~rescanning /\ ReleaseRemovals(rows, deleting.names)
      <3>1. CASE scanning
        <4>1. n \notin removals
          BY <1>1, <2>1, <2>4, <3>1 DEF HiddenInv
        <4>2. rows'[n] = rows[n]
          BY <2>4, <4>1 DEF ReleaseRemovals
        <4> QED BY <2>1, <2>2, <2>4, <3>1, <4>2 DEF RowIsRight
      <3>2. CASE ~scanning
        <4>1. Len(rows[n]) <= 1 /\ (Doubtful(n) \/ Exact(n))
          BY <2>2, <3>2 DEF RowIsRight
        <4>2. Len(rows'[n]) <= 1 /\ (Doubtful(n)' \/ Exact(n)')
          BY <1>0, <2>1, <2>2, <2>4, <4>1, ReleaseSettles DEF Exact
        <4> QED BY <2>1, <2>4, <4>2 DEF RowIsRight
      <3> QED BY <3>1, <3>2
    <2> QED BY <1>7, <2>3, <2>4 DEF EndDelete
  <1>8. CASE DeliverScan
    <2>1. UNCHANGED <<content, raw, path, raced>>
      BY <1>8, DeliverCases DEF fsVars
    <2>2. CASE UNCHANGED <<rows, scanning, rescanning, seen, removals, deferred, failed>>
      BY <1>2, <2>1, <2>2
    <2>3. CASE events[1].live /\ events[1].kind = "entries" /\ EntriesReady(events[1].batch)
      <3>1. UNCHANGED <<scanning, rescanning, removals, failed>>
        BY <2>3 DEF EntriesReady
      <3>2. n \notin raced /\ RowIsRight(n)
        BY <1>1, <2>1, <3>1
      <3>3. CASE rescanning
        BY <1>8, <2>3, <3>2, <3>3, MergedRows
      <3>4. CASE ~rescanning
        <4>1. scanning
          BY <1>8, <2>3, DeliverCases, FrontOfEvents DEF LiveInv
        <4>2. InOnePlace(n)'
          BY <3>1, <3>4, <4>1 DEF FirstInv
        <4>3. rows'[n] \in {<<>>, <<content'[path'][n]>>}
          BY <4>2 DEF InOnePlace
        <4>4. Len(<<>>) <= 1 /\ \A x : Len(<<x>>) <= 1
          OBVIOUS
        <4> QED BY <3>1, <3>4, <4>1, <4>3, <4>4 DEF RowIsRight
      <3> QED BY <3>3, <3>4
    <2>4. CASE events[1].live /\ events[1].kind = "finished" /\ ScanFinished
      <3>1. n \notin raced /\ ~failed
        BY <1>1, <2>1, <2>4 DEF ScanFinished
      <3> QED BY <1>8, <2>4, <3>1, FinishedRows
    <2>5. ~ScanFailed
      BY DEF ScanFailed
    <2> QED BY <1>8, <2>2, <2>3, <2>4, <2>5, DeliverCases
  <1>9. ASSUME NEW d \in Dirs, NEW k \in 1..Len(raw[d]), Flush(d, k)
        PROVE  RowIsRight(n)'
    <2> DEFINE log == SubSeq(raw[d], 1, k)
    <2>1. /\ UNCHANGED <<content, path, removals, failed>> /\ raced \subseteq raced'
          /\ \A x \in Dirs \ {d} : raw'[x] = raw[x]
          /\ d # path /\ conns[d] > 0 => raced' = raced \cup Reported(log)
      BY <1>9, FlushLeaves
    <2>2. n \notin raced /\ RowIsRight(n)
      BY <1>1, <2>1
    <2>3. Len(rows'[n]) <= 1
      BY <1>9, <2>2, FlushKeepsOne DEF RowIsRight
    <2>4. CASE Rescan
      BY <2>3, <2>4 DEF Rescan, StartScan, RowIsRight
    <2>5. CASE ~Rescan
      <3>1. UNCHANGED <<scanning, rescanning, seen>>
        BY <1>9, <2>5, FlushCases
      <3>2. Doubtful(n) \/ Exact(n) => Doubtful(n)' \/ Exact(n)'
        <4>1. CASE d = path
          BY <1>9, <2>2, <2>5, <4>1, FlushSettles DEF RowIsRight
        <4>2. CASE d # path
          <5>1. rows'[n] = rows[n]
            <6>1. rows' = rows \/ (conns[d] # 0 /\ rows' = Applied(Coalesce(log), conns[d]))
              BY <1>9, <2>5, FlushCases
            <6>2. log \in Seq(Event) /\ conns[d] \in Nat
              BY FlushedAre DEF TypeOK
            <6>3. conns[d] # 0 => conns[d] > 0
              BY <6>2
            <6> HIDE DEF log
            <6>4. conns[d] # 0 => n \notin Mentioned(log)
              BY <2>1, <4>2, <6>3 DEF Reported, Mentioned
            <6> QED BY <2>2, <6>1, <6>2, <6>4, OthersAreLeft DEF RowIsRight
          <5> QED BY <1>0, <2>1, <4>2, <5>1 DEF Doubtful, Exact
        <4> QED BY <4>1, <4>2
      <3> QED BY <2>1, <2>2, <2>3, <3>1, <3>2 DEF RowIsRight
    <2> QED BY <2>4, <2>5
  <1> QED BY <1>3, <1>4, <1>5, <1>6, <1>7, <1>8, <1>9 DEF Next, Timer

(* What is true of each row while changes and reports are under way.       *)
THEOREM ExactInvHolds ==
    ASSUME ListingAssumption
    PROVE  Spec => []ExactInv
  <1>1. Init => WatchInv /\ LogInv /\ BatchInv /\ FirstInv /\ RowInv
    <2> SUFFICES ASSUME Init
                 PROVE  WatchInv /\ LogInv /\ BatchInv /\ FirstInv /\ RowInv
      OBVIOUS
    <2>1. /\ \A d \in Dirs : raw[d] = <<>>
          /\ events = <<>> /\ task.runs /\ task.todo = Names
          /\ \A n \in Names : task.batch[n] = 0 /\ rows[n] = <<>>
          /\ path \in Dirs /\ scanning /\ ~rescanning /\ ~watching /\ removals = {}
      BY DEF Init, NoBatch
    <2>2. Lasting(<<>>) /\ Mentioned(<<>>) = {} /\ Len(<<>>) <= 1 /\ \A i \in 1..Len(<<>>) : FALSE
      BY DEF Lasting, Mentioned
    <2>3. WatchInv
      BY <2>1 DEF WatchInv
    <2>4. LogInv /\ BatchInv
      BY <2>1, <2>2 DEF LogInv, Truthful, BatchInv
    <2>5. \A n \in Names : InOnePlace(n)
      BY <2>1, <2>2 DEF InOnePlace, Coming
    <2>6. FirstInv /\ RowInv
      BY <2>1, <2>2, <2>5 DEF FirstInv, RowInv, RowIsRight
    <2> QED BY <2>3, <2>4, <2>6
  <1>2. /\ TypeOK /\ ListingInv /\ ScansAreUnderWay /\ DeletedStayHidden /\ ExactInv
        /\ [Next]_vars
        => ExactInv'
    BY WatchStep, LogStep, BatchStep, FirstStep, RowStep DEF ListingInv, ExactInv
  <1> QED BY <1>1, <1>2, TypesHold, ListingInvHolds, ScansAlwaysUnderWay, DeletedAlwaysHidden, PTL
          DEF Spec, ExactInv

(* Once everything has settled the rows are what the directory holds.      *)
THEOREM SettledAlwaysExact ==
    ASSUME ListingAssumption
    PROVE  Spec => []SettledIsExact
  <1>1. TypeOK /\ ListingInv /\ RemovalsAreReleased /\ ExactInv => SettledIsExact
    <2> SUFFICES ASSUME TypeOK, LiveInv, RemovalsAreReleased, RowInv, Settled, ~failed,
                        NEW n \in Names \ raced
                 PROVE  Exact(n)
      BY DEF SettledIsExact, ListingInv, ExactInv
    <2>1. ~scanning /\ ~deleting.runs /\ raw[path] = <<>>
      BY DEF Settled
    <2>2. Doubtful(n) \/ Exact(n)
      BY <2>1 DEF RowInv, RowIsRight
    <2>3. n \notin Mentioned(raw[path]) /\ ~Overflown(raw[path])
      BY <2>1 DEF Mentioned, Overflown
    <2>4. n \notin removals
      BY <2>1 DEF LiveInv, RemovalsAreReleased
    <2> QED BY <2>2, <2>3, <2>4 DEF Doubtful
  <1> QED BY <1>1, TypesHold, ListingInvHolds, RemovalsAlwaysReleased, ExactInvHolds, PTL

=============================================================================
