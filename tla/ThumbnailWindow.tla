-------------------------- MODULE ThumbnailWindow --------------------------
(***************************************************************************)
(* Which thumbnails a panel asks for: the rows in view and those around    *)
(* them, worked out again when the view scrolls, is sorted or fills, and   *)
(* the requests the cache holds (ui/FilePanel.cpp, model/DirectoryModel.cpp*)
(* and model/ThumbnailCache.cpp; Thumbnails has the life of one request).  *)
(***************************************************************************)
EXTENDS Integers, SequencesExt

CONSTANTS
    FilesIn,        \* [folders -> sets of Nat]: what each may hold, in row order
    Directories,    \* the ones that are folders themselves
    Pictures,       \* the ones this build makes thumbnails of
    Broken,         \* the pictures among them that cannot be read
    Height,         \* rows the view is high
    Overshoot,      \* kThumbnailOvershootRows
    MaxChanges      \* bound: rows that come and go after a scan

VARIABLES
    folder, rows,   \* the folder and the files of its rows, top to bottom
    scanning,       \* the scan is under way
    top,            \* the first row in view
    mode,           \* list or icons; a list whose rows are too low has no thumbnails
    enabled,        \* the thumbnails of this panel
    window,         \* m_thumbnailWindow: the files asked for
    size,           \* m_thumbnailSize
    cache,          \* what is pending and the tasks of the pool, in order of request
    made, failed,   \* pictures that are there, and files that have none
    changes, gone   \* rows changed in all, and taken out since the window was worked out

view == <<folder, rows, scanning, top, mode, enabled>>
done == <<made, failed>>
vars == <<view, window, size, cache, done, changes, gone>>

Files == UNION {FilesIn[f] : f \in DOMAIN FilesIn}
Modes == {"icons", "list", "low"}
Sizes == {"normal", "large"}
NoSize == "none"

TypeOK ==
    /\ folder \in DOMAIN FilesIn
    /\ ToSet(rows) \subseteq FilesIn[folder] /\ IsInjective(rows)
    /\ top \in 1..(Len(rows) + 1) /\ mode \in Modes
    /\ scanning \in BOOLEAN /\ enabled \in BOOLEAN
    /\ window \subseteq Files /\ size \in Sizes
    /\ cache.pending \in [Files -> Sizes \cup {NoSize}]
    /\ made \subseteq Files \X Sizes /\ failed \subseteq Pictures

SizeFor(m) == IF m = "icons" THEN "large" ELSE "normal"
PerRow(m) == IF m = "icons" THEN 2 ELSE 1

Init ==
    /\ folder \in DOMAIN FilesIn
    /\ rows = <<>> /\ scanning = TRUE /\ top = 1
    /\ mode = "list" /\ enabled = TRUE
    /\ window = {} /\ size = "normal"
    /\ cache = [pending |-> [f \in Files |-> NoSize], tasks |-> <<>>]
    /\ made = {} /\ failed = {}
    /\ changes = 0 /\ gone = 0

-----------------------------------------------------------------------------
(* The cache, between the requests of one window.                            *)

(* A task that is cancelled ends without a trace. *)
CancelIn(c, file) ==
    [pending |-> [c.pending EXCEPT ![file] = NoSize],
     tasks   |-> SelectSeq(c.tasks, LAMBDA t : t.file # file)]

(* One size in flight per file, none that failed and none that is there. *)
RequestIn(c, file, s, priority) ==
    IF c.pending[file] = s THEN c
    ELSE LET d == CancelIn(c, file) IN
         IF file \notin Pictures \/ file \in failed \/ <<file, s>> \in made THEN d
         ELSE [pending |-> [d.pending EXCEPT ![file] = s],
               tasks   |-> Append(d.tasks, [file |-> file, size |-> s, priority |-> priority])]

CancelAllIn(c, files) == FoldLeft(CancelIn, c, SetToSeq(files))

RequestAllIn(c, files, s, priority) ==
    FoldLeft(LAMBDA d, file : RequestIn(d, file, s, priority), c, files)

-----------------------------------------------------------------------------
(* The window, for the view of the next state.                               *)

LastInView(s, first, m) ==
    LET last == first + Height * PerRow(m) - 1 IN IF last < Len(s) THEN last ELSE Len(s)

InView(s, first, m) == SubSeq(s, first, LastInView(s, first, m))

(* Outwards from both ends of the view, below before above. *)
Around(s, first, m) ==
    LET At(i) == IF i \in DOMAIN s THEN <<s[i]>> ELSE <<>>
    IN  FlattenSeq([k \in 1..(Overshoot * PerRow(m)) |->
            At(LastInView(s, first, m) + k) \o At(first - k)])

(* requestThumbnails(), asked for what the window held: what left it is      *)
(* cancelled, what came is requested, the rows in view before the others.    *)
RequestThumbnails(asked, visible, overshoot) ==
    LET Shown(s) == SelectSeq(s, LAMBDA f : f \notin Directories)
        New(s) == SelectSeq(Shown(s), LAMBDA f : f \notin asked)
        wanted == ToSet(Shown(visible)) \cup ToSet(Shown(overshoot))
    IN  /\ window' = wanted
        /\ cache' = RequestAllIn(RequestAllIn(CancelAllIn(cache, asked \ wanted),
                                              New(visible), size', 1),
                                 New(overshoot), size', 0)

(* setThumbnailSize(): another size forgets the window, and cancels nothing. *)
SetThumbnailSize(s) ==
    /\ size' = s
    /\ RequestThumbnails(IF s = size THEN window ELSE {}, InView(rows', top', mode'),
                         Around(rows', top', mode'))

(* updateThumbnailWindow() *)
UpdateThumbnailWindow ==
    /\ gone' = 0
    /\ \/ ~enabled' /\ UNCHANGED <<window, size, cache>>
       \/ /\ enabled' /\ mode' = "low"
          /\ size' = size
          /\ RequestThumbnails(window, <<>>, <<>>)
       \/ enabled' /\ mode' # "low" /\ SetThumbnailSize(SizeFor(mode'))

Unasked == UNCHANGED <<window, size, cache, gone>>

-----------------------------------------------------------------------------
(* A scroll bar has no place past its last one. *)
LastTop(s, m) == IF Len(s) > Height * PerRow(m) THEN Len(s) - Height * PerRow(m) + 1 ELSE 1

(* The view goes back to its beginning, and that is a scroll if it was not   *)
(* there; the rows that arrive while the scan runs ask for nothing.          *)
Navigate(f) ==
    /\ f # folder /\ changes < MaxChanges
    /\ folder' = f /\ rows' = <<>> /\ scanning' = TRUE /\ top' = 1
    /\ UNCHANGED <<mode, enabled, done>>
    /\ changes' = changes + 1
    /\ IF top # 1 THEN UpdateThumbnailWindow ELSE Unasked

Arrive(files) ==
    /\ scanning /\ rows = <<>>
    /\ rows' = SetToSortSeq(files, <)
    /\ UNCHANGED <<folder, scanning, top, mode, enabled, done, changes>>
    /\ Unasked

OnScanFinished ==
    /\ scanning
    /\ scanning' = FALSE
    /\ UNCHANGED <<folder, rows, top, mode, enabled, done, changes>>
    /\ UpdateThumbnailWindow

Scroll(first) ==
    /\ first # top /\ first <= LastTop(rows, mode)
    /\ top' = first
    /\ UNCHANGED <<folder, rows, scanning, mode, enabled, done, changes>>
    /\ UpdateThumbnailWindow

(* The proxy's layoutChanged(). *)
ReverseSort ==
    /\ Len(rows) > 1
    /\ rows' = Reverse(rows)
    /\ UNCHANGED <<folder, scanning, top, mode, enabled, done, changes>>
    /\ UpdateThumbnailWindow

(* A row the watcher or the filter adds, where its name puts it. *)
RowsInserted(file) ==
    /\ ~scanning /\ changes < MaxChanges /\ file \in FilesIn[folder] \ ToSet(rows)
    /\ \E i \in 1..(Len(rows) + 1) :
          /\ rows' = InsertAt(rows, i, file)
          /\ \/ \A j, k \in DOMAIN rows' : j < k => rows'[j] < rows'[k]
             \/ \A j, k \in DOMAIN rows' : j < k => rows'[j] > rows'[k]
    /\ changes' = changes + 1
    /\ UNCHANGED <<folder, scanning, top, mode, enabled, done>>
    /\ UpdateThumbnailWindow

(* One they take out: the rows below come up, and only a scroll bar that has *)
(* to give way has the window worked out again.                              *)
RowsRemoved(i) ==
    /\ ~scanning /\ changes < MaxChanges
    /\ rows' = RemoveAt(rows, i)
    /\ changes' = changes + 1
    /\ UNCHANGED <<folder, scanning, mode, enabled, done>>
    /\ IF top > LastTop(rows', mode)
       THEN top' = LastTop(rows', mode) /\ UpdateThumbnailWindow
       ELSE top' = top /\ gone' = gone + 1 /\ UNCHANGED <<window, size, cache>>

(* setViewMode(), or a theme with rows of another height. *)
ApplyViewMode(m) ==
    /\ m # mode
    /\ mode' = m
    /\ top' = IF top > LastTop(rows, m) THEN LastTop(rows, m) ELSE top
    /\ UNCHANGED <<folder, rows, scanning, enabled, done, changes>>
    /\ UpdateThumbnailWindow

(* The setting: off, what the window holds is cancelled. *)
SetThumbnailsEnabled(on) ==
    /\ on # enabled
    /\ enabled' = on
    /\ UNCHANGED <<folder, rows, scanning, top, mode, done, changes>>
    /\ IF on THEN UpdateThumbnailWindow
       ELSE /\ cache' = CancelAllIn(cache, window) /\ window' = {}
            /\ UNCHANGED <<size, gone>>

(* The pool's two threads take the tasks by priority, then by age. *)
Before(i, j) ==
    LET ti == cache.tasks[i] tj == cache.tasks[j] IN
    ti.priority > tj.priority \/ (ti.priority = tj.priority /\ i < j)

Finish(i) ==
    /\ Cardinality({j \in DOMAIN cache.tasks : Before(j, i)}) < 2
    /\ LET t == cache.tasks[i] IN
       /\ cache' = CancelIn(cache, t.file)
       /\ \/ t.file \notin Broken /\ made' = made \cup {<<t.file, t.size>>} /\ failed' = failed
          \/ t.file \in Broken /\ failed' = failed \cup {t.file} /\ made' = made
    /\ UNCHANGED <<view, window, size, changes, gone>>

Next ==
    \/ \E f \in DOMAIN FilesIn : Navigate(f)
    \/ \E files \in (SUBSET FilesIn[folder]) \ {{}} : Arrive(files)
    \/ OnScanFinished
    \/ \E first \in DOMAIN rows : Scroll(first)
    \/ ReverseSort
    \/ \E file \in Files : RowsInserted(file)
    \/ \E i \in DOMAIN rows : RowsRemoved(i)
    \/ \E m \in Modes : ApplyViewMode(m)
    \/ \E on \in BOOLEAN : SetThumbnailsEnabled(on)
    \/ \E i \in DOMAIN cache.tasks : Finish(i)

Spec == Init /\ [][Next]_vars

-----------------------------------------------------------------------------
OnItsWay(file) ==
    /\ cache.pending[file] = size
    /\ \E i \in DOMAIN cache.tasks : cache.tasks[i].file = file /\ cache.tasks[i].size = size

(* After any scrolling, sorting, change of the view and of the rows, the     *)
(* thumbnail of each picture in view is there, cannot be made or is being    *)
(* made at the size shown, as long as no more rows went unseen than the      *)
(* window reaches beyond the view (DirectoryModel::requestThumbnails).       *)
ViewIsServed ==
    (enabled /\ ~scanning /\ mode # "low" /\ gone <= Overshoot * PerRow(mode)) =>
        \A file \in ToSet(InView(rows, top, mode)) \cap Pictures :
            OnItsWay(file) \/ <<file, size>> \in made \/ file \in failed
=============================================================================
