---------------------------- MODULE PanelSession ----------------------------
(* The strip of panels of the window, the tasks that a launch puts off until *)
(* after the first paint, and the session file that carries the strip from   *)
(* one launch to the next (ui/PanelStrip.cpp, app/Session.cpp and the        *)
(* start-up, request and shutdown code of app/Application.cpp).              *)
(*                                                                           *)
(* A panel is the folder it shows.  Geometry, the name under each cursor and *)
(* the hidden-files switch travel with the panel and are left out.           *)
EXTENDS Integers, Sequences, SequencesExt, FiniteSets

CONSTANTS
    Folders,        \* folders a panel may show
    ParentOf,       \* of those and of the files a request may name, the folder
    Home,           \* the folder opened when nothing else is asked
    Trimmed,        \* [Folders -> Folders]: a path after QString::trimmed()
    MaxPanels,      \* PanelStrip::kMaxPanels
    MaxLaunches,    \* bound: processes started
    MaxMoves        \* bound: keys, clicks and requests in one process

VARIABLES
    exists,         \* the folders there are on disk
    file,           \* session.ini as [panels, focused]
    left,           \* the strip as the last committed save found it
    mode,           \* "off", "normal", "paths" or "service"
    panels,         \* m_panels: a sequence of [folder, visible]
    focused,        \* index of m_focused, 0 when nullptr
    slot,           \* TRUE while Quick Look occupies a slot
    narrow,         \* TRUE when the window is under kCompactWidthThreshold
    compact,        \* m_compact
    painted,        \* m_firstPaintSeen
    tasks,          \* m_startupTasks from m_nextStartupTask on
    turns,          \* posted runNextStartupTask() calls
    restoring,      \* the pruned session this launch restores, or Nothing
    untouched,      \* no key or click has moved the strip in this launch, and
                    \* no request has since the restore
    moves, launches

vars == << exists, file, left, mode, panels, focused, slot, narrow, compact,
           painted, tasks, turns, restoring, untouched, moves, launches >>

window == << panels, focused, slot, narrow, compact >>

Nothing == [panels |-> <<>>, focused |-> 1]

Paths(strip) == [i \in DOMAIN strip |-> strip[i].folder]

Least(a, b) == IF a < b THEN a ELSE b

-----------------------------------------------------------------------------
(* The session file *)

(* fromIni(): every line is trimmed before it is split at its first "=", so  *)
(* a path loses the spaces it ends in.                                       *)
ReadBack(session) ==
    [session EXCEPT !.panels = [i \in DOMAIN @ |-> Trimmed[@[i]]]]

(* pruned(): folders that are gone are dropped, the index is clamped. *)
Pruned(session) ==
    LET kept == SelectSeq(session.panels, LAMBDA f : f \in exists)
    IN  [panels  |-> kept,
         focused |-> IF kept = <<>> THEN 1
                     ELSE Least(session.focused, Len(kept))]

(* What toIni() writes. *)
Strip == [panels |-> Paths(panels), focused |-> focused]

(* saveSession(), Session::save(): nothing is written for an empty strip; a  *)
(* QSaveFile either replaces the file or leaves it alone.                    *)
Save ==
    \/ panels # <<>> /\ file' = Strip /\ left' = Strip
    \/ UNCHANGED <<file, left>>

-----------------------------------------------------------------------------
(* The strip.  These operators map a strip value [p, f] to another one. *)

(* applyResponsiveLayout() *)
Laid(p, f, c) == [i \in DOMAIN p |-> [p[i] EXCEPT !.visible = ~c \/ i = f]]

(* setFocusedPanel(): lays the strip out again in compact mode only. *)
Focus(s, i) ==
    IF i \notin DOMAIN s.p \/ s.f = i THEN s
    ELSE [p |-> IF compact THEN Laid(s.p, i, narrow) ELSE s.p, f |-> i]

Full(s) == Len(s.p) + (IF slot THEN 1 ELSE 0) >= MaxPanels

(* addPanel(): refused at the limit; the new panel takes the focus. *)
Added(s, folder) ==
    IF Full(s) THEN s
    ELSE Focus([s EXCEPT !.p = Append(@, [folder |-> folder, visible |-> TRUE])],
               Len(s.p) + 1)

AddedAll(s, folders) ==
    FoldLeft(Added, s, folders)

Shown == [p |-> panels, f |-> focused]

Becomes(s) == panels' = s.p /\ focused' = s.f

-----------------------------------------------------------------------------
(* Start-up *)

Init ==
    /\ exists = Folders
    /\ file = Nothing
    /\ left = Nothing
    /\ mode = "off"
    /\ panels = <<>>
    /\ focused = 0
    /\ slot = FALSE
    /\ narrow = FALSE
    /\ compact = FALSE
    /\ painted = FALSE
    /\ tasks = <<>>
    /\ turns = 0
    /\ restoring = Nothing
    /\ untouched = FALSE
    /\ moves = 0
    /\ launches = 0

(* startUp(): what the launch puts off, in the order it is posted. *)
PutOff(session) ==
    (IF session = Nothing THEN <<>> ELSE <<"restore">>) \o <<"thumbnails", "serve">>

Launches(asked) ==
    /\ mode = "off"
    /\ launches < MaxLaunches
    /\ launches' = launches + 1
    /\ moves' = 0
    /\ untouched' = TRUE
    /\ mode' = asked
    /\ UNCHANGED <<exists, file, left, slot, narrow, compact>>

(* restoreSessionOrOpenInitialPanel(): one panel before the first paint.  A  *)
(* path on the command line outranks the last session.                       *)
StartUp(asked, path) ==
    /\ Launches(asked)
    /\ LET session == Pruned(ReadBack(file))
           resumes == asked = "normal" /\ session.panels # <<>>
       IN  /\ Becomes(Added(Shown, IF resumes THEN Head(session.panels) ELSE path))
           /\ restoring' = IF resumes THEN session ELSE Nothing
           /\ tasks' = PutOff(restoring')
    /\ painted' = FALSE
    /\ turns' = 0

(* startAsDbusService(): no panel, and the tasks do not wait for a paint. *)
StartAsDbusService ==
    /\ Launches("service")
    /\ restoring' = Nothing
    /\ tasks' = PutOff(Nothing)
    /\ painted' = TRUE
    /\ turns' = 1
    /\ UNCHANGED <<panels, focused>>

(* onFirstPaint() *)
OnFirstPaint ==
    /\ mode # "off"
    /\ ~painted
    /\ painted' = TRUE
    /\ turns' = turns + 1
    /\ UNCHANGED <<exists, file, left, mode, window, tasks, restoring, untouched,
                   moves, launches>>

(* The queued restore of panels 2..N, then focusPanelAt(). *)
RestoreOthers ==
    Focus(AddedAll(Shown, Tail(restoring.panels)), restoring.focused)

(* runNextStartupTask(): one task in each turn of the event loop. *)
RunNextStartupTask ==
    /\ turns > 0
    /\ tasks # <<>>
    /\ tasks' = Tail(tasks)
    /\ turns' = turns - 1 + (IF Len(tasks) > 1 THEN 1 ELSE 0)
    /\ IF Head(tasks) = "restore" THEN Becomes(RestoreOthers)
       ELSE UNCHANGED <<panels, focused>>
    /\ UNCHANGED <<exists, file, left, mode, slot, narrow, compact, painted,
                   restoring, untouched, moves, launches>>

-----------------------------------------------------------------------------
(* The user *)

Moves ==
    /\ mode # "off"
    /\ moves < MaxMoves
    /\ moves' = moves + 1
    /\ UNCHANGED <<exists, file, left, mode, painted, tasks, turns, restoring,
                   launches>>

Touches == Moves /\ panels # <<>> /\ untouched' = FALSE

KeepsLayout == UNCHANGED <<slot, narrow, compact>>

(* splitFocusedPanel() *)
SplitFocusedPanel ==
    /\ Touches
    /\ Becomes(Added(Shown, panels[focused].folder))
    /\ KeepsLayout

(* closePanel(): the focus goes to the left neighbour, or to the right one   *)
(* when the leftmost is closed; never the last panel.                        *)
CloseFocusedPanel ==
    /\ Touches
    /\ Len(panels) > 1
    /\ LET rest == SubSeq(panels, 1, focused - 1)
                     \o SubSeq(panels, focused + 1, Len(panels))
       IN  Becomes(Focus([p |-> rest, f |-> 0], IF focused = 1 THEN 1 ELSE focused - 1))
    /\ KeepsLayout

(* focusPanelAt() *)
FocusPanelAt(i) == Touches /\ Becomes(Focus(Shown, i)) /\ KeepsLayout

(* focusNext() and focusPrevious() go round the strip. *)
FocusNext ==
    /\ Len(panels) > 1
    /\ FocusPanelAt((focused % Len(panels)) + 1)

FocusPrevious ==
    /\ Len(panels) > 1
    /\ FocusPanelAt(((focused - 2 + Len(panels)) % Len(panels)) + 1)

(* eventFilter(): the list that gets the keyboard focus makes its panel the  *)
(* active one.  Only a visible panel can be clicked.                         *)
ClickPanel ==
    \E i \in DOMAIN panels : panels[i].visible /\ FocusPanelAt(i)

(* FilePanel::navigateTo() in the focused panel. *)
Navigate ==
    /\ Touches
    /\ \E f \in exists : panels' = [panels EXCEPT ![focused].folder = f]
    /\ UNCHANGED focused
    /\ KeepsLayout

(* setQuickLookSlot(): the limit on panels is not looked at here. *)
SetQuickLookSlot ==
    /\ Moves
    /\ panels # <<>>
    /\ slot' = ~slot
    /\ untouched' = FALSE
    /\ UNCHANGED <<panels, focused, narrow, compact>>

(* resizeEvent(), applyResponsiveLayout() *)
Resize ==
    /\ Moves
    /\ panels # <<>>
    /\ narrow' = ~narrow
    /\ compact' = ~narrow
    /\ panels' = Laid(panels, focused, ~narrow)
    /\ UNCHANGED <<focused, slot, untouched>>

(* Requests reach this process only once the queued startServing() has run. *)
Serving == mode # "off" /\ \A i \in DOMAIN tasks : tasks[i] # "serve"

(* What is there of all that a request can name. *)
Nameable == {x \in DOMAIN ParentOf : x \in exists \/ (x \notin Folders /\ ParentOf[x] \in exists)}

(* folderRequests(): a folder for each path; those to be selected in their   *)
(* folders share one, at the place of the first.                             *)
FolderRequests(paths, select) ==
    LET folder(i) == IF paths[i] \in Folders /\ ~select THEN paths[i] ELSE ParentOf[paths[i]]
        first == {i \in DOMAIN paths : select => \A j \in 1 .. i - 1 : folder(j) # folder(i)}
        order == SetToSortSeq(first, <)
    IN  [k \in DOMAIN order |-> folder(order[k])]

(* openRequest(): the first folder may be shown in the focused panel, each   *)
(* other one gets a new panel until the strip is full.                       *)
OpenRequest ==
    /\ Serving
    /\ Moves
    /\ \E here, select \in BOOLEAN, named \in UNION {[1..n -> Nameable] : n \in 1..2} :
          LET asked == FolderRequests(named, select)
          IN  IF here /\ panels # <<>>
              THEN LET turned == [Shown EXCEPT !.p[focused].folder = Head(asked)]
                   IN  Becomes(AddedAll(turned, Tail(asked)))
              ELSE Becomes(AddedAll(Shown, asked))
    /\ untouched' = (untouched /\ "restore" \in Range(tasks))
    /\ KeepsLayout

-----------------------------------------------------------------------------
(* The end of the process *)

Ended ==
    /\ mode' = "off"
    /\ panels' = <<>>
    /\ focused' = 0
    /\ slot' = FALSE
    /\ narrow' = FALSE
    /\ compact' = FALSE
    /\ painted' = FALSE
    /\ tasks' = <<>>
    /\ turns' = 0
    /\ restoring' = Nothing
    /\ untouched' = FALSE
    /\ UNCHANGED <<exists, moves, launches>>

(* aboutToQuit: the session is saved while the panels are still there. *)
Quit == mode # "off" /\ Save /\ Ended

(* The process is killed; SIGTERM is a Quit. *)
Die == mode # "off" /\ UNCHANGED <<file, left>> /\ Ended

(* Somebody removes a folder between two launches. *)
FolderVanishes ==
    /\ mode = "off"
    /\ \E f \in exists \ {Home} : exists' = exists \ {f}
    /\ UNCHANGED <<file, left, mode, window, painted, tasks, turns, restoring,
                   untouched, moves, launches>>

Next ==
    \/ StartUp("normal", Home)
    \/ \E f \in exists : StartUp("paths", f)
    \/ StartAsDbusService
    \/ OnFirstPaint
    \/ RunNextStartupTask
    \/ SplitFocusedPanel
    \/ CloseFocusedPanel
    \/ FocusNext
    \/ FocusPrevious
    \/ ClickPanel
    \/ Navigate
    \/ SetQuickLookSlot
    \/ Resize
    \/ OpenRequest
    \/ Quit
    \/ Die
    \/ FolderVanishes

Spec == Init /\ [][Next]_vars

-----------------------------------------------------------------------------
(* An ordinary launch that nobody interrupts shows, once its queued restore  *)
(* has run, the panels of the last strip that was saved, in their order and  *)
(* with the same one active, minus the folders that are gone since; whatever *)
(* happened to the file in between (a failed save, a kill, a launch for a    *)
(* path) and whoever asked for folders meanwhile.                            *)
SessionComesBack ==
    (/\ mode = "normal" /\ untouched /\ "restore" \notin Range(tasks)
     /\ left.panels # <<>> /\ \E i \in DOMAIN left.panels : left.panels[i] \in exists)
    => Strip = Pruned(left)

(* There is always one active panel among those of the strip, the strip      *)
(* holds no more than its limit, and a narrow window shows the active panel  *)
(* and no other while a wide one shows them all.                             *)
StripIsUsable ==
    /\ Len(panels) <= MaxPanels
    /\ panels # <<>> => focused \in DOMAIN panels
    /\ compact = narrow
    /\ \A i \in DOMAIN panels : panels[i].visible = (~narrow \/ i = focused)

=============================================================================
