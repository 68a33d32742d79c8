--------------------------- MODULE PanelSelection ---------------------------
(* The selection of one panel: what the pointer, the keys, the filter and    *)
(* the removal of files do to it, and which entries the next operation then  *)
(* acts on (ui/FilePanel.cpp, the pointer and typing parts of                *)
(* ui/PanelView.cpp, the movement actions of app/PanelController.cpp).       *)
EXTENDS Integers, Sequences, SequencesExt, FiniteSets

CONSTANTS
    Order,          \* every name, in the order the list shows it
    Dotted,         \* names the hidden-files rule or a filter can hide
    NoName,         \* the empty QString
    MaxLosses       \* bound: files removed

Names == Range(Order)

VARIABLES
    listed,         \* names the directory holds
    hiding,         \* a filter hides the Dotted names
    cursor,         \* the view's current index
    selection,      \* m_selection
    anchor,         \* m_selectionAnchor
    selecting,      \* m_selectionMode
    typed,          \* PanelView::isTypingAhead()
    press,          \* the plain left press under way: its row, or NoPress
    marked,         \* the entries selected before that press, Lost when its
                    \* row has left the listing since
    dragged,        \* what the last drag took along; {} when none
    clicked         \* the row of a plain click that nothing has followed

vars == <<listed, hiding, cursor, selection, anchor, selecting, typed, press,
          marked, dragged, clicked>>

pointer == <<press, marked, dragged, clicked>>

NoPress == "none"
Lost == {NoName}

Visible == {n \in listed : ~(hiding /\ n \in Dotted)}
Place(n) == CHOOSE i \in DOMAIN Order : Order[i] = n

(* The rows from one row to another, whichever is above. *)
Between(a, b) ==
    {n \in Visible : \/ Place(a) <= Place(n) /\ Place(n) <= Place(b)
                     \/ Place(b) <= Place(n) /\ Place(n) <= Place(a)}

Losses == Cardinality(Names \ listed)

(* selectedPaths(): the selected entries that are shown, else the cursor's. *)
SelectedPaths ==
    IF selection # {} THEN selection \cap Visible
    ELSE IF cursor = NoName THEN {} ELSE {cursor}

Init ==
    /\ listed = Names
    /\ hiding = FALSE
    /\ cursor \in Names
    /\ selection = {}
    /\ anchor = NoName
    /\ selecting = FALSE
    /\ typed = FALSE
    /\ press = NoPress
    /\ marked = {}
    /\ dragged = {}
    /\ clicked = NoName

-----------------------------------------------------------------------------
(* The three ways a selection changes; each assigns selection' and anchor'.  *)

(* clearSelection(): an empty selection keeps its anchor. *)
ClearSelection ==
    /\ selection' = {}
    /\ anchor' = IF selection = {} THEN anchor ELSE NoName

Toggled(n) == IF n \in selection THEN selection \ {n} ELSE selection \cup {n}

(* toggleSelectionAt(), and the anchor a Ctrl press or a fallback leaves. *)
ToggleSelectionAt(n) ==
    IF n = NoName THEN UNCHANGED selection /\ anchor' = n
    ELSE selection' = Toggled(n) /\ anchor' = n

(* extendSelectionTo(n) from the anchor a, or from the cursor c without one. *)
ExtendSelectionTo(n, a, c) ==
    LET from == IF a = NoName THEN c ELSE a
    IN  IF n = NoName THEN UNCHANGED selection /\ anchor' = a
        ELSE IF from \notin Visible \/ n \notin Visible
        THEN ToggleSelectionAt(n)
        ELSE selection' = Between(from, n) /\ anchor' = a

-----------------------------------------------------------------------------
(* The pointer *)

(* rowClicked comes before the view moves its current index.  A click also   *)
(* ends a name that is being typed.                                          *)
Pressed(n) ==
    /\ cursor' = IF n = NoName THEN cursor ELSE n
    /\ typed' = FALSE
    /\ dragged' = {}
    /\ clicked' = NoName
    /\ UNCHANGED <<listed, hiding, selecting>>

(* handleClickPress() with Shift, or with Ctrl or Meta. *)
ShiftPress(n) ==
    /\ press = NoPress
    /\ ExtendSelectionTo(n, anchor, cursor)
    /\ Pressed(n)
    /\ UNCHANGED <<press, marked>>

CtrlPress(n) ==
    /\ press = NoPress
    /\ ToggleSelectionAt(n)
    /\ Pressed(n)
    /\ UNCHANGED <<press, marked>>

(* A plain press that starts over at once, on a selected row too. *)
HandleClickPressSlip(n) ==
    /\ press = NoPress
    /\ selection' = {}
    /\ anchor' = n
    /\ press' = n
    /\ marked' = selection
    /\ Pressed(n)

(* handleClickPress(): a press on an unselected row starts over, a press on  *)
(* a selected one waits for the release, for it may become a drag.           *)
HandleClickPress(n) ==
    /\ press = NoPress
    /\ selection' = IF n \in selection THEN selection ELSE {}
    /\ anchor' = n
    /\ press' = n
    /\ marked' = selection
    /\ Pressed(n)

(* mouseReleaseEvent(), handleClickRelease(): the deferred half. *)
HandleClickRelease ==
    /\ press # NoPress
    /\ press' = NoPress
    /\ IF press \in selection /\ selection # {press}
       THEN selection' = {} /\ anchor' = press
       ELSE UNCHANGED <<selection, anchor>>
    /\ clicked' = IF marked = Lost THEN NoName ELSE press
    /\ UNCHANGED <<listed, hiding, cursor, selecting, typed, marked, dragged>>

(* mouseMoveEvent() past the drag distance, beginPanelDrag(). *)
BeginPanelDrag ==
    /\ press # NoPress
    /\ press' = NoPress
    /\ dragged' = SelectedPaths
    /\ clicked' = NoName
    /\ marked' = IF marked = Lost THEN {}
                  ELSE IF press \in marked THEN marked \cap Visible
                  ELSE {press} \cap Visible
    /\ UNCHANGED <<listed, hiding, cursor, selection, anchor, selecting, typed>>

(* contextMenuEvent(): like a plain click, except that a selection the row   *)
(* is part of stays.                                                         *)
ContextMenu(n) ==
    /\ press = NoPress
    /\ cursor' = n
    /\ IF n \in selection THEN UNCHANGED <<selection, anchor>> ELSE ClearSelection
    /\ typed' = FALSE
    /\ dragged' = {}
    /\ clicked' = NoName
    /\ UNCHANGED <<listed, hiding, selecting, press, marked>>

-----------------------------------------------------------------------------
(* The keyboard.  A key ends what the pointer has said.                      *)

Keys ==
    /\ press = NoPress
    /\ clicked' = NoName
    /\ dragged' = {}
    /\ UNCHANGED <<listed, hiding, press, marked>>

(* The row next to the cursor's, which is the one there is. *)
Neighbour(step) ==
    LET Nearest(rows) == {n \in rows : \A m \in rows : step * Place(n) <= step * Place(m)}
        beyond == {n \in Visible : step * Place(n) > step * Place(cursor)}
    IN  IF Visible = {} THEN {NoName}
        ELSE IF cursor \notin Visible THEN {n \in Visible : \A m \in Visible : Place(n) <= Place(m)}
        ELSE IF beyond = {} THEN {cursor} ELSE Nearest(beyond)

(* list_down and its kin: outside Selection mode moving ends the selection. *)
MoveCursor(step) ==
    /\ Keys
    /\ IF selecting THEN UNCHANGED <<selection, anchor>> ELSE ClearSelection
    /\ cursor' \in Neighbour(step)
    /\ typed' = FALSE
    /\ UNCHANGED selecting

(* extendSelectionByRows() *)
ExtendSelectionByRows(step) ==
    /\ Keys
    /\ cursor' \in Neighbour(step)
    /\ ExtendSelectionTo(cursor', IF selection = {} THEN cursor ELSE anchor, cursor')
    /\ typed' = FALSE
    /\ UNCHANGED selecting

(* keyboardSearch() to any row, or to none: the typed text stays. *)
KeyboardSearch ==
    /\ Keys
    /\ typed' = TRUE
    /\ \/ UNCHANGED <<cursor, selection, anchor>>
       \/ /\ cursor' \in Visible
          /\ IF selecting THEN UNCHANGED <<selection, anchor>> ELSE ClearSelection
    /\ UNCHANGED selecting

(* The type-ahead timer, or the focus going elsewhere. *)
ClearTypeAhead ==
    /\ typed
    /\ typed' = FALSE
    /\ UNCHANGED <<listed, hiding, cursor, selection, anchor, selecting, pointer>>

(* setSelectionMode(): entering starts over at the cursor, leaving keeps. *)
SetSelectionMode ==
    /\ Keys
    /\ selecting' = ~selecting
    /\ IF selecting THEN UNCHANGED <<selection, anchor>>
       ELSE /\ anchor' = cursor
            /\ selection' = IF cursor = NoName THEN {} ELSE {cursor}
    /\ UNCHANGED <<cursor, typed>>

(* selectAll(): everything visible. *)
SelectAll ==
    /\ Keys
    /\ selection' = selection \cup Visible
    /\ UNCHANGED <<cursor, anchor, selecting, typed>>

(* Escape backs out of one thing: the typed name, the filter, the mode, the  *)
(* selection.                                                                *)
Escape ==
    /\ press = NoPress
    /\ clicked' = NoName
    /\ dragged' = {}
    /\ typed' = FALSE
    /\ IF typed THEN UNCHANGED <<hiding, selecting, selection, anchor>>
       ELSE IF hiding THEN hiding' = FALSE /\ UNCHANGED <<selecting, selection, anchor>>
       ELSE IF selecting THEN selecting' = FALSE /\ UNCHANGED <<hiding, selection, anchor>>
       ELSE ClearSelection /\ UNCHANGED <<hiding, selecting>>
    /\ UNCHANGED <<listed, cursor, press, marked>>

(* selectNames(): an outside request reveals files that may not be listed.   *)
SelectNames ==
    /\ Keys
    /\ \E names \in SUBSET Names \ {{}} :
          selection' = names /\ anchor' \in names
    /\ UNCHANGED <<cursor, selecting, typed>>

-----------------------------------------------------------------------------
(* The listing.  When the row of the cursor goes the view picks another one. *)

(* What the pointer is owed when n leaves the listing under a press. *)
Owed(n, rest) ==
    IF press = n THEN Lost ELSE IF press = NoPress \/ marked = Lost THEN marked ELSE rest

CursorFollows ==
    IF cursor \in Visible' THEN UNCHANGED cursor
    ELSE IF Visible' = {} THEN cursor' = NoName
    ELSE cursor' \in Visible'

(* setFilterText() *)
SetFilterText ==
    /\ press = NoPress
    /\ hiding' = ~hiding
    /\ clicked' = NoName
    /\ dragged' = {}
    /\ UNCHANGED <<listed, selection, anchor, selecting, typed, press, marked>>
    /\ CursorFollows

(* The watcher takes a row away; a selection keeps the name. *)
FileVanishes ==
    /\ Losses < MaxLosses
    /\ \E n \in listed :
          /\ listed' = listed \ {n}
          /\ marked' = Owed(n, marked)
    /\ typed' = FALSE
    /\ UNCHANGED <<hiding, selection, anchor, selecting, press, dragged, clicked>>
    /\ CursorFollows

(* expectRemoval(): a delete or a move was asked for these names. *)
ExpectRemoval ==
    /\ Losses < MaxLosses
    /\ \E n \in listed :
          /\ listed' = listed \ {n}
          /\ selection' = selection \ {n}
          /\ marked' = Owed(n, marked \ {n})
    /\ typed' = FALSE
    /\ UNCHANGED <<hiding, anchor, selecting, press, dragged, clicked>>
    /\ CursorFollows

(* The removal failed, or the file was put back. *)
FileReturns ==
    /\ \E n \in Names \ listed : listed' = listed \cup {n}
    /\ UNCHANGED <<hiding, cursor, selection, anchor, selecting, typed, pointer>>

Next ==
    \/ \E n \in Visible \cup {NoName} :
          ShiftPress(n) \/ CtrlPress(n) \/ HandleClickPress(n)
    \/ HandleClickRelease
    \/ BeginPanelDrag
    \/ \E n \in Visible : ContextMenu(n)
    \/ \E step \in {-1, 1} : MoveCursor(step) \/ ExtendSelectionByRows(step)
    \/ KeyboardSearch
    \/ ClearTypeAhead
    \/ SetSelectionMode
    \/ SelectAll
    \/ Escape
    \/ SelectNames
    \/ SetFilterText
    \/ FileVanishes
    \/ ExpectRemoval
    \/ FileReturns

Spec == Init /\ [][Next]_vars

-----------------------------------------------------------------------------
(* A plain click on a row is about that row alone, whatever was selected     *)
(* before and whatever left the listing between press and release: the next  *)
(* operation acts on it.  A drag that starts on a selected row takes all     *)
(* that was selected and is still shown, one that starts on another row      *)
(* takes that row (unless that very row left the listing under the press:    *)
(* the drag then takes the row the cursor fell on).                          *)
PointerActsOnWhatItShows ==
    /\ (clicked \in Visible /\ cursor = clicked) => SelectedPaths = {clicked}
    /\ (dragged # {} /\ marked # {}) => dragged = marked

TypeOK ==
    /\ listed \subseteq Names /\ hiding \in BOOLEAN
    /\ cursor \in Names \cup {NoName}
    /\ selection \subseteq Names
    /\ anchor \in Names \cup {NoName}
    /\ selecting \in BOOLEAN /\ typed \in BOOLEAN
    /\ press \in Names \cup {NoName, NoPress}
    /\ marked \subseteq Names \/ marked = Lost
    /\ dragged \subseteq Names
    /\ clicked \in Names \cup {NoName}

(* Why: until the pointer moves on, the selection is what was marked when    *)
(* it went down on one of the selected, and else it is empty and the cursor  *)
(* on the row, which is there; and nothing is clicked or dragged meanwhile.  *)
PointerInv ==
    /\ (press \notin {NoPress, NoName} /\ marked # Lost) =>
          IF press \in marked THEN selection = marked
          ELSE selection = {} /\ press \in Visible /\ cursor = press
    /\ clicked # NoName => selection \subseteq {clicked}
    /\ (clicked # NoName \/ dragged # {}) => press = NoPress
    /\ (dragged # {} /\ marked # {}) => dragged = marked

=============================================================================
