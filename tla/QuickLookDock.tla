----------------------------- MODULE QuickLookDock -----------------------------
(***************************************************************************)
(* Where the preview is shown: the dock the controller keeps, the choice   *)
(* that outlives the session, full-screen mode and the way back, and the   *)
(* widgets of the main window that each mode shows, hides and puts back.   *)
(***************************************************************************)
EXTENDS Naturals

CONSTANT Configured    \* the values the dock setting takes

Docks == {"float", "right", "left", "bottom", "panel", "full"}
NoChoice == "none"

VARIABLES
    dock, before,  \* m_dock and m_dockBeforeFullscreen
    resolved,      \* the persisted choice has been looked up
    persisted,     \* it, in state.ini
    setting,       \* the dock setting as last read
    built,         \* there is a view
    opened,        \* m_open
    place,         \* the window's dock, and the widget the view is a child of
    visible,       \* the window's m_quickLookVisible
    shown,         \* the view is on screen
    panels         \* the panels are

own == <<dock, before, resolved, persisted, setting, built, opened>>
window == <<place, visible, shown, panels>>
vars == <<own, window>>

TypeOK ==
    /\ dock \in Docks /\ before \in Docks \ {"full"}
    /\ persisted \in (Docks \ {"full"}) \cup {NoChoice}
    /\ setting \in Configured
    /\ place \in Docks

Init ==
    /\ dock = "float" /\ before = "float" /\ resolved = FALSE
    /\ persisted = NoChoice
    /\ setting = (CHOOSE d \in Configured : TRUE)
    /\ built = FALSE /\ opened = FALSE
    /\ place = "float" /\ visible = FALSE /\ shown = FALSE /\ panels = TRUE

NextDock(d) ==
    CASE d = "float" -> "right" [] d = "right" -> "left" [] d = "left" -> "bottom"
      [] d = "bottom" -> "panel" [] OTHER -> "float"

InOverlay(d) == d \in {"float", "full"}

(* The choice of an earlier session wins over the setting, once. *)
Resolved == IF persisted = NoChoice THEN setting ELSE persisted
DockNow == IF resolved THEN dock ELSE Resolved
BeforeNow == IF resolved \/ Resolved = "full" THEN before ELSE Resolved

(* The view is taken out of one place and put into another; the panels     *)
(* come back, and only full-screen mode hides them.                        *)
WindowDock(d) ==
    /\ place' = d
    /\ shown' = visible
    /\ panels' = ~(d = "full" /\ visible)
    /\ visible' = visible

(* An overlay covers or uncovers the panels; a docked view never does. *)
WindowVisible(where, v, panelsSoFar) ==
    /\ visible' = v
    /\ shown' = v
    /\ panels' = IF InOverlay(where) THEN ~v \/ where # "full" ELSE panelsSoFar

(* A change of dock followed by a change of visibility. *)
DockThenShow(d, v) ==
    /\ place' = d
    /\ WindowVisible(d, v, ~(d = "full" /\ visible))

ApplySettings(d) ==
    /\ setting' = d
    /\ IF built
       THEN /\ resolved' = TRUE
            /\ dock' = DockNow /\ before' = BeforeNow
            /\ WindowDock(dock')
       ELSE UNCHANGED <<resolved, dock, before, window>>
    /\ UNCHANGED <<persisted, built, opened>>

(* The view is made and docked when it is first wanted. *)
Open ==
    /\ ~opened
    /\ opened' = TRUE /\ built' = TRUE
    /\ IF built
       THEN /\ UNCHANGED <<resolved, dock, before, place>>
            /\ WindowVisible(place, TRUE, panels)
       ELSE /\ resolved' = TRUE /\ dock' = DockNow /\ before' = BeforeNow
            /\ DockThenShow(dock', TRUE)
    /\ UNCHANGED <<persisted, setting>>

(* Hidden where it is, and only then moved back from full-screen mode. *)
Close ==
    /\ opened
    /\ opened' = FALSE
    /\ visible' = FALSE /\ shown' = FALSE
    /\ panels' = (IF InOverlay(place) \/ dock = "full" THEN TRUE ELSE panels)
    /\ dock' = IF dock = "full" THEN before ELSE dock
    /\ place' = IF dock = "full" THEN before ELSE place
    /\ UNCHANGED <<before, resolved, persisted, setting, built>>

CycleDock ==
    /\ resolved' = TRUE
    /\ dock' = NextDock(DockNow)
    /\ before' = dock'
    /\ persisted' = dock'
    /\ IF built THEN DockThenShow(dock', opened) ELSE UNCHANGED window
    /\ UNCHANGED <<setting, built, opened>>

ToggleFullscreen ==
    /\ resolved' = TRUE
    /\ dock' = IF DockNow = "full" THEN BeforeNow ELSE "full"
    /\ before' = IF DockNow = "full" THEN BeforeNow ELSE DockNow
    /\ built' = TRUE /\ opened' = TRUE
    /\ DockThenShow(dock', TRUE)
    /\ UNCHANGED <<persisted, setting>>

(* The program ends and starts again; only state.ini outlives it. *)
Restart ==
    /\ dock' = "float" /\ before' = "float" /\ resolved' = FALSE
    /\ built' = FALSE /\ opened' = FALSE
    /\ place' = "float" /\ visible' = FALSE /\ shown' = FALSE /\ panels' = TRUE
    /\ UNCHANGED <<persisted, setting>>

Next ==
    \/ \E d \in Configured : ApplySettings(d)
    \/ Open \/ Close \/ CycleDock \/ ToggleFullscreen \/ Restart

Spec == Init /\ [][Next]_vars

--------------------------------------------------------------------------------

(* The panels are out of sight only while a full-screen preview covers     *)
(* them: there is no order of docking, cycling, full-screen toggles,       *)
(* reloads and closing that leaves the window empty. And what the window   *)
(* shows is what the controller believes.                                  *)
PanelsComeBack ==
    /\ panels \/ (opened /\ dock = "full")
    /\ shown = (opened /\ built)
    /\ built => place = dock

(* Full-screen mode is left for the mode it was entered from: a choice     *)
(* that was made with the cycle key is what a closed preview opens with.   *)
ChoiceIsKept ==
    built /\ ~opened /\ persisted # NoChoice => dock = persisted
================================================================================
