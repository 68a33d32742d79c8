---------------------------- MODULE FolderMemory ----------------------------
(* What is remembered of single folders: the order and the view chosen there *)
(* (ui/FolderSortMemory.cpp, ui/FolderViewMemory.cpp), applied by the panels *)
(* (ui/FilePanel.cpp). Only departures from the configured default are kept, *)
(* and each panel has its own copy of that default. The two memories differ  *)
(* in one thing: a new default view reaches the panels that are open.        *)
EXTENDS Naturals

CONSTANTS Folders, Panels, Choices,
          MaxSettings,      \* bound on the changes of the configured default
          MaxLaunches       \* bound on the launches

VARIABLES
    kind,           \* "sort" or "view": which of the two memories this is
    configured,     \* the default in config.toml
    file,           \* what is saved: the folders that depart, and to what
    memory,         \* m_orders or m_modes
    loaded,         \* m_loaded
    folder,         \* the folder of each panel
    default,        \* m_defaultSort or m_defaultView of each panel
    shown,          \* what each panel applies
    chosen,         \* what the user chose last for each folder
    settings, launches

vars == <<kind, configured, file, memory, loaded, folder, default, shown, chosen,
          settings, launches>>

NoChoice == "default"

(* recall(), which loads the file the first time. *)
Known == IF loaded THEN memory ELSE file
Recall(d, otherwise) == IF Known[d] = NoChoice THEN otherwise ELSE Known[d]

Init ==
    /\ kind \in {"sort", "view"}
    /\ configured \in Choices
    /\ file = [d \in Folders |-> NoChoice]
    /\ memory = file
    /\ loaded = FALSE
    /\ folder \in [Panels -> Folders]
    /\ default = [p \in Panels |-> configured]
    /\ shown = default
    /\ chosen = file
    /\ settings = 0 /\ launches = 1

(* setPathInternal(): the new folder's own, or the panel's default. *)
Enter(p, d) ==
    /\ d # folder[p]
    /\ folder' = [folder EXCEPT ![p] = d]
    /\ shown' = [shown EXCEPT ![p] = Recall(d, default[p])]
    /\ memory' = Known /\ loaded' = TRUE
    /\ UNCHANGED <<kind, configured, file, default, chosen, settings, launches>>

(* save(): the whole memory, replaced in one step. *)
Save == file' = memory'

(* remember() and forget() write only when something changes. *)
Remember(d, v) ==
    /\ memory' = [Known EXCEPT ![d] = v]
    /\ loaded' = TRUE
    /\ IF Known[d] = v THEN UNCHANGED file ELSE Save

Forget(d) ==
    /\ memory' = [Known EXCEPT ![d] = NoChoice]
    /\ loaded' = TRUE
    /\ IF Known[d] = NoChoice THEN UNCHANGED file ELSE Save

(* setViewMode() *)
SetViewMode(p, v) ==
    /\ kind = "view"
    /\ shown' = [shown EXCEPT ![p] = v]
    /\ IF v = default[p] THEN Forget(folder[p]) ELSE Remember(folder[p], v)
    /\ chosen' = [chosen EXCEPT ![folder[p]] = IF v = configured THEN NoChoice ELSE v]
    /\ UNCHANGED <<kind, configured, folder, default, settings, launches>>

(* chooseSortOrder() *)
ChooseSortOrder(p, v) ==
    /\ kind = "sort"
    /\ shown' = [shown EXCEPT ![p] = v]
    /\ IF v = default[p] THEN Forget(folder[p]) ELSE Remember(folder[p], v)
    /\ chosen' = [chosen EXCEPT ![folder[p]] = IF v = configured THEN NoChoice ELSE v]
    /\ UNCHANGED <<kind, configured, folder, default, settings, launches>>

(* setDefaultViewMode(), in every panel. *)
SetDefaultViewMode(v) ==
    /\ default' = [p \in Panels |-> v]
    /\ shown' = [p \in Panels |-> IF Known[folder[p]] = NoChoice THEN v ELSE shown[p]]

(* reloadConfiguration(): "Default sort is not re-applied on reload; the     *)
(* default view is".                                                         *)
ReloadConfiguration(v) ==
    /\ v # configured /\ settings < MaxSettings
    /\ configured' = v
    /\ settings' = settings + 1
    /\ IF kind = "view" THEN SetDefaultViewMode(v) ELSE UNCHANGED <<default, shown>>
    /\ memory' = Known /\ loaded' = TRUE
    /\ UNCHANGED <<kind, file, folder, chosen, launches>>

(* A panel is closed and another opened: configurePanel() gives it the       *)
(* default of now (setDefaultSortKey(), setDefaultViewMode()).               *)
ConfigurePanel(p, d) ==
    /\ folder' = [folder EXCEPT ![p] = d]
    /\ default' = [default EXCEPT ![p] = configured]
    /\ shown' = [shown EXCEPT ![p] = Recall(d, configured)]
    /\ memory' = Known /\ loaded' = TRUE
    /\ UNCHANGED <<kind, configured, file, chosen, settings, launches>>

(* A launch: every panel is new and nothing is loaded yet. *)
Launch ==
    /\ launches < MaxLaunches
    /\ launches' = launches + 1
    /\ folder' \in [Panels -> Folders]
    /\ default' = [p \in Panels |-> configured]
    /\ shown' = [p \in Panels |-> IF file[folder'[p]] = NoChoice THEN configured
                                  ELSE file[folder'[p]]]
    /\ memory' = file /\ loaded' = TRUE
    /\ UNCHANGED <<kind, configured, file, chosen, settings>>

Next ==
    \/ \E p \in Panels, d \in Folders : Enter(p, d) \/ ConfigurePanel(p, d)
    \/ \E p \in Panels, v \in Choices : SetViewMode(p, v) \/ ChooseSortOrder(p, v)
    \/ \E v \in Choices : ReloadConfiguration(v)
    \/ Launch

Spec == Init /\ [][Next]_vars

-----------------------------------------------------------------------------
(* A folder's view comes back whenever a panel enters it: the one chosen     *)
(* last, in whichever panel, launch and under whichever default, or the      *)
(* default of now. "Choosing one records it here, and entering a directory   *)
(* restores it, or the configured default when nothing was chosen"           *)
(* (FolderSortMemory.h).                                                     *)
ViewsComeBack ==
    kind = "view" =>
        \A p \in Panels : folder'[p] # folder[p] =>
            shown'[p] = IF chosen'[folder'[p]] = NoChoice THEN configured'
                        ELSE chosen'[folder'[p]]
=============================================================================
