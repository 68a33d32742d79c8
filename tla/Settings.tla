------------------------------- MODULE Settings -------------------------------
(* The settings window (ui/modals/SettingsWindow.cpp). Its rows are views of  *)
(* config.toml and theme.toml, which stay the user's: a control writes the    *)
(* one value it is for, and showing the window writes nothing. The row of the *)
(* command palette's shortcut writes hotkeys.toml; the keymap it looks for    *)
(* conflicts in is rebuilt only when the change of the file is noticed.       *)
(* How a chord reaches an action through a keymap is in KeyDispatch, how one  *)
(* value is written in TomlEdit, how changes are noticed in ConfigReload.     *)
EXTENDS Integers, Sequences, Functions, TLC

CONSTANTS
    Ids,           \* the actions' ids, in the order of their names
    Chords,
    Defaults,      \* the default keymap: [Layers \X Chords -> action or "none"]
    Choices,       \* of each row of the window
    Reads,         \* what the texts a file may give a row are read as
    Fallbacks,     \* the row's value in the template
    Nonsense,      \* a text no row accepts
    MaxEdits,      \* bound on the edits made with an editor
    MaxChanges     \* bound on what is done with the window

Palette == "open_panefile_prompt"
FollowSystem == "follow_system"
ThemeName == "name"
LayerOrder == <<"global", "normal", "selection">>
Layers == {"global", "normal", "selection"}
Actions == {Ids[i] : i \in DOMAIN Ids}
Rows == DOMAIN Choices

VARIABLES
    hotkeys,       \* hotkeys.toml: the chords of each <<layer, action>> it mentions
    keymap,        \* m_keymap: the action of each <<layer, chord>>
    rows,          \* config.toml and theme.toml: the values they give
    open,          \* the window is shown
    shown,         \* what its rows show
    recording,     \* the button waits for a chord
    pending,       \* m_controls->pendingChord
    shortcut,      \* the chords the button shows
    saved,         \* history: the chord recorded last, until it is reset
    outside,       \* history: an edit with an editor is not in the keymap yet
    raced,         \* history: saved met such an edit, or one came after it
    edits, changes

files == <<hotkeys, rows>>
window == <<open, shown, recording, pending, shortcut>>
history == <<saved, outside, raced>>

vars == <<files, keymap, window, history, edits, changes>>

(* applyHotkeys() over the defaults: a mentioned action has what the file     *)
(* gives it, a chord goes to the first that claims it, and what nobody claims *)
(* stays where the default has it.                                            *)
ApplyHotkeys(file) ==
    [lc \in Layers \X Chords |->
        LET claims == { i \in DOMAIN Ids : /\ <<lc[1], Ids[i]>> \in DOMAIN file
                                           /\ lc[2] \in file[<<lc[1], Ids[i]>>] }
        IN  IF claims # {} THEN Ids[CHOOSE i \in claims : \A j \in claims : i <= j]
            ELSE IF <<lc[1], Defaults[lc]>> \in DOMAIN file THEN "none"
            ELSE Defaults[lc]]

Current == keymap = ApplyHotkeys(hotkeys)

(* bindingsFor() *)
BindingsFor(map, l, x) == { c \in Chords : map[<<l, c>>] = x }

(* Reader: a number out of range counts as the nearest one that is not, and a *)
(* text that is no value of the row as if it were not there.                  *)
ReadRow(r, text) == IF text \in DOMAIN Reads[r] THEN Reads[r][text] ELSE Fallbacks[r]

(* What the rows show of the files; the desktop is followed while there is no *)
(* theme.toml.                                                                *)
Shows(given) ==
    [r \in Rows |->
        IF r \in DOMAIN given THEN ReadRow(r, given[r])
        ELSE IF r = FollowSystem THEN (IF ThemeName \in DOMAIN given THEN "false" ELSE "true")
        ELSE Fallbacks[r]]

Init ==
    /\ hotkeys = <<>>
    /\ keymap = ApplyHotkeys(hotkeys)
    /\ rows = <<>>
    /\ open = FALSE
    /\ shown = Shows(rows)
    /\ recording = FALSE /\ pending = "none"
    /\ shortcut = {}
    /\ saved = "none" /\ outside = FALSE /\ raced = FALSE
    /\ edits = 0 /\ changes = 0

Use == open /\ changes < MaxChanges /\ changes' = changes + 1

-----------------------------------------------------------------------------
(* loadValues(): the controls do not write while they are filled. *)
LoadValues(given) ==
    /\ shown' = Shows(given)
    /\ UNCHANGED rows

(* present() *)
Present ==
    /\ ~open
    /\ open' = TRUE
    /\ LoadValues(rows)
    /\ shortcut' = BindingsFor(keymap, "global", Palette)
    /\ pending' = "none"
    /\ UNCHANGED <<hotkeys, keymap, recording, history, edits, changes>>

Close ==
    /\ open
    /\ open' = FALSE
    /\ recording' = FALSE
    /\ UNCHANGED <<files, keymap, shown, pending, shortcut, history, edits, changes>>

-----------------------------------------------------------------------------
(* writeConfig(), writeTheme(): each write may fail. *)
WriteRows(new) == \E kept \in SUBSET DOMAIN new : rows' = Restrict(new, kept) @@ rows

(* The theme list: choosing a theme also turns following the desktop off, by  *)
(* its check box, which writes for itself.                                    *)
ChooseTheme(name) ==
    /\ shown' = [shown EXCEPT ![ThemeName] = name, ![FollowSystem] = "false"]
    /\ WriteRows(IF shown[FollowSystem] = "true"
                   THEN (ThemeName :> name) @@ (FollowSystem :> "false")
                   ELSE ThemeName :> name)

(* Every other control of the Appearance, General and Quick Look tabs: one    *)
(* value each.                                                                *)
SetValue(r, v) ==
    /\ shown' = [shown EXCEPT ![r] = v]
    /\ WriteRows(r :> v)

ChangeRow ==
    /\ Use
    /\ \E r \in Rows : \E v \in Choices[r] \ {shown[r]} :
          IF r = ThemeName THEN ChooseTheme(v) ELSE SetValue(r, v)
    /\ UNCHANGED <<hotkeys, keymap, open, recording, pending, shortcut, history, edits>>

-----------------------------------------------------------------------------
(* A click on the button; Escape or the loss of the focus ends it. *)
StartRecording ==
    /\ open /\ ~recording
    /\ recording' = TRUE
    /\ UNCHANGED <<files, keymap, open, shown, pending, shortcut, history, edits, changes>>

StopRecording ==
    /\ recording
    /\ recording' = FALSE
    /\ UNCHANGED <<files, keymap, open, shown, pending, shortcut, history, edits, changes>>

(* The layers in which another action has the chord. *)
Conflicts(c) == { l \in Layers : keymap[<<l, c>>] \notin {"none", Palette} }

(* What is written back for those who held the chord. *)
Remaining(c, ls) ==
    [s \in { <<l, keymap[<<l, c>>]>> : l \in ls } |-> BindingsFor(keymap, s[1], s[2]) \ {c}]

(* savePaletteShortcut(): the holders' other chords are written back, layer   *)
(* by layer, then the palette's; a write that fails ends it there.            *)
SavePaletteShortcut(c, held) ==
    /\ pending' = "none"
    /\ \/ /\ hotkeys' = (<<"global", Palette>> :> {c}) @@ Remaining(c, held) @@ hotkeys
          /\ shortcut' = {c}
          /\ saved' = c /\ raced' = outside
       \/ \E n \in 0 .. Len(LayerOrder) :
             /\ hotkeys' = Remaining(c, held \cap {LayerOrder[i] : i \in 1 .. n}) @@ hotkeys
             /\ UNCHANGED <<shortcut, saved, raced>>

(* recordPaletteShortcut() *)
RecordPaletteShortcut(c) ==
    IF Conflicts(c) # {}
      THEN pending' = c /\ UNCHANGED <<hotkeys, shortcut, saved, raced>>
      ELSE SavePaletteShortcut(c, {})

(* A chord with a modifier is pressed while the button records. *)
PressChord ==
    /\ Use
    /\ recording
    /\ recording' = FALSE
    /\ \E c \in Chords : RecordPaletteShortcut(c)
    /\ UNCHANGED <<keymap, rows, open, shown, outside, edits>>

(* Replace *)
Replace ==
    /\ Use
    /\ pending # "none"
    /\ SavePaletteShortcut(pending, Conflicts(pending))
    /\ UNCHANGED <<keymap, rows, open, shown, recording, outside, edits>>

Cancel ==
    /\ Use
    /\ pending # "none"
    /\ pending' = "none"
    /\ UNCHANGED <<files, keymap, open, shown, recording, shortcut, history, edits>>

(* resetPaletteShortcut(): the line goes, and the default is shown. *)
Reset ==
    /\ Use
    /\ pending' = "none"
    /\ \/ /\ hotkeys' = Restrict(hotkeys, DOMAIN hotkeys \ {<<"global", Palette>>})
          /\ shortcut' = BindingsFor(Defaults, "global", Palette)
          /\ saved' = "none"
       \/ UNCHANGED <<hotkeys, shortcut, saved>>
    /\ UNCHANGED <<keymap, rows, open, shown, recording, outside, raced, edits>>

-----------------------------------------------------------------------------
(* No chord stands twice in a layer of the file. *)
Clean(file) ==
    \A s, t \in DOMAIN file : s # t /\ s[1] = t[1] => file[s] \cap file[t] = {}

(* No default chord of a panel's mode is given to another action of it. *)
KeepsDefaults(file) ==
    \A s \in DOMAIN file : s[1] # "global" =>
        \A c \in file[s] : Defaults[<<s[1], c>>] \in {"none", s[2]}

(* A person edits a file. *)
EditHotkeys ==
    /\ edits < MaxEdits /\ edits' = edits + 1
    /\ \E s \in Layers \X Actions, cs \in SUBSET Chords : hotkeys' = (s :> cs) @@ hotkeys
    /\ Clean(hotkeys')
    /\ outside' = TRUE /\ raced' = TRUE
    /\ UNCHANGED <<rows, keymap, window, saved, changes>>

EditRows ==
    /\ edits < MaxEdits /\ edits' = edits + 1
    /\ \E r \in Rows : \E t \in DOMAIN Reads[r] \cup {Nonsense} : rows' = (r :> t) @@ rows
    /\ UNCHANGED <<hotkeys, keymap, window, history, changes>>

(* The change of hotkeys.toml has been noticed: the defaults, and the file    *)
(* over them.                                                                 *)
Reload ==
    /\ keymap' = ApplyHotkeys(hotkeys)
    /\ keymap' # keymap \/ outside
    /\ outside' = FALSE
    /\ UNCHANGED <<files, window, saved, raced, edits, changes>>

Work ==
    \/ Present
    \/ Close
    \/ ChangeRow
    \/ StartRecording
    \/ StopRecording
    \/ PressChord
    \/ Replace
    \/ Cancel
    \/ Reset
    \/ Reload

Next ==
    \/ Work
    \/ EditHotkeys /\ KeepsDefaults(hotkeys')
    \/ EditRows

Spec == Init /\ [][Next]_vars

-----------------------------------------------------------------------------
(* A chord the window has taken for the palette reaches it in every layer     *)
(* that is live with the global one as soon as the file has been read again,  *)
(* though the conflicts were looked for in a keymap that may have been old;   *)
(* only an edit made elsewhere at the same time can undo that.                *)
PaletteAnswers ==
    saved # "none" /\ ~raced /\ Current =>
        /\ keymap[<<"global", saved>>] = Palette
        /\ \A l \in Layers : keymap[<<l, saved>>] \in {Palette, "none"}

(* What the window writes costs the others nothing but the chord taken from   *)
(* them, whichever writes fail; of the rows it writes those the user has      *)
(* turned and no others, and none for being shown.                            *)
WritesAreTheUsers ==
    edits' = edits =>
        /\ \A r \in DOMAIN rows' :
              \/ r \in DOMAIN rows /\ rows'[r] = rows[r]
              \/ open /\ shown'[r] = rows'[r] /\ shown[r] # shown'[r]
        /\ ~outside =>
              \E c \in Chords : \A l \in Layers, x \in Actions \ {Palette} :
                 BindingsFor(ApplyHotkeys(hotkeys), l, x)
                     \subseteq BindingsFor(ApplyHotkeys(hotkeys'), l, x) \cup {c}
=============================================================================
