------------------------------ MODULE ConfigReload ------------------------------
(***************************************************************************)
(* The configuration files and what the running program made of them: the  *)
(* watches on the files and their directory, the notifications still on    *)
(* the way, the debounce, the reload, the windows and keys that write the  *)
(* files, and the theme that follows the desktop or the user's choice.     *)
(***************************************************************************)
EXTENDS Integers, SequencesExt

CONSTANTS
    MaxEdits,      \* bound: how often the files change
    MaxFlips,      \* bound: how often the desktop's appearance changes
    Texts          \* what an editor may leave in theme.toml: [name, follow, accent]

Files == {"config.toml", "hotkeys.toml", "theme.toml"}
Looks == {"light", "dark"}
Other(look) == IF look = "light" THEN "dark" ELSE "light"
Directory == "the directory"
Themes == "themes"
Absent == 0

(* A theme.toml: the theme it names or "", whether it follows the desktop,  *)
(* and the one colour it sets, "" for none.                                 *)
Text(name, follow, accent) == [name |-> name, follow |-> follow, accent |-> accent]
Torn == Text("not toml", FALSE, "")
Empty == Text("", FALSE, "")

(* A theme: where it comes from, its look and its accent.                   *)
Theme(from, look) == [from |-> from, look |-> look, accent |-> "its own"]
BuiltIn == Theme("built in", "dark")

VARIABLES
    folder,        \* the configuration directory exists
    disk,          \* per file, its edit, or Absent
    text,          \* what theme.toml says, when there is one
    mine,          \* themes/panefile-light.toml of the user, or "no folder" for it
    edits, flips,
    watched,       \* per file: "none", "live", or "dead" once its inode is gone
    watching,      \* the watch on the directory is there,
    within,        \* and on its themes
    notes,         \* notifications on the way
    pending, debounce,
    inUse,         \* per file, the edit the program runs with
    shown,         \* the theme on screen
    desktop,       \* the desktop's appearance
    follows        \* the program listens to its changes

files == <<folder, disk, text, mine, edits>>
watches == <<watched, watching, within, notes>>
vars == <<files, flips, watches, pending, debounce, inUse, shown, desktop, follows>>

TypeOK ==
    /\ disk \in [Files -> 0 .. MaxEdits] /\ inUse \in [Files -> 0 .. MaxEdits]
    /\ watched \in [Files -> {"none", "live", "dead"}]
    /\ pending \subseteq Files \cup {Themes}
    /\ mine \in {"no folder", "none", "whole", "torn"}
    /\ shown.look \in Looks /\ desktop \in Looks

Exists(f) == disk[f] # Absent

-----------------------------------------------------------------------------
(* Reading a theme: what cannot be read leaves the colour, or the theme,     *)
(* that was there before, or a built-in one.                                 *)
ReadColour(said, theme) ==
    IF said.accent \in {"", "not a colour"} THEN theme ELSE [theme EXCEPT !.accent = said.accent]

ApplyThemeTable(said, theme) == ReadColour(said, theme)

Loaded(theme, issues) == [theme |-> theme, issues |-> issues]

ParseTheme(how) ==
    IF how = "torn" THEN Loaded(BuiltIn, TRUE) ELSE Loaded(Theme("the user's", "light"), FALSE)

(* A theme of the user's shadows the one shipped under its name. *)
LoadThemeByName(name) ==
    CASE name = "system" -> Loaded(Theme("the palette", desktop), FALSE)
      [] name = "light" /\ mine \in {"whole", "torn"} -> ParseTheme(mine)
      [] name \in Looks /\ ~(name = "light" /\ mine \in {"whole", "torn"}) ->
             Loaded(Theme("shipped", name), FALSE)
      [] OTHER -> Loaded(BuiltIn, TRUE)

DefaultThemeForDesktop(look) ==
    IF LoadThemeByName(look).issues THEN Theme("the palette", look) ELSE LoadThemeByName(look).theme

LoadActiveTheme ==
    CASE ~Exists("theme.toml") -> DefaultThemeForDesktop(desktop)
      [] Exists("theme.toml") /\ text = Torn -> BuiltIn
      [] Exists("theme.toml") /\ text # Torn ->
             ApplyThemeTable(text, CASE text.follow -> DefaultThemeForDesktop(desktop)
                                     [] ~text.follow /\ text.name = "" -> BuiltIn
                                     [] ~text.follow /\ text.name # "" ->
                                            LoadThemeByName(text.name).theme)

-----------------------------------------------------------------------------
(* A fresh installation: no directory yet, or an empty one. *)
Init ==
    /\ folder \in BOOLEAN
    /\ disk = [f \in Files |-> Absent] /\ text = Empty /\ mine = "no folder"
    /\ edits = 0 /\ flips = 0
    /\ watched = [f \in Files |-> "none"] /\ watching = folder /\ within = FALSE
    /\ notes = <<>> /\ pending = {} /\ debounce = FALSE
    /\ inUse = disk
    /\ desktop = "light" /\ shown = Theme("shipped", "light") /\ follows = TRUE

(* What the kernel reports of a change to f: of its contents, or first of  *)
(* the name that came, went or was taken over and then of the inode that   *)
(* had it.                                                                 *)
NotesOf(f, inPlace) ==
    (IF watching /\ ~inPlace THEN <<[of |-> Directory, gone |-> FALSE]>> ELSE <<>>)
    \o (IF watched[f] = "live" THEN <<[of |-> f, gone |-> ~inPlace]>> ELSE <<>>)

Changes(f, content, inPlace) ==
    /\ edits < MaxEdits
    /\ edits' = edits + 1
    /\ folder' = TRUE
    /\ disk' = [disk EXCEPT ![f] = content]
    /\ notes' = notes \o NotesOf(f, inPlace)
    /\ watched' = [watched EXCEPT ![f] = IF @ = "live" /\ ~inPlace THEN "dead" ELSE @]
    /\ UNCHANGED <<mine, flips, watching, within, pending, debounce, inUse, desktop, follows>>

Says(f) == IF f = "theme.toml" THEN Texts ELSE {text}

(* QSaveFile, and every editor that saves by rename. *)
Replace(f) ==
    /\ Changes(f, edits + 1, FALSE)
    /\ text' \in Says(f)
    /\ UNCHANGED shown

WriteInPlace(f) ==
    /\ Exists(f)
    /\ Changes(f, edits + 1, TRUE)
    /\ text' \in Says(f)
    /\ UNCHANGED shown

Delete(f) ==
    /\ Exists(f)
    /\ Changes(f, Absent, FALSE)
    /\ text' = IF f = "theme.toml" THEN Empty ELSE text
    /\ UNCHANGED shown

(* The user saves a theme of the same name as one that is shipped, or takes  *)
(* it away: the kernel tells of the folder that came, or of what is in it.   *)
SaveTheme(how) ==
    /\ edits < MaxEdits
    /\ edits' = edits + 1
    /\ folder' = TRUE
    /\ mine' = how
    /\ notes' = notes \o (IF mine = "no folder" /\ watching THEN <<[of |-> Directory, gone |-> FALSE]>>
                          ELSE IF within THEN <<[of |-> Themes, gone |-> FALSE]>> ELSE <<>>)
    /\ UNCHANGED <<disk, text, flips, watched, watching, within, pending, debounce, inUse, shown,
                   desktop, follows>>

(* A value written over the others there are, which no value mends.          *)
Now == IF Exists("theme.toml") THEN text ELSE Empty
WriteTheme(written) == text' = IF Now = Torn THEN Torn ELSE written

(* A theme picked in the settings window is shown before it is written, and  *)
(* following is given up if the box says that it is on.                      *)
PickTheme(name) ==
    /\ shown' = LoadThemeByName(name).theme
    /\ \E follow \in {FALSE, Now.follow} : WriteTheme(Text(name, follow, Now.accent))
    /\ Changes("theme.toml", edits + 1, FALSE)

FollowSystem(on) ==
    /\ shown' = IF on THEN DefaultThemeForDesktop(desktop) ELSE shown
    /\ WriteTheme([Now EXCEPT !.follow = on])
    /\ Changes("theme.toml", edits + 1, FALSE)

(* Light to dark and back, written over the file there was. *)
ToggleLightDark ==
    LET loaded == LoadThemeByName(Other(shown.look))
    IN  /\ ~loaded.issues
        /\ shown' = loaded.theme
        /\ text' = Text(Other(shown.look), FALSE, "")
        /\ Changes("theme.toml", edits + 1, Exists("theme.toml"))

DesktopFlips ==
    /\ flips < MaxFlips
    /\ flips' = flips + 1
    /\ desktop' = Other(desktop)
    /\ shown' = IF follows THEN DefaultThemeForDesktop(desktop') ELSE shown
    /\ UNCHANGED <<files, watches, pending, debounce, inUse, follows>>

(* The watcher drops a file whose inode went before it says so. *)
StillWatched(note) ==
    [f \in Files |-> IF f = note.of /\ note.gone THEN "none" ELSE watched[f]]

(* The themes are a folder and never among the files watched, so that every *)
(* change of the directory counts as one of the themes.                     *)
FindsThemes(note) == note.of = Directory /\ mine # "no folder"

(* A watch that was lost stays lost. *)
OnPathChangedSlip ==
    /\ notes # <<>>
    /\ notes' = Tail(notes)
    /\ LET note == Head(notes)
           known == StillWatched(note)
           found == { f \in Files : note.of = Directory /\ Exists(f) /\ known[f] = "none" }
       IN IF note.of \in Files /\ watched[note.of] = "none"
          THEN UNCHANGED <<watched, within, pending, debounce>>
          ELSE /\ watched' = [f \in Files |-> IF f \in found THEN "live" ELSE known[f]]
               /\ within' = (within \/ FindsThemes(note))
               /\ pending' = pending \cup ({note.of} \ {Directory}) \cup found
                              \cup (IF FindsThemes(note) THEN {Themes} ELSE {})
               /\ debounce' = TRUE
    /\ UNCHANGED <<files, flips, watching, inUse, shown, desktop, follows>>

(* A file under that name is watched again; a change of the directory      *)
(* finds the files that have come.                                         *)
OnPathChanged ==
    /\ notes # <<>>
    /\ notes' = Tail(notes)
    /\ LET note == Head(notes)
           known == StillWatched(note)
           found == { f \in Files : note.of \in {f, Directory} /\ Exists(f) /\ known[f] = "none" }
       IN IF note.of \in Files /\ watched[note.of] = "none"
          THEN UNCHANGED <<watched, within, pending, debounce>>
          ELSE /\ watched' = [f \in Files |-> IF f \in found THEN "live" ELSE known[f]]
               /\ within' = (within \/ FindsThemes(note))
               /\ pending' = pending \cup ({note.of} \ {Directory}) \cup found
                              \cup (IF FindsThemes(note) THEN {Themes} ELSE {})
               /\ debounce' = TRUE
    /\ UNCHANGED <<files, flips, watching, inUse, shown, desktop, follows>>

(* The theme in force, and whether the desktop is listened to from now on. *)
LoadConfiguration ==
    /\ shown' = LoadActiveTheme
    /\ follows' = (follows \/ ~Exists("theme.toml"))

(* One reload for what gathered: the settings and the theme together. *)
Flush ==
    /\ debounce
    /\ debounce' = FALSE
    /\ pending' = {}
    /\ LET settings == {"config.toml", "theme.toml"}
           again == (IF pending \cap (settings \cup {Themes}) # {} THEN settings ELSE {})
                    \cup (pending \cap {"hotkeys.toml"})
       IN /\ inUse' = [f \in Files |-> IF f \in again THEN disk[f] ELSE inUse[f]]
          /\ IF again \cap settings # {} THEN LoadConfiguration ELSE UNCHANGED <<shown, follows>>
    /\ UNCHANGED <<files, flips, watches, desktop>>

Next ==
    \/ \E f \in Files : Replace(f) \/ WriteInPlace(f) \/ Delete(f)
    \/ \E how \in {"none", "whole", "torn"} : SaveTheme(how)
    \/ \E name \in Looks \cup {"system"} : PickTheme(name)
    \/ \E on \in BOOLEAN : FollowSystem(on)
    \/ ToggleLightDark \/ DesktopFlips
    \/ OnPathChanged \/ Flush

Spec == Init /\ [][Next]_vars

--------------------------------------------------------------------------------

Settled == notes = <<>> /\ ~debounce

(* However the files are saved, replaced, removed and made again while the *)
(* watches on them come and go, the program ends up running with every     *)
(* file there is as it is on disk, as long as there was a directory to     *)
(* watch when it started.                                                  *)
EditsAreRead ==
    watching /\ Settled => \A f \in Files : Exists(f) => inUse[f] = disk[f]

(* Until the desktop changes its look, the theme on screen is the one that   *)
(* theme.toml and the user's themes give, whether it was picked, toggled or  *)
(* edited, and however many of these came together.                          *)
ThemeIsTheFiles ==
    watching /\ Settled /\ flips = 0 /\ Exists("theme.toml") => shown = LoadActiveTheme
================================================================================
