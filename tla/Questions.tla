----------------------------- MODULE Questions ------------------------------
(***************************************************************************)
(* The questions the window asks (ui/modals), the keys that reach them or  *)
(* the keymap (Application::notify), the palette, a drop's menu, and what  *)
(* the answers do to the files (app/FileOperations.cpp).                   *)
(***************************************************************************)
EXTENDS Naturals, FiniteSets, SequencesExt

CONSTANTS
    Panels, Folders, Names,
    Inside,      \* [Folders -> SUBSET Folders]: the folders that are rows of one
    Volume,      \* [Folders -> a filesystem]
    Configs,     \* what the settings may be: [trash, delete, freed : BOOLEAN]
    Begun,       \* what Escape may find to back out of, a subset of Chain's
    MaxShown,    \* bound: how many questions stand on each other
    MaxFiles     \* bound: how many files a copy or a new file may make

Modals == {"confirm", "name", "shell", "palette"}
Items == Folders \X Names
None == [verb |-> "none"]

VARIABLES
    settings,    \* confirm_trash, confirm_delete, and whether hotkeys.toml takes
                 \* Return and Escape from the keymap
    path,        \* [Panels -> Folders]
    focused,     \* the focused panel
    screen,      \* the modals that are shown, the topmost last, and what has the keyboard
    confirm,     \* the ConfirmModal: the question it shows, and m_onConfirm
    name,        \* the InputModal: the question it shows, and who is connected to submitted()
    drop,        \* an Alt-drop that asks, or None
    disk,        \* the files there are
    backing,     \* what there is to back out of
    agreed,      \* history: what was last said yes to, and how often in a row
    careless,    \* history: something was destroyed without two such answers
    strayed      \* history: a drop went elsewhere than it was let go over

content == <<confirm, name>>
history == <<agreed, careless, strayed>>
vars == <<settings, path, focused, screen, content, drop, disk, backing, history>>

Chain == <<"help", "quick look", "filter", "selection mode", "selection", "copy list">>

Question(items, step) == [verb |-> step, items |-> items]
Prompt(verb, item) == [verb |-> verb, item |-> item]
Nobody == [items |-> {}, yes |-> 0]

Init ==
    /\ settings \in Configs
    /\ path \in [Panels -> Folders]
    /\ focused \in Panels
    /\ screen = [shown |-> <<>>, keyboard |-> "panel"]
    /\ confirm = [says |-> None, does |-> None]
    /\ name = [says |-> None, handlers |-> {}]
    /\ drop = None
    /\ disk \in {{i} : i \in Items}
    /\ backing = Begun
    /\ agreed = Nobody
    /\ careless = FALSE
    /\ strayed = FALSE

Asked == {None} \cup [verb : {"trash", "first", "second"}, items : SUBSET Items]
Prompts == [verb : {"create", "rename"}, item : Items]
Drops == {None} \cup [verb : {"ask"}, items : SUBSET Items, to : Folders, aim : Folders]
Screens == [shown : Seq(Modals), keyboard : Modals \cup {"panel", "window"}]

TypeOK ==
    /\ settings \in Configs /\ path \in [Panels -> Folders] /\ focused \in Panels
    /\ screen \in Screens
    /\ confirm \in [says : Asked, does : Asked]
    /\ name \in [says : Prompts \cup {None}, handlers : SUBSET Prompts]
    /\ drop \in Drops
    /\ disk \subseteq Items /\ backing \subseteq Begun
    /\ agreed \in [items : SUBSET Items, yes : Nat]
    /\ careless \in BOOLEAN /\ strayed \in BOOLEAN

(* Modal::showModal() and dismiss(), from a screen s: the keyboard goes to the *)
(* modal, and then to the window, whatever had it before.                      *)
PlaceOf(m, s) == CHOOSE i \in DOMAIN s.shown : s.shown[i] = m
Without(m, s) ==
    IF \E i \in DOMAIN s.shown : s.shown[i] = m THEN RemoveAt(s.shown, PlaceOf(m, s)) ELSE s.shown
ShowModal(m, s) == [shown |-> Append(Without(m, s), m), keyboard |-> m]
Dismissed(m, s) == [shown |-> Without(m, s), keyboard |-> "window"]

IsShown(m) == \E i \in DOMAIN screen.shown : screen.shown[i] = m
OnTop(m) == screen.shown # <<>> /\ screen.shown[Len(screen.shown)] = m
Room(m, s) == Len(Without(m, s)) < MaxShown

(* isTextInput(): a confirmation has buttons, the others a line to type in. *)
Typing == screen.keyboard \in {"name", "shell", "palette"}
MenuIsUp == drop # None

-----------------------------------------------------------------------------
(* What the actions of the registry do, with the screen s they find. *)

StartDelete(items, permanent, asked) ==
    /\ disk' = disk \ items
    /\ backing' = backing \ {"selection"}
    /\ careless' = (careless \/ (permanent /\ (asked.items # items \/ asked.yes < 2)))

Ask(items, step, s) ==
    /\ Room("confirm", s)
    /\ confirm' = [says |-> Question(items, step), does |-> Question(items, step)]
    /\ screen' = ShowModal("confirm", s)

(* deleteSelection(): confirm_delete is read, and changes nothing. *)
DeleteSelection(permanent, s) ==
    \E items \in SUBSET {i \in disk : i[1] = path[focused]} \ {{}} :
        /\ IF ~settings.trash /\ ~permanent
           THEN /\ StartDelete(items, FALSE, Nobody)
                /\ screen' = s
                /\ UNCHANGED confirm
           ELSE /\ Ask(items, IF permanent THEN "first" ELSE "trash", s)
                /\ UNCHANGED <<disk, backing, careless>>
        /\ agreed' = IF permanent THEN Nobody ELSE agreed
        /\ UNCHANGED <<settings, path, focused, name, drop, strayed>>

(* The modal is kept for the next question, and so is who listens to it. *)
ListenSlip(prompt) == name' = [says |-> prompt, handlers |-> name.handlers \cup {prompt}]
Listen(prompt) == name' = [says |-> prompt, handlers |-> {prompt}]

AskForName(prompt, s) ==
    /\ Room("name", s)
    /\ Listen(prompt)
    /\ screen' = ShowModal("name", s)
    /\ UNCHANGED <<settings, path, focused, confirm, drop, disk, backing, history>>

CreateItem(s) == AskForName(Prompt("create", <<path[focused], "new">>), s)

RenameCursorItem(s) ==
    \E item \in disk : item[1] = path[focused] /\ AskForName(Prompt("rename", item), s)

Show(m, s) ==
    /\ Room(m, s)
    /\ screen' = ShowModal(m, s)
    /\ UNCHANGED <<settings, path, focused, content, drop, disk, backing, history>>

FocusPanel(p) ==
    /\ p # focused
    /\ focused' = p
    /\ screen' = [screen EXCEPT !.keyboard = "panel"]
    /\ UNCHANGED <<settings, path, content, drop, disk, backing, history>>

(* A folder row is entered; a file is opened by another program. *)
ActivateCursorItem ==
    /\ \E f \in Inside[path[focused]] : path' = [path EXCEPT ![focused] = f]
    /\ UNCHANGED <<settings, focused, screen, content, drop, disk, backing, history>>

(* "cancel": one thing at a time. *)
Cancel ==
    /\ \E n \in DOMAIN Chain :
        /\ Chain[n] \in backing
        /\ \A k \in 1..(n - 1) : Chain[k] \notin backing
        /\ backing' = backing \ {Chain[n]}
    /\ UNCHANGED <<settings, path, focused, screen, content, drop, disk, history>>

OpenPath(f, s) ==
    /\ path' = [path EXCEPT ![focused] = f]
    /\ screen' = s
    /\ UNCHANGED <<settings, focused, content, drop, disk, backing, history>>

(* ActionRegistry::invoke(), of what palette and keyboard share. *)
Invoke(id, s) ==
    \/ id = "delete_items" /\ DeleteSelection(FALSE, s)
    \/ id = "permanently_delete_items" /\ DeleteSelection(TRUE, s)
    \/ id = "file_panel_item_create" /\ CreateItem(s)
    \/ id = "file_panel_item_rename" /\ RenameCursorItem(s)
    \/ id = "open_command_line" /\ Show("shell", s)

Verbs == {"delete_items", "permanently_delete_items", "file_panel_item_create",
          "file_panel_item_rename", "open_command_line"}

(* promptForAction(): the actions, without what only moves, and the places of *)
(* the sidebar; typing narrows them.                                          *)
Offered == Verbs \cup Folders

-----------------------------------------------------------------------------
(* The answers. *)

SaidYes ==
    IF agreed.items = confirm.says.items THEN [agreed EXCEPT !.yes = @ + 1]
    ELSE [items |-> confirm.says.items, yes |-> 1]

(* Its button is clicked: the callback is taken before the modal goes, and may *)
(* ask again.                                                                  *)
Confirmed ==
    LET q == confirm.does
        s == Dismissed("confirm", screen)
        asked == SaidYes
    IN  /\ OnTop("confirm")
        /\ agreed' = IF confirm.says.verb = "first" THEN asked ELSE Nobody
        /\ IF q.verb = "first"
           THEN /\ Ask(q.items, "second", s)
                /\ UNCHANGED <<disk, backing, careless>>
           ELSE /\ screen' = s
                /\ confirm' = [says |-> None, does |-> None]
                /\ IF q = None THEN UNCHANGED <<disk, backing, careless>>
                   ELSE StartDelete(q.items, q.verb = "second", asked)
        /\ UNCHANGED <<settings, path, focused, name, drop, strayed>>

(* Cancel, Esc, or Enter on Cancel; only the last lets go of the callback, and *)
(* a modal that is hidden has no answers.                                      *)
Declined ==
    /\ screen' = Dismissed("confirm", screen)
    /\ confirm' = [says |-> None, does |-> None]
    /\ agreed' = Nobody
    /\ UNCHANGED <<settings, path, focused, name, drop, disk, backing, careless, strayed>>

(* The lambdas connected to submitted(): what each makes of the typed name. *)
Target(h, typed) == <<h.item[1], typed>>

Refused(h, typed) ==
    Target(h, typed) \in disk /\ ~(h.verb = "rename" /\ typed = h.item[2])

Submitted(typed) ==
    LET taken == {h \in name.handlers : ~Refused(h, typed)}
        old == {h.item : h \in {x \in taken : x.verb = "rename"}}
        new == {Target(h, typed) : h \in {x \in taken : x.verb = "create" \/ x.item \in disk}}
    IN  /\ taken # {}
        /\ disk' = (disk \ old) \cup new
        /\ Cardinality((disk \ old) \cup new) <= MaxFiles
        /\ screen' = Dismissed("name", screen)
        /\ name' = [name EXCEPT !.says = None]
        /\ UNCHANGED <<settings, path, focused, confirm, drop, backing, history>>

(* What is to be run is settled before the palette goes, and run after, so that *)
(* a question it asks is not dismissed with the palette.                        *)
PaletteAccepted ==
    LET s == Dismissed("palette", screen) IN
    \E row \in Offered : \/ row \in Folders /\ OpenPath(row, s)
                         \/ row \in Verbs /\ Invoke(row, s)

Dismiss(m) ==
    /\ screen' = Dismissed(m, screen)
    /\ name' = IF m = "name" THEN [name EXCEPT !.says = None] ELSE name
    /\ UNCHANGED <<settings, path, focused, confirm, drop, disk, backing, history>>

-----------------------------------------------------------------------------
(* Application::notify(): a popup's keys are its own; a line to type in has the *)
(* keys that are not chords; whatever the keymap binds goes to the registry;    *)
(* and a modal has what is left.                                                *)

PressReturn ==
    /\ ~MenuIsUp
    /\ \/ screen.keyboard = "name" /\ \E typed \in Names : Submitted(typed)
       \/ screen.keyboard = "palette" /\ PaletteAccepted
       \/ ~Typing /\ ~settings.freed /\ ActivateCursorItem
       \/ screen.keyboard = "confirm" /\ settings.freed /\ Declined

PressEscape ==
    /\ ~MenuIsUp
    /\ \/ Typing /\ Dismiss(screen.keyboard)
       \/ ~Typing /\ ~settings.freed /\ Cancel
       \/ screen.keyboard = "confirm" /\ settings.freed /\ Declined

(* The chords that are not text-editing ones reach the keymap from anywhere. *)
Chords == {"file_panel_item_create", "file_panel_item_rename", "open_command_line"}

PressKey(id) ==
    /\ ~MenuIsUp
    /\ id \in Chords \/ ~Typing
    /\ Invoke(id, screen)

PressPaletteKey == ~MenuIsUp /\ ~Typing /\ Show("palette", screen)

NextFilePanel == ~MenuIsUp /\ \E p \in Panels : FocusPanel(p)

(* The pointer: a modal covers the window, and only the top one is reached. *)
ClickConfirm == ~MenuIsUp /\ Confirmed
ClickCancel == ~MenuIsUp /\ OnTop("confirm") /\ Declined
ClickBackdrop == ~MenuIsUp /\ OnTop("palette") /\ Dismiss("palette")

ClickField(m) ==
    /\ ~MenuIsUp /\ OnTop(m) /\ screen.keyboard # m
    /\ screen' = [screen EXCEPT !.keyboard = m]
    /\ UNCHANGED <<settings, path, focused, content, drop, disk, backing, history>>

OpenPaletteFromPanel(p) ==
    /\ ~MenuIsUp /\ screen.shown = <<>>
    /\ focused' = p
    /\ screen' = ShowModal("palette", screen)
    /\ UNCHANGED <<settings, path, content, drop, disk, backing, history>>

(* Another start of the program hands its folder to this window, at any time. *)
Handed(f) == OpenPath(f, screen)

-----------------------------------------------------------------------------
(* Drops. *)

DestinationFor(p, row) == IF row \in Inside[path[p]] THEN row ELSE path[p]

(* The first path stands for all of them. *)
ActionFor(key, first, to) ==
    CASE key = "shift" -> "move"
      [] key = "control" -> "copy"
      [] OTHER -> IF Volume[first[1]] = Volume[to] THEN "move" ELSE "copy"

(* onFilesDropped(): what lives there already stays; a taken name is asked about *)
(* by the transfer.                                                              *)
FilesDropped(items, to, verb) ==
    LET moving == {i \in items \cap disk : i[1] # to /\ <<to, i[2]>> \notin disk} IN
    /\ verb = "copy" => Cardinality(disk) + Cardinality(moving) <= MaxFiles
    /\ disk' = (IF verb = "move" THEN disk \ moving ELSE disk) \cup {<<to, i[2]>> : i \in moving}

DropEvent(p, row, key) ==
    \E i \in disk :
        LET to == DestinationFor(p, row) IN
        /\ ~MenuIsUp /\ drop = None /\ screen.shown = <<>>
        /\ IF key = "alt"
           THEN /\ drop' = [verb |-> "ask", items |-> {i}, to |-> to, aim |-> to]
                /\ UNCHANGED disk
           ELSE /\ FilesDropped({i}, to, ActionFor(key, i, to))
                /\ UNCHANGED drop
        /\ UNCHANGED <<settings, path, focused, screen, content, backing, history>>

(* askAndDrop(): the drag has ended, the menu runs an event loop of its own. *)
ChooseHere(verb) ==
    /\ MenuIsUp
    /\ drop' = None
    /\ IF verb = "cancel" THEN UNCHANGED <<disk, strayed>>
       ELSE /\ FilesDropped(drop.items, drop.to, verb)
            /\ strayed' = (strayed \/ drop.to # drop.aim)
    /\ UNCHANGED <<settings, path, focused, screen, content, backing, agreed, careless>>

Next ==
    \/ PressReturn \/ PressEscape \/ PressPaletteKey \/ NextFilePanel
    \/ \E id \in Verbs : PressKey(id)
    \/ ClickConfirm \/ ClickCancel \/ ClickBackdrop
    \/ \E m \in {"name", "shell", "palette"} : ClickField(m)
    \/ \E p \in Panels : OpenPaletteFromPanel(p)
    \/ \E f \in Folders : Handed(f)
    \/ \E p \in Panels, row \in Folders, key \in {"none", "shift", "control", "alt"} :
           DropEvent(p, row, key)
    \/ \E verb \in {"copy", "move", "cancel"} : ChooseHere(verb)

Spec == Init /\ [][Next]_vars

-----------------------------------------------------------------------------
(* An answer is to the question that is shown, although the modals are kept    *)
(* and used again, questions are asked over others, and panels move beneath    *)
(* them: a button does what its title says, one caller hears a typed name, and *)
(* a drop goes where it was let go.                                            *)
AnswersAreToTheQuestion ==
    /\ IsShown("confirm") => confirm.does = confirm.says /\ confirm.says # None
    /\ IsShown("name") => name.handlers = {name.says}
    /\ ~strayed

(* Nothing is destroyed that the user has not twice in a row agreed to         *)
(* destroy, by name, whatever the settings and whatever is asked in between.   *)
DestroyedIsAgreedTwice == ~careless

(* What the two rest on. A modal is on the screen once; the button of a        *)
(* confirmation is always the one of its title; and the second question about  *)
(* a destruction is only there after a yes to the first about the same files,  *)
(* and nothing else that was agreed to meanwhile.                              *)
ScreenInv == \A i, j \in DOMAIN screen.shown : screen.shown[i] = screen.shown[j] => i = j

ConfirmInv ==
    /\ confirm.does = confirm.says
    /\ confirm.says.verb = "second" => agreed.items = confirm.says.items /\ agreed.yes >= 1

DropInv == drop # None => drop.to = drop.aim

(* "Esc always dismisses, Enter always confirms. Handled in the base so that no *)
(* subclass can forget", says Modal::keyPressEvent(): with the keyboard on a    *)
(* question, they do not act on what is beneath it.                             *)
KeysReachTheQuestion ==
    (PressEscape \/ PressReturn) /\ screen.keyboard \in Modals /\ screen.shown' = screen.shown
        => UNCHANGED <<backing, path>>
=============================================================================
