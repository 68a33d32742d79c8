-------------------------------- MODULE Chords --------------------------------
(* How a key press and what hotkeys.toml says of it come to the same chord    *)
(* (input/Chord.cpp), and what the settings window writes for a press that it *)
(* has recorded (ui/modals/SettingsWindow.cpp). KeyDispatch and Settings take *)
(* chords as they find them.                                                  *)
EXTENDS Integers, SequencesExt

CONSTANTS
    Keyboard,      \* of each key, plain and shifted: what Qt calls it, and the text
    Keypad,        \* the keys of the number block
    ModifierKeys,  \* keys that only modify others
    Punctuation,   \* keys that are characters, but no letters or digits
    Letters,
    Characters,    \* texts of one character that is printed and no blank
    KeyOf,         \* the key that a name means to QKeySequence
    Words,         \* names of more than one word
    Held,          \* the sets of modifiers that are held
    MaxChords      \* bound on the chords of a binding

VARIABLES
    meant,         \* history: the presses that the binding is to answer to
    recorded,      \* history: it was recorded rather than written
    bound          \* the binding that is read back, or Refused

vars == <<meant, recorded, bound>>

Blank == " "
Comma == ","
Escape == "Esc"
kMaxChordsPerBinding == 5

NoChord == [mods |-> {}, key |-> "", text |-> ""]
Refused == <<NoChord>>

Presses == [mods : Held, key : DOMAIN Keyboard]

-----------------------------------------------------------------------------
(* A press as Qt reports it. The text of a key with Ctrl is not one to print. *)
Face(p) == Keyboard[p.key][IF "Shift" \in p.mods THEN 2 ELSE 1]

Event(p) ==
    [key  |-> Face(p).key,
     mods |-> p.mods \cup (IF p.key \in Keypad THEN {"Keypad"} ELSE {}),
     text |-> IF p.mods \subseteq {"Shift"} THEN Face(p).text ELSE ""]

TextForm(character) == [NoChord EXCEPT !.text = character]

(* A shifted character stands for itself. *)
KeyFormModifiers(key, mods) == IF key \in Punctuation THEN mods \ {"Shift"} ELSE mods

KeyForm(key, mods) == [NoChord EXCEPT !.key = key, !.mods = KeyFormModifiers(key, mods)]

ChordFromKeyEvent(e) ==
    LET significant == e.mods \cap {"Ctrl", "Alt", "Meta"} IN
    IF e.key \in ModifierKeys THEN NoChord
    ELSE IF significant = {} /\ e.text \in Characters THEN TextForm(e.text)
    ELSE KeyForm(e.key, e.mods \ {"Keypad"})

-----------------------------------------------------------------------------
(* One chord of a file: modifiers and a name. A comma is no name to           *)
(* QKeySequence, which parts chords at it.                                    *)
NormaliseModifierNames(mods) == {IF m = "Super" THEN "Meta" ELSE m : m \in mods}

ParseChord(w) ==
    LET mods == NormaliseModifierNames(w.mods) IN
    IF w.name = Comma /\ mods # {} THEN KeyForm(Comma, mods)
    ELSE IF mods = {} /\ w.name \in Characters THEN TextForm(w.name)
    ELSE IF w.name \in DOMAIN KeyOf THEN KeyForm(KeyOf[w.name], mods)
    ELSE NoChord

(* What is written is taken apart at its blanks. *)
Parts(w) ==
    IF w.name \notin DOMAIN Words THEN <<w>>
    ELSE [i \in DOMAIN Words[w.name] |->
            [mods |-> IF i = 1 THEN w.mods ELSE {}, name |-> Words[w.name][i]]]

ParseBinding(text) ==
    LET parts == FlattenSeq([i \in DOMAIN text |-> Parts(text[i])])
        chords == [i \in DOMAIN parts |-> ParseChord(parts[i])]
    IN  IF \/ Len(parts) \notin 1..kMaxChordsPerBinding
           \/ NoChord \in ToSet(chords)
           \/ Len(parts) > 1 /\ Head(chords).key = Escape
        THEN Refused ELSE chords

(* The settings window's spelling. *)
PortableChord(c) == [mods |-> c.mods, name |-> IF c.text # "" THEN c.text ELSE c.key]

-----------------------------------------------------------------------------
(* How a person writes a press: a character is what is typed, and a letter    *)
(* with a modifier keeps its Shift.                                           *)
Spelled(p) ==
    LET significant == p.mods \ {"Shift"} IN
    IF Face(p).text \in Characters /\ significant = {} THEN [mods |-> {}, name |-> Face(p).text]
    ELSE IF Face(p).text \in Characters /\ p.key \notin Letters
         THEN [mods |-> significant, name |-> Face(p).text]
    ELSE [mods |-> p.mods, name |-> Keyboard[p.key][1].key]

(* Meta goes by the name of Super too. *)
Aliased(w) == [w EXCEPT !.mods = {IF m = "Meta" THEN "Super" ELSE m : m \in @}]

Init == meant = <<>> /\ recorded = FALSE /\ bound = <<>>

(* One more chord is written in a line of hotkeys.toml, which is read anew. *)
Write(p) ==
    /\ ~recorded /\ Len(meant) < MaxChords
    /\ meant' = Append(meant, p)
    /\ bound' \in {ParseBinding([i \in DOMAIN meant' |-> Spelled(meant'[i])]),
                   ParseBinding([i \in DOMAIN meant' |-> Aliased(Spelled(meant'[i]))])}
    /\ UNCHANGED recorded

(* Tab moves on from the button, Escape and modifiers record nothing, and     *)
(* what types a character is refused.                                         *)
Recordable(e) ==
    /\ ~(e.key \in {"Tab", "Backtab"} /\ e.mods \cap {"Ctrl", "Alt"} = {})
    /\ e.key # Escape
    /\ ChordFromKeyEvent(e) # NoChord
    /\ ChordFromKeyEvent(e).text = ""
    /\ ~(ChordFromKeyEvent(e).mods = {} /\ e.text \in Characters \cup {Blank})

(* A press while the button records: what is written is read in its turn. *)
Record(p) ==
    /\ meant = <<>>
    /\ Recordable(Event(p))
    /\ meant' = <<p>>
    /\ recorded' = TRUE
    /\ bound' = ParseBinding(<<PortableChord(ChordFromKeyEvent(Event(p)))>>)

Writable == {p \in Presses : p.key \notin ModifierKeys}

Next ==
    \/ \E p \in Writable : Write(p)
    \/ \E p \in Presses : Record(p)

Spec == Init /\ [][Next]_vars

-----------------------------------------------------------------------------
Pressed(p) == ChordFromKeyEvent(Event(p))

(* A shifted Tab, and keys whose names are not one word. *)
ShiftedTab(p) == Face(p).key = "Backtab"
Plain(p) == ~ShiftedTab(p) /\ Face(p).key \notin DOMAIN Words

(* A binding answers to the presses it was written or recorded for, and to no *)
(* others but those that are written the same: on the whole keyboard, with    *)
(* Shift in the character or beside it, whether its modifiers go by one name  *)
(* or another, and though a comma parts chords elsewhere (Chord.cpp). Only a  *)
(* sequence that starts with Escape is refused.                               *)
KeysMeanWhatIsWritten ==
    (meant # <<>> /\ \A i \in DOMAIN meant : Plain(meant[i])) =>
        IF Len(meant) > 1 /\ meant[1].key = Escape THEN bound = Refused
        ELSE /\ Len(bound) = Len(meant)
             /\ \A i \in DOMAIN meant : \A p \in {q \in Writable : Plain(q)} :
                    bound[i] = Pressed(p) <=> Spelled(p) = Spelled(meant[i])
===============================================================================
