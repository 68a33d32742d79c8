----------------------------- MODULE KeyDispatch -----------------------------
(***************************************************************************)
(* Key sequences: the keymap that defaults and hotkeys.toml make, and the  *)
(* dispatcher that reads keys against it while three timers run and the    *)
(* panel's mode, the pointer and a reload of the configuration interfere.  *)
(***************************************************************************)
EXTENDS Integers, SequencesExt

CONSTANTS
    Letters,     \* keys that type a letter
    Actions,     \* what the registry can invoke
    Defaults,    \* DefaultKeymap.cpp's table: a sequence of [layer, action, binding]
    Files        \* what hotkeys.toml may say: sequences of [layer, action, bindings]

Layers == {"Selection", "Normal", "Global"}
Escape == [ctrl |-> FALSE, key |-> "Escape"]
Chords == [ctrl : BOOLEAN, key : Letters] \cup {Escape}
None == "none"

VARIABLES
    keymap,      \* per layer, the bindings and the action each is for
    layers,      \* the active layers, the highest precedence first
    pending,     \* the chords typed so far
    held,        \* the action of an ambiguous prefix, or None
    timers,      \* the timers that run
    hint         \* the prefix whose continuations are listed, <<>> when hidden

dispatcher == <<pending, held, timers, hint>>
vars == <<keymap, layers, dispatcher>>

(* The keymap: a trie is the set of its terminals. *)
Empty == [l \in Layers |-> [b \in {} |-> None]]

Bind(map, b, a) ==
    IF b \in DOMAIN map THEN map ELSE [c \in DOMAIN map \cup {b} |-> IF c = b THEN a ELSE map[c]]

RemoveBinding(map, b) == Restrict(map, DOMAIN map \ {b})

Unbind(map, a) == Restrict(map, {b \in DOMAIN map : map[b] # a})

Extends(b, prefix) == Len(b) > Len(prefix) /\ IsPrefix(prefix, b)

LookupLayer(l, typed) ==
    LET longer == \E b \in DOMAIN keymap[l] : Extends(b, typed) IN
    CASE typed \in DOMAIN keymap[l] -> [type |-> "Exact", action |-> keymap[l][typed], longer |-> longer]
      [] typed \notin DOMAIN keymap[l] /\ longer -> [type |-> "Partial", action |-> None, longer |-> TRUE]
      [] OTHER -> [type |-> "NoMatch", action |-> None, longer |-> FALSE]

(* A partial match of a higher layer hides an exact one of a lower. *)
Owners(typed) == {i \in DOMAIN layers : LookupLayer(layers[i], typed).type # "NoMatch"}
Owner(typed) == layers[Min(Owners(typed))]
Lookup(typed) == IF Owners(typed) = {} THEN LookupLayer(Last(layers), typed)
                                       ELSE LookupLayer(Owner(typed), typed)

Continuations(prefix) ==
    IF Owners(prefix) = {} THEN {}
    ELSE {b \in DOMAIN keymap[Owner(prefix)] : Extends(b, prefix)}

(* The members of a list, taken in turn. *)
InTurn(Take(_, _), start, list) ==
    LET upTo[i \in 0..Len(list)] == IF i = 0 THEN start ELSE Take(upTo[i - 1], list[i])
    IN  upTo[Len(list)]

BindDefault(map, d) == [map EXCEPT ![d.layer] = Bind(@, d.binding, d.action)]

InstallDefaults == InTurn(BindDefault, Empty, Defaults)

(* One entry of hotkeys.toml: what it mentions loses its bindings, and takes *)
(* from the defaults, not from earlier entries, the ones it asks for.        *)
ApplyEntry(state, entry) ==
    LET Take(s, b) ==
            IF <<entry.layer, b>> \in s.claimed THEN s
            ELSE [map |-> [s.map EXCEPT ![entry.layer] = Bind(RemoveBinding(@, b), b, entry.action)],
                  claimed |-> s.claimed \cup {<<entry.layer, b>>}]
        unbound == [state EXCEPT !.map[entry.layer] = Unbind(@, entry.action)]
    IN InTurn(Take, unbound, entry.bindings)

ApplyHotkeys(map, file) == InTurn(ApplyEntry, [map |-> map, claimed |-> {}], file).map

LayersFor(selecting) == (IF selecting THEN <<"Selection">> ELSE <<>>) \o <<"Normal", "Global">>

TypeOK ==
    /\ DOMAIN keymap = Layers
    /\ \A l \in Layers : \A b \in DOMAIN keymap[l] : b \in Seq(Chords) /\ keymap[l][b] \in Actions
    /\ held \in Actions \cup {None}
    /\ layers \in {LayersFor(s) : s \in BOOLEAN}
    /\ pending \in Seq(Chords)
    /\ hint \in Seq(Chords)
    /\ timers \subseteq {"sequence", "ambiguity", "hint"}

Init ==
    /\ keymap = InstallDefaults
    /\ layers = LayersFor(FALSE)
    /\ pending = <<>>
    /\ held = None
    /\ timers = {}
    /\ hint = <<>>

(* The window hides its list when it is told that nothing is pending. *)
HidesList(shown) == IF shown = <<>> THEN <<>> ELSE hint

ClearPending ==
    /\ timers' = {}
    /\ held' = None
    /\ pending' = <<>>
    /\ hint' = IF pending = <<>> THEN hint ELSE HidesList(<<>>)

(* What the action does is its own affair; the sequence is over first. *)
Fire == ClearPending

(* The footer shows what is pending; a list that is up stays. *)
Await(candidate, action, started) ==
    /\ pending' = candidate
    /\ held' = action
    /\ timers' = (timers \ {"ambiguity"}) \cup started
    /\ hint' = HidesList(candidate)

(* Ctrl still down on the last letter of a sequence is forgiven. *)
Released(chord) == [chord EXCEPT !.ctrl = FALSE]

Candidate(chord) ==
    IF /\ Lookup(Append(pending, chord)).type = "NoMatch"
       /\ pending # <<>>
       /\ chord.ctrl
       /\ Lookup(Append(pending, Released(chord))).type # "NoMatch"
    THEN Append(pending, Released(chord))
    ELSE Append(pending, chord)

HandleKeyPress(chord) ==
    /\ UNCHANGED <<keymap, layers>>
    /\ LET match == Lookup(Candidate(chord)) IN
       \/ /\ chord = Escape /\ pending # <<>>
          /\ ClearPending
       \/ /\ ~(chord = Escape /\ pending # <<>>)
          /\ \/ /\ match.type = "Exact" /\ match.longer
                /\ Await(Candidate(chord), match.action, {"ambiguity", "sequence"})
             \/ /\ match.type = "Partial"
                /\ Await(Candidate(chord), None, {"sequence", "hint"})
             \/ /\ match.type = "Exact" /\ ~match.longer
                /\ Fire
             \/ /\ match.type = "NoMatch" /\ pending # <<>>
                /\ ClearPending
             \/ /\ match.type = "NoMatch" /\ pending = <<>>
                /\ UNCHANGED dispatcher

OnSequenceTimeout ==
    /\ "sequence" \in timers
    /\ ClearPending
    /\ UNCHANGED <<keymap, layers>>

OnHintTimeout ==
    /\ "hint" \in timers
    /\ IF pending = <<>> \/ Continuations(pending) = {}
       THEN timers' = timers \ {"hint"} /\ hint' = hint
       ELSE timers' = timers \ {"hint", "sequence"} /\ hint' = pending
    /\ UNCHANGED <<keymap, layers, pending, held>>

OnAmbiguityTimeout ==
    /\ "ambiguity" \in timers
    /\ IF held # None THEN Fire
       ELSE timers' = timers \ {"ambiguity"} /\ UNCHANGED <<pending, held, hint>>
    /\ UNCHANGED <<keymap, layers>>

(* The focused panel, or its mode, is another one. *)
SetActiveLayers(selecting) ==
    /\ LayersFor(selecting) # layers
    /\ layers' = LayersFor(selecting)
    /\ ClearPending
    /\ UNCHANGED keymap

PointerPress ==
    /\ ClearPending
    /\ UNCHANGED <<keymap, layers>>

(* hotkeys.toml changed. What is pending stays, whatever the new map says. *)
ReloadHotkeys(file) ==
    /\ keymap' = ApplyHotkeys(InstallDefaults, file)
    /\ UNCHANGED <<layers, dispatcher>>

Next ==
    \/ \E chord \in Chords : HandleKeyPress(chord)
    \/ OnSequenceTimeout
    \/ OnHintTimeout
    \/ OnAmbiguityTimeout
    \/ \E selecting \in BOOLEAN : SetActiveLayers(selecting)
    \/ PointerPress
    \/ \E file \in Files : ReloadHotkeys(file)

Spec == Init /\ [][Next]_vars

-----------------------------------------------------------------------------
(* A half-typed sequence is never silently in force: it expires or its      *)
(* continuations are on screen, no list and no timer outlives it, and an    *)
(* action held back is going to be decided. The three timers of             *)
(* KeyDispatcher.cpp, each armed and stopped on paths of its own, and a      *)
(* keymap replaced under a pending prefix, are what could break it.          *)
SequenceEnds ==
    /\ pending # <<>> => "sequence" \in timers \/ hint # <<>>
    /\ timers # {} \/ hint # <<>> => pending # <<>>
    /\ held # None <=> "ambiguity" \in timers
=============================================================================
