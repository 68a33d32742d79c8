----------------------------- MODULE WatchDelta -----------------------------
(***************************************************************************)
(* What a burst of raw watch events amounts to: coalesce() of              *)
(* src/fs/WatchCoalescer.cpp, a pure function of the list of events.       *)
(*                                                                         *)
(* The lists of a delta are sets here: each name ends in at most one of    *)
(* them, so the order within a list makes no difference to a listing.      *)
(***************************************************************************)
EXTENDS Naturals, Sequences, FiniteSets, WellFoundedInduction, TLAPS

CONSTANTS Names,            \* the names of directory entries
          RescanThreshold   \* WatchCoalescer::kRescanThreshold

WatchDeltaAssumption == RescanThreshold \in Nat

(* Attribute changes are treated as modifications.  The events about the   *)
(* whole directory carry no name of an entry.                              *)
Event == [kind : {"Created", "Deleted", "Modified", "MovedFrom", "MovedTo"},
          name : Names]
         \cup [kind : {"SelfGone", "Overflow"}, name : {"."}]

Report(kind, n) == [kind |-> kind, name |-> n]

Delta == [created : SUBSET Names, deleted : SUBSET Names, modified : SUBSET Names,
          renamed : SUBSET (Names \X Names), needsFullRescan : BOOLEAN, selfGone : BOOLEAN]

EmptyDelta == [created |-> {}, deleted |-> {}, modified |-> {}, renamed |-> {},
               needsFullRescan |-> FALSE, selfGone |-> FALSE]

(* The window: the last state of each name, and its place in m_order, which *)
(* goes by the order of first mention.                                     *)
NoWindow == [states |-> [n \in Names |-> "None"], place |-> [n \in Names |-> 0], last |-> 0]

Note(w, n, state) ==
    [states |-> [w.states EXCEPT ![n] = state],
     place  |-> IF w.states[n] = "None" THEN [w.place EXCEPT ![n] = w.last + 1] ELSE w.place,
     last   |-> w.last + 1]

CancelOut(w, n) ==
    [states |-> [w.states EXCEPT ![n] = "None"], place |-> w.place, last |-> w.last]

(* A slip: every deletion cancels what went before in the window. *)
NoteEventForgetful(w, e) ==
    LET was == w.states[e.name]
    IN  CASE e.kind = "Created"   -> Note(w, e.name, IF was = "Deleted" THEN "Modified"
                                                     ELSE "Created")
          [] e.kind = "Deleted"   -> IF was \in {"Created", "Modified"} THEN CancelOut(w, e.name)
                                     ELSE Note(w, e.name, "Deleted")
          [] e.kind = "Modified"  -> IF was = "Created" THEN w ELSE Note(w, e.name, "Modified")
          [] e.kind = "MovedFrom" -> Note(w, e.name, "MovedFrom")
          [] e.kind = "MovedTo"   -> Note(w, e.name, "MovedTo")

NoteEvent(w, e) ==
    LET was == w.states[e.name]
    IN  CASE e.kind = "Created"   -> Note(w, e.name, IF was = "Deleted" THEN "Modified"
                                                     ELSE "Created")
          [] e.kind = "Deleted"   -> IF was = "Created" THEN CancelOut(w, e.name)
                                     ELSE Note(w, e.name, "Deleted")
          [] e.kind = "Modified"  -> IF was = "Created" THEN w ELSE Note(w, e.name, "Modified")
          [] e.kind = "MovedFrom" -> Note(w, e.name, "MovedFrom")
          [] e.kind = "MovedTo"   -> Note(w, e.name, "MovedTo")

Window(events) ==
    LET upTo[i \in 0..Len(events)] ==
            IF i = 0 THEN NoWindow ELSE NoteEvent(upTo[i - 1], events[i])
    IN  upTo[Len(events)]

InState(w, state) == {n \in Names : w.states[n] = state}

(* How many names in the state of n came up before it. *)
Rank(w, n) == Cardinality({m \in InState(w, w.states[n]) : w.place[m] < w.place[n]})

(* The halves of renames are paired in the order their names came up; what *)
(* is left over came in from elsewhere or went there.                      *)
WindowDelta(w) ==
    LET from  == InState(w, "MovedFrom")
        to    == InState(w, "MovedTo")
        pairs == {p \in from \X to : Rank(w, p[1]) = Rank(w, p[2])}
    IN  [EmptyDelta EXCEPT
            !.renamed  = pairs,
            !.deleted  = InState(w, "Deleted") \cup (from \ {p[1] : p \in pairs}),
            !.created  = InState(w, "Created") \cup (to \ {p[2] : p \in pairs}),
            !.modified = InState(w, "Modified")]

(* More than the threshold: rescan, but name what went if all was deletion *)
BurstDelta(events) ==
    [EmptyDelta EXCEPT
        !.needsFullRescan = TRUE,
        !.deleted = IF \A i \in 1..Len(events) : events[i].kind \in {"Deleted", "MovedFrom"}
                    THEN {events[i].name : i \in 1..Len(events)}
                    ELSE {}]

Whole(events) == {i \in 1..Len(events) : events[i].kind \in {"SelfGone", "Overflow"}}

(* The first event about the whole directory overrules all the others. *)
Coalesce(events) ==
    IF Len(events) > RescanThreshold THEN BurstDelta(events)
    ELSE IF Whole(events) = {} THEN WindowDelta(Window(events))
    ELSE LET first == CHOOSE i \in Whole(events) : \A k \in Whole(events) : i <= k
         IN  IF events[first].kind = "SelfGone" THEN [EmptyDelta EXCEPT !.selfGone = TRUE]
             ELSE [EmptyDelta EXCEPT !.needsFullRescan = TRUE]

(* A name created and then deleted in one window: the coalescer says       *)
(* nothing of it, though a row may well show it by now.                    *)
Untold(log) ==
    {n \in Names : \E i, k \in 1..Len(log) :
        i < k /\ log[i] = Report("Created", n) /\ log[k] = Report("Deleted", n)}

-----------------------------------------------------------------------------
(* Proofs, for any names and any threshold.                                *)
(*                                                                         *)
(* First, what is computed step by step; KeyDispatch and DirectoryListing  *)
(* use it too.                                                             *)

(* A set of numbers that is not empty has a least one. *)
LEMMA LeastNumber ==
    ASSUME NEW S \in SUBSET Nat, S # {}
    PROVE  \E c \in S : \A e \in S : c <= e
  <1>1. \E x \in S : \A y \in S : ~(<<y, x>> \in OpToRel(<, Nat))
    BY WFMin, NatLessThanWellFounded
  <1>2. PICK x \in S : \A y \in S : ~(<<y, x>> \in OpToRel(<, Nat))
    BY <1>1
  <1>3. \A y \in S : y \in Nat /\ ~(y < x)
    BY <1>2 DEF OpToRel
  <1> QED BY <1>3

(* m steps from a place of S, each from S to S, can be made ... *)
Takes(f, S, m, start, step) ==
    /\ f \in [0..m -> S]
    /\ f[0] = start
    /\ \A k \in 1..m : f[k] = step[k][f[k - 1]]

LEMMA StepsExist ==
    ASSUME NEW S, NEW m \in Nat, NEW start \in S, NEW step \in [1..m -> [S -> S]]
    PROVE  \E f : Takes(f, S, m, start, step)
  <1> DEFINE Made(f, l) == Takes(f, S, l, start, step)
             Bad == {l \in 0..m : ~\E f : Made(f, l)}
  <1> USE DEF Takes
  <1>1. \E f : Made(f, 0)
    <2>1. Made([k \in 0..0 |-> start], 0)
      OBVIOUS
    <2> QED BY <2>1
  <1>2. ASSUME NEW l \in Nat, l + 1 \in 1..m, NEW f, Made(f, l)
        PROVE  \E g : Made(g, l + 1)
    <2> DEFINE g == [k \in 0..(l + 1) |-> IF k = l + 1 THEN step[l + 1][f[l]] ELSE f[k]]
    <2>1. /\ \A k \in 0..(l + 1) : k = l + 1 \/ k \in 0..l
          /\ \A k \in 1..(l + 1) : k - 1 \in 0..l /\ k - 1 # l + 1 /\ (k = l + 1 \/ k \in 1..l)
          /\ l \in 0..l /\ 0 # l + 1
      OBVIOUS
    <2>2. step[l + 1][f[l]] \in S
      BY <1>2, <2>1
    <2>3. g \in [0..(l + 1) -> S] /\ g[0] = start
      BY <1>2, <2>1, <2>2
    <2>4. ASSUME NEW k \in 1..(l + 1)
          PROVE  g[k] = step[k][g[k - 1]]
      <3>1. g[k - 1] = f[k - 1]
        BY <2>1
      <3>2. CASE k = l + 1
        <4>1. g[k] = step[l + 1][f[l]] /\ k - 1 = l
          BY <3>2
        <4> QED BY <3>1, <3>2, <4>1
      <3>3. CASE k # l + 1
        <4>1. k \in 1..l /\ k \in 0..(l + 1)
          BY <2>1, <3>3
        <4>2. g[k] = f[k]
          BY <3>3, <4>1
        <4> QED BY <1>2, <3>1, <4>1, <4>2
      <3> QED BY <3>2, <3>3
    <2>5. Made(g, l + 1)
      BY <2>3, <2>4
    <2> QED BY <2>5
  <1> HIDE DEF Made
  <1>3. Bad = {}
    <2> SUFFICES ASSUME Bad # {} PROVE FALSE
      OBVIOUS
    <2>0. Bad \in SUBSET Nat
      OBVIOUS
    <2>1. PICK l \in Bad : \A k \in Bad : l <= k
      BY <2>0, LeastNumber
    <2>2. l # 0 /\ l - 1 \in Nat /\ l - 1 \in 0..m /\ l - 1 + 1 = l /\ l \in 1..m
      BY <1>1, <2>1
    <2>3. PICK f : Made(f, l - 1)
      BY <2>1, <2>2
    <2> QED BY <1>2, <2>1, <2>2, <2>3
  <1>4. PICK f : Made(f, m)
    <2>1. m \in 0..m
      OBVIOUS
    <2> QED BY <1>3, <2>1
  <1> QED BY <1>4 DEF Made

(* ... and what holds at the start and through every step holds at the end. *)
LEMMA StepByStep ==
    ASSUME NEW m \in Nat, NEW Good \in SUBSET Nat, 0 \in Good,
           \A k \in 1..m : k - 1 \in Good => k \in Good
    PROVE  m \in Good
  <1> DEFINE Out == (0..m) \ Good
  <1>1. ASSUME Out # {} PROVE FALSE
    <2>0. Out \in SUBSET Nat
      OBVIOUS
    <2>1. PICK k \in Out : \A e \in Out : k <= e
      BY <1>1, <2>0, LeastNumber
    <2>2. k # 0 /\ k \in 1..m /\ k - 1 \in 0..m /\ ~(k <= k - 1)
      BY <2>1
    <2>3. k - 1 \in Good
      BY <2>1, <2>2
    <2> QED BY <2>1, <2>2, <2>3
  <1> QED BY <1>1

(* The events of a window are taken one after the other. *)
LEMMA WindowSteps ==
    ASSUME NEW log \in Seq(Event), NEW S, NoWindow \in S,
           \A w \in S : \A i \in 1..Len(log) : NoteEvent(w, log[i]) \in S
    PROVE  \E g : /\ g[0] = NoWindow
                  /\ \A k \in 1..Len(log) : g[k] = NoteEvent(g[k - 1], log[k])
                  /\ Window(log) = g[Len(log)]
  <1> DEFINE m == Len(log)
             Rec(g) == [k \in 0..m |-> IF k = 0 THEN NoWindow ELSE NoteEvent(g[k - 1], log[k])]
             step == [k \in 1..m |-> [w \in S |-> NoteEvent(w, log[k])]]
             made == CHOOSE g : g = Rec(g)
  <1>0. m \in Nat
    OBVIOUS
  <1>1. step \in [1..m -> [S -> S]]
    OBVIOUS
  <1>2. PICK f : f \in [0..m -> S] /\ f[0] = NoWindow /\ \A k \in 1..m : f[k] = step[k][f[k - 1]]
    <2> HIDE DEF step, m
    <2>1. \E f : Takes(f, S, m, NoWindow, step)
      BY <1>0, <1>1, StepsExist
    <2> QED BY <2>1 DEF Takes
  <1>3. f = Rec(f)
    <2>1. ASSUME NEW k \in 0..m
          PROVE  f[k] = IF k = 0 THEN NoWindow ELSE NoteEvent(f[k - 1], log[k])
      <3>1. k = 0 \/ (k \in 1..m /\ k - 1 \in 0..m)
        BY <1>0
      <3> QED BY <1>2, <3>1
    <2>2. f = [k \in 0..m |-> f[k]]
      BY <1>2
    <2> QED BY <2>1, <2>2
  <1>4. Window(log) = made[m]
    BY DEF Window
  <1>5. made = Rec(made)
    BY <1>3
  <1> HIDE DEF made
  <1>6. /\ made[0] = NoWindow
        /\ \A k \in 1..m : made[k] = NoteEvent(made[k - 1], log[k])
    BY <1>0, <1>5
  <1> QED BY <1>4, <1>6

-----------------------------------------------------------------------------
(* What a delta says of a name, against the events it comes from.          *)

Mentioned(log) == {log[i].name : i \in 1..Len(log)}

Gone(delta) == delta.deleted \cup {p[1] : p \in delta.renamed}

LookUp(delta) == delta.created \cup delta.modified \cup {p[2] : p \in delta.renamed}

(* The file is there after such an event. *)
Shows(e) == e.kind \in {"Created", "Modified", "MovedTo"}

(* The last event about a name. *)
LastOf(log, n, i) == log[i].name = n /\ \A k \in (i + 1)..Len(log) : log[k].name # n

State == {"None", "Created", "Deleted", "Modified", "MovedFrom", "MovedTo"}

Windows == [states : [Names -> State], place : [Names -> Nat], last : Nat]

(* One event: the state of its name goes where coalesce() takes it. *)
LEMMA NoteTells ==
    ASSUME NEW w \in Windows, NEW e \in Event, e.kind \notin {"SelfGone", "Overflow"}
    PROVE  /\ e.name \in Names
           /\ NoteEvent(w, e) \in Windows
           /\ \A n \in Names \ {e.name} : NoteEvent(w, e).states[n] = w.states[n]
           /\ LET was == w.states[e.name]
                  now == NoteEvent(w, e).states[e.name]
              IN  /\ Shows(e) => now \in {"Created", "Modified", "MovedTo"}
                  /\ ~Shows(e) => \/ now \in {"Deleted", "MovedFrom"}
                                  \/ was = "Created" /\ e.kind = "Deleted" /\ now = "None"
                  /\ now = "Created" => was = "Created" \/ e.kind = "Created"
  <1>1. e.name \in Names /\ e.kind \in {"Created", "Deleted", "Modified", "MovedFrom", "MovedTo"}
    BY DEF Event
  <1> DEFINE n == e.name
             was == w.states[n]
  <1>2. ASSUME NEW state \in State
        PROVE  /\ Note(w, n, state) \in Windows
               /\ Note(w, n, state).states[n] = state
               /\ \A m \in Names \ {n} : Note(w, n, state).states[m] = w.states[m]
    BY <1>1 DEF Note, Windows
  <1>3. /\ CancelOut(w, n) \in Windows
        /\ CancelOut(w, n).states[n] = "None"
        /\ \A m \in Names \ {n} : CancelOut(w, n).states[m] = w.states[m]
    BY <1>1 DEF CancelOut, Windows, State
  <1>4. was \in State
    BY <1>1 DEF Windows
  <1>5. CASE e.kind = "Created"
    <2>1. NoteEvent(w, e) = Note(w, n, IF was = "Deleted" THEN "Modified" ELSE "Created")
      BY <1>5 DEF NoteEvent
    <2> HIDE DEF was, n
    <2> QED BY <1>1, <1>2, <1>5, <2>1 DEF State, Shows, was, n
  <1>6. CASE e.kind = "Deleted"
    <2>1. NoteEvent(w, e) = IF was = "Created" THEN CancelOut(w, n) ELSE Note(w, n, "Deleted")
      BY <1>6 DEF NoteEvent
    <2> QED BY <1>1, <1>2, <1>3, <1>6, <2>1 DEF State, Shows
  <1>7. CASE e.kind = "Modified"
    <2>1. NoteEvent(w, e) = IF was = "Created" THEN w ELSE Note(w, n, "Modified")
      BY <1>7 DEF NoteEvent
    <2> QED BY <1>1, <1>2, <1>7, <2>1 DEF State, Shows
  <1>8. CASE e.kind = "MovedFrom"
    <2>1. NoteEvent(w, e) = Note(w, n, "MovedFrom")
      BY <1>8 DEF NoteEvent
    <2> QED BY <1>1, <1>2, <1>8, <2>1 DEF State, Shows
  <1>9. CASE e.kind = "MovedTo"
    <2>1. NoteEvent(w, e) = Note(w, n, "MovedTo")
      BY <1>9 DEF NoteEvent
    <2> QED BY <1>1, <1>2, <1>9, <2>1 DEF State, Shows
  <1> QED BY <1>1, <1>5, <1>6, <1>7, <1>8, <1>9

(* A window: the state of a name is that of its last event, unless it was  *)
(* created and deleted in the window.                                      *)
LEMMA WindowTells ==
    ASSUME NEW log \in Seq(Event), Whole(log) = {}, NEW n \in Names
    PROVE  /\ Window(log) \in Windows
           /\ n \notin Mentioned(log) => Window(log).states[n] = "None"
           /\ \A i \in 1..Len(log) : LastOf(log, n, i) =>
                  IF Shows(log[i]) THEN Window(log).states[n] \in {"Created", "Modified", "MovedTo"}
                  ELSE Window(log).states[n] \in {"Deleted", "MovedFrom"} \/ n \in Untold(log)
  <1>0. Len(log) \in Nat /\ \A i \in 1..Len(log) : log[i] \in Event /\ log[i].kind \notin {"SelfGone", "Overflow"}
    BY DEF Whole
  <1>1. NoWindow \in Windows
    <2>1. 0 \in Nat /\ [m \in Names |-> "None"] \in [Names -> State]
      BY DEF State
    <2> QED BY <2>1 DEF NoWindow, Windows
  <1>2. PICK g : /\ g[0] = NoWindow
                 /\ \A k \in 1..Len(log) : g[k] = NoteEvent(g[k - 1], log[k])
                 /\ Window(log) = g[Len(log)]
    BY <1>0, <1>1, NoteTells, WindowSteps
  <1> DEFINE Told(k) ==
               /\ g[k] \in Windows
               /\ g[k].states[n] = "Created" => \E i \in 1..k : log[i] = Report("Created", n)
               /\ (\A i \in 1..k : log[i].name # n) => g[k].states[n] = "None"
               /\ \A i \in 1..k : log[i].name = n /\ (\A j \in (i + 1)..k : log[j].name # n) =>
                      IF Shows(log[i]) THEN g[k].states[n] \in {"Created", "Modified", "MovedTo"}
                      ELSE g[k].states[n] \in {"Deleted", "MovedFrom"} \/ n \in Untold(log)
             Good == {k \in 0..Len(log) : Told(k)}
  <1>3. Told(0)
    BY <1>1, <1>2 DEF NoWindow
  <1>4. ASSUME NEW k \in 1..Len(log), Told(k - 1)
        PROVE  Told(k)
    <2> DEFINE e == log[k]
    <2>1. /\ e \in Event /\ e.kind \notin {"SelfGone", "Overflow"}
          /\ g[k] = NoteEvent(g[k - 1], e) /\ g[k - 1] \in Windows
      BY <1>0, <1>2, <1>4
    <2>2. g[k] \in Windows /\ e.name \in Names
      BY <2>1, NoteTells
    <2>3. /\ \A i \in 1..k : i = k \/ i \in 1..(k - 1)
          /\ \A i \in 1..(k - 1) : i \in 1..k /\ k \in (i + 1)..k
          /\ \A i \in 1..(k - 1) : \A j \in (i + 1)..(k - 1) : j \in (i + 1)..k
          /\ k \in 1..k
      OBVIOUS
    <2>4. CASE e.name # n
      <3>1. g[k].states[n] = g[k - 1].states[n]
        BY <2>1, <2>4, NoteTells
      <3> QED BY <1>4, <2>2, <2>3, <2>4, <3>1
    <2>5. CASE e.name = n
      <3> DEFINE was == g[k - 1].states[n]
                 now == g[k].states[n]
      <3>1. /\ Shows(e) => now \in {"Created", "Modified", "MovedTo"}
            /\ ~Shows(e) => \/ now \in {"Deleted", "MovedFrom"}
                            \/ was = "Created" /\ e.kind = "Deleted" /\ now = "None"
            /\ now = "Created" => was = "Created" \/ e.kind = "Created"
        BY <2>1, <2>5, NoteTells
      <3>2. /\ e.kind = "Created" => e = Report("Created", n)
            /\ e.kind = "Deleted" => e = Report("Deleted", n)
        BY <2>1, <2>5 DEF Event, Report
      <3>3. now = "Created" => \E i \in 1..k : log[i] = Report("Created", n)
        BY <1>4, <2>3, <3>1, <3>2
      <3>4. ASSUME was = "Created", e.kind = "Deleted"
            PROVE  n \in Untold(log)
        <4>1. PICK i \in 1..(k - 1) : log[i] = Report("Created", n)
          BY <1>4, <3>4
        <4>2. log[k] = Report("Deleted", n) /\ i \in 1..Len(log) /\ i < k
          BY <3>2, <3>4, <4>1
        <4> QED BY <4>1, <4>2 DEF Untold
      <3> HIDE DEF was, now
      <3>5. IF Shows(e) THEN now \in {"Created", "Modified", "MovedTo"}
            ELSE now \in {"Deleted", "MovedFrom"} \/ n \in Untold(log)
        BY <3>1, <3>4
      <3>6. \A i \in 1..k : log[i].name = n /\ (\A j \in (i + 1)..k : log[j].name # n) => i = k
        BY <2>3, <2>5
      <3> QED BY <2>2, <2>3, <2>5, <3>3, <3>5, <3>6 DEF now
    <2> QED BY <2>4, <2>5
  <1> HIDE DEF Told
  <1>5. 0 \in Good /\ Good \in SUBSET Nat
    BY <1>0, <1>3
  <1>6. \A k \in 1..Len(log) : k - 1 \in Good => k \in Good
    BY <1>4
  <1> HIDE DEF Good
  <1>7. Len(log) \in Good
    BY <1>0, <1>5, <1>6, StepByStep
  <1>8. Told(Len(log))
    BY <1>7 DEF Good
  <1> QED BY <1>2, <1>8 DEF Told, Mentioned, LastOf

(* The delta of a burst that is coalesced says of a name what became of it. *)
LEMMA DeltaTells ==
    ASSUME NEW log \in Seq(Event), NEW n \in Names,
           ~(Len(log) > RescanThreshold), Whole(log) = {}
    PROVE  LET delta == Coalesce(log)
           IN  /\ ~delta.needsFullRescan
               /\ n \notin Mentioned(log) => n \notin Gone(delta) /\ n \notin LookUp(delta)
               /\ \A i \in 1..Len(log) : LastOf(log, n, i) =>
                      IF Shows(log[i]) THEN n \in LookUp(delta) /\ n \notin Gone(delta)
                      ELSE n \in Gone(delta) \/ n \in Untold(log)
  <1> DEFINE w == Window(log)
             s == w.states[n]
             delta == WindowDelta(w)
  <1>1. Coalesce(log) = delta
    BY DEF Coalesce
  <1>2. /\ n \notin Mentioned(log) => s = "None"
        /\ \A i \in 1..Len(log) : LastOf(log, n, i) =>
               IF Shows(log[i]) THEN s \in {"Created", "Modified", "MovedTo"}
               ELSE s \in {"Deleted", "MovedFrom"} \/ n \in Untold(log)
    BY WindowTells
  <1> HIDE DEF w
  <1>3. /\ Gone(delta) = InState(w, "Deleted") \cup InState(w, "MovedFrom")
        /\ LookUp(delta) = InState(w, "Created") \cup InState(w, "Modified") \cup InState(w, "MovedTo")
        /\ delta.needsFullRescan = FALSE
    BY DEF Gone, LookUp, WindowDelta, EmptyDelta
  <1> HIDE DEF delta
  <1>4. /\ n \in Gone(delta) <=> s \in {"Deleted", "MovedFrom"}
        /\ n \in LookUp(delta) <=> s \in {"Created", "Modified", "MovedTo"}
    BY <1>3 DEF InState
  <1> HIDE DEF s
  <1> QED BY <1>1, <1>2, <1>3, <1>4

(* One that asks for a rescan names deletions only when it is nothing else. *)
LEMMA RescanTells ==
    ASSUME NEW log \in Seq(Event), Len(log) > RescanThreshold \/ Whole(log) # {},
           \A i \in 1..Len(log) : log[i].kind # "SelfGone"
    PROVE  LET delta == Coalesce(log)
           IN  /\ delta.needsFullRescan
               /\ delta.deleted # {} =>
                      \A i \in 1..Len(log) : /\ ~Shows(log[i]) /\ log[i].kind # "Overflow"
                                             /\ log[i].name \in delta.deleted
  <1>1. CASE Len(log) > RescanThreshold
    <2>1. /\ Coalesce(log).needsFullRescan
          /\ Coalesce(log).deleted =
                 IF \A i \in 1..Len(log) : log[i].kind \in {"Deleted", "MovedFrom"}
                 THEN {log[i].name : i \in 1..Len(log)} ELSE {}
      BY <1>1 DEF Coalesce, BurstDelta, EmptyDelta
    <2> QED BY <2>1 DEF Shows
  <1>2. CASE ~(Len(log) > RescanThreshold)
    <2> DEFINE first == CHOOSE i \in Whole(log) : \A k \in Whole(log) : i <= k
    <2>1. Whole(log) \in SUBSET Nat
      BY DEF Whole
    <2>2. \E i \in Whole(log) : \A k \in Whole(log) : i <= k
      BY <1>2, <2>1, LeastNumber
    <2>3. first \in Whole(log)
      BY <2>2
    <2> HIDE DEF first
    <2>4. log[first].kind # "SelfGone"
      BY <2>3 DEF Whole
    <2>5. Coalesce(log) = IF log[first].kind = "SelfGone" THEN [EmptyDelta EXCEPT !.selfGone = TRUE]
                          ELSE [EmptyDelta EXCEPT !.needsFullRescan = TRUE]
      BY <1>2 DEF Coalesce, first
    <2>6. Coalesce(log).needsFullRescan /\ Coalesce(log).deleted = {}
      BY <2>4, <2>5 DEF EmptyDelta
    <2> QED BY <2>6
  <1> QED BY <1>1, <1>2

(* A delta names as gone only what its events are about. *)
LEMMA GoneAreReported ==
    ASSUME NEW log \in Seq(Event)
    PROVE  \A n \in Names : n \in Gone(Coalesce(log)) => n \in Mentioned(log)
  <1>1. CASE Len(log) > RescanThreshold
    BY <1>1 DEF Coalesce, BurstDelta, EmptyDelta, Gone, Mentioned
  <1>2. CASE ~(Len(log) > RescanThreshold) /\ Whole(log) # {}
    BY <1>2 DEF Coalesce, EmptyDelta, Gone
  <1>3. CASE ~(Len(log) > RescanThreshold) /\ Whole(log) = {}
    BY <1>3, DeltaTells
  <1> QED BY <1>1, <1>2, <1>3

-----------------------------------------------------------------------------
(* A window as it fills *)

(* No event is about the directory as a whole. *)
Plain == {e \in Event : e.kind \notin {"SelfGone", "Overflow"}}

(* One more event takes the window one step further. *)
LEMMA WindowGrows ==
    ASSUME NEW log \in Seq(Plain), NEW e \in Plain
    PROVE  /\ Window(log) \in Windows
           /\ Window(Append(log, e)) = NoteEvent(Window(log), e)
  <1> DEFINE more == Append(log, e)
  <1>1. NoWindow \in Windows
    <2>1. 0 \in Nat /\ [m \in Names |-> "None"] \in [Names -> State]
      BY DEF State
    <2> QED BY <2>1 DEF NoWindow, Windows
  <1>2. \A w \in Windows : \A a \in Plain : NoteEvent(w, a) \in Windows
    BY NoteTells DEF Plain
  <1>3. ASSUME NEW l \in Seq(Plain)
        PROVE  \E g : /\ g[0] = NoWindow
                      /\ \A k \in 1..Len(l) : g[k] = NoteEvent(g[k - 1], l[k])
                      /\ Window(l) = g[Len(l)]
    <2>1. \A i \in 1..Len(l) : l[i] \in Plain
      OBVIOUS
    <2>2. l \in Seq(Event)
      BY DEF Plain
    <2> QED BY <1>1, <1>2, <2>1, <2>2, WindowSteps
  <1>4. /\ more \in Seq(Plain) /\ Len(log) \in Nat /\ Len(more) = Len(log) + 1
        /\ more[Len(log) + 1] = e
        /\ \A i \in 1..Len(log) : more[i] = log[i] /\ log[i] \in Plain /\ i \in 1..Len(more)
    OBVIOUS
  <1> HIDE DEF more
  <1>5. PICK g : /\ g[0] = NoWindow
                 /\ \A k \in 1..Len(log) : g[k] = NoteEvent(g[k - 1], log[k])
                 /\ Window(log) = g[Len(log)]
    BY <1>3
  <1>6. PICK h : /\ h[0] = NoWindow
                 /\ \A k \in 1..Len(more) : h[k] = NoteEvent(h[k - 1], more[k])
                 /\ Window(more) = h[Len(more)]
    BY <1>3, <1>4
  <1> DEFINE Good == {k \in 0..Len(log) : g[k] = h[k] /\ g[k] \in Windows}
  <1>7. 0 \in Good /\ Good \in SUBSET Nat
    BY <1>1, <1>4, <1>5, <1>6
  <1>8. ASSUME NEW k \in 1..Len(log), k - 1 \in Good
        PROVE  k \in Good
    <2>1. /\ g[k] = NoteEvent(g[k - 1], log[k]) /\ h[k] = NoteEvent(h[k - 1], more[k])
          /\ more[k] = log[k] /\ log[k] \in Plain /\ k \in 0..Len(log)
      BY <1>4, <1>5, <1>6
    <2>2. g[k - 1] = h[k - 1] /\ g[k - 1] \in Windows
      BY <1>8
    <2> QED BY <1>2, <2>1, <2>2
  <1> HIDE DEF Good
  <1>9. Len(log) \in Good
    BY <1>4, <1>7, <1>8, StepByStep
  <1>10. g[Len(log)] = h[Len(log)] /\ g[Len(log)] \in Windows
    BY <1>9 DEF Good
  <1>11. h[Len(log) + 1] = NoteEvent(h[Len(log)], e)
    <2>1. Len(log) + 1 \in 1..Len(more) /\ Len(log) + 1 - 1 = Len(log)
      BY <1>4
    <2> QED BY <1>4, <1>6, <2>1
  <1> QED BY <1>4, <1>5, <1>6, <1>10, <1>11 DEF more

(* An empty window knows of nothing. *)
LEMMA WindowOpens == Window(<<>>) = NoWindow
  <1>1. <<>> \in Seq(Event) /\ Len(<<>>) = 0
    OBVIOUS
  <1>2. \A w \in {NoWindow} : \A i \in 1..0 : NoteEvent(w, <<>>[i]) \in {NoWindow}
    OBVIOUS
  <1> QED BY <1>1, <1>2, WindowSteps

(* Whatever the kernel reports, the delta is one. *)
THEOREM DeltasAreDeltas ==
    ASSUME NEW log \in Seq(Event)
    PROVE  Coalesce(log) \in Delta
  <1>1. EmptyDelta \in Delta
    BY DEF EmptyDelta, Delta
  <1>2. CASE Len(log) > RescanThreshold
    <2> DEFINE gone == IF \A i \in 1..Len(log) : log[i].kind \in {"Deleted", "MovedFrom"}
                       THEN {log[i].name : i \in 1..Len(log)} ELSE {}
    <2>1. \A i \in 1..Len(log) : log[i] \in Event
      OBVIOUS
    <2>2. \A e \in Event : e.kind \in {"Deleted", "MovedFrom"} => e.name \in Names
      BY DEF Event
    <2>3. gone \in SUBSET Names
      BY <2>1, <2>2
    <2>4. Coalesce(log) = [EmptyDelta EXCEPT !.needsFullRescan = TRUE, !.deleted = gone]
      BY <1>2 DEF Coalesce, BurstDelta
    <2> HIDE DEF gone
    <2> QED BY <2>3, <2>4 DEF EmptyDelta, Delta
  <1>3. CASE ~(Len(log) > RescanThreshold) /\ Whole(log) = {}
    <2> DEFINE w == Window(log)
               made == WindowDelta(w)
    <2>1. Coalesce(log) = made
      BY <1>3 DEF Coalesce
    <2> HIDE DEF w
    <2>2. \A state : InState(w, state) \in SUBSET Names
      BY DEF InState
    <2>3. made \in Delta
      BY <2>2 DEF WindowDelta, EmptyDelta, Delta
    <2> QED BY <2>1, <2>3
  <1>4. CASE ~(Len(log) > RescanThreshold) /\ Whole(log) # {}
    <2>1. \/ Coalesce(log) = [EmptyDelta EXCEPT !.selfGone = TRUE]
          \/ Coalesce(log) = [EmptyDelta EXCEPT !.needsFullRescan = TRUE]
      BY <1>4 DEF Coalesce
    <2> QED BY <2>1 DEF EmptyDelta, Delta
  <1> QED BY <1>2, <1>3, <1>4
=============================================================================
