------------------------------ MODULE Panefile ------------------------------
(***************************************************************************)
(* The components that share no state with one another, each in a module   *)
(* of its own, put together for TLC: every behaviour here is a behaviour   *)
(* of one of the machines in Machines.  The variables are a pool that the  *)
(* machine in question uses as its own, so a machine costs the states it   *)
(* has and nothing more; what a machine does, its bounds included, stands  *)
(* in its module.  A machine that is proved about in this module has its   *)
(* constants here, for any values its assumption allows; the others have   *)
(* those of a small instance.                                              *)
(***************************************************************************)
EXTENDS Integers, Sequences, TLC, TLAPS, SequenceTheorems, FiniteSetTheorems

CONSTANT Machines          \* those that are looked at
CONSTANT WatchedNames       \* the names in the directory of a window
CONSTANT WatchedBurst       \* how many events are a burst there
CONSTANT WatchedEvents      \* how many there are
CONSTANT FindQueries        \* what is searched for
CONSTANT FindTree           \* the directories of a tree
CONSTANT FindSkipped        \* those that are not walked
CONSTANT FindHits           \* what a search finds in each
CONSTANT FindLimit          \* how much it may find
CONSTANT FindSearches       \* how many searches there are
CONSTANT PreviewFiles       \* what the cursor can be on
CONSTANT PreviewErrors      \* of it, what cannot be read
CONSTANT PreviewFolders     \* of it, the folders
CONSTANT PreviewsKept       \* how many previews are kept
CONSTANT PreviewLoads       \* how many are loaded
CONSTANT PreviewEdits       \* how often a file changes
CONSTANT FileKinds          \* what each file is
CONSTANT LargeFiles         \* the files too large to be shown
CONSTANT LockedFiles        \* those that cannot be read
CONSTANT MovingFiles        \* the pictures that move
CONSTANT DocumentPages      \* how many pages each document has
CONSTANT PdfPlugin          \* documents can be shown
CONSTANT ZoomSteps          \* how far a preview zooms either way
CONSTANT PageRequests       \* how many pages are asked for
CONSTANT KeyLetters         \* the letters that are typed
CONSTANT KeyActions         \* what can be bound
CONSTANT KeyDefaults        \* the built-in bindings
CONSTANT KeyFiles           \* what hotkeys.toml says, one time or another
CONSTANT AskPanels          \* the panels that ask
CONSTANT AskFolders         \* the folders they show
CONSTANT AskNames           \* the names in them
CONSTANT AskInside          \* the folders below each
CONSTANT AskVolumes         \* the volume of each
CONSTANT AskConfigs         \* what config.toml says of confirmations
CONSTANT AskBegun           \* what is under way already
CONSTANT AskFiles           \* how many files there are at most
CONSTANT AskShown           \* how many questions are shown
CONSTANT Launched           \* the launches
CONSTANT LaunchedAlone      \* of them, those with --new-instance
CONSTANT LaunchedByBus      \* those the session bus makes
CONSTANT LaunchedOld        \* those of another version
CONSTANT LaunchKills        \* how many are killed
CONSTANT OfferChanges       \* how often others and the user change something
CONSTANT OfferMakes         \* how often the user makes Panefile the default
CONSTANT MimeApplications   \* desktop ids
CONSTANT MimeUs             \* that of Panefile
CONSTANT MimeLists          \* the mimeapps files
CONSTANT MimeUserFile       \* the user's own
CONSTANT MimeUserLists      \* those in the user's directories
CONSTANT MimeChanges        \* how often others change something
CONSTANT MimeEntries        \* how many applications a line names
CONSTANT PanelRows          \* the names of a panel in the order it shows them
CONSTANT DottedRows         \* those it may hide
CONSTANT NoRow              \* the empty QString
CONSTANT RowLosses          \* how many files go
CONSTANT ThumbRequests      \* how many tasks the thumbnail cache starts
CONSTANT ThumbEdits         \* how often the file changes

VARIABLES
    which,  \* the machine whose behaviour this is
    s1, s2, s3, s4, s5, s6, s7, s8, s9, s10, s11, s12, s13, s14, s15, s16,
    s17, s18, s19, s20, s21, s22, s23

pool == <<which, s1, s2, s3, s4, s5, s6, s7, s8, s9, s10, s11, s12, s13, s14,
          s15, s16, s17, s18, s19, s20, s21, s22, s23>>

(* The slots after the k-th are those a machine of k variables does not    *)
(* use: they stay empty.                                                   *)
After22 == <<s23>>
Empty22 == s23 = 0
After21 == <<s22, After22>>
Empty21 == s22 = 0 /\ Empty22
After20 == <<s21, After21>>
Empty20 == s21 = 0 /\ Empty21
After19 == <<s20, After20>>
Empty19 == s20 = 0 /\ Empty20
After18 == <<s19, After19>>
Empty18 == s19 = 0 /\ Empty19
After17 == <<s18, After18>>
Empty17 == s18 = 0 /\ Empty18
After16 == <<s17, After17>>
Empty16 == s17 = 0 /\ Empty17
After15 == <<s16, After16>>
Empty15 == s16 = 0 /\ Empty16
After14 == <<s15, After15>>
Empty14 == s15 = 0 /\ Empty15
After13 == <<s14, After14>>
Empty13 == s14 = 0 /\ Empty14
After12 == <<s13, After13>>
Empty12 == s13 = 0 /\ Empty13
After11 == <<s12, After12>>
Empty11 == s12 = 0 /\ Empty12
After10 == <<s11, After11>>
Empty10 == s11 = 0 /\ Empty11
After9 == <<s10, After10>>
Empty9 == s10 = 0 /\ Empty10
After8 == <<s9, After9>>
Empty8 == s9 = 0 /\ Empty9
After7 == <<s8, After8>>
Empty7 == s8 = 0 /\ Empty8
After6 == <<s7, After7>>
Empty6 == s7 = 0 /\ Empty7
After5 == <<s6, After6>>
Empty5 == s6 = 0 /\ Empty6
After4 == <<s5, After5>>
Empty4 == s5 = 0 /\ Empty5
After3 == <<s4, After4>>
Empty3 == s4 = 0 /\ Empty4
After2 == <<s3, After3>>
Empty2 == s3 = 0 /\ Empty3

(* One debounce window of a watched directory, four events long.           *)
Window == INSTANCE WatchWindow WITH
    Names <- WatchedNames, RescanThreshold <- WatchedBurst,
    MaxEvents <- WatchedEvents, before <- s1, now <- s2, touched <- s3,
    log <- s4

(* What counts as a burst is a number of events. *)
ASSUME WindowAssumption == Window!WatchDeltaAssumption

(* Nothing is known at first, and nothing has changed. *)
LEMMA WindowOpensAgreed ==
    ASSUME Window!Init
    PROVE  Window!TypeOK /\ Window!WindowInv
  <1>1. s4 = <<>> /\ Len(s4) = 0 /\ s4 \in Seq(Window!Event) /\ s4 \in Seq(Window!Plain)
    BY DEF Window!Init
  <1>2. Window!TypeOK
    BY <1>1, WindowAssumption, Window!DeltasAreDeltas DEF Window!Init, Window!TypeOK
  <1>3. \A n \in WatchedNames : Window!Window(s4).states[n] = "None"
    BY <1>1, WindowAssumption, Window!WindowOpens DEF Window!NoWindow
  <1>4. Window!WindowAgrees(s4, s2, s3)
    BY <1>3 DEF Window!Init, Window!WindowAgrees
  <1>5. Window!EchoAgrees(s4, s2)
    BY <1>1 DEF Window!Init, Window!EchoAgrees, Window!Mentioned
  <1> QED BY <1>1, <1>2, <1>4, <1>5 DEF Window!WindowInv

(* One report more, and the name it is about is there or not. *)
LEMMA WindowTakesOne ==
    ASSUME NEW l \in Seq(Window!Plain), NEW there, NEW fresh, NEW e \in Window!Plain, NEW there2, NEW fresh2,
           Window!WindowAgrees(l, there, fresh), Window!EchoAgrees(l, there),
           IF Window!Shows(e) THEN there2 = there \cup {e.name} /\ fresh2 = fresh \cup {e.name}
                              ELSE there2 = there \ {e.name} /\ fresh2 = fresh \ {e.name},
           e.kind = "Created" => e.name \notin there
    PROVE  /\ Append(l, e) \in Seq(Window!Plain)
           /\ Window!WindowAgrees(Append(l, e), there2, fresh2)
           /\ Window!EchoAgrees(Append(l, e), there2)
  <1> DEFINE more == Append(l, e)
  <1>1. /\ more \in Seq(Window!Plain) /\ Len(l) \in Nat /\ Len(more) = Len(l) + 1 /\ more[Len(more)] = e
        /\ \A i \in 1..Len(l) : more[i] = l[i] /\ i \in 1..Len(more) /\ i < Len(more)
        /\ Len(more) \in 1..Len(more)
        /\ \A i \in 1..Len(more) : i = Len(more) \/ i \in 1..Len(l)
    OBVIOUS
  <1> HIDE DEF more
  <1>2. Window!Window(l) \in Window!Windows /\ Window!Window(more) = Window!NoteEvent(Window!Window(l), e)
    BY WindowAssumption, Window!WindowGrows DEF more
  <1>3. e \in Window!Event /\ e.kind \notin {"SelfGone", "Overflow"} /\ e = Window!Report(e.kind, e.name)
        /\ e.kind \in {"Created", "Deleted", "Modified", "MovedFrom", "MovedTo"} /\ e.name \in WatchedNames
    BY DEF Window!Plain, Window!Event, Window!Report
  <1>4. /\ \A n : Window!MovedReplaced(l, n) => Window!MovedReplaced(more, n)
        /\ \A n : Window!MovedReplacedDeleted(l, n) => Window!MovedReplacedDeleted(more, n)
        /\ \A n : (\E i \in 1..Len(l) : l[i] = Window!Report("MovedFrom", n))
                  => \E i \in 1..Len(more) : more[i] = Window!Report("MovedFrom", n)
        /\ \A n : Window!MovedReplacedDeleted(l, n) => Window!MovedReplaced(l, n)
    <2>1. \A n : Window!MovedReplaced(l, n) => Window!MovedReplaced(more, n)
      BY <1>1 DEF Window!MovedReplaced
    <2>2. \A n : Window!MovedReplacedDeleted(l, n) => Window!MovedReplacedDeleted(more, n)
      BY <1>1 DEF Window!MovedReplacedDeleted
    <2>3. \A n : (\E i \in 1..Len(l) : l[i] = Window!Report("MovedFrom", n))
                 => \E i \in 1..Len(more) : more[i] = Window!Report("MovedFrom", n)
      BY <1>1
    <2>4. \A n : Window!MovedReplacedDeleted(l, n) => Window!MovedReplaced(l, n)
      BY DEF Window!MovedReplacedDeleted, Window!MovedReplaced
    <2> QED BY <2>1, <2>2, <2>3, <2>4
  <1> DEFINE Was(n) == Window!Window(l).states[n]
             Is(n)  == Window!Window(more).states[n]
             Agrees(n) ==
                 /\ Is(n) \in {"Created", "Modified", "MovedTo"} => n \in there2
                 /\ Is(n) \in {"Deleted", "MovedFrom"} => n \notin there2
                 /\ Is(n) = "None" => /\ n \notin fresh2
                                      /\ (n \in there2 <=> n \in s1) \/ Window!MovedReplacedDeleted(more, n)
                 /\ Is(n) = "Created" => n \notin s1 \/ Window!MovedReplaced(more, n)
                 /\ Is(n) = "MovedFrom" => \E i \in 1..Len(more) : more[i] = Window!Report("MovedFrom", n)
  <1>5. ASSUME NEW n \in WatchedNames
        PROVE  /\ Was(n) \in {"Created", "Modified", "MovedTo"} => n \in there
               /\ Was(n) \in {"Deleted", "MovedFrom"} => n \notin there
               /\ Was(n) = "None" => /\ n \notin fresh
                                     /\ (n \in there <=> n \in s1) \/ Window!MovedReplacedDeleted(l, n)
               /\ Was(n) = "Created" => n \notin s1 \/ Window!MovedReplaced(l, n)
               /\ Was(n) = "MovedFrom" => \E i \in 1..Len(l) : l[i] = Window!Report("MovedFrom", n)
               /\ Was(n) \in Window!State
    BY <1>2 DEF Window!WindowAgrees, Window!Windows
  <1>6. ASSUME NEW n \in WatchedNames, n # e.name
        PROVE  Agrees(n)
    <2>1. Is(n) = Was(n)
      BY <1>2, <1>3, <1>6, WindowAssumption, Window!NoteTells
    <2>2. (n \in there2 <=> n \in there) /\ (n \in fresh2 <=> n \in fresh)
      BY <1>6
    <2> HIDE DEF Is, Was
    <2> QED BY <1>4, <1>5, <2>1, <2>2
  <1>7. Agrees(e.name)
    <2> DEFINE n == e.name
    <2>1. \A state : Window!Note(Window!Window(l), n, state).states[n] = state
      BY <1>2, <1>3 DEF Window!Note, Window!Windows
    <2>2. Window!CancelOut(Window!Window(l), n).states[n] = "None"
      BY <1>2, <1>3 DEF Window!CancelOut, Window!Windows
    <2>3. CASE e.kind = "Created"
      <3>1. Is(n) = IF Was(n) = "Deleted" THEN "Modified" ELSE "Created"
        <4>1. Window!NoteEvent(Window!Window(l), e) = Window!Note(Window!Window(l), n, IF Was(n) = "Deleted" THEN "Modified" ELSE "Created")
          BY <2>3 DEF Window!NoteEvent
        <4> QED BY <1>2, <2>1, <4>1
      <3>2. n \in there2 /\ n \notin there
        BY <2>3 DEF Window!Shows
      <3>3. Was(n) = "MovedFrom" => Window!MovedReplaced(more, n)
        BY <1>1, <1>3, <1>5, <2>3 DEF Window!MovedReplaced
      <3> HIDE DEF Is, Was
      <3> QED BY <1>3, <1>4, <1>5, <3>1, <3>2, <3>3 DEF Window!State
    <2>4. CASE e.kind = "Deleted"
      <3>1. Is(n) = IF Was(n) = "Created" THEN "None" ELSE "Deleted"
        <4>1. Window!NoteEvent(Window!Window(l), e) = IF Was(n) = "Created" THEN Window!CancelOut(Window!Window(l), n)
                                                      ELSE Window!Note(Window!Window(l), n, "Deleted")
          BY <2>4 DEF Window!NoteEvent
        <4> QED BY <1>2, <2>1, <2>2, <4>1
      <3>2. n \notin there2 /\ n \notin fresh2
        BY <2>4 DEF Window!Shows
      <3>3. Window!MovedReplaced(l, n) => Window!MovedReplacedDeleted(more, n)
        BY <1>1, <1>3, <2>4 DEF Window!MovedReplaced, Window!MovedReplacedDeleted
      <3> HIDE DEF Is, Was
      <3> QED BY <1>3, <1>5, <3>1, <3>2, <3>3
    <2>5. CASE e.kind = "Modified"
      <3>1. Is(n) = IF Was(n) = "Created" THEN "Created" ELSE "Modified"
        <4>1. Window!NoteEvent(Window!Window(l), e) = IF Was(n) = "Created" THEN Window!Window(l)
                                                      ELSE Window!Note(Window!Window(l), n, "Modified")
          BY <2>5 DEF Window!NoteEvent
        <4> QED BY <1>2, <2>1, <4>1
      <3>2. n \in there2
        BY <2>5 DEF Window!Shows
      <3> HIDE DEF Is, Was
      <3> QED BY <1>3, <1>4, <1>5, <3>1, <3>2
    <2>6. CASE e.kind = "MovedFrom"
      <3>1. Is(n) = "MovedFrom"
        BY <1>2, <2>1, <2>6 DEF Window!NoteEvent
      <3>2. n \notin there2
        BY <2>6 DEF Window!Shows
      <3>3. \E i \in 1..Len(more) : more[i] = Window!Report("MovedFrom", n)
        BY <1>1, <1>3, <2>6
      <3> HIDE DEF Is, Was
      <3> QED BY <3>1, <3>2, <3>3
    <2>7. CASE e.kind = "MovedTo"
      <3>1. Is(n) = "MovedTo"
        BY <1>2, <2>1, <2>7 DEF Window!NoteEvent
      <3>2. n \in there2
        BY <2>7 DEF Window!Shows
      <3> HIDE DEF Is, Was
      <3> QED BY <3>1, <3>2
    <2> QED BY <1>3, <2>3, <2>4, <2>5, <2>6, <2>7
  <1>8. Window!WindowAgrees(more, there2, fresh2)
    BY <1>6, <1>7 DEF Window!WindowAgrees
  <1>9. Window!EchoAgrees(more, there2)
    <2>1. SUFFICES ASSUME \A i \in 1..Len(more) : ~Window!Shows(more[i])
                   PROVE  there2 = s1 \ Window!Mentioned(more)
      BY DEF Window!EchoAgrees
    <2>2. ~Window!Shows(e) /\ \A i \in 1..Len(l) : ~Window!Shows(l[i])
      BY <1>1, <2>1
    <2>3. there2 = there \ {e.name} /\ there = s1 \ Window!Mentioned(l)
      BY <2>2 DEF Window!EchoAgrees
    <2>4. Window!Mentioned(more) = Window!Mentioned(l) \cup {e.name}
      BY <1>1 DEF Window!Mentioned
    <2> QED BY <2>3, <2>4
  <1> QED BY <1>1, <1>8, <1>9 DEF more

(* Whatever happens in the directory, the window keeps up with it. *)
LEMMA WindowStep ==
    ASSUME Window!TypeOK, Window!WindowInv, [Window!Next]_Window!vars
    PROVE  Window!TypeOK' /\ Window!WindowInv'
  <1> USE DEF Window!TypeOK, Window!WindowInv
  <1>1. CASE UNCHANGED Window!vars
    BY <1>1 DEF Window!vars, Window!WindowAgrees, Window!EchoAgrees
  <1>2. ASSUME NEW n \in WatchedNames, NEW kind \in {"Created", "Deleted", "Modified", "MovedFrom", "MovedTo"}
        PROVE  /\ Window!Report(kind, n) \in Window!Plain /\ Window!Report(kind, n).name = n /\ Window!Report(kind, n).kind = kind
               /\ Window!Shows(Window!Report(kind, n)) <=> kind \in {"Created", "Modified", "MovedTo"}
    BY DEF Window!Report, Window!Plain, Window!Event, Window!Shows
  <1>3. ASSUME NEW l \in Seq(Window!Plain)
        PROVE  l \in Seq(Window!Event) /\ Window!Coalesce(l) \in Window!Delta
    <2>1. l \in Seq(Window!Event)
      BY DEF Window!Plain
    <2> QED BY <2>1, WindowAssumption, Window!DeltasAreDeltas
  <1>4. ASSUME s1' = s1, s2' \in SUBSET WatchedNames, s3' \in SUBSET s2', s4' \in Seq(Window!Plain),
               Window!WindowAgrees(s4', s2', s3'), Window!EchoAgrees(s4', s2')
        PROVE  Window!TypeOK' /\ Window!WindowInv'
    <2>1. Window!TypeOK'
      BY <1>3, <1>4
    <2>2. Window!WindowAgrees(s4, s2, s3)' /\ Window!EchoAgrees(s4, s2)'
      BY <1>4 DEF Window!WindowAgrees, Window!EchoAgrees
    <2> QED BY <1>4, <2>1, <2>2
  <1>5. ASSUME NEW n \in WatchedNames, NEW kind \in {"Created", "Deleted", "Modified", "MovedFrom", "MovedTo"},
               s1' = s1, s4' = Append(s4, Window!Report(kind, n)),
               kind = "Created" => n \notin s2,
               IF kind \in {"Created", "Modified", "MovedTo"}
               THEN s2' = s2 \cup {n} /\ s3' = s3 \cup {n}
               ELSE s2' = s2 \ {n} /\ s3' = s3 \ {n}
        PROVE  Window!TypeOK' /\ Window!WindowInv'
    <2> DEFINE e == Window!Report(kind, n)
    <2>1. /\ e \in Window!Plain /\ e.name = n /\ e.kind = kind
          /\ Window!Shows(e) <=> kind \in {"Created", "Modified", "MovedTo"}
      BY <1>2
    <2> HIDE DEF e
    <2>2. /\ IF Window!Shows(e) THEN s2' = s2 \cup {e.name} /\ s3' = s3 \cup {e.name}
                                ELSE s2' = s2 \ {e.name} /\ s3' = s3 \ {e.name}
          /\ e.kind = "Created" => e.name \notin s2
      BY <1>5, <2>1
    <2>3. /\ Append(s4, e) \in Seq(Window!Plain) /\ Window!WindowAgrees(Append(s4, e), s2', s3')
          /\ Window!EchoAgrees(Append(s4, e), s2')
      BY <2>1, <2>2, WindowTakesOne
    <2>4. s4' = Append(s4, e)
      BY <1>5 DEF e
    <2>5. s2' \in SUBSET WatchedNames /\ s3' \in SUBSET s2'
      BY <1>5
    <2> QED BY <1>4, <1>5, <2>3, <2>4, <2>5
  <1>6. ASSUME NEW n \in WatchedNames, s1' = s1, Window!Create(n)
        PROVE  Window!TypeOK' /\ Window!WindowInv'
    <2>1. PICK kind \in {"Created", "MovedTo"} : s4' = Append(s4, Window!Report(kind, n))
      BY <1>6 DEF Window!Create
    <2> QED BY <1>5, <1>6, <2>1 DEF Window!Create
  <1>7. ASSUME NEW n \in WatchedNames, s1' = s1, Window!Remove(n)
        PROVE  Window!TypeOK' /\ Window!WindowInv'
    <2>1. PICK kind \in {"Deleted", "MovedFrom"} : s4' = Append(s4, Window!Report(kind, n))
      BY <1>7 DEF Window!Remove
    <2> QED BY <1>5, <1>7, <2>1 DEF Window!Remove
  <1>8. ASSUME NEW n \in WatchedNames, s1' = s1, Window!Modify(n) \/ Window!ReplaceBy(n)
        PROVE  Window!TypeOK' /\ Window!WindowInv'
    <2>1. PICK kind \in {"Modified", "MovedTo"} : s4' = Append(s4, Window!Report(kind, n))
      BY <1>8 DEF Window!Modify, Window!ReplaceBy
    <2>2. s2' = s2 \cup {n} /\ s3' = s3 \cup {n}
      BY <1>8 DEF Window!Modify, Window!ReplaceBy
    <2> QED BY <1>5, <1>8, <2>1, <2>2
  <1>9. ASSUME NEW n \in WatchedNames, NEW m \in WatchedNames, s1' = s1, Window!Rename(n, m)
        PROVE  Window!TypeOK' /\ Window!WindowInv'
    <2> DEFINE e == Window!Report("MovedFrom", n)
               a == Window!Report("MovedTo", m)
               there == s2 \ {n}
               fresh == s3 \ {n}
               first == Append(s4, e)
    <2>1. /\ e \in Window!Plain /\ e.name = n /\ e.kind = "MovedFrom" /\ ~Window!Shows(e)
          /\ a \in Window!Plain /\ a.name = m /\ a.kind = "MovedTo" /\ Window!Shows(a)
      BY <1>2
    <2> HIDE DEF e, a
    <2>2. first \in Seq(Window!Plain) /\ Window!WindowAgrees(first, there, fresh) /\ Window!EchoAgrees(first, there)
      BY <2>1, WindowTakesOne
    <2>3. s2' = there \cup {m} /\ s3' = fresh \cup {m}
      BY <1>9 DEF Window!Rename
    <2>4. s4' = Append(first, a)
      <3>1. s4' = s4 \o <<e, a>>
        BY <1>9 DEF Window!Rename, e, a
      <3>2. s4 \in Seq(Window!Plain)
        OBVIOUS
      <3> QED BY <2>1, <3>1, <3>2
    <2>5. s2' \in SUBSET WatchedNames /\ s3' \in SUBSET s2'
      BY <1>9 DEF Window!Rename
    <2> HIDE DEF there, fresh, first
    <2>6. /\ Append(first, a) \in Seq(Window!Plain) /\ Window!WindowAgrees(Append(first, a), s2', s3')
          /\ Window!EchoAgrees(Append(first, a), s2')
      BY <2>1, <2>2, <2>3, WindowTakesOne
    <2> QED BY <1>4, <1>9, <2>4, <2>5, <2>6
  <1> QED BY <1>1, <1>6, <1>7, <1>8, <1>9 DEF Window!Next

(* What the window agrees with, its delta tells. *)
LEMMA WindowIsTold ==
    ASSUME Window!TypeOK, Window!WindowInv
    PROVE  Window!DeltaIsExact /\ Window!ChangesAreSeen /\ Window!EchoTellsAll
  <1> USE DEF Window!TypeOK, Window!WindowInv
  <1>1. s4 \in Seq(Window!Event) /\ Window!Whole(s4) = {} /\ \A i \in 1..Len(s4) : s4[i] \in Window!Plain
    BY DEF Window!Plain, Window!Whole
  <1>2. CASE ~(Len(s4) > WatchedBurst)
    <2> DEFINE w == Window!Window(s4)
               s(n) == w.states[n]
    <2>1. Window!Outcome = Window!WindowDelta(w)
      BY <1>1, <1>2 DEF Window!Outcome, Window!Coalesce
    <2>2. \A n \in WatchedNames :
              /\ s(n) \in {"Created", "Modified", "MovedTo"} => n \in s2
              /\ s(n) \in {"Deleted", "MovedFrom"} => n \notin s2
              /\ s(n) = "None" => /\ n \notin s3
                                  /\ (n \in s2 <=> n \in s1) \/ Window!MovedReplacedDeleted(s4, n)
      BY DEF Window!WindowAgrees
    <2>3. ASSUME NEW n \in WatchedNames
          PROVE  s(n) \in Window!State
      <3>1. w \in Window!Windows
        BY <1>1, WindowAssumption, Window!WindowTells
      <3> HIDE DEF w
      <3> QED BY <3>1 DEF Window!Windows
    <2> HIDE DEF w
    <2>4. /\ Window!Dropped = Window!InState(w, "Deleted") \cup Window!InState(w, "MovedFrom")
          /\ Window!Refreshed = Window!InState(w, "Created") \cup Window!InState(w, "Modified") \cup Window!InState(w, "MovedTo")
          /\ Window!Outcome.needsFullRescan = FALSE
      BY <2>1 DEF Window!Dropped, Window!Refreshed, Window!WindowDelta, Window!EmptyDelta
    <2>5. \A n \in WatchedNames : /\ n \in Window!Dropped <=> s(n) \in {"Deleted", "MovedFrom"}
                                  /\ n \in Window!Refreshed <=> s(n) \in {"Created", "Modified", "MovedTo"}
      BY <2>4 DEF Window!InState
    <2> HIDE DEF s
    <2>6. Window!DeltaIsExact
      BY <2>2, <2>3, <2>5 DEF Window!DeltaIsExact, Window!Listed, Window!State
    <2>7. Window!ChangesAreSeen
      BY <2>2, <2>3, <2>5 DEF Window!ChangesAreSeen, Window!State
    <2> QED BY <2>4, <2>6, <2>7 DEF Window!EchoTellsAll
  <1>3. CASE Len(s4) > WatchedBurst
    <2>1. /\ Window!Outcome.needsFullRescan
          /\ Window!Outcome.deleted = IF \A i \in 1..Len(s4) : s4[i].kind \in {"Deleted", "MovedFrom"}
                                      THEN Window!Mentioned(s4) ELSE {}
      BY <1>3 DEF Window!Outcome, Window!Coalesce, Window!BurstDelta, Window!EmptyDelta, Window!Mentioned
    <2>2. ASSUME Window!Outcome.deleted # {}
          PROVE  s2 = s1 \ Window!Outcome.deleted
      <3>1. \A i \in 1..Len(s4) : ~Window!Shows(s4[i])
        BY <2>1, <2>2 DEF Window!Shows
      <3> QED BY <2>1, <2>2, <3>1 DEF Window!EchoAgrees
    <2> QED BY <2>1, <2>2 DEF Window!DeltaIsExact, Window!ChangesAreSeen, Window!EchoTellsAll
  <1> QED BY <1>2, <1>3

(* However a window's events are coalesced, for any names, any threshold
   and any number of events, the delta tells what became of the directory. *)
THEOREM DeltasAlwaysTell ==
    Window!Spec => [](Window!TypeOK /\ Window!WindowInv /\ Window!DeltaIsExact /\ Window!ChangesAreSeen /\ Window!EchoTellsAll)
  <1>1. Window!Init => Window!TypeOK /\ Window!WindowInv
    BY WindowOpensAgreed
  <1>2. Window!TypeOK /\ Window!WindowInv /\ [Window!Next]_Window!vars => Window!TypeOK' /\ Window!WindowInv'
    BY WindowStep
  <1>3. Window!TypeOK /\ Window!WindowInv => Window!DeltaIsExact /\ Window!ChangesAreSeen /\ Window!EchoTellsAll
    BY WindowIsTold
  <1> QED BY <1>1, <1>2, <1>3, PTL DEF Window!Spec

(* Two queries over a tree of three directories, one of them skipped.      *)
SomeHits == [q \in {"", "a"} |->
               [d \in {"r", ".git", "d"} |->
                  CASE d = ".git" -> {"g"}
                    [] d = "r"    -> IF q = "" THEN {"x", "d"} ELSE {}
                    [] d = "d"    -> IF q = "" THEN {"da", "z"} ELSE {"da"}]]
Find == INSTANCE Finder WITH
    Queries <- FindQueries, Directories <- FindTree, Skipped <- FindSkipped,
    Hits <- FindHits, MaxResults <- FindLimit, MaxSearches <- FindSearches,
    open <- s1, query <- s2, debounce <- s3, refresh <- s4, live <- s5,
    searches <- s6, tasks <- s7, cancelled <- s8, posts <- s9,
    collected <- s10, dirty <- s11, rows <- s12

(* Sizes of sets are the finder's own here. *)
LEMMA FinderSizes ==
    \A S : Find!Cardinality(S) = Cardinality(S) /\ (Find!IsFiniteSet(S) <=> IsFiniteSet(S))
  <1>1. \A S : Find!IsFiniteSet(S) <=> IsFiniteSet(S)
    BY DEF Find!IsFiniteSet, IsFiniteSet
  <1>2. \A S : Find!Cardinality(S) = Cardinality(S)
    BY DEF Find!Cardinality, Cardinality
  <1> QED BY <1>1, <1>2

(* The empty set has no elements. *)
LEMMA FinderNone == Find!IsFiniteSet({}) /\ Find!Cardinality({}) = 0
  BY FinderSizes, FS_EmptySet

(* A part of a finite set is finite. *)
LEMMA FinderPart ==
    ASSUME NEW S, Find!IsFiniteSet(S), NEW T \in SUBSET S
    PROVE  Find!IsFiniteSet(T)
  BY FinderSizes, FS_Subset

(* Sets with nothing in common have as many elements as both. *)
LEMMA FinderJoin ==
    ASSUME NEW S, NEW T, Find!IsFiniteSet(S), Find!IsFiniteSet(T), S \cap T = {}
    PROVE  /\ Find!IsFiniteSet(S \cup T) /\ Find!Cardinality(S) \in Nat /\ Find!Cardinality(T) \in Nat
           /\ Find!Cardinality(S \cup T) = Find!Cardinality(S) + Find!Cardinality(T)
  <1>1. IsFiniteSet(S) /\ IsFiniteSet(T)
    BY FinderSizes
  <1>2. /\ IsFiniteSet(S \cup T)
        /\ Cardinality(S \cup T) = Cardinality(S) + Cardinality(T) - Cardinality({})
    BY <1>1, FS_Union
  <1>3. Cardinality(S) \in Nat /\ Cardinality(T) \in Nat /\ Cardinality({}) = 0
    BY <1>1, FS_CardinalityType, FS_EmptySet
  <1> QED BY <1>2, <1>3, FinderSizes

ASSUME FinderAssumption ==
    /\ "" \in FindQueries /\ Find!Walked # {} /\ FindLimit \in Nat \ {0}
    /\ FindHits \in [FindQueries -> [FindTree -> SUBSET Find!AllHits]]
    /\ \A q \in FindQueries : \A d \in FindTree : Find!IsFiniteSet(FindHits[q][d])
    /\ \A q \in FindQueries : \A d, e \in FindTree : d # e => FindHits[q][d] \cap FindHits[q][e] = {}

(* What is kept of a directory's hits are hits in it: all of them, or so
   many that there are as many as there may be. *)
LEMMA FinderKept ==
    ASSUME NEW t \in Find!Tasks, NEW d \in t.pending, NEW k \in Find!Kept(t, d), t.found < FindLimit
    PROVE  /\ k \subseteq FindHits[t.query][d] /\ Find!IsFiniteSet(k) /\ Find!Cardinality(k) \in Nat
           /\ k = FindHits[t.query][d] \/ t.found + Find!Cardinality(k) = FindLimit
           /\ t.found + Find!Cardinality(k) <= FindLimit
  <1> DEFINE hits == FindHits[t.query][d]
  <1>1. t.query \in FindQueries /\ d \in FindTree /\ t.found \in Nat
    BY DEF Find!Tasks, Find!Walked
  <1>2. Find!IsFiniteSet(hits)
    BY <1>1, FinderAssumption
  <1>3. k \in SUBSET hits /\ (k = hits \/ Find!Cardinality(k) = FindLimit - t.found)
        /\ (t.found + Find!Cardinality(hits) > FindLimit => Find!Cardinality(k) = FindLimit - t.found)
        /\ (~(t.found + Find!Cardinality(hits) > FindLimit) => k = hits)
    BY DEF Find!Kept
  <1> HIDE DEF hits
  <1>4. Find!IsFiniteSet(k)
    BY <1>2, <1>3, FinderPart
  <1>5. Find!Cardinality(k) \in Nat
    <2>1. k \cap {} = {}
      OBVIOUS
    <2> QED BY <1>4, <2>1, FinderNone, FinderJoin
  <1> DEFINE c == Find!Cardinality(k)
             h == Find!Cardinality(hits)
  <1>6. c \in Nat /\ h \in Nat /\ t.found \in Nat /\ FindLimit \in Nat
    <2>1. hits \cap {} = {}
      OBVIOUS
    <2>2. h \in Nat
      BY <1>2, <2>1, FinderNone, FinderJoin
    <2>3. FindLimit \in Nat
      BY FinderAssumption
    <2> QED BY <1>1, <1>5, <2>2, <2>3
  <1>7. /\ k = hits \/ c = FindLimit - t.found
        /\ t.found + h > FindLimit => c = FindLimit - t.found
        /\ ~(t.found + h > FindLimit) => k = hits /\ c = h
    BY <1>3
  <1> HIDE DEF c, h
  <1>8. (k = hits \/ t.found + c = FindLimit) /\ t.found + c <= FindLimit
    BY <1>6, <1>7
  <1> QED BY <1>3, <1>4, <1>5, <1>8 DEF hits, c

(* The first element of a sequence and the others. *)
LEMMA FinderTail ==
    ASSUME NEW T, NEW s \in Seq(T), s # <<>>
    PROVE  /\ Head(s) = s[1] /\ 1 \in DOMAIN s /\ Head(s) \in T /\ Tail(s) \in Seq(T)
           /\ \A i \in DOMAIN Tail(s) : i + 1 \in DOMAIN s /\ Tail(s)[i] = s[i + 1]
           /\ \A i \in DOMAIN s : i # 1 => i - 1 \in DOMAIN Tail(s) /\ Tail(s)[i - 1] = s[i]
           /\ DOMAIN s \subseteq Nat /\ DOMAIN Tail(s) \subseteq Nat
  OBVIOUS

(* A sequence and what is put at its end. *)
LEMMA FinderAppend ==
    ASSUME NEW T, NEW s \in Seq(T), NEW e \in T
    PROVE  /\ Append(s, e) \in Seq(T) /\ Len(s) + 1 \in DOMAIN Append(s, e)
           /\ Append(s, e)[Len(s) + 1] = e
           /\ \A i \in DOMAIN s : i \in DOMAIN Append(s, e) /\ Append(s, e)[i] = s[i] /\ i < Len(s) + 1
           /\ \A i \in DOMAIN Append(s, e) : i \in DOMAIN s \/ i = Len(s) + 1
  OBVIOUS

(* A sequence of which the first element is changed. *)
LEMMA FinderFirst ==
    ASSUME NEW T, NEW s \in Seq(T), s # <<>>, NEW e \in T
    PROVE  /\ [s EXCEPT ![1] = e] \in Seq(T) /\ DOMAIN [s EXCEPT ![1] = e] = DOMAIN s
           /\ [s EXCEPT ![1] = e][1] = e
           /\ \A i \in DOMAIN s : i # 1 => [s EXCEPT ![1] = e][i] = s[i]
  OBVIOUS

(* A search begins: its walk is the last, and those before are given up. *)
FinderBegun(q) ==
    /\ s6' = s6 + 1 /\ s5' = s6 + 1
    /\ s8' = s8 \cup ({s5} \ {0})
    /\ s7' = Append(s7, [id |-> s6 + 1, query |-> q, pending |-> Find!Walked, found |-> 0])
    /\ s10' = {} /\ s12' = {} /\ UNCHANGED s9

(* RestartSearch in these words. *)
LEMMA FinderBegin ==
    ASSUME Find!TypeOK, NEW q \in FindQueries, Find!RestartSearch(q)
    PROVE  FinderBegun(q)
  BY DEF Find!RestartSearch, Find!Search, Find!Cancelled, FinderBegun, Find!TypeOK

(* The types after a search has begun. *)
LEMMA FinderBegunTypes ==
    ASSUME Find!TypeOK, NEW q \in FindQueries, FinderBegun(q)
    PROVE  /\ s6' \in Nat /\ s5' \in 0 .. s6' /\ s7' \in Seq(Find!Tasks)
           /\ s8' \subseteq 1 .. s6' /\ s9' \in Seq(Find!Posts)
           /\ s10' \subseteq Find!AllHits /\ s12' \subseteq Find!AllHits
  <1> DEFINE new == [id |-> s6 + 1, query |-> q, pending |-> Find!Walked, found |-> 0]
  <1>1. new \in Find!Tasks
    BY DEF Find!Tasks, Find!TypeOK
  <1>2. s7' = Append(s7, new)
    BY DEF FinderBegun
  <1> HIDE DEF new
  <1>3. s7' \in Seq(Find!Tasks)
    BY <1>1, <1>2, FinderAppend DEF Find!TypeOK
  <1>4. s6' \in Nat /\ s5' \in 0 .. s6' /\ s8' \subseteq 1 .. s6'
    BY DEF FinderBegun, Find!TypeOK
  <1> QED BY <1>3, <1>4 DEF FinderBegun, Find!TypeOK

(* What a step of the walk does: a walk that was given up ends, or the
   hits kept of a directory are posted and the walk goes on or ends. *)
FinderEnds(t) == t.id \in s8 /\ s7' = Tail(s7) /\ UNCHANGED s9
FinderGoesOn(t, d, k) ==
    /\ t.found + Find!Cardinality(k) < FindLimit /\ t.pending # {d}
    /\ s7' = [s7 EXCEPT ![1] = [t EXCEPT !.pending = @ \ {d}, !.found = @ + Find!Cardinality(k)]]
    /\ s9' = Find!Batched(t, k)
FinderStops(t, d, k) ==
    /\ ~(t.found + Find!Cardinality(k) < FindLimit) \/ t.pending = {d}
    /\ s7' = Tail(s7)
    /\ s9' = Append(Find!Batched(t, k), [of |-> t.id, hits |-> {}, done |-> TRUE])

(* WalkDirectory in these words. *)
LEMMA FinderWalks ==
    ASSUME Find!TypeOK, Find!WalkDirectory
    PROVE  /\ UNCHANGED <<s1, s2, s3, s4, s5, s6, s8, s10, s11, s12>>
           /\ s7 # <<>> /\ Head(s7) \in Find!Tasks /\ Head(s7) = s7[1] /\ 1 \in DOMAIN s7
           /\ \/ FinderEnds(Head(s7))
              \/ /\ Head(s7).id \notin s8
                 /\ \E d \in Head(s7).pending : \E k \in Find!Kept(Head(s7), d) :
                       FinderGoesOn(Head(s7), d, k) \/ FinderStops(Head(s7), d, k)
  <1>1. s7 # <<>> /\ s7 \in Seq(Find!Tasks)
    BY DEF Find!WalkDirectory, Find!TypeOK
  <1>2. Head(s7) \in Find!Tasks /\ Head(s7) = s7[1] /\ 1 \in DOMAIN s7
    BY <1>1, FinderTail
  <1> DEFINE t == Head(s7)
  <1>3. ASSUME t.id \notin s8, NEW d \in t.pending, NEW k \in Find!Kept(t, d),
               LET more == t.found + Find!Cardinality(k) < FindLimit /\ t.pending # {d}
                   rest == [t EXCEPT !.pending = @ \ {d}, !.found = @ + Find!Cardinality(k)]
               IN /\ s7' = IF more THEN [s7 EXCEPT ![1] = rest] ELSE Tail(s7)
                  /\ s9' = IF more THEN Find!Batched(t, k)
                              ELSE Append(Find!Batched(t, k), [of |-> t.id, hits |-> {}, done |-> TRUE])
        PROVE  FinderGoesOn(t, d, k) \/ FinderStops(t, d, k)
    BY <1>3, Zenon DEF FinderGoesOn, FinderStops
  <1>4. UNCHANGED <<s1, s2, s3, s4, s5, s6, s8, s10, s11, s12>>
    BY DEF Find!WalkDirectory, Find!Timers
  <1>5. FinderEnds(t) \/ (/\ t.id \notin s8
                          /\ \E d \in t.pending : \E k \in Find!Kept(t, d) :
                                FinderGoesOn(t, d, k) \/ FinderStops(t, d, k))
    BY <1>3, Zenon DEF Find!WalkDirectory, FinderEnds
  <1> QED BY <1>1, <1>2, <1>4, <1>5

(* The hits that are posted. *)
LEMMA FinderPosted ==
    ASSUME Find!TypeOK, NEW t \in Find!Tasks, NEW d \in t.pending, NEW k \in Find!Kept(t, d), t.found < FindLimit
    PROVE  /\ k \subseteq Find!AllHits
           /\ [of |-> t.id, hits |-> k, done |-> FALSE] \in Find!Posts
           /\ [of |-> t.id, hits |-> {}, done |-> TRUE] \in Find!Posts
           /\ Find!Batched(t, k) \in Seq(Find!Posts)
           /\ Append(Find!Batched(t, k), [of |-> t.id, hits |-> {}, done |-> TRUE]) \in Seq(Find!Posts)
  <1>1. t.id \in Nat /\ t.query \in FindQueries /\ d \in FindTree
    BY DEF Find!Tasks, Find!Walked
  <1>2. k \subseteq Find!AllHits
    <2>1. k \subseteq FindHits[t.query][d]
      BY FinderKept
    <2>2. FindHits[t.query][d] \subseteq Find!AllHits
      BY <1>1, FinderAssumption
    <2> QED BY <2>1, <2>2
  <1> DEFINE batch == [of |-> t.id, hits |-> k, done |-> FALSE]
             end   == [of |-> t.id, hits |-> {}, done |-> TRUE]
  <1>3. batch \in Find!Posts /\ end \in Find!Posts
    BY <1>1, <1>2 DEF Find!Posts
  <1>4. Find!Batched(t, k) = s9 \/ Find!Batched(t, k) = Append(s9, batch)
    BY DEF Find!Batched
  <1> HIDE DEF batch, end
  <1>5. Find!Batched(t, k) \in Seq(Find!Posts)
    BY <1>3, <1>4, FinderAppend DEF Find!TypeOK
  <1>6. Append(Find!Batched(t, k), end) \in Seq(Find!Posts)
    BY <1>3, <1>5, FinderAppend
  <1> QED BY <1>2, <1>3, <1>5, <1>6 DEF batch, end

(* The types and the order of walks and posts are kept by every step. *)
LEMMA FinderTypeStep ==
    ASSUME Find!TypeOK, Find!WalkInv, Find!SearchInv, [Find!Next]_Find!vars
    PROVE  Find!TypeOK'
  <1>1. CASE Find!Start
    <2>0. "" \in FindQueries
      BY FinderAssumption
    <2>1. FinderBegun("")
      BY <1>1, <2>0, FinderBegin DEF Find!Start
    <2>2. s1' \in BOOLEAN /\ s2' \in FindQueries /\ s3' \in BOOLEAN /\ s4' \in BOOLEAN /\ s11' \in BOOLEAN
      BY <1>1, <2>0 DEF Find!Start, Find!TypeOK
    <2> QED BY <2>0, <2>1, <2>2, FinderBegunTypes DEF Find!TypeOK
  <1>2. CASE Find!OnDebounce
    <2>1. FinderBegun(s2) /\ s2 \in FindQueries
      BY <1>2, FinderBegin DEF Find!OnDebounce, Find!TypeOK
    <2>2. s1' \in BOOLEAN /\ s2' \in FindQueries /\ s3' \in BOOLEAN /\ s4' \in BOOLEAN /\ s11' \in BOOLEAN
      BY <1>2 DEF Find!OnDebounce, Find!TypeOK
    <2> QED BY <2>1, <2>2, FinderBegunTypes DEF Find!TypeOK
  <1>3. CASE Find!WalkDirectory
    <2> DEFINE t == Head(s7)
    <2>1. /\ UNCHANGED <<s1, s2, s3, s4, s5, s6, s8, s10, s11, s12>>
          /\ s7 # <<>> /\ t \in Find!Tasks /\ t = s7[1] /\ 1 \in DOMAIN s7 /\ s7 \in Seq(Find!Tasks)
      BY <1>3, FinderWalks DEF Find!TypeOK
    <2>2. Tail(s7) \in Seq(Find!Tasks)
      BY <2>1, FinderTail
    <2>3. s7' \in Seq(Find!Tasks) /\ s9' \in Seq(Find!Posts)
      <3>1. CASE FinderEnds(t)
        BY <2>2, <3>1 DEF FinderEnds, Find!TypeOK
      <3>2. ASSUME t.id \notin s8, NEW d \in t.pending, NEW k \in Find!Kept(t, d),
                   FinderGoesOn(t, d, k) \/ FinderStops(t, d, k)
            PROVE  s7' \in Seq(Find!Tasks) /\ s9' \in Seq(Find!Posts)
        <4>1. t.found < FindLimit
          BY <2>1, <3>2 DEF Find!WalkInv, Find!SearchInv
        <4>2. Find!Cardinality(k) \in Nat
          BY <2>1, <4>1, FinderKept
        <4> DEFINE rest == [t EXCEPT !.pending = @ \ {d}, !.found = @ + Find!Cardinality(k)]
        <4>3. rest \in Find!Tasks
          <5> DEFINE n == t.found + Find!Cardinality(k)
                     p == t.pending \ {d}
                     c == Find!Cardinality(k)
          <5>0. t.found \in Nat /\ t.pending \in SUBSET Find!Walked
            BY <2>1 DEF Find!Tasks
          <5>1. n \in Nat /\ p \in SUBSET Find!Walked
            <6>1. c \in Nat /\ n = t.found + c
              BY <4>2
            <6>2. p \in SUBSET Find!Walked
              BY <5>0
            <6> HIDE DEF c, n, p
            <6> QED BY <5>0, <6>1, <6>2
          <5>2. rest = [t EXCEPT !.pending = p, !.found = n]
            OBVIOUS
          <5> HIDE DEF n, p
          <5> QED BY <2>1, <5>1, <5>2 DEF Find!Tasks
        <4>4. CASE FinderGoesOn(t, d, k)
          <5>1. s7' = [s7 EXCEPT ![1] = rest]
            BY <4>4 DEF FinderGoesOn
          <5> HIDE DEF rest
          <5>2. s7' \in Seq(Find!Tasks)
            BY <2>1, <4>3, <5>1, FinderFirst
          <5>3. Find!Batched(t, k) \in Seq(Find!Posts)
            BY <2>1, <4>1, FinderPosted
          <5>4. s9' = Find!Batched(t, k)
            BY <4>4 DEF FinderGoesOn
          <5> QED BY <5>2, <5>3, <5>4
        <4>5. CASE FinderStops(t, d, k)
          <5>1. Append(Find!Batched(t, k), [of |-> t.id, hits |-> {}, done |-> TRUE]) \in Seq(Find!Posts)
            BY <2>1, <4>1, FinderPosted
          <5>2. s7' = Tail(s7)
            BY <4>5 DEF FinderStops
          <5>3. s9' = Append(Find!Batched(t, k), [of |-> t.id, hits |-> {}, done |-> TRUE])
            BY <4>5 DEF FinderStops
          <5>4. s7' \in Seq(Find!Tasks)
            BY <2>2, <5>2
          <5>5. s9' \in Seq(Find!Posts)
            BY <5>1, <5>3, Zenon
          <5> QED BY <5>4, <5>5
        <4> QED BY <3>2, <4>4, <4>5
      <3> QED BY <1>3, <3>1, <3>2, FinderWalks
    <2> HIDE DEF t
    <2> QED BY <2>1, <2>3 DEF Find!TypeOK
  <1>4. CASE Find!OnResults
    <2>1. s9 # <<>> /\ s9 \in Seq(Find!Posts)
      BY <1>4 DEF Find!OnResults, Find!TypeOK
    <2>2. Head(s9) \in Find!Posts /\ Tail(s9) \in Seq(Find!Posts)
      BY <2>1, FinderTail
    <2>3. s10' \subseteq Find!AllHits /\ s11' \in BOOLEAN
      BY <1>4, <2>2 DEF Find!OnResults, Find!TypeOK, Find!Posts
    <2>4. /\ s9' = Tail(s9)
          /\ UNCHANGED <<s1, s2, s3, s4, s5, s6, s7, s8, s12>>
      BY <1>4 DEF Find!OnResults, Find!Timers
    <2> QED BY <2>2, <2>3, <2>4 DEF Find!TypeOK
  <1>5. CASE Find!OnFinished
    <2>1. s9 # <<>> /\ s9 \in Seq(Find!Posts)
      BY <1>5 DEF Find!OnFinished, Find!TypeOK
    <2>2. Tail(s9) \in Seq(Find!Posts)
      BY <2>1, FinderTail
    <2>3. s5' \in 0 .. s6 /\ s12' \subseteq Find!AllHits
      <3>1. (s5' = 0 /\ s12' = s10) \/ UNCHANGED <<s5, s12>>
        BY <1>5, Zenon DEF Find!OnFinished, Find!RefreshList
      <3>2. s5 \in 0 .. s6 /\ s6 \in Nat /\ s10 \subseteq Find!AllHits /\ s12 \subseteq Find!AllHits
        BY DEF Find!TypeOK
      <3> QED BY <3>1, <3>2
    <2>4. s4' \in BOOLEAN /\ s11' \in BOOLEAN
      <3>1. (s4' = FALSE /\ s11' = FALSE) \/ UNCHANGED <<s4, s11>>
        BY <1>5, Zenon DEF Find!OnFinished, Find!RefreshList
      <3> QED BY <3>1 DEF Find!TypeOK
    <2>5. s9' = Tail(s9) /\ UNCHANGED <<s1, s2, s3, s6, s7, s8, s10>>
      BY <1>5 DEF Find!OnFinished
    <2> QED BY <2>2, <2>3, <2>4, <2>5 DEF Find!TypeOK
  <1>6. CASE Find!OnRefresh
    <2>1. /\ s12' = s10 /\ s11' = FALSE
          /\ UNCHANGED <<s1, s2, s3, s4, s5, s6, s7, s8, s9, s10>>
      BY <1>6 DEF Find!OnRefresh, Find!RefreshList, Find!Timers, Find!Walk
    <2> QED BY <2>1 DEF Find!TypeOK
  <1>7. CASE Find!Accept
    <2>1. s8' \subseteq 1 .. s6
      BY <1>7 DEF Find!Accept, Find!Cancelled, Find!TypeOK
    <2>2. /\ s1' = FALSE /\ s5' = 0 /\ s4' = FALSE
          /\ UNCHANGED <<s2, s3, s6, s7, s9, s10, s11, s12>>
      BY <1>7 DEF Find!Accept
    <2>3. s6 \in Nat /\ s5' \in 0 .. s6
      BY <2>2 DEF Find!TypeOK
    <2>4. /\ s1' \in BOOLEAN /\ s4' \in BOOLEAN /\ s3' \in BOOLEAN /\ s11' \in BOOLEAN
          /\ s2' \in FindQueries /\ s6' \in Nat
      BY <2>2 DEF Find!TypeOK
    <2>5. s5' \in 0 .. s6' /\ s8' \subseteq 1 .. s6'
      BY <2>1, <2>2, <2>3
    <2> QED BY <2>2, <2>4, <2>5 DEF Find!TypeOK
  <1>8. CASE Find!Dismiss
    BY <1>8 DEF Find!Dismiss, Find!Timers, Find!Walk, Find!TypeOK
  <1>9. ASSUME NEW q \in FindQueries, Find!Type(q) PROVE Find!TypeOK'
    <2>1. /\ s2' \in FindQueries /\ s3' = TRUE
          /\ UNCHANGED <<s1, s4, s5, s6, s7, s8, s9, s10, s11, s12>>
      BY <1>9 DEF Find!Type, Find!Walk
    <2> QED BY <2>1 DEF Find!TypeOK
  <1>10. CASE UNCHANGED Find!vars
    BY <1>10 DEF Find!vars, Find!TypeOK
  <1> QED BY <1>1, <1>2, <1>3, <1>4, <1>5, <1>6, <1>7, <1>8, <1>9, <1>10 DEF Find!Next

(* The parts of the order of walks and posts. *)
FinderLive(l, n, c) == l # 0 => l = n /\ l \notin c
FinderOwned(s, l, n, c) ==
    /\ \A i \in DOMAIN s : s[i].id \in 1 .. n /\ (s[i].id \in c \/ s[i].id = l)
    /\ \A i, j \in DOMAIN s : s[i].id = l /\ s[j].id = l => i = j
FinderMail(p, l, n, c) == \A i \in DOMAIN p : p[i].of \in 1 .. n /\ (p[i].of \in c \/ p[i].of = l)
FinderEnd(p, s, l) ==
    \A i \in DOMAIN p :
        p[i].of = l /\ p[i].done =>
            /\ p[i].hits = {}
            /\ \A j \in DOMAIN s : s[j].id # l
            /\ \A j \in DOMAIN p : i < j => p[j].of # l

(* WalkInv is these parts. *)
LEMMA FinderParts ==
    /\ Find!WalkInv <=> /\ FinderLive(s5, s6, s8)
                        /\ FinderOwned(s7, s5, s6, s8)
                        /\ FinderMail(s9, s5, s6, s8)
                        /\ FinderEnd(s9, s7, s5)
    /\ Find!WalkInv' <=> /\ FinderLive(s5', s6', s8')
                         /\ FinderOwned(s7', s5', s6', s8')
                         /\ FinderMail(s9', s5', s6', s8')
                         /\ FinderEnd(s9', s7', s5')
  <1>1. Find!WalkInv <=> /\ FinderLive(s5, s6, s8)
                         /\ FinderOwned(s7, s5, s6, s8)
                         /\ FinderMail(s9, s5, s6, s8)
                         /\ FinderEnd(s9, s7, s5)
    BY Zenon DEF Find!WalkInv, FinderLive, FinderOwned, FinderMail, FinderEnd
  <1>2. Find!WalkInv' <=> /\ FinderLive(s5', s6', s8')
                          /\ FinderOwned(s7', s5', s6', s8')
                          /\ FinderMail(s9', s5', s6', s8')
                          /\ FinderEnd(s9', s7', s5')
    BY Zenon DEF Find!WalkInv, FinderLive, FinderOwned, FinderMail, FinderEnd
  <1> QED BY <1>1, <1>2

(* A search begins: nothing on its way is of it but its own walk. *)
LEMMA FinderBegunWalks ==
    ASSUME Find!TypeOK, Find!WalkInv, NEW q \in FindQueries, FinderBegun(q)
    PROVE  /\ Find!WalkInv' /\ s5' = s6 + 1 /\ s5' # 0
           /\ \A i \in DOMAIN s9' : s9'[i].of # s5'
           /\ \A i \in DOMAIN s7' : s7'[i].id = s5' =>
                 s7'[i] = [id |-> s6 + 1, query |-> q, pending |-> Find!Walked, found |-> 0]
           /\ \E i \in DOMAIN s7' : s7'[i].id = s5'
  <1> DEFINE new == [id |-> s6 + 1, query |-> q, pending |-> Find!Walked, found |-> 0]
  <1>1. new \in Find!Tasks /\ new.id = s6 + 1 /\ s7' = Append(s7, new)
    BY DEF Find!Tasks, Find!TypeOK, FinderBegun
  <1> HIDE DEF new
  <1>2. /\ s6' = s6 + 1 /\ s5' = s6 + 1 /\ s9' = s9
        /\ s8' = s8 \cup ({s5} \ {0})
        /\ s6 \in Nat /\ s5 \in 0 .. s6 /\ s8 \subseteq 1 .. s6
        /\ s7 \in Seq(Find!Tasks) /\ s9 \in Seq(Find!Posts)
    BY DEF FinderBegun, Find!TypeOK
  <1>3. /\ FinderLive(s5, s6, s8) /\ FinderOwned(s7, s5, s6, s8)
        /\ FinderMail(s9, s5, s6, s8)
    BY FinderParts
  <1> DEFINE last == Len(s7) + 1
  <1>4. /\ last \in DOMAIN s7' /\ s7'[last] = new
        /\ \A i \in DOMAIN s7 : i \in DOMAIN s7' /\ s7'[i] = s7[i]
        /\ \A i \in DOMAIN s7' : i \in DOMAIN s7 \/ i = last
    BY <1>1, <1>2, FinderAppend
  <1> HIDE DEF last
  <1>5. /\ s5' # 0 /\ s5' \notin s8' /\ s5' \in 1 .. s6' /\ s8 \subseteq s8'
        /\ s5 # 0 => s5 \in s8'
        /\ 1 .. s6 \subseteq 1 .. s6' /\ 0 \notin 1 .. s6 /\ s5' \notin 1 .. s6
    BY <1>2
  <1>6. FinderLive(s5', s6', s8')
    BY <1>2, <1>5 DEF FinderLive
  <1>7. \A i \in DOMAIN s7 : s7[i].id \in 1 .. s6 /\ s7[i].id \in s8'
    BY <1>3, <1>5 DEF FinderOwned
  <1>8. \A i \in DOMAIN s7' : i # last => s7'[i].id # s5' /\ s7'[i].id \in 1 .. s6' /\ s7'[i].id \in s8'
    BY <1>4, <1>5, <1>7
  <1>9. FinderOwned(s7', s5', s6', s8')
    <2>1. s7'[last].id = s5'
      BY <1>1, <1>2, <1>4
    <2> QED BY <1>5, <1>8, <2>1 DEF FinderOwned
  <1>10. \A i \in DOMAIN s9' : s9'[i].of \in 1 .. s6' /\ s9'[i].of \in s8' /\ s9'[i].of # s5'
    BY <1>2, <1>3, <1>5 DEF FinderMail
  <1>11. FinderMail(s9', s5', s6', s8') /\ FinderEnd(s9', s7', s5')
    BY <1>10 DEF FinderMail, FinderEnd
  <1>12. \A i \in DOMAIN s7' : s7'[i].id = s5' => s7'[i] = new
    BY <1>4, <1>8
  <1>13. \E i \in DOMAIN s7' : s7'[i].id = s5'
    BY <1>1, <1>2, <1>4
  <1> QED BY <1>2, <1>5, <1>6, <1>9, <1>10, <1>11, <1>12, <1>13, FinderParts DEF new

(* A walk ends, and the others are as they were. *)
LEMMA FinderOwnedTail ==
    ASSUME NEW s \in Seq(Find!Tasks), s # <<>>, NEW l, NEW n, NEW c, FinderOwned(s, l, n, c)
    PROVE  FinderOwned(Tail(s), l, n, c)
  <1>1. \A i \in DOMAIN Tail(s) : i + 1 \in DOMAIN s /\ Tail(s)[i] = s[i + 1] /\ i \in Nat
    BY FinderTail
  <1>2. \A i \in DOMAIN Tail(s) : Tail(s)[i].id \in 1 .. n /\ (Tail(s)[i].id \in c \/ Tail(s)[i].id = l)
    BY <1>1 DEF FinderOwned
  <1>3. \A i, j \in DOMAIN Tail(s) : Tail(s)[i].id = l /\ Tail(s)[j].id = l => i = j
    BY <1>1 DEF FinderOwned
  <1> QED BY <1>2, <1>3 DEF FinderOwned

(* A post is taken, and the others are as they were. *)
LEMMA FinderMailTail ==
    ASSUME NEW p \in Seq(Find!Posts), p # <<>>, NEW s, NEW l, NEW n, NEW c,
           FinderMail(p, l, n, c), FinderEnd(p, s, l)
    PROVE  FinderMail(Tail(p), l, n, c) /\ FinderEnd(Tail(p), s, l)
  <1>1. \A i \in DOMAIN Tail(p) : i + 1 \in DOMAIN p /\ Tail(p)[i] = p[i + 1] /\ i \in Nat
    BY FinderTail
  <1>2. FinderMail(Tail(p), l, n, c)
    BY <1>1 DEF FinderMail
  <1>3. FinderEnd(Tail(p), s, l)
    BY <1>1 DEF FinderEnd
  <1> QED BY <1>2, <1>3

(* A post is sent: nothing of its search is sent after the end of it. *)
LEMMA FinderMailSent ==
    ASSUME NEW p \in Seq(Find!Posts), NEW e \in Find!Posts, NEW s, NEW l, NEW n, NEW c,
           FinderMail(p, l, n, c), FinderEnd(p, s, l),
           e.of \in 1 .. n, e.of \in c \/ e.of = l,
           e.of = l => \A i \in DOMAIN p : ~(p[i].of = l /\ p[i].done),
           e.of = l /\ e.done => e.hits = {} /\ \A j \in DOMAIN s : s[j].id # l
    PROVE  FinderMail(Append(p, e), l, n, c) /\ FinderEnd(Append(p, e), s, l)
  <1> DEFINE m == Append(p, e)
             last == Len(p) + 1
  <1>1. /\ last \in DOMAIN m /\ m[last] = e
        /\ \A i \in DOMAIN p : i \in DOMAIN m /\ m[i] = p[i] /\ i < last
        /\ \A i \in DOMAIN m : i \in DOMAIN p \/ i = last
        /\ last \in Nat
    BY FinderAppend
  <1> HIDE DEF m, last
  <1>2. FinderMail(m, l, n, c)
    BY <1>1 DEF FinderMail
  <1>3. FinderEnd(m, s, l)
    <2> SUFFICES ASSUME NEW i \in DOMAIN m, m[i].of = l, m[i].done
                 PROVE  /\ m[i].hits = {}
                        /\ \A j \in DOMAIN s : s[j].id # l
                        /\ \A j \in DOMAIN m : i < j => m[j].of # l
      BY DEF FinderEnd
    <2>1. CASE i \in DOMAIN p
      BY <1>1, <2>1 DEF FinderEnd
    <2>2. CASE i = last
      <3>1. \A j \in DOMAIN m : ~(last < j)
        BY <1>1
      <3> QED BY <1>1, <2>2, <3>1
    <2> QED BY <1>1, <2>1, <2>2
  <1> QED BY <1>2, <1>3 DEF m

(* The walks keep their order as one of them goes through a directory. *)
LEMMA FinderWalksOrder ==
    ASSUME Find!TypeOK, Find!WalkInv, Find!SearchInv, Find!WalkDirectory
    PROVE  Find!WalkInv'
  <1> DEFINE t == Head(s7)
  <1>1. /\ UNCHANGED <<s5, s6, s8>>
        /\ s7 # <<>> /\ t \in Find!Tasks /\ t = s7[1] /\ 1 \in DOMAIN s7
        /\ s7 \in Seq(Find!Tasks) /\ s9 \in Seq(Find!Posts)
    BY FinderWalks DEF Find!TypeOK
  <1>2. /\ FinderLive(s5, s6, s8) /\ FinderOwned(s7, s5, s6, s8)
        /\ FinderMail(s9, s5, s6, s8) /\ FinderEnd(s9, s7, s5)
    BY FinderParts
  <1>3. FinderOwned(Tail(s7), s5, s6, s8)
    BY <1>1, <1>2, FinderOwnedTail
  <1>4. FinderEnd(s9, Tail(s7), s5)
    <2>1. \A i \in DOMAIN Tail(s7) : i + 1 \in DOMAIN s7 /\ Tail(s7)[i] = s7[i + 1]
      BY <1>1, FinderTail
    <2> QED BY <1>2, <2>1 DEF FinderEnd
  <1>5. t.id \in 1 .. s6 /\ (t.id \in s8 \/ t.id = s5)
    BY <1>1, <1>2 DEF FinderOwned
  <1>6. CASE FinderEnds(t)
    <2>1. s7' = Tail(s7) /\ s9' = s9
      BY <1>6 DEF FinderEnds
    <2> QED BY <1>1, <1>2, <1>3, <1>4, <2>1, FinderParts
  <1>7. ASSUME t.id \notin s8, NEW d \in t.pending, NEW k \in Find!Kept(t, d),
               FinderGoesOn(t, d, k) \/ FinderStops(t, d, k)
        PROVE  Find!WalkInv'
    <2> DEFINE batch == [of |-> t.id, hits |-> k, done |-> FALSE]
               end   == [of |-> t.id, hits |-> {}, done |-> TRUE]
               b     == Find!Batched(t, k)
    <2>1. t.id = s5 /\ (\A i \in DOMAIN s9 : ~(s9[i].of = s5 /\ s9[i].done))
          /\ (\A i \in DOMAIN Tail(s7) : Tail(s7)[i].id # s5)
      <3>1. t.id = s5
        BY <1>5, <1>7
      <3>2. \A i \in DOMAIN s9 : ~(s9[i].of = s5 /\ s9[i].done)
        BY <1>1, <1>2, <3>1 DEF FinderEnd
      <3>3. \A i \in DOMAIN Tail(s7) : i + 1 \in DOMAIN s7 /\ Tail(s7)[i] = s7[i + 1] /\ i \in Nat /\ i # 0
        BY <1>1, FinderTail
      <3>4. \A i \in DOMAIN Tail(s7) : Tail(s7)[i].id # s5
        BY <1>1, <1>2, <3>1, <3>3 DEF FinderOwned
      <3> QED BY <3>1, <3>2, <3>4
    <2>2. t.found < FindLimit
      BY <1>1, <2>1 DEF Find!SearchInv
    <2>3. batch \in Find!Posts /\ end \in Find!Posts /\ b \in Seq(Find!Posts) /\ (b = s9 \/ b = Append(s9, batch))
      <3>1. batch \in Find!Posts /\ end \in Find!Posts /\ b \in Seq(Find!Posts)
        BY <1>1, <2>2, FinderPosted
      <3>2. b = s9 \/ b = Append(s9, batch)
        BY DEF Find!Batched
      <3> QED BY <3>1, <3>2
    <2>4. batch.of = t.id /\ batch.done = FALSE /\ end.of = t.id /\ end.hits = {}
      OBVIOUS
    <2> HIDE DEF batch, end, b
    <2>5. ASSUME NEW s, FinderEnd(s9, s, s5)
          PROVE  FinderMail(b, s5, s6, s8) /\ FinderEnd(b, s, s5)
      <3>1. CASE b = s9
        BY <1>2, <2>5, <3>1
      <3>2. CASE b = Append(s9, batch)
        BY <1>1, <1>2, <1>5, <2>1, <2>3, <2>4, <2>5, <3>2, FinderMailSent
      <3> QED BY <2>3, <3>1, <3>2
    <2>6. CASE FinderGoesOn(t, d, k)
      <3> DEFINE rest == [t EXCEPT !.pending = @ \ {d}, !.found = @ + Find!Cardinality(k)]
      <3>1. s7' = [s7 EXCEPT ![1] = rest] /\ rest.id = t.id /\ s9' = b
        BY <1>1, <2>6 DEF FinderGoesOn, Find!Tasks, b
      <3> HIDE DEF rest
      <3>2. DOMAIN s7' = DOMAIN s7 /\ \A i \in DOMAIN s7 : s7'[i].id = s7[i].id
        BY <1>1, <3>1
      <3>3. FinderOwned(s7', s5, s6, s8) /\ FinderEnd(s9, s7', s5)
        <4>1. FinderOwned(s7', s5, s6, s8)
          BY <1>2, <3>2 DEF FinderOwned
        <4>2. FinderEnd(s9, s7', s5)
          BY <2>1 DEF FinderEnd
        <4> QED BY <4>1, <4>2
      <3>4. FinderMail(s9', s5, s6, s8) /\ FinderEnd(s9', s7', s5)
        BY <2>5, <3>1, <3>3
      <3> QED BY <1>1, <1>2, <3>3, <3>4, FinderParts
    <2>7. CASE FinderStops(t, d, k)
      <3>1. s7' = Tail(s7) /\ s9' = Append(b, end)
        BY <2>7 DEF FinderStops, b, end
      <3>2. FinderMail(b, s5, s6, s8) /\ FinderEnd(b, Tail(s7), s5)
        BY <1>4, <2>5
      <3>3. \A i \in DOMAIN b : ~(b[i].of = s5 /\ b[i].done)
        <4>1. CASE b = s9
          BY <2>1, <4>1
        <4>2. CASE b = Append(s9, batch)
          <5>1. /\ b[Len(s9) + 1] = batch
                /\ \A i \in DOMAIN s9 : b[i] = s9[i]
                /\ \A i \in DOMAIN b : i \in DOMAIN s9 \/ i = Len(s9) + 1
            BY <1>1, <2>3, <4>2, FinderAppend
          <5> QED BY <2>1, <2>4, <5>1
        <4> QED BY <2>3, <4>1, <4>2
      <3>4. FinderMail(s9', s5, s6, s8) /\ FinderEnd(s9', Tail(s7), s5)
        BY <1>5, <2>1, <2>3, <2>4, <3>1, <3>2, <3>3, FinderMailSent
      <3> QED BY <1>1, <1>2, <1>3, <3>1, <3>4, FinderParts
    <2> QED BY <1>7, <2>6, <2>7
  <1> QED BY <1>6, <1>7, FinderWalks

(* The order of walks and posts is kept by every step. *)
LEMMA FinderWalkStep ==
    ASSUME Find!TypeOK, Find!WalkInv, Find!SearchInv, [Find!Next]_Find!vars
    PROVE  Find!WalkInv'
  <1>0. /\ FinderLive(s5, s6, s8) /\ FinderOwned(s7, s5, s6, s8)
        /\ FinderMail(s9, s5, s6, s8) /\ FinderEnd(s9, s7, s5)
        /\ s7 \in Seq(Find!Tasks) /\ s9 \in Seq(Find!Posts) /\ s6 \in Nat /\ s5 \in 0 .. s6
    BY FinderParts DEF Find!TypeOK
  <1>1. CASE Find!Start
    <2>1. "" \in FindQueries /\ Find!RestartSearch("")
      BY <1>1, FinderAssumption DEF Find!Start
    <2> QED BY <2>1, FinderBegin, FinderBegunWalks
  <1>2. CASE Find!OnDebounce
    <2>1. s2 \in FindQueries /\ Find!RestartSearch(s2)
      BY <1>2 DEF Find!OnDebounce, Find!TypeOK
    <2> QED BY <2>1, FinderBegin, FinderBegunWalks
  <1>3. CASE Find!WalkDirectory
    BY <1>3, FinderWalksOrder
  <1>4. CASE Find!OnResults
    <2>1. s9 # <<>> /\ s9' = Tail(s9) /\ UNCHANGED <<s5, s6, s7, s8>>
      BY <1>4 DEF Find!OnResults
    <2>2. FinderMail(Tail(s9), s5, s6, s8) /\ FinderEnd(Tail(s9), s7, s5)
      BY <1>0, <2>1, FinderMailTail
    <2> QED BY <1>0, <2>1, <2>2, FinderParts
  <1>5. CASE Find!OnFinished
    <2>1. s9 # <<>> /\ s9' = Tail(s9) /\ UNCHANGED <<s6, s7, s8>>
      BY <1>5 DEF Find!OnFinished
    <2>2. FinderMail(Tail(s9), s5, s6, s8) /\ FinderEnd(Tail(s9), s7, s5)
      BY <1>0, <2>1, FinderMailTail
    <2>3. CASE Head(s9).of \in s8
      <3>1. s5' = s5
        BY <1>5, <2>3 DEF Find!OnFinished
      <3> QED BY <1>0, <2>1, <2>2, <3>1, FinderParts
    <2>4. CASE Head(s9).of \notin s8
      <3>1. s5' = 0 /\ 0 \notin 1 .. s6
        BY <1>5, <2>4 DEF Find!OnFinished
      <3>2. 1 \in DOMAIN s9 /\ s9[1].of = s5 /\ s9[1].done
        <4>1. 1 \in DOMAIN s9 /\ Head(s9) = s9[1]
          BY <1>0, <2>1, FinderTail
        <4>2. Head(s9).done
          BY <1>5 DEF Find!OnFinished
        <4> QED BY <1>0, <2>4, <4>1, <4>2 DEF FinderMail
      <3>3. \A j \in DOMAIN s7 : s7[j].id \in s8 /\ s7[j].id \in 1 .. s6
        BY <1>0, <3>2 DEF FinderEnd, FinderOwned
      <3>4. \A i \in DOMAIN Tail(s9) : Tail(s9)[i].of # s5
        <4>1. \A i \in DOMAIN Tail(s9) : i + 1 \in DOMAIN s9 /\ Tail(s9)[i] = s9[i + 1] /\ 1 < i + 1
          BY <1>0, <2>1, FinderTail
        <4> QED BY <1>0, <3>2, <4>1 DEF FinderEnd
      <3>5. \A i \in DOMAIN Tail(s9) : Tail(s9)[i].of \in s8 /\ Tail(s9)[i].of \in 1 .. s6
        BY <2>2, <3>4 DEF FinderMail
      <3>6. FinderLive(s5', s6', s8')
        BY <3>1 DEF FinderLive
      <3>7. FinderOwned(s7', s5', s6', s8')
        BY <2>1, <3>1, <3>3 DEF FinderOwned
      <3>8. FinderMail(s9', s5', s6', s8') /\ FinderEnd(s9', s7', s5')
        BY <2>1, <3>1, <3>5 DEF FinderMail, FinderEnd
      <3> QED BY <3>6, <3>7, <3>8, FinderParts
    <2> QED BY <2>3, <2>4
  <1>6. CASE Find!OnRefresh
    <2>1. UNCHANGED <<s5, s6, s7, s8, s9>>
      BY <1>6 DEF Find!OnRefresh, Find!Walk
    <2> QED BY <1>0, <2>1, FinderParts
  <1>7. CASE Find!Accept
    <2>1. /\ s5' = 0 /\ 0 \notin 1 .. s6 /\ s8' = Find!Cancelled
          /\ UNCHANGED <<s6, s7, s9>>
      BY <1>7 DEF Find!Accept
    <2>2. \A i : (i \in s8 \/ i = s5) /\ i \in 1 .. s6 => i \in s8'
      BY <2>1 DEF Find!Cancelled
    <2>3. \A j \in DOMAIN s7 : s7[j].id \in s8' /\ s7[j].id \in 1 .. s6
      BY <1>0, <2>2 DEF FinderOwned
    <2>4. \A i \in DOMAIN s9 : s9[i].of \in s8' /\ s9[i].of \in 1 .. s6
      BY <1>0, <2>2 DEF FinderMail
    <2>5. FinderLive(s5', s6', s8') /\ FinderOwned(s7', s5', s6', s8')
      BY <2>1, <2>3 DEF FinderLive, FinderOwned
    <2>6. FinderMail(s9', s5', s6', s8') /\ FinderEnd(s9', s7', s5')
      BY <2>1, <2>4 DEF FinderMail, FinderEnd
    <2> QED BY <2>5, <2>6, FinderParts
  <1>8. CASE Find!Dismiss
    <2>1. UNCHANGED <<s5, s6, s7, s8, s9>>
      BY <1>8 DEF Find!Dismiss, Find!Walk
    <2> QED BY <1>0, <2>1, FinderParts
  <1>9. ASSUME NEW q \in FindQueries, Find!Type(q) PROVE Find!WalkInv'
    <2>1. UNCHANGED <<s5, s6, s7, s8, s9>>
      BY <1>9 DEF Find!Type, Find!Walk
    <2> QED BY <1>0, <2>1, FinderParts
  <1>10. CASE UNCHANGED Find!vars
    <2>1. UNCHANGED <<s5, s6, s7, s8, s9>>
      BY <1>10 DEF Find!vars
    <2> QED BY <1>0, <2>1, FinderParts
  <1> QED BY <1>1, <1>2, <1>3, <1>4, <1>5, <1>6, <1>7, <1>8, <1>9, <1>10 DEF Find!Next

(* The parts of what is said of the last search. *)
FinderFor(q, deb, o, text) == o /\ ~deb => q = text
FinderGot(c, p, l) == c \cup UNION {p[i].hits : i \in {j \in DOMAIN p : p[j].of = l}}
FinderUnderWay(q, t, g) ==
    /\ t.query = q /\ g = Find!FoundIn(q, Find!Walked \ t.pending) /\ Find!IsFiniteSet(g)
    /\ t.found = Find!Cardinality(g) /\ t.found < FindLimit
FinderWalking(q, s, l, g) == \A i \in DOMAIN s : s[i].id = l => FinderUnderWay(q, s[i], g)
FinderThrough(q, s, l, g) == l # 0 /\ (\A i \in DOMAIN s : s[i].id # l) => Find!AllOrEnough(g, q)
FinderShows(q, l, o, r, c) == l = 0 /\ o => r = c /\ Find!AllOrEnough(r, q)
FinderSays(q, deb, text, s, l, g, o, r, c) ==
    /\ FinderFor(q, deb, o, text) /\ FinderWalking(q, s, l, g)
    /\ FinderThrough(q, s, l, g) /\ FinderShows(q, l, o, r, c)

(* SearchInv is these parts, for the text of the last search. *)
LEMMA FinderSearchParts ==
    /\ Find!SearchInv <=> \E q \in FindQueries :
          FinderSays(q, s3, s2, s7, s5, FinderGot(s10, s9, s5),
                     s1, s12, s10)
    /\ Find!SearchInv' <=> \E q \in FindQueries :
          FinderSays(q, s3', s2', s7', s5', FinderGot(s10', s9', s5'),
                     s1', s12', s10')
  <1>1. Find!SearchInv <=> \E q \in FindQueries :
          FinderSays(q, s3, s2, s7, s5, FinderGot(s10, s9, s5),
                     s1, s12, s10)
    BY Zenon DEF Find!SearchInv, Find!SoFar, FinderSays, FinderFor, FinderGot, FinderUnderWay, FinderWalking,
                 FinderThrough, FinderShows
  <1>2. Find!SearchInv' <=> \E q \in FindQueries :
          FinderSays(q, s3', s2', s7', s5', FinderGot(s10', s9', s5'),
                     s1', s12', s10')
    BY Zenon DEF Find!SearchInv, Find!SoFar, FinderSays, FinderFor, FinderGot, FinderUnderWay, FinderWalking,
                 FinderThrough, FinderShows
  <1> QED BY <1>1, <1>2

(* Hits that arrive are not hits on their way any more, and hits that are
   sent are. *)
LEMMA FinderGotTail ==
    ASSUME NEW p \in Seq(Find!Posts), p # <<>>, NEW c, NEW l
    PROVE  /\ Head(p).of = l => FinderGot(c \cup Head(p).hits, Tail(p), l) = FinderGot(c, p, l)
           /\ Head(p).of # l => FinderGot(c, Tail(p), l) = FinderGot(c, p, l)
  <1> DEFINE t == Tail(p)
  <1>1. /\ Head(p) = p[1] /\ 1 \in DOMAIN p
        /\ \A i \in DOMAIN t : i + 1 \in DOMAIN p /\ t[i] = p[i + 1]
        /\ \A i \in DOMAIN p : i # 1 => i - 1 \in DOMAIN t /\ t[i - 1] = p[i]
    BY FinderTail
  <1> HIDE DEF t
  <1>2. ASSUME NEW x, \E i \in DOMAIN t : t[i].of = l /\ x \in t[i].hits
        PROVE  \E i \in DOMAIN p : p[i].of = l /\ x \in p[i].hits
    BY <1>1, <1>2
  <1>3. ASSUME NEW x, NEW i \in DOMAIN p, p[i].of = l, x \in p[i].hits
        PROVE  (i = 1) \/ \E j \in DOMAIN t : t[j].of = l /\ x \in t[j].hits
    BY <1>1, <1>3
  <1>4. ASSUME NEW d, NEW s, NEW x
        PROVE  x \in FinderGot(d, s, l) <=> x \in d \/ \E i \in DOMAIN s : s[i].of = l /\ x \in s[i].hits
    BY DEF FinderGot
  <1>5. ASSUME Head(p).of = l PROVE FinderGot(c \cup Head(p).hits, t, l) = FinderGot(c, p, l)
    <2>1. ASSUME NEW x PROVE x \in FinderGot(c \cup Head(p).hits, t, l) <=> x \in FinderGot(c, p, l)
      <3>1. x \in FinderGot(c \cup Head(p).hits, t, l) <=>
               x \in c \/ x \in Head(p).hits \/ \E i \in DOMAIN t : t[i].of = l /\ x \in t[i].hits
        BY <1>4
      <3>2. x \in FinderGot(c, p, l) <=> x \in c \/ \E i \in DOMAIN p : p[i].of = l /\ x \in p[i].hits
        BY <1>4
      <3> QED BY <1>1, <1>2, <1>3, <1>5, <3>1, <3>2
    <2> QED BY <2>1
  <1>6. ASSUME Head(p).of # l PROVE FinderGot(c, t, l) = FinderGot(c, p, l)
    <2>1. ASSUME NEW x PROVE x \in FinderGot(c, t, l) <=> x \in FinderGot(c, p, l)
      <3>1. x \in FinderGot(c, t, l) <=> x \in c \/ \E i \in DOMAIN t : t[i].of = l /\ x \in t[i].hits
        BY <1>4
      <3>2. x \in FinderGot(c, p, l) <=> x \in c \/ \E i \in DOMAIN p : p[i].of = l /\ x \in p[i].hits
        BY <1>4
      <3> QED BY <1>1, <1>2, <1>3, <1>6, <3>1, <3>2
    <2> QED BY <2>1
  <1> QED BY <1>5, <1>6 DEF t

(* The hits of a post that is sent are found. *)
LEMMA FinderGotSent ==
    ASSUME NEW p \in Seq(Find!Posts), NEW e \in Find!Posts, NEW c, NEW l, e.of = l
    PROVE  FinderGot(c, Append(p, e), l) = FinderGot(c, p, l) \cup e.hits
  <1> DEFINE m == Append(p, e)
             last == Len(p) + 1
  <1>1. /\ last \in DOMAIN m /\ m[last] = e
        /\ \A i \in DOMAIN p : i \in DOMAIN m /\ m[i] = p[i]
        /\ \A i \in DOMAIN m : i \in DOMAIN p \/ i = last
    BY FinderAppend
  <1> HIDE DEF m, last
  <1>2. ASSUME NEW s, NEW x
        PROVE  x \in FinderGot(c, s, l) <=> x \in c \/ \E i \in DOMAIN s : s[i].of = l /\ x \in s[i].hits
    BY DEF FinderGot
  <1>3. ASSUME NEW x PROVE x \in FinderGot(c, m, l) <=> x \in FinderGot(c, p, l) \/ x \in e.hits
    <2>1. x \in FinderGot(c, m, l) <=> x \in c \/ \E i \in DOMAIN m : m[i].of = l /\ x \in m[i].hits
      BY <1>2
    <2>2. x \in FinderGot(c, p, l) <=> x \in c \/ \E i \in DOMAIN p : p[i].of = l /\ x \in p[i].hits
      BY <1>2
    <2> QED BY <1>1, <2>1, <2>2
  <1> QED BY <1>3 DEF m

FinderMore(q, t, d, k, h) ==
    /\ Find!IsFiniteSet(h) /\ Find!Cardinality(h) = t.found + Find!Cardinality(k) /\ h \subseteq Find!Found(q)
    /\ t.found + Find!Cardinality(k) < FindLimit => h = Find!FoundIn(q, Find!Walked \ (t.pending \ {d}))
    /\ ~(t.found + Find!Cardinality(k) < FindLimit) => Find!Cardinality(h) = FindLimit

(* What is found of the walk is what is in the directories it is through
   with: the hits kept of one more are counted once. *)
LEMMA FinderOneMore ==
    ASSUME NEW q \in FindQueries, NEW t \in Find!Tasks, NEW g, FinderUnderWay(q, t, g),
           NEW d \in t.pending, NEW k \in Find!Kept(t, d)
    PROVE  FinderMore(q, t, d, k, g \cup k)
  <1>1. /\ t.query = q /\ g = Find!FoundIn(q, Find!Walked \ t.pending) /\ Find!IsFiniteSet(g)
        /\ t.found = Find!Cardinality(g) /\ t.found < FindLimit
    BY DEF FinderUnderWay
  <1>2. /\ k \subseteq FindHits[q][d] /\ Find!IsFiniteSet(k) /\ Find!Cardinality(k) \in Nat
        /\ k = FindHits[q][d] \/ t.found + Find!Cardinality(k) = FindLimit
        /\ t.found + Find!Cardinality(k) <= FindLimit
    BY <1>1, FinderKept
  <1>3. t.pending \subseteq Find!Walked /\ Find!Walked \subseteq FindTree /\ d \in FindTree
    BY DEF Find!Tasks, Find!Walked
  <1>4. g \cap k = {}
    <2>1. ASSUME NEW x \in g, x \in k PROVE FALSE
      <3>1. PICK e \in Find!Walked \ t.pending : x \in FindHits[q][e]
        BY <1>1 DEF Find!FoundIn
      <3>2. FindHits[q][d] \cap FindHits[q][e] = {}
        BY <1>3, <3>1, FinderAssumption
      <3> QED BY <1>2, <2>1, <3>1, <3>2
    <2> QED BY <2>1
  <1>5. Find!IsFiniteSet(g \cup k) /\ Find!Cardinality(g \cup k) = t.found + Find!Cardinality(k)
    BY <1>1, <1>2, <1>4, FinderJoin
  <1>6. g \subseteq Find!Found(q) /\ k \subseteq Find!Found(q)
    BY <1>1, <1>2, <1>3 DEF Find!Found, Find!FoundIn
  <1>7. k = FindHits[q][d] => g \cup k = Find!FoundIn(q, Find!Walked \ (t.pending \ {d}))
    <2>1. Find!Walked \ (t.pending \ {d}) = (Find!Walked \ t.pending) \cup {d}
      BY <1>3
    <2> QED BY <1>1, <2>1 DEF Find!FoundIn
  <1> DEFINE n == Find!Cardinality(k)
             m == Find!Cardinality(g \cup k)
  <1>8. /\ n \in Nat /\ t.found \in Nat /\ FindLimit \in Nat /\ m = t.found + n
        /\ t.found + n <= FindLimit /\ (k = FindHits[q][d] \/ t.found + n = FindLimit)
    <2>1. t.found \in Nat
      BY DEF Find!Tasks
    <2> QED BY <1>2, <1>5, <2>1, FinderAssumption
  <1> HIDE DEF n, m
  <1>9. /\ t.found + n < FindLimit => k = FindHits[q][d]
        /\ ~(t.found + n < FindLimit) => m = FindLimit
    BY <1>8
  <1> QED BY <1>5, <1>6, <1>7, <1>9 DEF n, m, FinderMore

(* A search begins: nothing is found, and all of the tree is to be walked. *)
LEMMA FinderBegunSays ==
    ASSUME Find!TypeOK, Find!WalkInv, NEW q \in FindQueries, FinderBegun(q), s2' = q
    PROVE  Find!SearchInv'
  <1>1. /\ s5' # 0 /\ (\A i \in DOMAIN s9' : s9'[i].of # s5') /\ s10' = {}
        /\ \A i \in DOMAIN s7' : s7'[i].id = s5' =>
                 s7'[i] = [id |-> s6 + 1, query |-> q, pending |-> Find!Walked, found |-> 0]
        /\ \E i \in DOMAIN s7' : s7'[i].id = s5'
    BY FinderBegunWalks DEF FinderBegun
  <1> DEFINE g == FinderGot(s10', s9', s5')
             new == [id |-> s6 + 1, query |-> q, pending |-> Find!Walked, found |-> 0]
  <1>2. g = {}
    BY <1>1 DEF FinderGot
  <1>3. Find!FoundIn(q, Find!Walked \ new.pending) = {} /\ new.query = q /\ new.found = 0 /\ 0 < FindLimit
    <2>1. new.pending = Find!Walked /\ new.query = q /\ new.found = 0
      OBVIOUS
    <2>2. Find!Walked \ new.pending = {}
      BY <2>1
    <2>3. Find!FoundIn(q, {}) = {}
      BY DEF Find!FoundIn
    <2>4. FindLimit \in Nat \ {0}
      BY FinderAssumption
    <2>5. 0 < FindLimit
      BY <2>4
    <2> QED BY <2>1, <2>2, <2>3, <2>5
  <1>4. \A i \in DOMAIN s7' : s7'[i].id = s5' => s7'[i] = new
    BY <1>1
  <1> HIDE DEF g, new
  <1>5. FinderUnderWay(q, new, g)
    BY <1>2, <1>3, FinderNone DEF FinderUnderWay
  <1>6. FinderWalking(q, s7', s5', g)
    BY <1>4, <1>5 DEF FinderWalking
  <1>7. FinderThrough(q, s7', s5', g) /\ FinderFor(q, s3', s1', s2')
        /\ FinderShows(q, s5', s1', s12', s10')
    BY <1>1 DEF FinderThrough, FinderFor, FinderShows
  <1> QED BY <1>6, <1>7, FinderSearchParts DEF FinderSays, g

(* A step of the walk adds to what has been found what it keeps. *)
LEMMA FinderWalkSays ==
    ASSUME Find!TypeOK, Find!WalkInv, Find!SearchInv, Find!WalkDirectory
    PROVE  Find!SearchInv'
  <1> DEFINE t == Head(s7)
             g == FinderGot(s10, s9, s5)
  <1>1. /\ UNCHANGED <<s1, s2, s3, s5, s6, s8, s10, s12>>
        /\ s7 # <<>> /\ t \in Find!Tasks /\ t = s7[1] /\ 1 \in DOMAIN s7
        /\ s7 \in Seq(Find!Tasks) /\ s9 \in Seq(Find!Posts) /\ t.id \in Nat
    BY FinderWalks DEF Find!TypeOK, Find!Tasks
  <1>2. /\ FinderLive(s5, s6, s8) /\ FinderOwned(s7, s5, s6, s8)
    BY FinderParts
  <1>3. PICK q \in FindQueries : FinderSays(q, s3, s2, s7, s5, g, s1, s12, s10)
    BY FinderSearchParts
  <1>4. /\ \A i \in DOMAIN Tail(s7) : i + 1 \in DOMAIN s7 /\ Tail(s7)[i] = s7[i + 1] /\ i \in Nat /\ i # 0
        /\ \A i \in DOMAIN s7 : i # 1 => i - 1 \in DOMAIN Tail(s7) /\ Tail(s7)[i - 1] = s7[i]
    BY <1>1, FinderTail
  <1> HIDE DEF g
  <1>5. FinderFor(q, s3', s1', s2') /\ FinderShows(q, s5', s1', s12', s10')
    BY <1>1, <1>3 DEF FinderSays
  <1>6. CASE FinderEnds(t)
    <2>1. s7' = Tail(s7) /\ s9' = s9 /\ t.id # s5
      <3>1. t.id \in 1 .. s6 /\ t.id \in s8
        BY <1>1, <1>2, <1>6 DEF FinderOwned, FinderEnds
      <3>2. t.id # s5
        BY <1>2, <3>1 DEF FinderLive
      <3> QED BY <1>6, <3>2 DEF FinderEnds
    <2>2. FinderWalking(q, s7', s5, g)
      BY <1>3, <1>4, <2>1 DEF FinderSays, FinderWalking
    <2>3. FinderThrough(q, s7', s5, g)
      <3>1. (\A i \in DOMAIN s7' : s7'[i].id # s5) => \A i \in DOMAIN s7 : s7[i].id # s5
        BY <1>1, <1>4, <2>1
      <3> QED BY <1>3, <3>1 DEF FinderSays, FinderThrough
    <2>4. g = FinderGot(s10', s9', s5')
      BY <1>1, <2>1 DEF g
    <2>5. FinderWalking(q, s7', s5', g) /\ FinderThrough(q, s7', s5', g)
      BY <1>1, <2>2, <2>3
    <2> QED BY <1>5, <2>4, <2>5, FinderSearchParts DEF FinderSays
  <1>7. ASSUME t.id \notin s8, NEW d \in t.pending, NEW k \in Find!Kept(t, d),
               FinderGoesOn(t, d, k) \/ FinderStops(t, d, k)
        PROVE  Find!SearchInv'
    <2>1. t.id = s5 /\ s5 # 0
      <3>1. t.id \in 1 .. s6 /\ t.id = s5
        BY <1>1, <1>2, <1>7 DEF FinderOwned
      <3> QED BY <3>1
    <2>2. FinderUnderWay(q, t, g)
      BY <1>1, <1>3, <2>1 DEF FinderSays, FinderWalking
    <2>0. FinderMore(q, t, d, k, g \cup k)
      <3>1. t \in Find!Tasks /\ d \in t.pending /\ k \in Find!Kept(t, d) /\ q \in FindQueries
        BY <1>1
      <3> HIDE DEF t
      <3> QED BY <2>2, <3>1, FinderOneMore, Zenon
    <2> DEFINE h == g \cup k
               c == t.found + Find!Cardinality(k)
               batch == [of |-> t.id, hits |-> k, done |-> FALSE]
               end   == [of |-> t.id, hits |-> {}, done |-> TRUE]
               b     == Find!Batched(t, k)
    <2>3. /\ Find!IsFiniteSet(h) /\ Find!Cardinality(h) = c /\ h \subseteq Find!Found(q)
          /\ c < FindLimit => h = Find!FoundIn(q, Find!Walked \ (t.pending \ {d}))
          /\ ~(c < FindLimit) => Find!Cardinality(h) = FindLimit
      BY <2>0, Zenon DEF FinderMore
    <2>4. batch \in Find!Posts /\ end \in Find!Posts /\ b \in Seq(Find!Posts)
      <3>1. t.found < FindLimit
        BY <2>2 DEF FinderUnderWay
      <3> QED BY <1>1, <3>1, FinderPosted
    <2>5. batch.of = s5 /\ batch.hits = k /\ end.of = s5 /\ end.hits = {}
      BY <2>1
    <2>6. (k = {} /\ b = s9) \/ b = Append(s9, batch)
      BY DEF Find!Batched
    <2>7. FinderUnderWay(q, t, g) /\ t.query = q
      BY <2>2 DEF FinderUnderWay
    <2>8. CASE FinderGoesOn(t, d, k)
      <3> DEFINE rest == [t EXCEPT !.pending = @ \ {d}, !.found = @ + Find!Cardinality(k)]
      <3>1. s7' = [s7 EXCEPT ![1] = rest] /\ s9' = b /\ c < FindLimit
        BY <2>8 DEF FinderGoesOn
      <3>2. rest.id = t.id /\ rest.query = t.query /\ rest.pending = t.pending \ {d} /\ rest.found = c
        BY <1>1 DEF Find!Tasks
      <3> HIDE DEF rest, h, c, b, batch, end
      <3>3. FinderGot(s10', s9', s5') = h
        <4>1. CASE k = {} /\ b = s9
          BY <1>1, <3>1, <4>1 DEF g, h
        <4>2. CASE b = Append(s9, batch)
          <5>1. FinderGot(s10, Append(s9, batch), s5) = FinderGot(s10, s9, s5) \cup batch.hits
            <6>1. s9 \in Seq(Find!Posts)
              BY <1>1
            <6>2. batch \in Find!Posts
              BY <2>4
            <6>3. batch.of = s5
              BY <2>5
            <6> QED BY <6>1, <6>2, <6>3, FinderGotSent, Zenon
          <5> QED BY <1>1, <2>5, <3>1, <4>2, <5>1, Zenon DEF g, h
        <4> QED BY <2>6, <4>1, <4>2
      <3>4. FinderUnderWay(q, rest, h)
        BY <2>3, <2>7, <3>1, <3>2 DEF FinderUnderWay
      <3>5. DOMAIN s7' = DOMAIN s7 /\ s7'[1] = rest /\ \A i \in DOMAIN s7 : i # 1 => s7'[i] = s7[i]
        BY <1>1, <3>1
      <3>6. \A i \in DOMAIN s7 : i # 1 => s7[i].id # s5
        BY <1>1, <1>2, <2>1 DEF FinderOwned
      <3>7. FinderWalking(q, s7', s5', h)
        BY <1>1, <3>4, <3>5, <3>6 DEF FinderWalking
      <3>8. FinderThrough(q, s7', s5', h)
        BY <1>1, <2>1, <3>2, <3>5 DEF FinderThrough
      <3> QED BY <1>5, <3>3, <3>7, <3>8, FinderSearchParts DEF FinderSays
    <2>9. CASE FinderStops(t, d, k)
      <3>1. s7' = Tail(s7) /\ s9' = Append(b, end) /\ (~(c < FindLimit) \/ t.pending = {d})
        BY <2>9 DEF FinderStops
      <3> HIDE DEF h, c, b, batch, end
      <3>2. FinderGot(s10, b, s5) = h
        <4>1. CASE k = {} /\ b = s9
          BY <4>1 DEF g, h
        <4>2. CASE b = Append(s9, batch)
          <5>1. FinderGot(s10, Append(s9, batch), s5) = FinderGot(s10, s9, s5) \cup batch.hits
            <6>1. s9 \in Seq(Find!Posts)
              BY <1>1
            <6>2. batch \in Find!Posts
              BY <2>4
            <6>3. batch.of = s5
              BY <2>5
            <6> QED BY <6>1, <6>2, <6>3, FinderGotSent, Zenon
          <5> QED BY <2>5, <4>2, <5>1, Zenon DEF g, h
        <4> QED BY <2>6, <4>1, <4>2
      <3>3. FinderGot(s10', s9', s5') = h
        <4>1. FinderGot(s10, Append(b, end), s5) = FinderGot(s10, b, s5) \cup end.hits
          <5>1. b \in Seq(Find!Posts)
            BY <2>4
          <5>2. end \in Find!Posts
            BY <2>4
          <5>3. end.of = s5
            BY <2>5
          <5> QED BY <5>1, <5>2, <5>3, FinderGotSent, Zenon
        <4>2. FinderGot(s10, b, s5) \cup end.hits = h
          BY <2>5, <3>2
        <4>3. s10' = s10 /\ s5' = s5
          BY <1>1
        <4> QED BY <3>1, <4>1, <4>2, <4>3, Zenon
      <3>4. Find!AllOrEnough(h, q)
        <4>1. t.pending = {d} => Find!Walked \ (t.pending \ {d}) = Find!Walked
          OBVIOUS
        <4>2. h = Find!Found(q) \/ Find!Cardinality(h) = FindLimit
          BY <2>3, <3>1, <4>1 DEF Find!Found
        <4> QED BY <2>3, <4>2 DEF Find!AllOrEnough
      <3>5. \A i \in DOMAIN s7' : s7'[i].id # s5
        BY <1>1, <1>2, <1>4, <2>1, <3>1 DEF FinderOwned
      <3>6. FinderWalking(q, s7', s5', h) /\ FinderThrough(q, s7', s5', h)
        BY <1>1, <3>4, <3>5 DEF FinderWalking, FinderThrough
      <3> QED BY <1>5, <3>3, <3>6, FinderSearchParts DEF FinderSays
    <2> QED BY <1>7, <2>8, <2>9
  <1> QED BY <1>6, <1>7, FinderWalks

(* What is said of the last search is kept by every step. *)
LEMMA FinderSearchStep ==
    ASSUME Find!TypeOK, Find!WalkInv, Find!SearchInv, [Find!Next]_Find!vars
    PROVE  Find!SearchInv'
  <1> DEFINE g == FinderGot(s10, s9, s5)
  <1>0. /\ FinderLive(s5, s6, s8) /\ FinderOwned(s7, s5, s6, s8)
        /\ FinderMail(s9, s5, s6, s8) /\ FinderEnd(s9, s7, s5)
        /\ s7 \in Seq(Find!Tasks) /\ s9 \in Seq(Find!Posts) /\ s6 \in Nat /\ s5 \in 0 .. s6
    BY FinderParts DEF Find!TypeOK
  <1>1. PICK q \in FindQueries : FinderSays(q, s3, s2, s7, s5, g, s1, s12, s10)
    BY FinderSearchParts
  <1>2. /\ FinderFor(q, s3, s1, s2) /\ FinderWalking(q, s7, s5, g)
        /\ FinderThrough(q, s7, s5, g) /\ FinderShows(q, s5, s1, s12, s10)
    BY <1>1 DEF FinderSays
  <1>3. CASE Find!Start
    <2>1. "" \in FindQueries /\ Find!RestartSearch("") /\ s2' = ""
      BY <1>3, FinderAssumption DEF Find!Start
    <2> QED BY <2>1, FinderBegin, FinderBegunSays
  <1>4. CASE Find!OnDebounce
    <2>1. s2 \in FindQueries /\ Find!RestartSearch(s2) /\ s2' = s2
      BY <1>4 DEF Find!OnDebounce, Find!TypeOK
    <2> QED BY <2>1, FinderBegin, FinderBegunSays
  <1>5. CASE Find!WalkDirectory
    BY <1>5, FinderWalkSays
  <1>6. CASE Find!OnResults
    <2>1. /\ s9 # <<>> /\ s9' = Tail(s9)
          /\ UNCHANGED <<s1, s2, s3, s5, s6, s7, s8, s12>>
      BY <1>6 DEF Find!OnResults, Find!Timers
    <2>2. Head(s9).of \in s8 \/ (Head(s9).of = s5 /\ s5 # 0)
      <3>1. Head(s9) = s9[1] /\ 1 \in DOMAIN s9
        BY <1>0, <2>1, FinderTail
      <3> QED BY <1>0, <3>1 DEF FinderMail
    <2>3. FinderGot(s10', s9', s5') = g
      <3>1. CASE Head(s9).of \in s8
        <4>1. s10' = s10
          BY <1>6, <3>1 DEF Find!OnResults
        <4>2. Head(s9).of # s5
          <5>1. Head(s9) = s9[1] /\ 1 \in DOMAIN s9
            BY <1>0, <2>1, FinderTail
          <5> QED BY <1>0, <3>1, <5>1 DEF FinderLive, FinderMail
        <4>3. FinderGot(s10, Tail(s9), s5) = FinderGot(s10, s9, s5)
          BY <1>0, <2>1, <4>2, FinderGotTail
        <4> QED BY <2>1, <4>1, <4>3
      <3>2. CASE Head(s9).of \notin s8
        <4>1. s10' = s10 \cup Head(s9).hits /\ Head(s9).of = s5
          BY <1>6, <2>2, <3>2 DEF Find!OnResults
        <4>2. FinderGot(s10 \cup Head(s9).hits, Tail(s9), s5) = FinderGot(s10, s9, s5)
          BY <1>0, <2>1, <4>1, FinderGotTail
        <4> QED BY <2>1, <4>1, <4>2
      <3> QED BY <3>1, <3>2
    <2>4. FinderShows(q, s5', s1', s12', s10')
      <3>1. s5 = 0 => s10' = s10
        BY <1>6, <2>2 DEF Find!OnResults
      <3> QED BY <1>2, <2>1, <3>1 DEF FinderShows
    <2> HIDE DEF g
    <2>5. FinderSays(q, s3', s2', s7', s5', g, s1', s12', s10')
      BY <1>2, <2>1, <2>4 DEF FinderSays
    <2> QED BY <2>3, <2>5, FinderSearchParts
  <1>7. CASE Find!OnFinished
    <2>1. /\ s9 # <<>> /\ s9' = Tail(s9) /\ Head(s9).done
          /\ UNCHANGED <<s1, s2, s3, s6, s7, s8, s10>>
      BY <1>7 DEF Find!OnFinished
    <2>2. Head(s9) = s9[1] /\ 1 \in DOMAIN s9
      BY <1>0, <2>1, FinderTail
    <2>3. CASE Head(s9).of \in s8
      <3>1. s5' = s5 /\ s12' = s12 /\ Head(s9).of # s5
        <4>1. Head(s9).of # s5
          BY <1>0, <2>2, <2>3 DEF FinderLive, FinderMail
        <4> QED BY <1>7, <2>3, <4>1 DEF Find!OnFinished
      <3>2. FinderGot(s10, Tail(s9), s5) = FinderGot(s10, s9, s5)
        BY <1>0, <2>1, <3>1, FinderGotTail
      <3>3. FinderGot(s10', s9', s5') = g
        BY <2>1, <3>1, <3>2
      <3> HIDE DEF g
      <3>4. FinderSays(q, s3', s2', s7', s5', g, s1', s12', s10')
        BY <1>2, <2>1, <3>1 DEF FinderSays
      <3> QED BY <3>3, <3>4, FinderSearchParts
    <2>4. CASE Head(s9).of \notin s8
      <3>1. s5' = 0 /\ s12' = s10
        BY <1>7, <2>4 DEF Find!OnFinished, Find!RefreshList
      <3>2. /\ s9[1].of = s5 /\ s5 # 0 /\ s9[1].hits = {}
            /\ (\A j \in DOMAIN s7 : s7[j].id # s5) /\ (\A j \in DOMAIN s9 : 1 < j => s9[j].of # s5)
        <4>1. s9[1].of = s5 /\ s5 # 0
          BY <1>0, <2>2, <2>4 DEF FinderMail
        <4> QED BY <1>0, <2>1, <2>2, <4>1 DEF FinderEnd
      <3>3. g = s10
        <4>1. \A j \in DOMAIN s9 : s9[j].of = s5 => s9[j].hits = {}
          BY <1>0, <3>2
        <4> QED BY <4>1 DEF FinderGot
      <3>4. Find!AllOrEnough(s10, q)
        BY <1>2, <3>2, <3>3 DEF FinderThrough
      <3>5. FinderWalking(q, s7', s5', FinderGot(s10', s9', s5'))
        <4>1. \A i \in DOMAIN s7 : s7[i].id # 0
          BY <1>0 DEF FinderOwned
        <4> QED BY <2>1, <3>1, <4>1 DEF FinderWalking
      <3>6. FinderThrough(q, s7', s5', FinderGot(s10', s9', s5'))
        BY <3>1 DEF FinderThrough
      <3>7. FinderShows(q, s5', s1', s12', s10') /\ FinderFor(q, s3', s1', s2')
        BY <1>2, <2>1, <3>1, <3>4 DEF FinderShows
      <3> QED BY <3>5, <3>6, <3>7, FinderSearchParts DEF FinderSays
    <2> QED BY <2>3, <2>4
  <1> HIDE DEF g
  <1>8. CASE Find!OnRefresh
    <2>1. /\ UNCHANGED <<s1, s2, s3, s6, s5, s7, s8, s9, s10>> /\ s12' = s10
      BY <1>8 DEF Find!OnRefresh, Find!RefreshList, Find!Walk, Find!Timers
    <2>2. FinderShows(q, s5', s1', s12', s10')
      BY <1>2, <2>1 DEF FinderShows
    <2>3. FinderGot(s10', s9', s5') = g
      BY <2>1 DEF g
    <2>4. FinderSays(q, s3', s2', s7', s5', g, s1', s12', s10')
      BY <1>2, <2>1, <2>2 DEF FinderSays
    <2> QED BY <2>3, <2>4, FinderSearchParts
  <1>9. CASE Find!Accept
    <2>1. /\ s1' = FALSE /\ s5' = 0 /\ UNCHANGED <<s2, s3, s6, s7>>
      BY <1>9 DEF Find!Accept
    <2>2. \A i \in DOMAIN s7 : s7[i].id # 0
      BY <1>0 DEF FinderOwned
    <2>3. FinderWalking(q, s7', s5', FinderGot(s10', s9', s5'))
      BY <2>1, <2>2 DEF FinderWalking
    <2>4. /\ FinderThrough(q, s7', s5', FinderGot(s10', s9', s5'))
          /\ FinderShows(q, s5', s1', s12', s10') /\ FinderFor(q, s3', s1', s2')
      BY <2>1, Zenon DEF FinderThrough, FinderShows, FinderFor
    <2> QED BY <2>3, <2>4, FinderSearchParts DEF FinderSays
  <1>10. CASE Find!Dismiss
    <2>1. s1' = FALSE /\ UNCHANGED <<s2, s3, s6, s5, s7, s9, s10, s12>>
      BY <1>10 DEF Find!Dismiss, Find!Walk, Find!Timers
    <2>2. /\ FinderGot(s10', s9', s5') = g
          /\ FinderShows(q, s5', s1', s12', s10') /\ FinderFor(q, s3', s1', s2')
      BY <2>1, Zenon DEF g, FinderShows, FinderFor
    <2>3. FinderSays(q, s3', s2', s7', s5', g, s1', s12', s10')
      BY <1>2, <2>1, <2>2 DEF FinderSays
    <2> QED BY <2>2, <2>3, FinderSearchParts
  <1>11. ASSUME NEW p \in FindQueries, Find!Type(p) PROVE Find!SearchInv'
    <2>1. s3' = TRUE /\ UNCHANGED <<s1, s6, s5, s7, s9, s10, s12>>
      BY <1>11 DEF Find!Type, Find!Walk
    <2>2. FinderGot(s10', s9', s5') = g /\ FinderFor(q, s3', s1', s2')
      BY <2>1 DEF g, FinderFor
    <2>3. FinderSays(q, s3', s2', s7', s5', g, s1', s12', s10')
      BY <1>2, <2>1, <2>2 DEF FinderSays
    <2> QED BY <2>2, <2>3, FinderSearchParts
  <1>12. CASE UNCHANGED Find!vars
    <2>1. UNCHANGED <<s1, s2, s3, s6, s5, s7, s9, s10, s12>>
      BY <1>12 DEF Find!vars
    <2>2. FinderGot(s10', s9', s5') = g
      BY <2>1 DEF g
    <2>3. FinderSays(q, s3', s2', s7', s5', g, s1', s12', s10')
      BY <1>1, <2>1
    <2> QED BY <2>2, <2>3, FinderSearchParts
  <1> QED BY <1>3, <1>4, <1>5, <1>6, <1>7, <1>8, <1>9, <1>10, <1>11, <1>12 DEF Find!Next

(* The modal before it is opened. *)
LEMMA FinderInit ==
    ASSUME Find!Init
    PROVE  Find!TypeOK /\ Find!WalkInv /\ Find!SearchInv
  <1>1. /\ s1 = FALSE /\ s2 = "" /\ s3 = FALSE /\ s4 = FALSE /\ s5 = 0 /\ s6 = 0
        /\ s7 = <<>> /\ s8 = {} /\ s9 = <<>> /\ s10 = {} /\ s11 = FALSE /\ s12 = {}
    BY DEF Find!Init
  <1>0. s7 = <<>> /\ s9 = <<>> /\ s5 = 0 /\ s6 = 0 /\ s8 = {}
    BY DEF Find!Init
  <1>2. "" \in FindQueries
    BY FinderAssumption
  <1>3. Find!TypeOK
    <2>1. s7 \in Seq(Find!Tasks) /\ s9 \in Seq(Find!Posts)
      BY <1>0
    <2>2. s5 \in 0 .. s6 /\ s6 \in Nat /\ s8 \subseteq 1 .. s6
      BY <1>0
    <2>3. s10 \subseteq Find!AllHits /\ s12 \subseteq Find!AllHits
      BY <1>1
    <2>4. s1 \in BOOLEAN /\ s2 \in FindQueries /\ s3 \in BOOLEAN /\ s4 \in BOOLEAN /\ s11 \in BOOLEAN
      BY <1>1, <1>2
    <2> QED BY <2>1, <2>2, <2>3, <2>4 DEF Find!TypeOK
  <1>4. Find!WalkInv
    <2>1. FinderLive(s5, s6, s8)
      BY <1>1 DEF FinderLive
    <2>2. DOMAIN s7 = {} /\ DOMAIN s9 = {}
      BY <1>0
    <2>3. FinderOwned(s7, s5, s6, s8) /\ FinderMail(s9, s5, s6, s8)
      BY <2>2 DEF FinderOwned, FinderMail
    <2>4. FinderEnd(s9, s7, s5)
      BY <2>2 DEF FinderEnd
    <2> QED BY <2>1, <2>3, <2>4, FinderParts
  <1>5. FinderSays("", s3, s2, s7, s5, FinderGot(s10, s9, s5),
                   s1, s12, s10)
    <2>1. FinderFor("", s3, s1, s2) /\ FinderShows("", s5, s1, s12, s10)
      BY <1>1 DEF FinderFor, FinderShows
    <2>2. FinderWalking("", s7, s5, FinderGot(s10, s9, s5))
      <3>1. DOMAIN s7 = {}
        BY <1>0
      <3> QED BY <3>1 DEF FinderWalking
    <2>3. FinderThrough("", s7, s5, FinderGot(s10, s9, s5))
      BY <1>1 DEF FinderThrough
    <2> QED BY <2>1, <2>2, <2>3 DEF FinderSays
  <1> QED BY <1>2, <1>3, <1>4, <1>5, FinderSearchParts

(* Once nothing is under way, the list shows what the last search is said
   to have found, which is for the text in the box. *)
LEMMA FinderResults ==
    ASSUME Find!TypeOK, Find!SearchInv
    PROVE  Find!ResultsAreOfTheQuery
  <1> SUFFICES ASSUME s1, ~s3, s5 = 0
               PROVE  /\ s12 \subseteq Find!Found(s2)
                      /\ Find!Cardinality(s12) \in {Find!Cardinality(Find!Found(s2)), FindLimit}
    BY DEF Find!ResultsAreOfTheQuery
  <1>1. PICK q \in FindQueries :
           FinderSays(q, s3, s2, s7, s5, FinderGot(s10, s9, s5),
                      s1, s12, s10)
    BY FinderSearchParts
  <1>2. q = s2 /\ Find!AllOrEnough(s12, q)
    BY <1>1 DEF FinderSays, FinderFor, FinderShows
  <1> QED BY <1>2 DEF Find!AllOrEnough

(* RecursiveFinder.cpp, FindModal.cpp: once nothing is under way, the list
   shows the hits of the text in its box, all there are or as many as the
   limit lets through, whatever batches of older searches still arrive. *)
THEOREM FindingsAreOfTheQuery == Find!Spec => [](Find!TypeOK /\ Find!WalkInv /\ Find!SearchInv /\ Find!ResultsAreOfTheQuery)
  <1>1. Find!Init => Find!TypeOK /\ Find!WalkInv /\ Find!SearchInv
    BY FinderInit
  <1>2. Find!TypeOK /\ Find!WalkInv /\ Find!SearchInv /\ [Find!Next]_Find!vars => (Find!TypeOK /\ Find!WalkInv /\ Find!SearchInv)'
    BY FinderTypeStep, FinderWalkStep, FinderSearchStep
  <1>3. Find!TypeOK /\ Find!WalkInv /\ Find!SearchInv => Find!ResultsAreOfTheQuery
    BY FinderResults
  <1> QED BY <1>1, <1>2, <1>3, PTL DEF Find!Spec

(* A folder and a file that cannot be read; the cache holds one preview.   *)
Look == INSTANCE QuickLook WITH
    Files <- PreviewFiles, Unreadable <- PreviewErrors,
    Directories <- PreviewFolders, CacheSize <- PreviewsKept,
    MaxLoads <- PreviewLoads, MaxEdits <- PreviewEdits, version <- s1,
    listed <- s2, cursor <- s3, follows <- s4, open <- s5, path <- s6,
    page <- s7, content <- s8, wanted <- s9, debounce <- s10, spinner <- s11,
    channel <- s12, load <- s13, loads <- s14, ready <- s15, cache <- s16

ASSUME PreviewAssumption ==
    /\ Look!None \notin PreviewFiles
    /\ PreviewsKept \in Nat /\ PreviewLoads \in Nat /\ PreviewEdits \in Nat

(* A load that is cancelled keeps its request and its stage. *)
LEMMA PreviewCancelled ==
    ASSUME Look!TypeOK
    PROVE  /\ Look!LoaderCancelled \in [Look!Loads -> Look!LoadStates]
           /\ \A id \in Look!Loads : /\ Look!LoaderCancelled[id].key = s13[id].key
                                     /\ Look!LoaderCancelled[id].stage = s13[id].stage
                                     /\ Look!LoaderCancelled[id].of = s13[id].of
                                     /\ Look!LoaderCancelled[id].cancelled = (s13[id].cancelled \/ id = s12)
  <1>1. CASE s12 = 0
    <2>1. \A id \in Look!Loads : id # s12 /\ s13[id] \in Look!LoadStates
      BY <1>1, PreviewAssumption DEF Look!TypeOK, Look!Loads
    <2>2. \A id \in Look!Loads : (s13[id].cancelled \/ id = s12) = s13[id].cancelled
      BY <2>1 DEF Look!LoadStates
    <2> QED BY <1>1, <2>2 DEF Look!TypeOK, Look!LoaderCancelled
  <1>2. CASE s12 # 0
    <2>1. s12 \in Look!Loads
      BY <1>2, PreviewAssumption DEF Look!TypeOK, Look!Loads
    <2>2. Look!LoaderCancelled = [s13 EXCEPT ![s12] = [@ EXCEPT !.cancelled = TRUE]]
      BY <1>2, <2>1 DEF Look!TypeOK, Look!LoaderCancelled
    <2>3. s13[s12] \in Look!LoadStates
      BY <2>1 DEF Look!TypeOK
    <2> DEFINE new == [s13[s12] EXCEPT !.cancelled = TRUE]
    <2>4. /\ new \in Look!LoadStates /\ new.cancelled
          /\ new.key = s13[s12].key /\ new.stage = s13[s12].stage /\ new.of = s13[s12].of
      BY <2>3 DEF Look!LoadStates
    <2> HIDE DEF new
    <2>5. Look!LoaderCancelled \in [Look!Loads -> Look!LoadStates] /\ Look!LoaderCancelled[s12] = new
      BY <2>1, <2>2, <2>4 DEF Look!TypeOK, new
    <2>6. \A id \in Look!Loads : id # s12 => Look!LoaderCancelled[id] = s13[id]
      BY <2>2 DEF Look!TypeOK
    <2>7. ASSUME NEW id \in Look!Loads
          PROVE  /\ Look!LoaderCancelled[id].key = s13[id].key
                 /\ Look!LoaderCancelled[id].stage = s13[id].stage
                 /\ Look!LoaderCancelled[id].of = s13[id].of
                 /\ Look!LoaderCancelled[id].cancelled = (s13[id].cancelled \/ id = s12)
      <3>1. s13[id].cancelled \in BOOLEAN
        BY DEF Look!TypeOK, Look!LoadStates
      <3>2. CASE id = s12
        BY <2>4, <2>5, <3>2
      <3>3. CASE id # s12
        BY <2>6, <3>1, <3>3
      <3> QED BY <3>2, <3>3
    <2> QED BY <2>5, <2>7
  <1> QED BY <1>1, <1>2

(* What leaves the loads to be cancelled: nothing of them is live. *)
PreviewQuiet ==
    /\ s13' \in [Look!Loads -> Look!LoadStates] /\ s14' = s14 /\ s12' = 0 /\ s11' = FALSE
    /\ \A id \in Look!Loads : /\ s13'[id].key = s13[id].key /\ s13'[id].stage = s13[id].stage
                              /\ s13'[id].of = s13[id].of
                              /\ s13'[id].cancelled = (s13[id].cancelled \/ id = s12)

(* A request for a file is answered from the cache or is due. *)
PreviewAsked(f) ==
    /\ s6' = f /\ s9' = [file |-> f, of |-> s2[f]] /\ PreviewQuiet
    /\ s16' \in Seq(Look!Entries) /\ Len(s16') = Len(s16)
    /\ \A i \in DOMAIN s16' : \E j \in DOMAIN s16 : s16'[i] = s16[j]
    /\ \/ /\ s10' = FALSE
          /\ \E j \in DOMAIN s16 :
                /\ s16[j].key = s9'
                /\ s16[j].what.file = f =>
                      s8' = s16[j].what /\ s7' \in {"fallback", "renderer"}
                /\ s16[j].what.file # f => UNCHANGED <<s8, s7>>
       \/ s10' = TRUE /\ UNCHANGED <<s16, s7, s8>>

(* What the view is cleared of. *)
PreviewCleared ==
    /\ s6' = Look!None /\ s7' = Look!None /\ s8' = Look!Nothing /\ s10' = FALSE
    /\ s16' = <<>> /\ s9' = s9 /\ PreviewQuiet

(* An entry taken out of a sequence and put at its end leaves the others. *)
LEMMA PreviewUsed ==
    ASSUME NEW T, NEW s \in Seq(T), NEW i \in DOMAIN s
    PROVE  LET t == Append(Look!RemoveAt(s, i), s[i])
           IN /\ t \in Seq(T) /\ Len(t) = Len(s)
              /\ \A k \in DOMAIN t : \E j \in DOMAIN s : t[k] = s[j]
  <1> DEFINE t     == Append(Look!RemoveAt(s, i), s[i])
             n     == Len(s)
             front == SubSeq(s, 1, i - 1)
             back  == SubSeq(s, i + 1, n)
  <1>0. n \in Nat /\ i \in 1 .. n /\ DOMAIN s = 1 .. n
    OBVIOUS
  <1>00. \A k \in 1 .. n : s[k] \in T
    OBVIOUS
  <1>1. front \in Seq(T) /\ Len(front) = i - 1 /\ \A k \in 1 .. i - 1 : front[k] = s[k]
    <2>1. \A k \in 1 .. i - 1 : s[k] \in T
      BY <1>0, <1>00
    <2> QED BY <1>0, <2>1, SubSeqProperties
  <1>2. back \in Seq(T) /\ Len(back) = n - i /\ \A k \in 1 .. n - i : back[k] = s[i + k]
    <2>1. \A k \in i + 1 .. n : s[k] \in T
      BY <1>0, <1>00
    <2> HIDE DEF n
    <2>2. /\ back \in Seq(T) /\ Len(back) = IF i + 1 <= n THEN n - (i + 1) + 1 ELSE 0
          /\ \A k \in 1 .. n - (i + 1) + 1 : back[k] = s[(i + 1) + k - 1]
      BY <1>0, <2>1, SubSeqProperties
    <2> HIDE DEF back
    <2>3. \A k \in 1 .. n - i : (i + 1) + k - 1 = i + k /\ k \in 1 .. n - (i + 1) + 1
      BY <1>0
    <2> QED BY <1>0, <2>2, <2>3
  <1> DEFINE rest == front \o back
  <1>4. t = Append(rest, s[i])
    BY DEF Look!RemoveAt
  <1> HIDE DEF front, back, n, t
  <1>3. /\ rest \in Seq(T) /\ Len(rest) = n - 1
        /\ \A k \in 1 .. i - 1 : rest[k] = s[k]
        /\ \A k \in i .. n - 1 : rest[k] = s[k + 1]
    <2>1. /\ rest \in Seq(T) /\ Len(rest) = n - 1
          /\ \A k \in 1 .. n - 1 : rest[k] = IF k <= i - 1 THEN front[k] ELSE back[k - (i - 1)]
      <3>1. Len(front) + Len(back) = n - 1
        BY <1>0, <1>1, <1>2
      <3>2. /\ rest \in Seq(T) /\ Len(rest) = Len(front) + Len(back)
            /\ \A k \in 1 .. Len(front) + Len(back) :
                  rest[k] = IF k <= Len(front) THEN front[k] ELSE back[k - Len(front)]
        BY <1>1, <1>2, ConcatProperties
      <3> HIDE DEF rest
      <3> QED BY <1>1, <3>1, <3>2
    <2> HIDE DEF rest
    <2>2. ASSUME NEW k \in i .. n - 1 PROVE rest[k] = s[k + 1]
      <3>1. k \in 1 .. n - 1 /\ ~(k <= i - 1) /\ k - (i - 1) \in 1 .. n - i
            /\ i + (k - (i - 1)) = k + 1
        BY <1>0
      <3> QED BY <1>2, <2>1, <3>1
    <2>3. ASSUME NEW k \in 1 .. i - 1 PROVE rest[k] = s[k]
      <3>1. k \in 1 .. n - 1 /\ k <= i - 1
        BY <1>0
      <3> QED BY <1>1, <2>1, <3>1
    <2> QED BY <2>1, <2>2, <2>3
  <1> HIDE DEF rest
  <1>5. /\ t \in Seq(T) /\ Len(t) = n /\ t[n] = s[i]
        /\ \A k \in 1 .. n - 1 : t[k] = rest[k]
    <2>1. s[i] \in T
      BY <1>0, <1>00
    <2>2. (n - 1) + 1 = n
      BY <1>0
    <2> QED BY <1>3, <1>4, <2>1, <2>2, AppendProperties
  <1>6. ASSUME NEW k \in 1 .. n PROVE \E j \in 1 .. n : t[k] = s[j]
    <2>1. CASE k \in 1 .. i - 1
      BY <1>0, <1>3, <1>5, <2>1
    <2>2. CASE k \in i .. n - 1
      <3>1. t[k] = s[k + 1] /\ k + 1 \in 1 .. n
        BY <1>0, <1>3, <1>5, <2>2
      <3> QED BY <3>1
    <2>3. CASE k = n
      BY <1>0, <1>5, <2>3
    <2>4. k \in 1 .. i - 1 \/ k \in i .. n - 1 \/ k = n
      BY <1>0
    <2> QED BY <2>1, <2>2, <2>3, <2>4
  <1>7. DOMAIN t = 1 .. n
    BY <1>5
  <1> QED BY <1>0, <1>5, <1>6, <1>7 DEF n, t

(* Request as said. *)
LEMMA PreviewRequest ==
    ASSUME Look!TypeOK, NEW f \in PreviewFiles, s6' = f, Look!Request(f)
    PROVE  PreviewAsked(f)
  <1>1. PreviewQuiet
    BY PreviewCancelled DEF Look!Request, PreviewQuiet
  <1>2. CASE \E i \in DOMAIN s16 :
                /\ s16[i].key = s9' /\ s10' = FALSE
                /\ s16' = Append(Look!RemoveAt(s16, i), s16[i])
                /\ Look!OnLoaded(s16[i].what)
    <2>1. PICK i \in DOMAIN s16 :
                /\ s16[i].key = s9' /\ s10' = FALSE
                /\ s16' = Append(Look!RemoveAt(s16, i), s16[i])
                /\ Look!OnLoaded(s16[i].what)
      BY <1>2
    <2>2. /\ s16' \in Seq(Look!Entries) /\ Len(s16') = Len(s16)
          /\ \A k \in DOMAIN s16' : \E j \in DOMAIN s16 : s16'[k] = s16[j]
      <3>1. s16 \in Seq(Look!Entries)
        BY DEF Look!TypeOK
      <3> DEFINE used == Append(Look!RemoveAt(s16, i), s16[i])
      <3>2. /\ used \in Seq(Look!Entries) /\ Len(used) = Len(s16)
            /\ \A k \in DOMAIN used : \E j \in DOMAIN s16 : used[k] = s16[j]
        BY <2>1, <3>1, PreviewUsed
      <3> HIDE DEF used
      <3>3. s16' = used
        BY <2>1 DEF used
      <3> QED BY <3>2, <3>3
    <2>3. /\ s16[i].what.file = f => s8' = s16[i].what /\ s7' \in {"fallback", "renderer"}
          /\ s16[i].what.file # f => UNCHANGED <<s8, s7>>
      BY <2>1 DEF Look!OnLoaded
    <2> QED BY <1>1, <2>1, <2>2, <2>3 DEF Look!Request, PreviewAsked
  <1>3. CASE s10' = TRUE /\ UNCHANGED <<s16, s7, s8>>
    BY <1>1, <1>3 DEF Look!Request, PreviewAsked, Look!TypeOK
  <1> QED BY <1>2, <1>3 DEF Look!Request

(* Whatever moves the cursor, the panel or the view asks, clears or leaves
   everything as it is. *)
LEMMA PreviewMoves ==
    ASSUME Look!TypeOK, Look!CursorMoves \/ Look!PanelSwitch \/ Look!Open \/ Look!Close
    PROVE  /\ UNCHANGED <<Look!disk, s15, s4>> /\ s5' \in BOOLEAN /\ s3' \in PreviewFiles \cup {Look!None}
           /\ (UNCHANGED <<Look!view, Look!loader>>) \/ PreviewCleared \/ (\E f \in PreviewFiles : PreviewAsked(f))
  <1>1. ASSUME Look!ClearView PROVE PreviewCleared
    BY <1>1, PreviewCancelled DEF Look!ClearView, PreviewCleared, PreviewQuiet
  <1>2. ASSUME NEW f \in PreviewFiles \cup {Look!None}, Look!ShowFile(f)
        PROVE  PreviewCleared \/ (\E g \in PreviewFiles : PreviewAsked(g))
    BY <1>1, <1>2, PreviewRequest DEF Look!ShowFile
  <1>3. CASE Look!CursorMoves
    BY <1>2, <1>3 DEF Look!CursorMoves, Look!FollowCursor, Look!TypeOK
  <1>4. CASE Look!PanelSwitch
    BY <1>1, <1>4 DEF Look!PanelSwitch, Look!CloseView, Look!TypeOK
  <1>5. CASE Look!Open
    BY <1>2, <1>5 DEF Look!Open, Look!TypeOK
  <1>6. CASE Look!Close
    BY <1>1, <1>6 DEF Look!Close, Look!CloseView, Look!TypeOK
  <1> QED BY <1>3, <1>4, <1>5, <1>6

(* The types are kept by every step. *)
LEMMA PreviewTypeStep ==
    ASSUME Look!TypeOK, Look!LoaderInv, [Look!Next]_Look!vars
    PROVE  Look!TypeOK'
  <1> USE PreviewAssumption
  <1>1. \A f \in PreviewFiles : [file |-> f, of |-> s2[f]] \in Look!Keys
    BY DEF Look!TypeOK, Look!Keys
  <1>2. Look!Nothing \in Look!Keys
    BY DEF Look!Nothing, Look!Keys
  <1>3. ASSUME PreviewQuiet
        PROVE  /\ s13' \in [Look!Loads -> Look!LoadStates] /\ s14' \in 0 .. PreviewLoads /\ s12' \in 0 .. s14'
               /\ s11' \in BOOLEAN /\ Look!Live' = {}
    <2>1. \A id \in Look!Loads : Look!InProgress(id)' /\ ~s13'[id].cancelled => id \in Look!Live /\ id # s12
      BY <1>3 DEF PreviewQuiet, Look!Live, Look!InProgress
    <2>2. Look!Live' = {}
      BY <2>1 DEF Look!Live, Look!TypeOK
    <2>3. s14' \in 0 .. PreviewLoads /\ s12' \in 0 .. s14'
      BY <1>3 DEF PreviewQuiet, Look!TypeOK
    <2>4. s11' \in BOOLEAN
      BY <1>3 DEF PreviewQuiet
    <2> QED BY <1>3, <2>2, <2>3, <2>4 DEF PreviewQuiet
  <1>4. ASSUME NEW f \in PreviewFiles, PreviewAsked(f)
        PROVE  /\ s6' \in PreviewFiles \cup {Look!None} /\ s7' \in {Look!None, "renderer", "fallback"}
               /\ s8' \in Look!Keys /\ s9' \in Look!Keys /\ s10' \in BOOLEAN
               /\ s16' \in Seq(Look!Entries) /\ Len(s16') <= PreviewsKept /\ PreviewQuiet
    <2>1. \A j \in DOMAIN s16 : s16[j].what \in Look!Keys
      <3>1. \A j \in DOMAIN s16 : s16[j] \in Look!Entries
        BY DEF Look!TypeOK
      <3> QED BY <3>1 DEF Look!Entries
    <2>2. s8' \in Look!Keys /\ s7' \in {Look!None, "renderer", "fallback"}
      BY <1>4, <2>1 DEF PreviewAsked, Look!TypeOK
    <2>3. s10' \in BOOLEAN
      BY <1>4 DEF PreviewAsked
    <2>4. s9' \in Look!Keys /\ s6' \in PreviewFiles
      BY <1>1, <1>4 DEF PreviewAsked
    <2>5. s16' \in Seq(Look!Entries) /\ Len(s16') <= PreviewsKept /\ PreviewQuiet
      BY <1>4 DEF PreviewAsked, Look!TypeOK
    <2> QED BY <2>2, <2>3, <2>4, <2>5
  <1>5. CASE Look!CursorMoves \/ Look!PanelSwitch \/ Look!Open \/ Look!Close
    <2>1. /\ UNCHANGED <<Look!disk, s15, s4>> /\ s5' \in BOOLEAN /\ s3' \in PreviewFiles \cup {Look!None}
          /\ (UNCHANGED <<Look!view, Look!loader>>) \/ PreviewCleared \/ (\E f \in PreviewFiles : PreviewAsked(f))
      BY <1>5, PreviewMoves
    <2>2. CASE UNCHANGED <<Look!view, Look!loader>>
      BY <2>1, <2>2 DEF Look!TypeOK, Look!disk, Look!view, Look!loader, Look!Live, Look!InProgress
    <2>3. CASE PreviewCleared
      <3>1. /\ s6' \in PreviewFiles \cup {Look!None} /\ s7' \in {Look!None, "renderer", "fallback"}
            /\ s8' \in Look!Keys /\ s9' \in Look!Keys /\ s10' \in BOOLEAN
            /\ s16' \in Seq(Look!Entries) /\ Len(s16') <= PreviewsKept
        <4>1. s6' \in PreviewFiles \cup {Look!None} /\ s7' \in {Look!None, "renderer", "fallback"} /\ s10' \in BOOLEAN
          BY <2>3 DEF PreviewCleared
        <4>2. s8' \in Look!Keys /\ s9' \in Look!Keys
          BY <1>2, <2>3 DEF PreviewCleared, Look!TypeOK
        <4>3. s16' \in Seq(Look!Entries) /\ Len(s16') <= PreviewsKept
          BY <2>3 DEF PreviewCleared
        <4> QED BY <4>1, <4>2, <4>3
      <3>2. PreviewQuiet
        BY <2>3 DEF PreviewCleared
      <3> QED BY <1>3, <2>1, <3>1, <3>2 DEF Look!TypeOK, Look!disk
    <2>4. CASE \E f \in PreviewFiles : PreviewAsked(f)
      BY <1>3, <1>4, <2>1, <2>4 DEF Look!TypeOK, Look!disk
    <2> QED BY <2>1, <2>2, <2>3, <2>4
  <1>6. CASE Look!ApplySettings
    BY <1>6 DEF Look!ApplySettings, Look!TypeOK, Look!disk, Look!view, Look!loader, Look!Live, Look!InProgress
  <1>7. CASE Look!Start
    <2> DEFINE id == s14 + 1
               new == [s13[id] EXCEPT !.key = s9, !.stage = "queued"]
    <2>1. s14 < PreviewLoads /\ id \in Look!Loads /\ s13[id] \in Look!LoadStates /\ s12 = 0
      BY <1>7 DEF Look!Start, Look!TypeOK, Look!Loads, Look!LoaderInv
    <2>2. new \in Look!LoadStates /\ new.stage = "queued" /\ new.key = s9
      BY <2>1 DEF Look!LoadStates, Look!TypeOK
    <2>3. s13' = [s13 EXCEPT ![id] = new]
      BY <1>7, <2>1 DEF Look!Start, Look!TypeOK
    <2> HIDE DEF new
    <2>4. s13' \in [Look!Loads -> Look!LoadStates] /\ \A i \in Look!Loads : i # id => s13'[i] = s13[i]
      BY <2>1, <2>2, <2>3 DEF Look!TypeOK
    <2>5. Look!Live' \subseteq {id}
      BY <2>1, <2>4 DEF Look!Live, Look!InProgress, Look!TypeOK, Look!Loads
    <2>6. s12' = id /\ s14' = id /\ id \in 0 .. PreviewLoads
      BY <1>7, <2>1 DEF Look!Start, Look!TypeOK
    <2>7. s12' \in 0 .. s14'
      BY <2>6
    <2>8. s10' \in BOOLEAN /\ s11' \in BOOLEAN
      BY <1>7 DEF Look!Start
    <2> HIDE DEF id
    <2> QED BY <1>7, <2>4, <2>5, <2>6, <2>7, <2>8 DEF Look!Start, Look!TypeOK, Look!disk, Look!view
  <1>8. CASE Look!OnLoadingSlowly
    BY <1>8 DEF Look!OnLoadingSlowly, Look!TypeOK, Look!disk, Look!Live, Look!InProgress
  <1>9. ASSUME NEW id \in Look!Loads, Look!ListEntries(id) \/ Look!Read(id) \/ Look!Report(id)
        PROVE  Look!TypeOK'
    <2>1. PICK st \in {"listing", "read", "over"}, v \in Nat :
             /\ s13' = [s13 EXCEPT ![id] = [@ EXCEPT !.stage = st, !.of = v]]
             /\ st # "over" => Look!InProgress(id)
      <3>1. s13[id] \in Look!LoadStates
        BY DEF Look!TypeOK
      <3>2. CASE Look!ListEntries(id)
        <4>1. [s13[id] EXCEPT !.stage = "listing"] = [s13[id] EXCEPT !.stage = "listing", !.of = s13[id].of]
          BY <3>1 DEF Look!LoadStates
        <4>2. s13[id].of \in Nat /\ Look!InProgress(id)
          BY <3>1, <3>2 DEF Look!LoadStates, Look!ListEntries, Look!InProgress
        <4> QED BY <3>2, <4>1, <4>2 DEF Look!ListEntries, Look!TypeOK
      <3>3. CASE Look!Read(id)
        <4>1. Look!InProgress(id)
          BY <3>3 DEF Look!Read, Look!InProgress
        <4>2. s1[s13[id].key.file] \in Nat
          BY <4>1 DEF Look!LoaderInv, Look!TypeOK
        <4> QED BY <3>3, <4>1, <4>2 DEF Look!Read, Look!TypeOK
      <3>4. CASE Look!Report(id)
        <4>1. [s13[id] EXCEPT !.stage = "over"] = [s13[id] EXCEPT !.stage = "over", !.of = s13[id].of]
          BY <3>1 DEF Look!LoadStates
        <4>2. s13[id].of \in Nat
          BY <3>1 DEF Look!LoadStates
        <4> QED BY <3>4, <4>1, <4>2 DEF Look!Report, Look!TypeOK
      <3> QED BY <1>9, <3>2, <3>3, <3>4
    <2> DEFINE new == [s13[id] EXCEPT !.stage = st, !.of = v]
    <2>2. new \in Look!LoadStates /\ new.stage = st /\ new.cancelled = s13[id].cancelled
      BY DEF Look!TypeOK, Look!LoadStates
    <2>3. s13' = [s13 EXCEPT ![id] = new]
      BY <2>1
    <2> HIDE DEF new
    <2>4. s13' \in [Look!Loads -> Look!LoadStates] /\ s13'[id] = new /\ \A i \in Look!Loads : i # id => s13'[i] = s13[i]
      BY <2>2, <2>3 DEF Look!TypeOK
    <2>5. Look!Live' \subseteq Look!Live
      BY <2>1, <2>2, <2>4 DEF Look!Live, Look!InProgress
    <2>6. s15' \in Seq(Look!Entries)
      <3>1. CASE UNCHANGED s15
        BY <3>1 DEF Look!TypeOK
      <3>2. CASE Look!Report(id)
        <4> DEFINE report == [key |-> s13[id].key, what |-> [file |-> s13[id].key.file, of |-> s13[id].of]]
        <4>1. s13[id] \in Look!LoadStates
          BY DEF Look!TypeOK
        <4>2. report \in Look!Entries
          BY <4>1 DEF Look!LoadStates, Look!Entries, Look!Keys
        <4>3. s15' = s15 \/ s15' = Append(s15, report)
          BY <3>2 DEF Look!Report
        <4>4. s15 \in Seq(Look!Entries)
          BY DEF Look!TypeOK
        <4> HIDE DEF report
        <4> QED BY <4>2, <4>3, <4>4, AppendProperties
      <3>3. Look!ListEntries(id) \/ Look!Read(id) => UNCHANGED s15
        BY DEF Look!ListEntries, Look!Read
      <3> QED BY <1>9, <3>1, <3>2, <3>3
    <2>7. UNCHANGED <<Look!disk, s3, s4, s5, Look!view, s9, s10, s11, s12, s14, s16>>
      BY <1>9 DEF Look!ListEntries, Look!Read, Look!Report
    <2> QED BY <2>4, <2>5, <2>6, <2>7 DEF Look!TypeOK, Look!disk, Look!view
  <1>10. CASE Look!OnReady
    <2> DEFINE entry == Head(s15)
    <2>1. entry \in Look!Entries /\ s15' = Tail(s15) /\ s15' \in Seq(Look!Entries)
      BY <1>10 DEF Look!OnReady, Look!TypeOK
    <2>2. entry.what \in Look!Keys
      BY <2>1 DEF Look!Entries
    <2>3. s16' = Look!Remembered(entry)
      BY <1>10 DEF Look!OnReady
    <2>4. s8' \in Look!Keys /\ s7' \in {Look!None, "renderer", "fallback"}
      BY <1>10, <2>2 DEF Look!OnReady, Look!OnLoaded, Look!TypeOK
    <2> HIDE DEF entry
    <2>5. s16' \in Seq(Look!Entries) /\ Len(s16') <= PreviewsKept
      <3> DEFINE longer == Append(s16, entry)
      <3>1. s16 \in Seq(Look!Entries) /\ Len(s16) <= PreviewsKept
        BY DEF Look!TypeOK
      <3>2. longer \in Seq(Look!Entries) /\ Len(longer) = Len(s16) + 1
        BY <2>1, <3>1
      <3>3. s16' = IF Len(longer) > PreviewsKept THEN Tail(longer) ELSE longer
        BY <2>3 DEF Look!Remembered
      <3> HIDE DEF longer
      <3>4. Len(longer) > PreviewsKept => longer # <<>>
        BY <3>2
      <3>5. longer # <<>> => Tail(longer) \in Seq(Look!Entries) /\ Len(Tail(longer)) = Len(s16)
        BY <3>1, <3>2, HeadTailProperties
      <3> QED BY <3>1, <3>2, <3>3, <3>4, <3>5
    <2>6. UNCHANGED <<s1, s2, s3, s4, s5, s9, s10, s12, s13, s14, s6>>
      BY <1>10 DEF Look!OnReady, Look!disk
    <2>7. s11' \in BOOLEAN
      BY <1>10 DEF Look!OnReady
    <2>8. Look!Live' = Look!Live
      BY <2>6 DEF Look!Live, Look!InProgress
    <2>9. /\ s1' \in [PreviewFiles -> Nat] /\ s2' \in [PreviewFiles -> Nat]
          /\ s3' \in PreviewFiles \cup {Look!None} /\ s6' \in PreviewFiles \cup {Look!None}
          /\ s4' \in BOOLEAN /\ s5' \in BOOLEAN /\ s9' \in Look!Keys /\ s10' \in BOOLEAN
          /\ s14' \in 0 .. PreviewLoads /\ s12' \in 0 .. s14' /\ s13' \in [Look!Loads -> Look!LoadStates]
          /\ Look!Live' \subseteq {s12'}
      BY <2>6, <2>8, Zenon DEF Look!TypeOK
    <2> QED BY <2>1, <2>4, <2>5, <2>7, <2>9, Zenon DEF Look!TypeOK
  <1>11. ASSUME NEW f \in PreviewFiles, Look!Edit(f) \/ Look!RowRefreshed(f) PROVE Look!TypeOK'
    <2>1. s1' \in [PreviewFiles -> Nat] /\ s2' \in [PreviewFiles -> Nat]
      <3>1. s1[f] \in Nat /\ s1[f] + 1 \in Nat
        BY DEF Look!TypeOK
      <3>2. CASE Look!Edit(f)
        BY <3>1, <3>2 DEF Look!Edit, Look!TypeOK
      <3>3. CASE Look!RowRefreshed(f)
        BY <3>1, <3>3 DEF Look!RowRefreshed, Look!TypeOK
      <3> QED BY <1>11, <3>2, <3>3
    <2>2. UNCHANGED <<s3, s4, s5, s6, s7, s8, s9, s10, s11, s12,
                      s13, s14, s15, s16>>
      BY <1>11 DEF Look!Edit, Look!RowRefreshed, Look!view, Look!loader
    <2> QED BY <2>1, <2>2, Zenon DEF Look!TypeOK, Look!Live, Look!InProgress
  <1>12. CASE UNCHANGED Look!vars
    BY <1>12 DEF Look!vars, Look!TypeOK, Look!disk, Look!view, Look!loader, Look!Live, Look!InProgress
  <1> QED BY <1>5, <1>6, <1>7, <1>8, <1>9, <1>10, <1>11, <1>12 DEF Look!Next

(* What an action of a load does to the loads, and to the reports. *)
PreviewWorked(id, report) ==
    /\ s13' \in [Look!Loads -> Look!LoadStates] /\ \A i \in Look!Loads \ {id} : s13'[i] = s13[i]
    /\ s13'[id].key = s13[id].key /\ s13'[id].cancelled = s13[id].cancelled
    /\ s13'[id].stage # "none"
    /\ Look!InProgress(id)' => /\ Look!InProgress(id) /\ UNCHANGED s15
                               /\ s13'[id].stage = "read" =>
                                     ~s13[id].cancelled /\ s13'[id].of = s1[s13[id].key.file]
    /\ \/ UNCHANGED s15 /\ (s13[id].cancelled \/ Look!InProgress(id)')
       \/ /\ s13[id].stage = "read" /\ ~s13[id].cancelled
          /\ report = [key |-> s13[id].key, what |-> [file |-> s13[id].key.file, of |-> s13[id].of]]
          /\ s15' = Append(s15, report)

(* A load that is being made is listed, read or over. *)
LEMMA PreviewWork ==
    ASSUME Look!TypeOK, Look!LoaderInv, NEW id \in Look!Loads, Look!ListEntries(id) \/ Look!Read(id) \/ Look!Report(id)
    PROVE  /\ UNCHANGED <<Look!disk, s3, s4, s5, Look!view, s9, s10, s11, s12, s14, s16>>
           /\ \E report \in Look!Entries : PreviewWorked(id, report)
  <1> USE PreviewAssumption
  <1> DEFINE report == [key |-> s13[id].key, what |-> [file |-> s13[id].key.file, of |-> s13[id].of]]
  <1>1. s13[id] \in Look!LoadStates
    BY DEF Look!TypeOK
  <1>2. report \in Look!Entries
    BY <1>1 DEF Look!LoadStates, Look!Entries, Look!Keys
  <1>3. UNCHANGED <<Look!disk, s3, s4, s5, Look!view, s9, s10, s11, s12, s14, s16>>
    BY DEF Look!ListEntries, Look!Read, Look!Report
  <1>4. ASSUME NEW new \in Look!LoadStates, s13' = [s13 EXCEPT ![id] = new],
               new.key = s13[id].key, new.cancelled = s13[id].cancelled
        PROVE  /\ s13' \in [Look!Loads -> Look!LoadStates] /\ \A i \in Look!Loads \ {id} : s13'[i] = s13[i]
               /\ s13'[id] = new /\ s13'[id].key = s13[id].key
               /\ s13'[id].cancelled = s13[id].cancelled
    BY <1>4 DEF Look!TypeOK
  <1>5. CASE Look!ListEntries(id)
    <2> DEFINE new == [s13[id] EXCEPT !.stage = "listing"]
    <2>1. new \in Look!LoadStates /\ new.key = s13[id].key /\ new.cancelled = s13[id].cancelled /\ new.stage = "listing"
      BY <1>1 DEF Look!LoadStates
    <2>2. s13' = [s13 EXCEPT ![id] = new] /\ UNCHANGED s15 /\ s13[id].stage = "queued"
      BY <1>5 DEF Look!ListEntries, Look!TypeOK
    <2> HIDE DEF new
    <2>3. PreviewWorked(id, report)
      BY <1>4, <2>1, <2>2 DEF PreviewWorked, Look!InProgress
    <2> QED BY <1>2, <1>3, <2>3
  <1>6. CASE Look!Read(id)
    <2> DEFINE new == [s13[id] EXCEPT !.stage = IF s13[id].cancelled THEN "over" ELSE "read",
                                       !.of = s1[s13[id].key.file]]
    <2>1. s13[id].stage \in {"queued", "listing"} /\ UNCHANGED s15
      BY <1>6 DEF Look!Read
    <2>2. s1[s13[id].key.file] \in Nat
      BY <2>1 DEF Look!LoaderInv, Look!InProgress, Look!TypeOK
    <2>3. /\ new \in Look!LoadStates /\ new.key = s13[id].key /\ new.cancelled = s13[id].cancelled
          /\ new.of = s1[s13[id].key.file]
          /\ new.stage = IF s13[id].cancelled THEN "over" ELSE "read"
      BY <1>1, <2>2 DEF Look!LoadStates
    <2>4. s13' = [s13 EXCEPT ![id] = new]
      BY <1>6 DEF Look!Read, Look!TypeOK
    <2> HIDE DEF new
    <2>5. PreviewWorked(id, report)
      BY <1>4, <2>1, <2>3, <2>4 DEF PreviewWorked, Look!InProgress
    <2> QED BY <1>2, <1>3, <2>5
  <1>7. CASE Look!Report(id)
    <2> DEFINE new == [s13[id] EXCEPT !.stage = "over"]
    <2>1. new \in Look!LoadStates /\ new.key = s13[id].key /\ new.cancelled = s13[id].cancelled /\ new.stage = "over"
      BY <1>1 DEF Look!LoadStates
    <2>2. s13' = [s13 EXCEPT ![id] = new] /\ s13[id].stage = "read"
      BY <1>7 DEF Look!Report, Look!TypeOK
    <2>3. \/ UNCHANGED s15 /\ s13[id].cancelled
          \/ ~s13[id].cancelled /\ s15' = Append(s15, report)
      BY <1>7 DEF Look!Report
    <2> HIDE DEF new
    <2>4. PreviewWorked(id, report)
      BY <1>4, <2>1, <2>2, <2>3 DEF PreviewWorked, Look!InProgress
    <2> QED BY <1>2, <1>3, <2>4
  <1> QED BY <1>5, <1>6, <1>7

(* The live load is of the request that is pending. *)
LEMMA PreviewLoaderStep ==
    ASSUME Look!TypeOK, Look!LoaderInv, Look!AgesInv, [Look!Next]_Look!vars
    PROVE  Look!LoaderInv'
  <1> USE PreviewAssumption
  <1> DEFINE LoadsInv ==
        \A id \in Look!Loads : /\ Look!InProgress(id) => s13[id].key.file \in PreviewFiles
                               /\ s13[id].stage = "none" => ~s13[id].cancelled
                               /\ s13[id].stage = "none" <=> id > s14
  <1>1. ASSUME PreviewQuiet PROVE s12' = 0 /\ LoadsInv'
    <2>1. ASSUME NEW id \in Look!Loads, s13[id].stage = "none" PROVE id # s12 /\ ~s13[id].cancelled
      BY <2>1 DEF Look!LoaderInv, Look!TypeOK, Look!Loads
    <2>2. ASSUME NEW id \in Look!Loads
          PROVE  /\ Look!InProgress(id)' => s13'[id].key.file \in PreviewFiles
                 /\ s13'[id].stage = "none" => ~s13'[id].cancelled
                 /\ s13'[id].stage = "none" <=> id > s14'
      <3>1. /\ s13'[id].key = s13[id].key /\ s13'[id].stage = s13[id].stage /\ s14' = s14
            /\ s13'[id].cancelled = (s13[id].cancelled \/ id = s12)
        BY <1>1 DEF PreviewQuiet
      <3> QED BY <2>1, <3>1 DEF Look!LoaderInv, Look!InProgress
    <2> QED BY <1>1, <2>2 DEF PreviewQuiet
  <1>2. CASE Look!CursorMoves \/ Look!PanelSwitch \/ Look!Open \/ Look!Close
    <2>1. /\ UNCHANGED <<Look!disk, s15, s4>>
          /\ (UNCHANGED <<Look!view, Look!loader>>) \/ PreviewCleared \/ (\E f \in PreviewFiles : PreviewAsked(f))
      BY <1>2, PreviewMoves
    <2>2. CASE UNCHANGED <<Look!view, Look!loader>>
      BY <2>2 DEF Look!LoaderInv, Look!view, Look!loader, Look!InProgress
    <2>3. CASE PreviewCleared
      BY <1>1, <2>3 DEF PreviewCleared, Look!LoaderInv
    <2>4. ASSUME NEW f \in PreviewFiles, PreviewAsked(f) PROVE Look!LoaderInv'
      BY <1>1, <2>4 DEF PreviewAsked, Look!LoaderInv
    <2> QED BY <2>1, <2>2, <2>3, <2>4
  <1>3. CASE Look!ApplySettings
    BY <1>3 DEF Look!ApplySettings, Look!LoaderInv, Look!view, Look!loader, Look!InProgress
  <1>4. CASE Look!Start
    <2> DEFINE id == s14 + 1
               new == [s13[id] EXCEPT !.key = s9, !.stage = "queued"]
    <2>1. s14 < PreviewLoads /\ id \in Look!Loads /\ s13[id] \in Look!LoadStates /\ s10
      BY <1>4 DEF Look!Start, Look!TypeOK, Look!Loads
    <2>2. s13[id].stage = "none" /\ ~s13[id].cancelled /\ s9.file \in PreviewFiles
      BY <2>1 DEF Look!LoaderInv, Look!TypeOK
    <2>3. new.stage = "queued" /\ new.key = s9 /\ new.cancelled = s13[id].cancelled
      BY <2>1 DEF Look!LoadStates
    <2>4. s13' = [s13 EXCEPT ![id] = new]
      BY <1>4, <2>1 DEF Look!Start, Look!TypeOK
    <2> HIDE DEF new
    <2>5. s13'[id] = new /\ \A i \in Look!Loads : i # id => s13'[i] = s13[i]
      BY <2>1, <2>4 DEF Look!TypeOK
    <2>6. s12' = id /\ s14' = id /\ UNCHANGED <<s9, s6, s7, s8>> /\ s10' = FALSE
      BY <1>4 DEF Look!Start, Look!view
    <2>7. LoadsInv'
      <3>1. \A i \in Look!Loads : i # id => (i > s14 <=> i > id)
        BY DEF Look!TypeOK, Look!Loads
      <3>2. ~(id > id)
        BY DEF Look!TypeOK
      <3> HIDE DEF id
      <3> QED BY <2>2, <2>3, <2>5, <2>6, <3>1, <3>2 DEF Look!LoaderInv, Look!InProgress
    <2> HIDE DEF id
    <2> QED BY <2>2, <2>3, <2>5, <2>6, <2>7 DEF Look!LoaderInv
  <1>5. CASE Look!OnLoadingSlowly
    BY <1>5 DEF Look!OnLoadingSlowly, Look!LoaderInv, Look!InProgress
  <1>6. ASSUME NEW id \in Look!Loads, Look!ListEntries(id) \/ Look!Read(id) \/ Look!Report(id)
        PROVE  Look!LoaderInv'
    <2>1. PICK report \in Look!Entries : PreviewWorked(id, report)
      BY <1>6, PreviewWork
    <2>2. UNCHANGED <<s6, s7, s8, s9, s10, s12, s14>>
      BY <1>6, PreviewWork DEF Look!view
    <2>3. s13[id].stage # "none"
      BY <1>6 DEF Look!ListEntries, Look!Read, Look!Report
    <2>4. \A i \in Look!Loads : /\ s13'[i].key = s13[i].key /\ s13'[i].cancelled = s13[i].cancelled
                                /\ s13'[i].stage = "none" <=> s13[i].stage = "none"
                                /\ Look!InProgress(i)' => Look!InProgress(i)
      BY <2>1, <2>3 DEF PreviewWorked, Look!InProgress
    <2>5. LoadsInv'
      BY <2>2, <2>4 DEF Look!LoaderInv
    <2>6. s12 # 0 => s12 \in Look!Loads
      BY DEF Look!TypeOK, Look!Loads
    <2> QED BY <2>2, <2>4, <2>5, <2>6 DEF Look!LoaderInv
  <1>7. CASE Look!OnReady
    <2> DEFINE entry == Head(s15)
    <2>1. entry.what.file \in PreviewFiles
      <3>1. s15 # <<>> /\ s15 \in Seq(Look!Entries)
        BY <1>7 DEF Look!OnReady, Look!TypeOK
      <3>2. 1 \in DOMAIN s15 /\ entry = s15[1]
        BY <3>1
      <3> QED BY <3>2 DEF Look!AgesInv, Look!ReportsInv
    <2>2. s6 = Look!None => UNCHANGED <<s7, s8>>
      BY <1>7, <2>1 DEF Look!OnReady, Look!OnLoaded
    <2>3. UNCHANGED <<s6, s9, s10, s12, s13, s14>>
      BY <1>7 DEF Look!OnReady
    <2> QED BY <2>2, <2>3 DEF Look!LoaderInv, Look!InProgress
  <1>8. ASSUME NEW f \in PreviewFiles, Look!Edit(f) \/ Look!RowRefreshed(f) PROVE Look!LoaderInv'
    <2>1. UNCHANGED <<s6, s7, s8, s9, s10, s12, s13, s14>>
      BY <1>8 DEF Look!Edit, Look!RowRefreshed, Look!view, Look!loader
    <2> QED BY <2>1 DEF Look!LoaderInv, Look!InProgress
  <1>9. CASE UNCHANGED Look!vars
    BY <1>9 DEF Look!vars, Look!LoaderInv, Look!view, Look!loader, Look!InProgress
  <1> QED BY <1>2, <1>3, <1>4, <1>5, <1>6, <1>7, <1>8, <1>9 DEF Look!Next

(* A report at the end of the queue is of the request that is pending, and
   as old as any before it or in the cache. *)
LEMMA PreviewReported ==
    ASSUME Look!TypeOK, Look!LoaderInv, Look!AgesInv, NEW id \in Look!Loads, NEW report \in Look!Entries,
           PreviewWorked(id, report), Look!InProgress(id), UNCHANGED <<Look!disk, s9, s16>>,
           s15' = Append(s15, report), s13[id].stage = "read", ~s13[id].cancelled,
           report = [key |-> s13[id].key, what |-> [file |-> s13[id].key.file, of |-> s13[id].of]]
    PROVE  Look!KeptInv' /\ Look!ReportsInv'
  <1> DEFINE n == Len(s15)
  <1>1. id = s12 /\ s13[id].key = s9 /\ s9.file \in PreviewFiles /\ s13[id].key.of <= s13[id].of
    <2>1. id \in Look!Live
      BY DEF Look!Live
    <2>2. id = s12 /\ id # 0
      BY <2>1, PreviewAssumption DEF Look!TypeOK, Look!Loads
    <2> QED BY <2>2 DEF Look!LoaderInv, Look!AgesInv, Look!ReadsInv
  <1>2. /\ report.key = s9 /\ report.what.file = s9.file
        /\ report.what.of = s13[id].of /\ s9.of <= report.what.of /\ s9.of <= s2[s9.file]
    BY <1>1 DEF Look!AgesInv, Look!RowsInv
  <1>3. /\ n \in Nat /\ DOMAIN s15 = 1 .. n /\ DOMAIN s15' = 1 .. n + 1
        /\ s15'[n + 1] = report /\ \A i \in 1 .. n : s15'[i] = s15[i]
    BY DEF Look!TypeOK
  <1>4. s9.of \in Nat
    BY DEF Look!TypeOK, Look!Keys
  <1> HIDE DEF n
  <1>5. /\ s2' = s2 /\ s9' = s9 /\ s16' = s16
    BY DEF Look!disk
  <1>6. \A i \in 1 .. n + 1 : i = n + 1 \/ i \in 1 .. n
    BY <1>3
  <1>7. Look!KeptInv'
    BY <1>1, <1>2, <1>3, <1>5, <1>6 DEF Look!AgesInv, Look!KeptInv
  <1>8. ASSUME NEW i \in DOMAIN s15'
        PROVE  /\ s15'[i].what.file = s15'[i].key.file /\ s15'[i].key.file \in PreviewFiles
               /\ s15'[i].key.of <= s15'[i].what.of
               /\ s15'[i].key.of <= s2'[s15'[i].key.file]
               /\ s15'[i].key.file = s9'.file => s15'[i].key.of <= s9'.of
    BY <1>1, <1>2, <1>3, <1>4, <1>5, <1>6 DEF Look!AgesInv, Look!ReportsInv
  <1>9. ASSUME NEW i \in DOMAIN s15', NEW j \in DOMAIN s15', i < j,
               s15'[i].key.file = s15'[j].key.file
        PROVE  s15'[i].key.of <= s15'[j].key.of
    <2>1. i \in 1 .. n
      BY <1>3, <1>9
    <2>2. CASE j = n + 1
      BY <1>2, <1>3, <1>9, <2>1, <2>2 DEF Look!AgesInv, Look!ReportsInv
    <2>3. CASE j \in 1 .. n
      BY <1>3, <1>9, <2>1, <2>3 DEF Look!AgesInv, Look!ReportsInv
    <2> QED BY <1>3, <1>6, <2>2, <2>3
  <1> QED BY <1>7, <1>8, <1>9 DEF Look!ReportsInv

(* Reports come in the order of the requests, and none is of a file older
   than its row was. *)
LEMMA PreviewAgesStep ==
    ASSUME Look!TypeOK, Look!LoaderInv, Look!AgesInv, [Look!Next]_Look!vars
    PROVE  Look!AgesInv'
  <1> USE PreviewAssumption
  <1>0. Look!RowsInv /\ Look!ReadsInv /\ Look!ReportsInv /\ Look!KeptInv
    BY DEF Look!AgesInv
  <1>00. ASSUME Look!RowsInv', Look!ReadsInv', Look!ReportsInv', Look!KeptInv' PROVE Look!AgesInv'
    BY <1>00 DEF Look!AgesInv
  <1>1. ASSUME UNCHANGED <<s1, s2, s9>> PROVE Look!RowsInv'
    BY <1>0, <1>1 DEF Look!RowsInv
  <1>2. ASSUME UNCHANGED <<s2, s9, s15>> PROVE Look!ReportsInv'
    BY <1>0, <1>2 DEF Look!ReportsInv
  <1>3. ASSUME UNCHANGED <<s2, s9, s15, s16>> PROVE Look!KeptInv'
    BY <1>0, <1>3 DEF Look!KeptInv
  <1>4. ASSUME UNCHANGED s13 PROVE Look!ReadsInv'
    BY <1>0, <1>4 DEF Look!ReadsInv
  <1>5. ASSUME PreviewQuiet PROVE Look!ReadsInv'
    BY <1>0, <1>5 DEF Look!ReadsInv, PreviewQuiet
  <1>6. CASE Look!CursorMoves \/ Look!PanelSwitch \/ Look!Open \/ Look!Close
    <2>1. /\ UNCHANGED <<Look!disk, s15, s4>>
          /\ (UNCHANGED <<Look!view, Look!loader>>) \/ PreviewCleared \/ (\E f \in PreviewFiles : PreviewAsked(f))
      BY <1>6, PreviewMoves
    <2>2. CASE UNCHANGED <<Look!view, Look!loader>>
      BY <1>00, <1>1, <1>2, <1>3, <1>4, <2>1, <2>2 DEF Look!disk, Look!loader
    <2>3. CASE PreviewCleared
      <3>1. s16' = <<>> /\ UNCHANGED <<s1, s2, s9, s15>> /\ PreviewQuiet
        BY <2>1, <2>3 DEF PreviewCleared, Look!disk
      <3>2. Look!KeptInv'
        BY <3>1 DEF Look!KeptInv
      <3> QED BY <1>00, <1>1, <1>2, <1>5, <3>1, <3>2
    <2>4. ASSUME NEW f \in PreviewFiles, PreviewAsked(f) PROVE Look!AgesInv'
      <3>1. /\ s9' = [file |-> f, of |-> s2[f]] /\ UNCHANGED <<s1, s2, s15>> /\ PreviewQuiet
            /\ \A i \in DOMAIN s16' : \E j \in DOMAIN s16 : s16'[i] = s16[j]
        BY <2>1, <2>4 DEF PreviewAsked, Look!disk
      <3>2. s9'.file = f /\ s9'.of = s2[f] /\ s2[f] \in Nat
        BY <3>1 DEF Look!TypeOK
      <3>3. Look!RowsInv'
        BY <1>0, <3>1, <3>2 DEF Look!RowsInv
      <3>4. Look!ReportsInv'
        BY <1>0, <3>1, <3>2 DEF Look!ReportsInv
      <3>5. Look!KeptInv'
        BY <1>0, <3>1, <3>2 DEF Look!KeptInv
      <3> QED BY <1>00, <1>5, <3>1, <3>3, <3>4, <3>5
    <2> QED BY <2>1, <2>2, <2>3, <2>4
  <1>7. CASE Look!ApplySettings
    BY <1>00, <1>1, <1>2, <1>3, <1>4, <1>7 DEF Look!ApplySettings, Look!disk, Look!loader
  <1>8. CASE Look!Start
    <2>1. s13' = [s13 EXCEPT ![s14 + 1] = [@ EXCEPT !.key = s9, !.stage = "queued"]]
      BY <1>8 DEF Look!Start, Look!TypeOK, Look!Loads
    <2>2. s14 + 1 \in Look!Loads /\ s13[s14 + 1] \in Look!LoadStates
      BY <1>8 DEF Look!Start, Look!TypeOK, Look!Loads
    <2>3. s13'[s14 + 1].stage = "queued" /\ \A i \in Look!Loads : i # s14 + 1 => s13'[i] = s13[i]
      BY <2>1, <2>2 DEF Look!TypeOK, Look!LoadStates
    <2>4. Look!ReadsInv'
      BY <1>0, <2>3 DEF Look!ReadsInv
    <2>5. UNCHANGED <<s1, s2, s9, s15, s16>>
      BY <1>8 DEF Look!Start, Look!disk
    <2> QED BY <1>00, <1>1, <1>2, <1>3, <2>4, <2>5
  <1>9. CASE Look!OnLoadingSlowly
    BY <1>00, <1>1, <1>2, <1>3, <1>4, <1>9 DEF Look!OnLoadingSlowly, Look!disk
  <1>10. ASSUME NEW id \in Look!Loads, Look!ListEntries(id) \/ Look!Read(id) \/ Look!Report(id)
         PROVE  Look!AgesInv'
    <2>1. PICK report \in Look!Entries : PreviewWorked(id, report)
      BY <1>10, PreviewWork
    <2>2. UNCHANGED <<Look!disk, s1, s2, s9, s16>>
      BY <1>10, PreviewWork DEF Look!disk
    <2>3. Look!ReadsInv'
      <3>1. ASSUME s13'[id].stage = "read" PROVE s13'[id].key.of <= s13'[id].of
        <4>1. /\ Look!InProgress(id) /\ ~s13[id].cancelled /\ s13'[id].of = s1[s13[id].key.file]
              /\ s13'[id].key = s13[id].key
          BY <2>1, <3>1 DEF PreviewWorked, Look!InProgress
        <4>2. id \in Look!Live
          BY <4>1 DEF Look!Live
        <4>3. id = s12 /\ id # 0
          BY <4>2 DEF Look!TypeOK, Look!Loads
        <4>4. s13[id].key = s9 /\ s9.file \in PreviewFiles
          BY <4>1, <4>3 DEF Look!LoaderInv
        <4>5. s9.of \in Nat /\ s2[s9.file] \in Nat /\ s1[s9.file] \in Nat
          BY <4>4 DEF Look!TypeOK, Look!Keys
        <4> QED BY <1>0, <4>1, <4>4, <4>5 DEF Look!RowsInv
      <3> QED BY <1>0, <2>1, <3>1 DEF Look!ReadsInv, PreviewWorked
    <2>4. CASE UNCHANGED s15
      BY <1>00, <1>1, <1>2, <1>3, <2>2, <2>3, <2>4
    <2>5. CASE /\ s13[id].stage = "read" /\ ~s13[id].cancelled
               /\ report = [key |-> s13[id].key, what |-> [file |-> s13[id].key.file, of |-> s13[id].of]]
               /\ s15' = Append(s15, report)
      <3>1. Look!InProgress(id)
        BY <2>5 DEF Look!InProgress
      <3>2. Look!KeptInv' /\ Look!ReportsInv'
        BY <2>1, <2>2, <2>5, <3>1, PreviewReported
      <3> QED BY <1>00, <1>1, <2>2, <2>3, <3>2
    <2> QED BY <2>1, <2>4, <2>5 DEF PreviewWorked
  <1>11. CASE Look!OnReady
    <2> DEFINE entry == Head(s15)
               n == Len(s15)
    <2>1. /\ n \in Nat /\ n >= 1 /\ DOMAIN s15 = 1 .. n /\ entry = s15[1] /\ entry \in Look!Entries
          /\ DOMAIN s15' = 1 .. n - 1 /\ \A i \in 1 .. n - 1 : s15'[i] = s15[i + 1]
      BY <1>11 DEF Look!OnReady, Look!TypeOK
    <2>2. UNCHANGED <<s1, s2, s9, s13>> /\ s16' = Look!Remembered(entry)
      BY <1>11 DEF Look!OnReady, Look!disk
    <2> HIDE DEF entry, n
    <2>3. Look!ReportsInv'
      <3>1. \A i \in 1 .. n - 1 : i + 1 \in 1 .. n
        BY <2>1
      <3>2. \A i, j \in 1 .. n - 1 : i < j => i + 1 < j + 1
        BY <2>1
      <3>3. ASSUME NEW i \in DOMAIN s15'
            PROVE  /\ s15'[i].what.file = s15'[i].key.file /\ s15'[i].key.file \in PreviewFiles
                   /\ s15'[i].key.of <= s15'[i].what.of
                   /\ s15'[i].key.of <= s2'[s15'[i].key.file]
                   /\ s15'[i].key.file = s9'.file => s15'[i].key.of <= s9'.of
        <4>1. s15'[i] = s15[i + 1] /\ i + 1 \in DOMAIN s15
          BY <2>1, <3>1, <3>3
        <4> QED BY <1>0, <2>2, <4>1 DEF Look!ReportsInv
      <3>4. ASSUME NEW i \in DOMAIN s15', NEW j \in DOMAIN s15', i < j,
                   s15'[i].key.file = s15'[j].key.file
            PROVE  s15'[i].key.of <= s15'[j].key.of
        <4>1. /\ s15'[i] = s15[i + 1] /\ i + 1 \in DOMAIN s15
              /\ s15'[j] = s15[j + 1] /\ j + 1 \in DOMAIN s15 /\ i + 1 < j + 1
          BY <2>1, <3>1, <3>2, <3>4
        <4> QED BY <1>0, <3>4, <4>1 DEF Look!ReportsInv
      <3> QED BY <3>3, <3>4 DEF Look!ReportsInv
    <2>4. \A i \in DOMAIN s16' : s16'[i] = entry \/ \E j \in DOMAIN s16 : s16'[i] = s16[j]
      <3> DEFINE longer == Append(s16, entry)
                 m == Len(s16)
      <3>1. /\ m \in Nat /\ DOMAIN s16 = 1 .. m /\ longer \in Seq(Look!Entries) /\ Len(longer) = m + 1
            /\ longer[m + 1] = entry /\ \A i \in 1 .. m : longer[i] = s16[i]
        BY <2>1 DEF Look!TypeOK
      <3>2. s16' = Tail(longer) \/ s16' = longer
        BY <2>2 DEF Look!Remembered
      <3> HIDE DEF longer, m
      <3>3. \A i \in 1 .. m + 1 : longer[i] = entry \/ \E j \in DOMAIN s16 : longer[i] = s16[j]
        <4>1. \A i \in 1 .. m + 1 : i = m + 1 \/ i \in 1 .. m
          BY <3>1
        <4> QED BY <3>1, <4>1
      <3>4. DOMAIN longer = 1 .. m + 1 /\ longer # <<>>
        BY <3>1
      <3>5. CASE s16' = longer
        BY <3>3, <3>4, <3>5
      <3>6. CASE s16' = Tail(longer)
        <4>1. Len(Tail(longer)) = m /\ \A i \in 1 .. m : Tail(longer)[i] = longer[i + 1]
          BY <3>1, <3>4, HeadTailProperties
        <4>2. DOMAIN s16' = 1 .. m
          BY <3>1, <3>4, <3>6, <4>1, HeadTailProperties
        <4>3. \A i \in 1 .. m : i + 1 \in 1 .. m + 1
          BY <3>1
        <4> QED BY <3>3, <3>6, <4>1, <4>2, <4>3
      <3> QED BY <3>2, <3>5, <3>6
    <2>5. /\ entry.what.file = entry.key.file /\ entry.key.file \in PreviewFiles
          /\ entry.key.of <= entry.what.of /\ entry.key.of <= s2[entry.key.file]
          /\ entry.key.file = s9.file => entry.key.of <= s9.of
          /\ \A i \in 1 .. n - 1 : s15'[i].key.file = entry.key.file => entry.key.of <= s15'[i].key.of
      <3>1. \A i \in 1 .. n - 1 : i + 1 \in 1 .. n /\ 1 < i + 1
        BY <2>1
      <3>2. 1 \in 1 .. n
        BY <2>1
      <3>3. /\ entry.what.file = entry.key.file /\ entry.key.file \in PreviewFiles
            /\ entry.key.of <= entry.what.of /\ entry.key.of <= s2[entry.key.file]
            /\ entry.key.file = s9.file => entry.key.of <= s9.of
        BY <1>0, <2>1, <3>2 DEF Look!ReportsInv
      <3>4. ASSUME NEW i \in 1 .. n - 1, s15'[i].key.file = entry.key.file
            PROVE  entry.key.of <= s15'[i].key.of
        <4>1. s15'[i] = s15[i + 1] /\ entry = s15[1] /\ i + 1 \in DOMAIN s15 /\ 1 \in DOMAIN s15
              /\ 1 < i + 1
          BY <2>1, <3>1, <3>2
        <4>2. s15[1].key.of <= s15[i + 1].key.of
          BY <1>0, <3>4, <4>1 DEF Look!ReportsInv
        <4> QED BY <4>1, <4>2
      <3> QED BY <3>3, <3>4
    <2>6. Look!KeptInv'
      <3>1. \A j \in DOMAIN s15' : j \in 1 .. n - 1 /\ j + 1 \in DOMAIN s15 /\ s15'[j] = s15[j + 1]
        BY <2>1
      <3>2. ASSUME NEW i \in DOMAIN s16'
            PROVE  /\ s16'[i].what.file = s16'[i].key.file /\ s16'[i].key.file \in PreviewFiles
                   /\ s16'[i].key.of <= s16'[i].what.of
                   /\ s16'[i].key.of <= s2[s16'[i].key.file]
                   /\ s16'[i].key.file = s9.file => s16'[i].key.of <= s9.of
                   /\ \A j \in DOMAIN s15' : s15'[j].key.file = s16'[i].key.file
                                                 => s16'[i].key.of <= s15'[j].key.of
        <4>1. CASE s16'[i] = entry
          BY <2>5, <3>1, <4>1
        <4>2. ASSUME NEW k \in DOMAIN s16, s16'[i] = s16[k]
              PROVE  /\ s16[k].what.file = s16[k].key.file /\ s16[k].key.file \in PreviewFiles
                     /\ s16[k].key.of <= s16[k].what.of
                     /\ s16[k].key.of <= s2[s16[k].key.file]
                     /\ s16[k].key.file = s9.file => s16[k].key.of <= s9.of
                     /\ \A j \in DOMAIN s15' : s15'[j].key.file = s16[k].key.file
                                                   => s16[k].key.of <= s15'[j].key.of
          BY <1>0, <3>1 DEF Look!KeptInv
        <4> QED BY <2>4, <4>1, <4>2
      <3>3. s2' = s2 /\ s9' = s9
        BY <2>2
      <3> QED BY <3>2, <3>3 DEF Look!KeptInv
    <2> QED BY <1>00, <1>1, <1>4, <2>2, <2>3, <2>6
  <1>12. ASSUME NEW f \in PreviewFiles, Look!Edit(f) \/ Look!RowRefreshed(f) PROVE Look!AgesInv'
    <2>1. /\ UNCHANGED <<s9, s13, s15, s16>>
          /\ \A g \in PreviewFiles : s2[g] <= s2'[g] /\ s2'[g] <= s1'[g] /\ s2'[g] \in Nat
      <3>1. \A g \in PreviewFiles : s1[g] \in Nat /\ s2[g] \in Nat /\ s2[g] <= s1[g]
        BY <1>0 DEF Look!TypeOK, Look!RowsInv
      <3>2. CASE Look!Edit(f)
        BY <3>1, <3>2 DEF Look!Edit, Look!TypeOK, Look!loader
      <3>3. CASE Look!RowRefreshed(f)
        BY <3>1, <3>3 DEF Look!RowRefreshed, Look!TypeOK, Look!loader
      <3> QED BY <1>12, <3>2, <3>3
    <2>2. \A g \in PreviewFiles, k \in Nat : k <= s2[g] => k <= s2'[g]
      BY <2>1 DEF Look!TypeOK
    <2>3. /\ \A i \in DOMAIN s15 : s15[i].key.of \in Nat
          /\ \A i \in DOMAIN s16 : s16[i].key.of \in Nat
          /\ s9.of \in Nat
      <3>1. \A i \in DOMAIN s15 : s15[i] \in Look!Entries
        BY DEF Look!TypeOK
      <3>2. \A i \in DOMAIN s16 : s16[i] \in Look!Entries
        BY DEF Look!TypeOK
      <3>3. s9 \in Look!Keys
        BY DEF Look!TypeOK
      <3> QED BY <3>1, <3>2, <3>3 DEF Look!Entries, Look!Keys
    <2>4. Look!RowsInv'
      BY <1>0, <2>1, <2>2, <2>3 DEF Look!RowsInv
    <2>5. Look!ReportsInv'
      BY <1>0, <2>1, <2>2, <2>3 DEF Look!ReportsInv
    <2>6. Look!KeptInv'
      BY <1>0, <2>1, <2>2, <2>3 DEF Look!KeptInv
    <2> QED BY <1>00, <1>4, <2>1, <2>4, <2>5, <2>6
  <1>13. CASE UNCHANGED Look!vars
    BY <1>00, <1>1, <1>2, <1>3, <1>4, <1>13 DEF Look!vars, Look!disk, Look!loader
  <1> QED BY <1>6, <1>7, <1>8, <1>9, <1>10, <1>11, <1>12, <1>13 DEF Look!Next

(* A content of the file the view is on, of the pending request's age, is
   shown, and no report on its way is older. *)
LEMMA PreviewShows ==
    ASSUME Look!TypeOK, Look!LoaderInv, Look!AgesInv, NEW f \in PreviewFiles, PreviewAsked(f), UNCHANGED Look!disk, UNCHANGED s15
    PROVE  Look!ShownInv'
  <1>1. CASE s10'
    BY <1>1 DEF Look!ShownInv
  <1>2. CASE ~s10'
    <2>1. PICK j \in DOMAIN s16 :
             /\ s16[j].key = s9'
             /\ s16[j].what.file = f => s8' = s16[j].what /\ s7' \in {"fallback", "renderer"}
      BY <1>2 DEF PreviewAsked
    <2>2. s6' = f /\ s9'.file = f /\ ~s11'
      BY DEF PreviewAsked, PreviewQuiet
    <2>3. s16[j].key.file = f /\ s16[j].key.of = s9'.of
      BY <2>1, <2>2
    <2>4. /\ s16[j].what.file = f /\ s9'.of <= s16[j].what.of
          /\ \A i \in DOMAIN s15 : s15[i].key.file = f => s9'.of <= s15[i].key.of
      BY <2>3 DEF Look!AgesInv, Look!KeptInv
    <2>5. s7' # Look!None
      BY <2>1, <2>4 DEF Look!None
    <2>6. s16[j].what.of \in Nat /\ s9'.of \in Nat /\ \A i \in DOMAIN s15 : s15[i].key.of \in Nat
      <3>1. s16[j] \in Look!Entries /\ \A i \in DOMAIN s15 : s15[i] \in Look!Entries
        BY DEF Look!TypeOK
      <3> QED BY <2>3, <3>1 DEF Look!Entries, Look!Keys
    <2>7. Look!Shown'
      BY <2>1, <2>2, <2>4, <2>5, <2>6 DEF Look!Shown
    <2> QED BY <2>7 DEF Look!ShownInv
  <1> QED BY <1>1, <1>2

(* What the view is on is shown, or is going to be. *)
LEMMA PreviewShownStep ==
    ASSUME Look!TypeOK, Look!LoaderInv, Look!AgesInv, Look!ShownInv, [Look!Next]_Look!vars
    PROVE  Look!ShownInv'
  <1> USE PreviewAssumption
  <1>1. CASE Look!CursorMoves \/ Look!PanelSwitch \/ Look!Open \/ Look!Close
    <2>1. /\ UNCHANGED <<Look!disk, s15, s4>>
          /\ (UNCHANGED <<Look!view, Look!loader>>) \/ PreviewCleared \/ (\E f \in PreviewFiles : PreviewAsked(f))
      BY <1>1, PreviewMoves
    <2>2. CASE UNCHANGED <<Look!view, Look!loader>>
      BY <2>1, <2>2 DEF Look!ShownInv, Look!Shown, Look!view, Look!loader, Look!InProgress
    <2>3. CASE PreviewCleared
      BY <2>3 DEF PreviewCleared, Look!ShownInv
    <2> QED BY <2>1, <2>2, <2>3, PreviewShows
  <1>2. CASE Look!ApplySettings
    BY <1>2 DEF Look!ApplySettings, Look!ShownInv, Look!Shown, Look!view, Look!loader, Look!InProgress
  <1>3. CASE Look!Start
    <2> DEFINE id == s14 + 1
    <2>1. s13' = [s13 EXCEPT ![id] = [@ EXCEPT !.key = s9, !.stage = "queued"]]
      BY <1>3 DEF Look!Start, Look!TypeOK, Look!Loads
    <2>2. id \in Look!Loads /\ s13[id] \in Look!LoadStates /\ id # 0
      BY <1>3 DEF Look!Start, Look!TypeOK, Look!Loads
    <2>3. s13'[id].stage = "queued"
      BY <2>1, <2>2 DEF Look!TypeOK, Look!LoadStates
    <2>4. s12' = id
      BY <1>3 DEF Look!Start
    <2> HIDE DEF id
    <2> QED BY <2>2, <2>3, <2>4 DEF Look!ShownInv, Look!InProgress
  <1>4. CASE Look!OnLoadingSlowly
    <2>1. /\ UNCHANGED <<s6, s8, s9, s10, s12, s13, s15>>
          /\ s11
      BY <1>4 DEF Look!OnLoadingSlowly
    <2> QED BY <2>1 DEF Look!ShownInv, Look!Shown, Look!InProgress
  <1>5. ASSUME NEW id \in Look!Loads, Look!ListEntries(id) \/ Look!Read(id) \/ Look!Report(id)
        PROVE  Look!ShownInv'
    <2>1. PICK report \in Look!Entries : PreviewWorked(id, report)
      BY <1>5, PreviewWork
    <2>2. UNCHANGED <<Look!disk, s6, s7, s8, s9, s10, s11, s12, s16>>
      BY <1>5, PreviewWork DEF Look!view
    <2>3. s12 # 0 => s12 \in Look!Loads /\ s13[s12].key = s9 /\ ~s13[s12].cancelled
      BY DEF Look!TypeOK, Look!LoaderInv, Look!Loads
    <2>4. CASE UNCHANGED s15 /\ (s13[id].cancelled \/ Look!InProgress(id)')
      <3>1. s12 # 0 /\ Look!InProgress(s12) => Look!InProgress(s12)'
        <4>1. CASE s12 = id
          BY <2>2, <2>3, <2>4, <4>1
             DEF PreviewWorked, Look!InProgress
        <4>2. CASE s12 # id
          BY <2>1, <2>2, <2>3, <4>2 DEF PreviewWorked, Look!InProgress
        <4> QED BY <4>1, <4>2
      <3> QED BY <2>2, <2>4, <3>1 DEF Look!ShownInv, Look!Shown
    <2>5. CASE /\ s13[id].stage = "read" /\ ~s13[id].cancelled
               /\ report = [key |-> s13[id].key, what |-> [file |-> s13[id].key.file, of |-> s13[id].of]]
               /\ s15' = Append(s15, report)
      <3>1. id \in Look!Live /\ id # 0
        BY <2>5 DEF Look!Live, Look!InProgress, Look!Loads
      <3>2. s13[id].key = s9
        BY <2>3, <3>1 DEF Look!TypeOK
      <3>3. report.key = s9
        BY <2>5, <3>2
      <3>4. Len(s15) + 1 \in DOMAIN s15' /\ s15'[Len(s15) + 1] = report
        BY <2>5 DEF Look!TypeOK
      <3> QED BY <2>2, <3>3, <3>4 DEF Look!ShownInv
    <2> QED BY <2>1, <2>4, <2>5 DEF PreviewWorked
  <1>6. CASE Look!OnReady
    <2> DEFINE entry == Head(s15)
               n == Len(s15)
    <2>1. /\ n \in Nat /\ n >= 1 /\ DOMAIN s15 = 1 .. n /\ entry = s15[1]
          /\ DOMAIN s15' = 1 .. n - 1 /\ \A i \in 1 .. n - 1 : s15'[i] = s15[i + 1]
      BY <1>6 DEF Look!OnReady, Look!TypeOK
    <2>2. /\ UNCHANGED <<s6, s9, s10, s12, s13>> /\ ~s11'
          /\ IF entry.what.file # s6 THEN UNCHANGED <<s7, s8>>
             ELSE s8' = entry.what /\ s7' # Look!None
      BY <1>6 DEF Look!OnReady, Look!OnLoaded, Look!None
    <2> HIDE DEF entry, n
    <2>3. \A i \in 1 .. n - 1 : i + 1 \in 1 .. n /\ 1 < i + 1
      BY <2>1
    <2>4. 1 \in 1 .. n
      BY <2>1
    <2>5. /\ entry.what.file = entry.key.file /\ entry.key.of <= entry.what.of
          /\ \A i \in 1 .. n - 1 : s15'[i].key.file = entry.key.file => entry.key.of <= s15'[i].key.of
      <3>1. Look!ReportsInv
        BY DEF Look!AgesInv
      <3>2. entry.what.file = entry.key.file /\ entry.key.of <= entry.what.of
        BY <2>1, <2>4, <3>1 DEF Look!ReportsInv
      <3>3. ASSUME NEW i \in 1 .. n - 1, s15'[i].key.file = entry.key.file
            PROVE  entry.key.of <= s15'[i].key.of
        BY <2>1, <2>3, <2>4, <3>1, <3>3 DEF Look!ReportsInv
      <3> QED BY <3>2, <3>3
    <2>6. /\ entry.key.of \in Nat /\ entry.what.of \in Nat /\ s9.of \in Nat
          /\ \A i \in 1 .. n - 1 : s15'[i].key.of \in Nat
      <3>1. \A i \in 1 .. n : s15[i] \in Look!Entries
        BY <2>1 DEF Look!TypeOK
      <3>2. s9 \in Look!Keys
        BY DEF Look!TypeOK
      <3> QED BY <2>1, <2>3, <2>4, <3>1, <3>2 DEF Look!Entries, Look!Keys
    <2>7. CASE s10 \/ (s12 # 0 /\ Look!InProgress(s12)) \/ s6 = Look!None
      BY <2>2, <2>7 DEF Look!ShownInv, Look!InProgress
    <2>8. CASE s6 # Look!None /\ \E i \in DOMAIN s15 : s15[i].key = s9
      <3>1. s9.file = s6
        BY <2>8 DEF Look!LoaderInv
      <3>2. PICK i \in 1 .. n : s15[i].key = s9
        BY <2>1, <2>8
      <3>3. CASE i = 1
        <4>1. entry.key = s9
          BY <2>1, <3>2, <3>3
        <4>2. entry.what.file = s6 /\ entry.key.of = s9.of
          BY <2>5, <3>1, <4>1
        <4>3. Look!Shown'
          BY <2>1, <2>2, <2>5, <2>6, <3>1, <4>1, <4>2 DEF Look!Shown
        <4> QED BY <4>3 DEF Look!ShownInv
      <3>4. CASE i # 1
        <4>1. i - 1 \in 1 .. n - 1 /\ (i - 1) + 1 = i
          BY <2>1, <3>4
        <4>2. s15'[i - 1].key = s9
          BY <2>1, <3>2, <4>1
        <4> QED BY <2>1, <2>2, <4>1, <4>2 DEF Look!ShownInv
      <3> QED BY <3>3, <3>4
    <2>9. CASE s6 # Look!None /\ Look!Shown
      <3>1. entry.key.file = s6 => entry.key.of >= s9.of
        BY <2>1, <2>4, <2>9 DEF Look!Shown
      <3>2. s7' # Look!None /\ s8'.file = s6 /\ s8'.of >= s9.of
        BY <2>2, <2>5, <2>6, <2>9, <3>1 DEF Look!Shown
      <3>3. \A i \in 1 .. n - 1 : s15'[i].key.file = s6 => s15'[i].key.of >= s9.of
        BY <2>1, <2>3, <2>9 DEF Look!Shown
      <3>4. Look!Shown'
        BY <2>1, <2>2, <3>2, <3>3 DEF Look!Shown
      <3> QED BY <3>4 DEF Look!ShownInv
    <2> QED BY <2>7, <2>8, <2>9 DEF Look!ShownInv
  <1>7. ASSUME NEW f \in PreviewFiles, Look!Edit(f) \/ Look!RowRefreshed(f) PROVE Look!ShownInv'
    <2>1. UNCHANGED <<s6, s7, s8, s9, s10, s11, s12, s13, s15>>
      BY <1>7 DEF Look!Edit, Look!RowRefreshed, Look!view, Look!loader
    <2> QED BY <2>1 DEF Look!ShownInv, Look!Shown, Look!InProgress
  <1>8. CASE UNCHANGED Look!vars
    BY <1>8 DEF Look!vars, Look!ShownInv, Look!Shown, Look!view, Look!loader, Look!InProgress
  <1> QED BY <1>1, <1>2, <1>3, <1>4, <1>5, <1>6, <1>7, <1>8 DEF Look!Next

(* For any files, any size of the cache and any number of loads and edits,
   the preview is of the file the view is on, and as new as its row was. *)
THEOREM PreviewsAreOfTheFile ==
    Look!Spec => [](Look!TypeOK /\ Look!LoaderInv /\ Look!AgesInv /\ Look!ShownInv /\ Look!PreviewIsOfTheFile)
  <1>1. Look!Init => Look!TypeOK /\ Look!LoaderInv /\ Look!AgesInv /\ Look!ShownInv
    <2> SUFFICES ASSUME Look!Init PROVE Look!TypeOK /\ Look!LoaderInv /\ Look!AgesInv /\ Look!ShownInv
      OBVIOUS
    <2> USE PreviewAssumption
    <2> DEFINE idle == [key |-> Look!Nothing, stage |-> "none", of |-> 0, cancelled |-> FALSE]
    <2>1. Look!Nothing \in Look!Keys /\ idle \in Look!LoadStates
      BY DEF Look!Nothing, Look!Keys, Look!LoadStates
    <2>2. /\ s13 = [id \in Look!Loads |-> idle] /\ idle.stage = "none" /\ ~idle.cancelled
          /\ s15 = <<>> /\ s16 = <<>>
      BY DEF Look!Init
    <2> HIDE DEF idle
    <2>3. s13 \in [Look!Loads -> Look!LoadStates] /\ Look!Live = {} /\ \A id \in Look!Loads : ~Look!InProgress(id)
      BY <2>1, <2>2 DEF Look!Live, Look!InProgress
    <2>4. s4 \in BOOLEAN /\ s5 \in BOOLEAN /\ s10 \in BOOLEAN /\ s11 \in BOOLEAN
      BY Zenon DEF Look!Init
    <2>5. /\ s1 \in [PreviewFiles -> Nat] /\ s2 \in [PreviewFiles -> Nat]
          /\ \A f \in PreviewFiles : s2[f] <= s1[f]
      BY DEF Look!Init
    <2>6. /\ s3 = Look!None /\ s6 = Look!None /\ s7 = Look!None /\ s8 = Look!Nothing /\ s9 = Look!Nothing
          /\ s12 = 0 /\ s14 = 0 /\ ~s10
      BY DEF Look!Init
    <2>7. s15 \in Seq(Look!Entries) /\ s16 \in Seq(Look!Entries) /\ Len(s16) <= PreviewsKept
      BY <2>2
    <2>8. Look!TypeOK
      BY <2>1, <2>3, <2>4, <2>5, <2>6, <2>7 DEF Look!TypeOK
    <2>9. Look!LoaderInv
      BY <2>2, <2>3, <2>6 DEF Look!LoaderInv, Look!Loads
    <2>10. s9.file \notin PreviewFiles
      BY <2>6 DEF Look!Nothing
    <2>11. Look!AgesInv
      BY <2>2, <2>5, <2>10 DEF Look!AgesInv, Look!RowsInv, Look!ReadsInv, Look!ReportsInv, Look!KeptInv
    <2> QED BY <2>6, <2>8, <2>9, <2>11 DEF Look!ShownInv
  <1>2. Look!TypeOK /\ Look!LoaderInv /\ Look!ShownInv => Look!PreviewIsOfTheFile
    <2> SUFFICES ASSUME Look!TypeOK, Look!LoaderInv, Look!ShownInv, Look!Settled PROVE Look!PreviewIsOfTheFile
      BY DEF Look!PreviewIsOfTheFile
    <2>1. CASE s6 = Look!None
      BY <2>1 DEF Look!LoaderInv, Look!PreviewIsOfTheFile
    <2>2. CASE s6 # Look!None
      <3>1. ~s10 /\ Look!Live = {} /\ DOMAIN s15 = {}
        BY DEF Look!Settled
      <3>2. ~(s12 # 0 /\ Look!InProgress(s12))
        <4>1. s12 # 0 => s12 \in Look!Loads /\ ~s13[s12].cancelled
          BY PreviewAssumption DEF Look!TypeOK, Look!LoaderInv, Look!Loads
        <4> QED BY <3>1, <4>1 DEF Look!Live
      <3>3. Look!Shown
        BY <2>2, <3>1, <3>2 DEF Look!ShownInv
      <3> QED BY <2>2, <3>3 DEF Look!Shown, Look!PreviewIsOfTheFile
    <2> QED BY <2>1, <2>2
  <1> QED
    BY <1>1, <1>2, PreviewTypeStep, PreviewLoaderStep, PreviewAgesStep, PreviewShownStep, PTL DEF Look!Spec

(* Images, one of them large and one moving, texts and documents, one of   *)
(* which is damaged and one cannot be read.                                *)
SomeKinds == [f \in {"pic", "gif", "big", "txt", "gone", "doc", "book", "bad"} |->
                CASE f \in {"pic", "gif", "big"} -> "image"
                  [] f \in {"txt", "gone"} -> "text" [] OTHER -> "pdf"]
SomePages == [f \in {"doc", "book", "bad"} |-> CASE f = "doc" -> 1 [] f = "book" -> 2 [] OTHER -> 0]
Page == INSTANCE PreviewPages WITH
    Kind <- FileKinds, Large <- LargeFiles, Unreadable <- LockedFiles,
    Animated <- MovingFiles, Pages <- DocumentPages, PluginThere <- PdfPlugin,
    MaxZoom <- ZoomSteps, MaxGeneration <- PageRequests, path <- s1,
    current <- s2, given <- s3, image <- s4, movie <- s5, label <- s6,
    fitted <- s7, zoom <- s8, text <- s9, highlighter <- s10, wrap <- s11,
    usingPlugin <- s12, pdfPath <- s13, pageIndex <- s14, pageCount <- s15,
    pdfZoom <- s16, pageShown <- s17, generation <- s18, document <- s19,
    jobs <- s20, begun <- s21, result <- s22

ASSUME PagesAssumption ==
    /\ Page!None \notin Page!Files /\ ZoomSteps \in Nat
    /\ \A f \in Page!Files : FileKinds[f] \in {"image", "text", "pdf"} /\ (FileKinds[f] = "pdf" => DocumentPages[f] \in Nat)

(* The types of each part. *)
PagesViewTypes == s1 \in Page!Files \cup {Page!None} /\ s3 \in Page!Files \cup {Page!None}
                  /\ s2 \in {Page!None, "image", "text", "pdf", "fallback"}
PagesImageTypes == s4 \in Page!Files \cup {Page!None} /\ s5 \in Page!Files \cup {Page!None} /\ s6 \in Page!Labels
                   /\ s8 \in Page!Zooms /\ s7 \in BOOLEAN
PagesTextTypes == s9 \in Page!Files \cup {Page!None} /\ s10 \in Page!Files \cup {Page!None} /\ s11 \in BOOLEAN
PagesAskedTypes == s12 \in BOOLEAN /\ s13 \in Page!Files \cup {Page!None} /\ s14 \in Nat
                   /\ s15 \in Nat /\ s16 \in Page!Zooms /\ s17 \in Page!Shots /\ s18 \in Nat
PagesWorkTypes == s19 \in Page!Files \cup {Page!None} /\ s20 \in Seq(Page!Jobs) /\ s21 \in BOOLEAN
                  /\ s22 \in Page!Results \cup {Page!NoResult}

(* TypeOK is these parts. *)
LEMMA PagesTypes ==
    /\ Page!TypeOK <=> PagesViewTypes /\ PagesImageTypes /\ PagesTextTypes /\ PagesAskedTypes /\ PagesWorkTypes
    /\ Page!TypeOK' <=> PagesViewTypes' /\ PagesImageTypes' /\ PagesTextTypes' /\ PagesAskedTypes' /\ PagesWorkTypes'
  <1>1. ASSUME NEW a, NEW b, NEW c, NEW d, NEW e, NEW f, NEW g, NEW h, NEW S
        PROVE  {a, b, c, d, e, f, g, h} \subseteq S <=>
                  a \in S /\ b \in S /\ c \in S /\ d \in S /\ e \in S /\ f \in S /\ g \in S /\ h \in S
    OBVIOUS
  <1>2. {s1, s3, s4, s5, s9, s10, s13, s19} \subseteq Page!Files \cup {Page!None}
           <=> /\ s1 \in Page!Files \cup {Page!None} /\ s3 \in Page!Files \cup {Page!None} /\ s4 \in Page!Files \cup {Page!None}
               /\ s5 \in Page!Files \cup {Page!None} /\ s9 \in Page!Files \cup {Page!None}
               /\ s10 \in Page!Files \cup {Page!None} /\ s13 \in Page!Files \cup {Page!None}
               /\ s19 \in Page!Files \cup {Page!None}
    BY <1>1
  <1>3. {s1', s3', s4', s5', s9', s10', s13', s19'} \subseteq Page!Files \cup {Page!None}
           <=> /\ s1' \in Page!Files \cup {Page!None} /\ s3' \in Page!Files \cup {Page!None} /\ s4' \in Page!Files \cup {Page!None}
               /\ s5' \in Page!Files \cup {Page!None} /\ s9' \in Page!Files \cup {Page!None}
               /\ s10' \in Page!Files \cup {Page!None} /\ s13' \in Page!Files \cup {Page!None}
               /\ s19' \in Page!Files \cup {Page!None}
    BY <1>1
  <1>4. Page!TypeOK <=> PagesViewTypes /\ PagesImageTypes /\ PagesTextTypes /\ PagesAskedTypes /\ PagesWorkTypes
    BY <1>2, Zenon DEF Page!TypeOK, PagesViewTypes, PagesImageTypes, PagesTextTypes, PagesAskedTypes, PagesWorkTypes
  <1>5. Page!TypeOK' <=> PagesViewTypes' /\ PagesImageTypes' /\ PagesTextTypes' /\ PagesAskedTypes' /\ PagesWorkTypes'
    BY <1>3, Zenon DEF Page!TypeOK, PagesViewTypes, PagesImageTypes, PagesTextTypes, PagesAskedTypes, PagesWorkTypes
  <1> QED BY <1>4, <1>5

(* A zoom is kept within its bounds. *)
LEMMA PagesZooms ==
    /\ \A level \in Int : Page!Clamped(level) \in Page!Zooms
    /\ 0 \in Page!Zooms /\ Page!Zooms \subseteq Int
    /\ \A level \in Page!Zooms, by \in {-1, 0, 1} : level + by \in Int
  BY PagesAssumption DEF Page!Clamped, Page!Zooms

(* The renderer of a file that is shown. *)
LEMMA PagesRenderers ==
    ASSUME NEW f \in Page!Files
    PROVE  /\ Page!RendererFor(f) \in {"image", "text", "pdf", "fallback"}
           /\ Page!RendererFor(f) # "fallback" => Page!RendererFor(f) = FileKinds[f]
           /\ f # Page!None
  BY PagesAssumption DEF Page!RendererFor

(* What a step does with the view and the pictures. *)
LEMMA PagesImageMoves ==
    ASSUME [Page!Next]_Page!vars
    PROVE  \/ UNCHANGED <<s2, s3, Page!imageVars>>
           \/ /\ s2 = "image" /\ UNCHANGED <<s2, s3>>
              /\ Page!ZoomImage(1) \/ Page!ZoomImage(-1) \/ Page!FitImage
           \/ Page!OnLoaded
           \/ Page!Clear
  BY Zenon DEF Page!Next, Page!vars, Page!viewVars, Page!ShowFile, Page!HandleKey, Page!BeginJob, Page!FinishJob, Page!OnRendered

(* The picture in front stays that of the file. *)
LEMMA PagesImageStep ==
    ASSUME Page!TypeOK, Page!FrontInv, Page!ImageInv, [Page!Next]_Page!vars
    PROVE  Page!ImageInv' /\ PagesImageTypes'
  <1>0. PagesViewTypes /\ PagesImageTypes
    BY PagesTypes
  <1>1. CASE UNCHANGED <<s2, s3, Page!imageVars>>
    <2>1. UNCHANGED <<s2, s3, s4, s5, s6, s7, s8>>
      BY <1>1 DEF Page!imageVars
    <2>2. Page!ImageInv'
      BY <2>1 DEF Page!ImageInv
    <2>3. PagesImageTypes'
      BY <1>0, <2>1 DEF PagesImageTypes
    <2> QED BY <2>2, <2>3
  <1>2. ASSUME s2 = "image", UNCHANGED <<s2, s3>>, Page!ZoomImage(1) \/ Page!ZoomImage(-1) \/ Page!FitImage
        PROVE  Page!ImageInv' /\ PagesImageTypes'
    <2>1. PICK level \in Page!Zooms, fit \in BOOLEAN :
             /\ s7' = fit /\ UNCHANGED <<s4, s5>>
             /\ \/ s4 = Page!None /\ s6' = s6 /\ s8' = level
                \/ s4 = Page!None /\ s6' = s6 /\ s8' = s8
                \/ s4 # Page!None /\ s8' = level /\ s6' = [as |-> "still", file |-> s4, zoom |-> level]
      <3>1. ASSUME NEW by \in {-1, 1}, Page!ZoomImage(by)
            PROVE  /\ s7' = FALSE /\ UNCHANGED <<s4, s5>> /\ Page!Clamped(s8 + by) \in Page!Zooms
                   /\ \/ s4 = Page!None /\ s6' = s6 /\ s8' = Page!Clamped(s8 + by)
                      \/ /\ s4 # Page!None /\ s8' = Page!Clamped(s8 + by)
                         /\ s6' = [as |-> "still", file |-> s4, zoom |-> Page!Clamped(s8 + by)]
        <4>1. Page!Clamped(s8 + by) \in Page!Zooms
          BY <1>0, PagesZooms DEF PagesImageTypes
        <4> QED BY <3>1, <4>1 DEF Page!ZoomImage, Page!Rescale
      <3>2. ASSUME Page!FitImage
            PROVE  /\ s7' = TRUE /\ UNCHANGED <<s4, s5>> /\ 0 \in Page!Zooms
                   /\ \/ s4 = Page!None /\ s6' = s6 /\ s8' = s8
                      \/ s4 # Page!None /\ s8' = 0 /\ s6' = [as |-> "still", file |-> s4, zoom |-> 0]
        BY <3>2, PagesZooms DEF Page!FitImage, Page!Rescale
      <3> QED BY <1>2, <3>1, <3>2
    <2>2. s4 # Page!None => [as |-> "still", file |-> s4, zoom |-> level] \in Page!Labels
      BY <1>0 DEF PagesImageTypes, Page!Labels, Page!Ways
    <2>3. /\ s4' = s4 /\ s5' = s5 /\ s6' \in Page!Labels /\ s8' \in Page!Zooms /\ s7' \in BOOLEAN
          /\ s6' = s6 \/ (s4 # Page!None /\ s6'.file = s4)
      BY <1>0, <2>1, <2>2 DEF PagesImageTypes
    <2>4. PagesImageTypes'
      BY <1>0, <2>3 DEF PagesImageTypes
    <2>5. Page!ImageInv'
      BY <1>2, <2>3 DEF Page!ImageInv
    <2> QED BY <2>4, <2>5
  <1>3. ASSUME Page!ClearImage, s2' # "image"
        PROVE  Page!ImageInv' /\ PagesImageTypes'
    <2>1. s4' = Page!None /\ s5' = Page!None /\ s6' = Page!Blank /\ s7' = TRUE /\ s8' = 0
      BY <1>3 DEF Page!ClearImage
    <2>2. Page!Blank \in Page!Labels /\ 0 \in Page!Zooms
      BY PagesZooms DEF Page!Blank, Page!Labels, Page!Ways
    <2> QED BY <1>3, <2>1, <2>2 DEF Page!ImageInv, PagesImageTypes
  <1>4. ASSUME s2 # "image", s2' # "image", UNCHANGED Page!imageVars
        PROVE  Page!ImageInv' /\ PagesImageTypes'
    <2>1. UNCHANGED <<s4, s5, s6, s7, s8>>
      BY <1>4 DEF Page!imageVars
    <2>2. Page!ImageInv'
      BY <1>4, <2>1 DEF Page!ImageInv
    <2>3. PagesImageTypes'
      BY <1>0, <2>1 DEF PagesImageTypes
    <2> QED BY <2>2, <2>3
  <1>5. CASE Page!OnLoaded
    <2>1. s1 \in Page!Files /\ s1 # Page!None /\ s3' = s1
      BY <1>0, <1>5 DEF Page!OnLoaded, PagesViewTypes
    <2>2. CASE s2' = "image"
      <3>1. Page!SetImage(s1)
        BY <1>5, <2>2 DEF Page!OnLoaded, Page!Give
      <3> DEFINE card == [Page!Blank EXCEPT !.as = "card", !.file = s1]
                 film == [Page!Blank EXCEPT !.as = "movie", !.file = s1]
                 still == [as |-> "still", file |-> s1, zoom |-> 0]
      <3>2. /\ card \in Page!Labels /\ film \in Page!Labels /\ still \in Page!Labels /\ 0 \in Page!Zooms
            /\ film.file = s1 /\ still.file = s1
        BY <2>1, PagesZooms DEF Page!Labels, Page!Ways, Page!Blank
      <3>3. \/ s1 \in LargeFiles /\ s5' = Page!None /\ s6' = card /\ UNCHANGED <<s4, s7, s8>>
            \/ s4' = s1 /\ s5' = s1 /\ s6' = film /\ UNCHANGED <<s7, s8>>
            \/ s4' = s1 /\ s5' = Page!None /\ s6' = still /\ s7' = TRUE /\ s8' = 0
        BY <2>1, <3>1 DEF Page!SetImage, Page!Rescale
      <3> HIDE DEF card, film, still
      <3>4. Page!ImageInv'
        BY <2>1, <2>2, <3>2, <3>3 DEF Page!ImageInv
      <3>5. PagesImageTypes'
        BY <1>0, <2>1, <3>2, <3>3 DEF PagesImageTypes
      <3> QED BY <3>4, <3>5
    <2>3. CASE s2' # "image" /\ s2 = "image"
      BY <1>3, <1>5, <2>3 DEF Page!OnLoaded, Page!Give
    <2>4. CASE s2' # "image" /\ s2 # "image"
      BY <1>4, <1>5, <2>4 DEF Page!OnLoaded, Page!Give
    <2> QED BY <2>2, <2>3, <2>4
  <1>6. CASE Page!Clear
    <2>1. s2' # "image" /\ (IF s2 = "image" THEN Page!ClearImage ELSE UNCHANGED Page!imageVars)
      BY <1>6 DEF Page!Clear, Page!None
    <2> QED BY <1>3, <1>4, <2>1
  <1> QED BY <1>1, <1>2, <1>3, <1>4, <1>5, <1>6, PagesImageMoves

(* What a step does with the text. *)
LEMMA PagesTextMoves ==
    ASSUME [Page!Next]_Page!vars
    PROVE  \/ UNCHANGED <<s2, s3, Page!textVars>>
           \/ s2 = "text" /\ UNCHANGED <<s2, s3>> /\ Page!ToggleWrap
           \/ Page!OnLoaded
           \/ Page!Clear
  BY Zenon DEF Page!Next, Page!vars, Page!viewVars, Page!ShowFile, Page!HandleKey, Page!BeginJob, Page!FinishJob, Page!OnRendered

(* The text in front stays that of the file. *)
LEMMA PagesTextStep ==
    ASSUME Page!TypeOK, Page!TextInv, [Page!Next]_Page!vars
    PROVE  Page!TextInv' /\ PagesTextTypes'
  <1>0. PagesViewTypes /\ PagesTextTypes
    BY PagesTypes
  <1>1. CASE UNCHANGED <<s2, s3, Page!textVars>>
    <2>1. UNCHANGED <<s2, s3, s9, s10, s11>>
      BY <1>1 DEF Page!textVars
    <2>2. Page!TextInv'
      BY <2>1 DEF Page!TextInv
    <2>3. PagesTextTypes'
      BY <1>0, <2>1 DEF PagesTextTypes
    <2> QED BY <2>2, <2>3
  <1>2. CASE s2 = "text" /\ UNCHANGED <<s2, s3>> /\ Page!ToggleWrap
    <2>1. UNCHANGED <<s2, s3, s9, s10>> /\ s11' = ~s11
      BY <1>2 DEF Page!ToggleWrap
    <2>2. Page!TextInv'
      BY <2>1 DEF Page!TextInv
    <2>3. s11' \in BOOLEAN
      BY <2>1
    <2>4. PagesTextTypes'
      BY <1>0, <2>1, <2>3 DEF PagesTextTypes
    <2> QED BY <2>2, <2>4
  <1>3. ASSUME Page!ClearText, s2' # "text"
        PROVE  Page!TextInv' /\ PagesTextTypes'
    <2>1. s9' = Page!None /\ s10' = Page!None /\ s11' = s11
      BY <1>3 DEF Page!ClearText
    <2>2. Page!TextInv'
      BY <1>3, <2>1 DEF Page!TextInv
    <2>3. PagesTextTypes'
      BY <1>0, <2>1 DEF PagesTextTypes
    <2> QED BY <2>2, <2>3
  <1>4. ASSUME s2 # "text", s2' # "text", UNCHANGED Page!textVars
        PROVE  Page!TextInv' /\ PagesTextTypes'
    <2>1. UNCHANGED <<s9, s10, s11>>
      BY <1>4 DEF Page!textVars
    <2>2. Page!TextInv'
      BY <1>4, <2>1 DEF Page!TextInv
    <2>3. PagesTextTypes'
      BY <1>0, <2>1 DEF PagesTextTypes
    <2> QED BY <2>2, <2>3
  <1>5. CASE Page!OnLoaded
    <2>1. s1 \in Page!Files /\ s3' = s1
      BY <1>0, <1>5 DEF Page!OnLoaded, PagesViewTypes
    <2>2. CASE s2' = "text"
      <3>1. s9' = s1 /\ s10' \in {Page!None, s1} /\ s11' = s11
        BY <1>5, <2>2 DEF Page!OnLoaded, Page!Give, Page!SetText
      <3>2. Page!TextInv'
        BY <2>1, <2>2, <3>1 DEF Page!TextInv
      <3>3. PagesTextTypes'
        BY <1>0, <2>1, <3>1 DEF PagesTextTypes
      <3> QED BY <3>2, <3>3
    <2>3. CASE s2' # "text" /\ s2 = "text"
      BY <1>3, <1>5, <2>3 DEF Page!OnLoaded, Page!Give
    <2>4. CASE s2' # "text" /\ s2 # "text"
      BY <1>4, <1>5, <2>4 DEF Page!OnLoaded, Page!Give
    <2> QED BY <2>2, <2>3, <2>4
  <1>6. CASE Page!Clear
    <2>1. s2' # "text" /\ (IF s2 = "text" THEN Page!ClearText ELSE UNCHANGED Page!textVars)
      BY <1>6 DEF Page!Clear, Page!None
    <2> QED BY <1>3, <1>4, <2>1
  <1> QED BY <1>1, <1>2, <1>3, <1>4, <1>5, <1>6, PagesTextMoves

(* What a step does with the document. *)
LEMMA PagesPdfMoves ==
    ASSUME [Page!Next]_Page!vars
    PROVE  \/ UNCHANGED <<s2, s3, Page!pdfVars>>
           \/ s2 = "pdf" /\ s12 /\ UNCHANGED <<s2, s3>> /\ Page!PdfKey
           \/ Page!OnLoaded
           \/ Page!Clear
           \/ UNCHANGED <<s2, s3>> /\ (Page!BeginJob \/ Page!FinishJob \/ Page!OnRendered)
  <1>1. \/ UNCHANGED <<s2, s3, Page!pdfVars>>
        \/ s2 = "pdf" /\ s12 /\ UNCHANGED <<s2, s3>> /\ Page!PdfKey
        \/ Page!OnLoaded
        \/ Page!Clear
        \/ Page!BeginJob \/ Page!FinishJob \/ Page!OnRendered
    BY Zenon DEF Page!Next, Page!vars, Page!viewVars, Page!ShowFile, Page!HandleKey
  <1>2. Page!BeginJob \/ Page!FinishJob \/ Page!OnRendered => UNCHANGED <<s2, s3>>
    BY DEF Page!BeginJob, Page!FinishJob, Page!OnRendered, Page!viewVars
  <1> QED BY <1>1, <1>2

(* The types of the view, and who is in front. *)
LEMMA PagesFrontStep ==
    ASSUME Page!TypeOK, Page!FrontInv, [Page!Next]_Page!vars
    PROVE  Page!FrontInv' /\ PagesViewTypes'
  <1>0. PagesViewTypes
    BY PagesTypes
  <1>1. ASSUME NEW f \in Page!Files \cup {Page!None}, s1' = f, UNCHANGED <<s2, s3, s12>>
        PROVE  Page!FrontInv' /\ PagesViewTypes'
    <2>1. Page!FrontInv'
      BY <1>1 DEF Page!FrontInv
    <2>2. PagesViewTypes'
      BY <1>0, <1>1 DEF PagesViewTypes
    <2> QED BY <2>1, <2>2
  <1>2. CASE Page!OnLoaded
    <2>1. /\ s1 \in Page!Files /\ s3' = s1 /\ s1' = s1 /\ s2' = Page!RendererFor(s1)
          /\ Page!RendererFor(s1) \in {"image", "text", "pdf", "fallback"}
          /\ Page!RendererFor(s1) # "fallback" => Page!RendererFor(s1) = FileKinds[s1]
          /\ s1 # Page!None
      BY <1>0, <1>2, PagesRenderers DEF Page!OnLoaded, PagesViewTypes
    <2>2. s12' => s2' = "pdf" /\ s1 \notin LargeFiles /\ PdfPlugin
      <3>1. CASE s2' = "pdf"
        BY <1>2, <3>1 DEF Page!OnLoaded, Page!Give, Page!SetPluginContent
      <3>2. CASE s2' # "pdf" /\ s2 = "pdf"
        BY <1>2, <3>2 DEF Page!OnLoaded, Page!Give, Page!ClearPlugin
      <3>3. CASE s2' # "pdf" /\ s2 # "pdf"
        BY <1>2, <3>3 DEF Page!OnLoaded, Page!Give, Page!pdfVars, Page!FrontInv
      <3> QED BY <3>1, <3>2, <3>3
    <2>3. Page!FrontInv'
      BY <2>1, <2>2 DEF Page!FrontInv, Page!None
    <2>4. PagesViewTypes'
      BY <1>0, <2>1 DEF PagesViewTypes
    <2> QED BY <2>3, <2>4
  <1>3. CASE Page!Clear
    <2>1. s1' = Page!None /\ s2' = Page!None /\ s3' = Page!None
      BY <1>3 DEF Page!Clear
    <2>2. ~s12'
      <3>1. CASE s2 = "pdf"
        BY <1>3, <3>1 DEF Page!Clear, Page!ClearPlugin
      <3>2. CASE s2 # "pdf"
        BY <1>3, <3>2 DEF Page!Clear, Page!pdfVars, Page!FrontInv
      <3> QED BY <3>1, <3>2
    <2>3. Page!FrontInv'
      BY <2>1, <2>2 DEF Page!FrontInv
    <2>4. PagesViewTypes'
      BY <2>1 DEF PagesViewTypes
    <2> QED BY <2>3, <2>4
  <1>4. CASE \E f \in Page!Files : Page!ShowFile(f)
    BY <1>1, <1>4 DEF Page!ShowFile, Page!pdfVars
  <1>5. CASE Page!HandleKey
    <2>1. UNCHANGED <<s1, s2, s3, s12>>
      BY <1>5 DEF Page!HandleKey, Page!viewVars, Page!pdfVars, Page!PdfKey
    <2> QED BY <1>0, <1>1, <2>1 DEF PagesViewTypes
  <1>6. CASE Page!BeginJob \/ Page!FinishJob \/ Page!OnRendered \/ UNCHANGED Page!vars
    <2>1. UNCHANGED <<s1, s2, s3, s12>>
      BY <1>6 DEF Page!BeginJob, Page!FinishJob, Page!OnRendered, Page!vars, Page!viewVars, Page!pdfVars
    <2> QED BY <1>0, <1>1, <2>1 DEF PagesViewTypes
  <1> QED BY <1>2, <1>3, <1>4, <1>5, <1>6 DEF Page!Next

(* A request is the last, and the only one that counts. *)
LEMMA PagesAsked ==
    ASSUME PagesAskedTypes, PagesWorkTypes, Page!JobsInv, NEW reopen \in BOOLEAN, NEW f \in Page!Files \cup {Page!None},
           NEW page \in Nat, NEW level \in Page!Zooms, Page!Render(reopen, f, page, level)
    PROVE  /\ Page!JobsInv' /\ PagesWorkTypes' /\ s18' = s18 + 1 /\ s18' \in Nat
           /\ s22' = Page!NoResult /\ s19' = s19 /\ s20' # <<>> /\ ~(s21' /\ Len(s20') = 1)
           /\ s20'[Len(s20')] = [generation |-> s18', path |-> IF reopen THEN f ELSE Page!None,
                                   page |-> page, zoom |-> level]
  <1> DEFINE new == [generation |-> s18 + 1, path |-> IF reopen THEN f ELSE Page!None,
                     page |-> page, zoom |-> level]
  <1>1. /\ s20' = Append(s20, new) /\ s18' = s18 + 1 /\ s22' = Page!NoResult
        /\ s19' = s19 /\ s21' = s21
    BY DEF Page!Render
  <1>2. s20 \in Seq(Page!Jobs) /\ s18 \in Nat /\ s19 \in Page!Files \cup {Page!None} /\ s21 \in BOOLEAN
    BY DEF PagesWorkTypes, PagesAskedTypes
  <1>3. new \in Page!Jobs /\ new.generation = s18 + 1
    BY <1>2 DEF Page!Jobs
  <1>4. new = [generation |-> s18', path |-> IF reopen THEN f ELSE Page!None, page |-> page, zoom |-> level]
    BY <1>1
  <1> HIDE DEF new
  <1>5. /\ s20' \in Seq(Page!Jobs) /\ s20' # <<>> /\ Len(s20') = Len(s20) + 1 /\ s20'[Len(s20')] = new
        /\ \A i \in DOMAIN s20' : i = Len(s20') \/ (i \in DOMAIN s20 /\ s20'[i] = s20[i])
    BY <1>1, <1>2, <1>3
  <1>6. ~(s21' /\ Len(s20') = 1)
    <2>1. Len(s20') = 1 => s20 = <<>>
      BY <1>2, <1>5
    <2> QED BY <1>1, <2>1 DEF Page!JobsInv
  <1>7. PagesWorkTypes'
    <2>1. s19' \in Page!Files \cup {Page!None} /\ s21' \in BOOLEAN
      BY <1>1, <1>2
    <2> QED BY <1>1, <1>5, <2>1 DEF PagesWorkTypes
  <1>8. Page!JobsInv'
    <2>1. s21' => s20' # <<>>
      BY <1>5
    <2>2. \A i \in DOMAIN s20' : s20'[i].generation \in 1 .. s18'
                                   /\ (s20'[i].generation = s18' => i = Len(s20'))
      <3>1. \A i \in DOMAIN s20 : s20[i].generation \in 1 .. s18
        BY DEF Page!JobsInv
      <3>2. s18 + 1 \in 1 .. s18' /\ 1 .. s18 \subseteq 1 .. s18'
            /\ s18' \notin 1 .. s18
        BY <1>1, <1>2
      <3> QED BY <1>1, <1>3, <1>5, <3>1, <3>2
    <2>3. s22' = Page!NoResult /\ s22'.generation # s18'
      BY <1>1, <1>2 DEF Page!NoResult
    <2> QED BY <2>1, <2>2, <2>3 DEF Page!JobsInv, Page!Current
  <1>9. s18' \in Nat
    BY <1>1, <1>2
  <1> QED BY <1>1, <1>4, <1>5, <1>6, <1>7, <1>8, <1>9

(* A document is opened: its first page is waited for. *)
LEMMA PagesOpens ==
    ASSUME PagesAskedTypes, PagesWorkTypes, Page!JobsInv, NEW f \in Page!Files, Page!SetPdf(f), s12' = TRUE, s3' = f
    PROVE  Page!JobsInv' /\ PagesWorkTypes' /\ PagesAskedTypes' /\ Page!PdfInv'
  <1>1. /\ s13' = f /\ s14' = 0 /\ s15' = 0 /\ s16' = 0
        /\ s17' = [Page!NoPage EXCEPT !.as = "rendering"] /\ Page!Render(TRUE, f, 0, 0)
    BY DEF Page!SetPdf
  <1>2. 0 \in Page!Zooms
    BY PagesZooms
  <1>3. /\ Page!JobsInv' /\ PagesWorkTypes' /\ s18' \in Nat
        /\ s20' # <<>> /\ ~(s21' /\ Len(s20') = 1)
        /\ s20'[Len(s20')] = [generation |-> s18', path |-> f, page |-> 0, zoom |-> 0]
    <2>1. /\ Page!JobsInv' /\ PagesWorkTypes' /\ s18' \in Nat
          /\ s20' # <<>> /\ ~(s21' /\ Len(s20') = 1)
          /\ s20'[Len(s20')] = [generation |-> s18', path |-> IF TRUE THEN f ELSE Page!None,
                                  page |-> 0, zoom |-> 0]
      <3>1. /\ Page!Render(TRUE, f, 0, 0) /\ TRUE \in BOOLEAN /\ f \in Page!Files \cup {Page!None}
            /\ 0 \in Nat /\ 0 \in Page!Zooms
        BY <1>1, <1>2
      <3>2. /\ Page!JobsInv' /\ PagesWorkTypes' /\ s18' = s18 + 1 /\ s18' \in Nat
            /\ s22' = Page!NoResult /\ s19' = s19 /\ s20' # <<>> /\ ~(s21' /\ Len(s20') = 1)
            /\ s20'[Len(s20')] = [generation |-> s18', path |-> IF TRUE THEN f ELSE Page!None,
                                    page |-> 0, zoom |-> 0]
        BY <3>1, PagesAsked, Zenon
      <3> QED BY <3>2
    <2> QED BY <2>1
  <1>4. s17' \in Page!Shots /\ s17'.as # "page"
    BY <1>1, <1>2 DEF Page!NoPage, Page!Shots, Page!Ways
  <1>5. PagesAskedTypes'
    BY <1>1, <1>2, <1>3, <1>4 DEF PagesAskedTypes
  <1>6. Page!Waits(f)'
    BY <1>1, <1>3 DEF Page!Waits
  <1>7. Page!PdfInv'
    BY <1>1, <1>4, <1>6 DEF Page!PdfInv
  <1> QED BY <1>3, <1>5, <1>7

(* A document is left: whatever is still to come of it does not count. *)
LEMMA PagesLeaves ==
    ASSUME PagesAskedTypes, PagesWorkTypes, Page!JobsInv, Page!ClearPdf, s12' = FALSE
    PROVE  Page!JobsInv' /\ PagesWorkTypes' /\ PagesAskedTypes' /\ Page!PdfInv'
  <1>1. /\ s18' = s18 + 1 /\ s13' = Page!None /\ s15' = 0 /\ s17' = Page!NoPage
        /\ UNCHANGED <<s14, s16, s19, s20, s21, s22>>
    BY DEF Page!ClearPdf, Page!workVars
  <1>2. s18 \in Nat /\ s18' \in Nat /\ s14 \in Nat /\ s16 \in Page!Zooms
    BY <1>1 DEF PagesAskedTypes
  <1>3. Page!NoPage \in Page!Shots
    BY PagesZooms DEF Page!NoPage, Page!Shots, Page!Ways
  <1>4. PagesWorkTypes'
    BY <1>1 DEF PagesWorkTypes
  <1>5. PagesAskedTypes'
    BY <1>1, <1>2, <1>3 DEF PagesAskedTypes
  <1>6. (\A i \in DOMAIN s20 : s20[i].generation \in 1 .. s18' /\ s20[i].generation # s18')
        /\ (s22 # Page!NoResult => s22.generation \in 1 .. s18')
        /\ s22.generation # s18'
    <2>1. 1 .. s18 \subseteq 1 .. s18' /\ s18' \notin 1 .. s18 /\ s18' # 0
      BY <1>1, <1>2
    <2>2. Page!NoResult.generation = 0
      BY DEF Page!NoResult
    <2> QED BY <2>1, <2>2 DEF Page!JobsInv
  <1>7. Page!JobsInv'
    BY <1>1, <1>6 DEF Page!JobsInv, Page!Current
  <1>8. Page!PdfInv'
    BY <1>1, <1>6 DEF Page!PdfInv, Page!Idle, Page!Current
  <1> QED BY <1>4, <1>5, <1>7, <1>8

(* Nothing that is said of the document changes. *)
LEMMA PagesStay ==
    ASSUME PagesAskedTypes, PagesWorkTypes, Page!JobsInv, Page!PdfInv, UNCHANGED <<Page!askedVars, Page!workVars>>,
           s12' = s12, s12 => s3' = s3
    PROVE  Page!JobsInv' /\ PagesWorkTypes' /\ PagesAskedTypes' /\ Page!PdfInv'
  <1>1. UNCHANGED <<s13, s14, s15, s16, s17, s18, s19, s20, s21, s22>>
    BY DEF Page!askedVars, Page!workVars
  <1>2. Page!JobsInv'
    BY <1>1 DEF Page!JobsInv, Page!Current
  <1>3. PagesWorkTypes'
    BY <1>1 DEF PagesWorkTypes
  <1>4. PagesAskedTypes'
    BY <1>1 DEF PagesAskedTypes
  <1>5. Page!PdfInv'
    <2>1. CASE s12
      BY <1>1, <2>1 DEF Page!PdfInv, Page!Waits, Page!Arrives, Page!Shown, Page!Idle, Page!Current
    <2>2. CASE ~s12
      BY <1>1, <2>2 DEF Page!PdfInv, Page!Idle, Page!Current
    <2> QED BY <2>1, <2>2
  <1> QED BY <1>2, <1>3, <1>4, <1>5

(* Another page, or the page at another size, is asked for: the document
   is open. *)
LEMMA PagesTurns ==
    ASSUME PagesAskedTypes, PagesWorkTypes, Page!JobsInv, Page!PdfInv, s12, s15 > 0,
           NEW page \in 0 .. s15 - 1, NEW level \in Page!Zooms, s14' = page, s16' = level,
           UNCHANGED <<s13, s15, s17, s12, s3>>, Page!Render(FALSE, Page!None, page, level)
    PROVE  Page!JobsInv' /\ PagesWorkTypes' /\ PagesAskedTypes' /\ Page!PdfInv'
  <1>1. page \in Nat /\ s15 \in Nat /\ s15 # 0 /\ page < s15
    BY DEF PagesAskedTypes
  <1>2. /\ Page!JobsInv' /\ PagesWorkTypes' /\ s18' \in Nat /\ s19' = s19
        /\ s20' # <<>> /\ ~(s21' /\ Len(s20') = 1)
        /\ s20'[Len(s20')] = [generation |-> s18', path |-> IF FALSE THEN Page!None ELSE Page!None,
                                page |-> page, zoom |-> level]
    BY <1>1, PagesAsked
  <1>3. PagesAskedTypes'
    BY <1>1, <1>2 DEF PagesAskedTypes
  <1>4. s20'[Len(s20')] = [generation |-> s18', path |-> IF s15' = 0 THEN s3 ELSE Page!None,
                             page |-> s14', zoom |-> s16']
    BY <1>1, <1>2
  <1>5. Page!Waits(s3)'
    BY <1>2, <1>4 DEF Page!Waits
  <1>6. s13 = s3 /\ s15 = DocumentPages[s3] /\ s19 = s3
        /\ (s17.as = "page" => s17.file = s3)
    BY <1>1 DEF Page!PdfInv
  <1>7. Page!PdfInv'
    BY <1>1, <1>2, <1>5, <1>6 DEF Page!PdfInv
  <1> QED BY <1>2, <1>3, <1>7

(* A key of the document. *)
LEMMA PagesKey ==
    ASSUME PagesAskedTypes, PagesWorkTypes, Page!JobsInv, Page!PdfInv, s12, Page!PdfKey, s3' = s3
    PROVE  Page!JobsInv' /\ PagesWorkTypes' /\ PagesAskedTypes' /\ Page!PdfInv'
  <1>1. s15 > 0 /\ s12' = s12 /\ s15 \in Nat /\ s14 \in Nat
        /\ s16 \in Page!Zooms /\ s15 # 0
    BY DEF Page!PdfKey, PagesAskedTypes
  <1>2. s14 \in 0 .. s15 - 1
    BY <1>1 DEF Page!PdfInv
  <1>3. ASSUME NEW level \in Page!Zooms, Page!SetPdfZoom(level)
        PROVE  Page!JobsInv' /\ PagesWorkTypes' /\ PagesAskedTypes' /\ Page!PdfInv'
    <2>1. /\ s14' = s14 /\ s16' = level /\ Page!Render(FALSE, Page!None, s14, level)
          /\ UNCHANGED <<s13, s15, s17, s12, s3>>
      BY <1>1, <1>3 DEF Page!SetPdfZoom
    <2> QED BY <1>1, <1>2, <2>1, PagesTurns
  <1>4. ASSUME NEW page \in Int, Page!GoToPage(page)
        PROVE  Page!JobsInv' /\ PagesWorkTypes' /\ PagesAskedTypes' /\ Page!PdfInv'
    <2>1. CASE page \notin 0 .. s15 - 1
      BY <1>1, <1>4, <2>1, PagesStay DEF Page!GoToPage
    <2>2. CASE page \in 0 .. s15 - 1
      <3>1. /\ s14' = page /\ s16' = s16 /\ Page!Render(FALSE, Page!None, page, s16)
            /\ UNCHANGED <<s13, s15, s17, s12, s3>>
        BY <1>1, <1>4, <2>2 DEF Page!GoToPage
      <3> QED BY <1>1, <2>2, <3>1, PagesTurns
    <2> QED BY <2>1, <2>2
  <1>5. \/ \E by \in {-1, 1} : Page!GoToPage(s14 + by) \/ Page!SetPdfZoom(Page!Clamped(s16 + by))
        \/ Page!SetPdfZoom(0)
    BY DEF Page!PdfKey
  <1>6. 0 \in Page!Zooms /\ \A by \in {-1, 1} : s14 + by \in Int /\ Page!Clamped(s16 + by) \in Page!Zooms
    BY <1>1, PagesZooms
  <1> QED BY <1>3, <1>4, <1>5, <1>6

(* A sequence without its first element. *)
LEMMA PagesRest ==
    ASSUME NEW T, NEW s \in Seq(T), s # <<>>
    PROVE  /\ Head(s) = s[1] /\ Head(s) \in T /\ Tail(s) \in Seq(T) /\ 1 \in DOMAIN s
           /\ Len(s) \in Nat /\ Len(s) >= 1
           /\ Len(Tail(s)) = Len(s) - 1 /\ (Tail(s) = <<>> <=> Len(s) = 1)
           /\ \A i \in DOMAIN Tail(s) : i + 1 \in DOMAIN s /\ Tail(s)[i] = s[i + 1] /\ i \in Nat
  <1>1. /\ Head(s) = s[1] /\ Head(s) \in T /\ Tail(s) \in Seq(T) /\ 1 \in DOMAIN s
        /\ Len(s) \in Nat /\ Len(s) >= 1 /\ Len(Tail(s)) = Len(s) - 1
    OBVIOUS
  <1>2. Tail(s) = <<>> <=> Len(s) = 1
    <2>1. Tail(s) = <<>> <=> Len(Tail(s)) = 0
      BY <1>1, EmptySeq
    <2>2. Len(Tail(s)) = 0 <=> Len(s) = 1
      BY <1>1
    <2> QED BY <2>1, <2>2
  <1>3. \A i \in DOMAIN Tail(s) : i + 1 \in DOMAIN s /\ Tail(s)[i] = s[i + 1] /\ i \in Nat
    BY <1>1
  <1> QED BY <1>1, <1>2, <1>3

(* Without its first request the requests are in the same order. *)
LEMMA PagesTail ==
    ASSUME PagesWorkTypes, Page!JobsInv, s20 # <<>>
    PROVE  /\ Head(s20) = s20[1] /\ Head(s20) \in Page!Jobs /\ Tail(s20) \in Seq(Page!Jobs)
           /\ Len(s20) \in Nat /\ Len(s20) >= 1
           /\ Len(Tail(s20)) = Len(s20) - 1 /\ (Tail(s20) = <<>> <=> Len(s20) = 1)
           /\ Len(s20) > 1 => Tail(s20)[Len(Tail(s20))] = s20[Len(s20)]
           /\ \A i \in DOMAIN Tail(s20) :
                 Tail(s20)[i].generation \in 1 .. s18 /\ (Page!Current(Tail(s20)[i]) => i = Len(Tail(s20)))
           /\ Page!Current(Head(s20)) => Len(s20) = 1 /\ Head(s20) = s20[Len(s20)]
           /\ \A i \in DOMAIN Tail(s20) : \E j \in DOMAIN s20 : Tail(s20)[i] = s20[j]
  <1>1. s20 \in Seq(Page!Jobs)
    BY DEF PagesWorkTypes
  <1>2. /\ Head(s20) = s20[1] /\ Head(s20) \in Page!Jobs /\ Tail(s20) \in Seq(Page!Jobs) /\ 1 \in DOMAIN s20
        /\ Len(s20) \in Nat /\ Len(s20) >= 1
        /\ Len(Tail(s20)) = Len(s20) - 1 /\ (Tail(s20) = <<>> <=> Len(s20) = 1)
        /\ \A i \in DOMAIN Tail(s20) : i + 1 \in DOMAIN s20 /\ Tail(s20)[i] = s20[i + 1] /\ i \in Nat
    BY <1>1, PagesRest
  <1>3. Len(s20) > 1 => Tail(s20)[Len(Tail(s20))] = s20[Len(s20)]
    BY <1>1, <1>2
  <1>4. \A i \in DOMAIN s20 : s20[i].generation \in 1 .. s18 /\ (Page!Current(s20[i]) => i = Len(s20))
    BY DEF Page!JobsInv
  <1>5. \A i \in DOMAIN Tail(s20) :
           Tail(s20)[i].generation \in 1 .. s18 /\ (Page!Current(Tail(s20)[i]) => i = Len(Tail(s20)))
    <2> SUFFICES ASSUME NEW i \in DOMAIN Tail(s20)
                 PROVE  /\ Tail(s20)[i].generation \in 1 .. s18
                        /\ Page!Current(Tail(s20)[i]) => i = Len(Tail(s20))
      OBVIOUS
    <2>1. i + 1 \in DOMAIN s20 /\ Tail(s20)[i] = s20[i + 1] /\ i \in Nat
      BY <1>2
    <2>2. Page!Current(s20[i + 1]) => i + 1 = Len(s20)
      BY <1>4, <2>1
    <2> DEFINE m == Len(s20)
               k == Len(Tail(s20))
    <2>4. m \in Nat /\ k = m - 1 /\ i \in Nat
      BY <1>2, <2>1
    <2> HIDE DEF m, k
    <2>5. i + 1 = m => i = k
      BY <2>4
    <2>3. i + 1 = Len(s20) => i = Len(Tail(s20))
      BY <2>5 DEF m, k
    <2> QED BY <1>4, <2>1, <2>2, <2>3
  <1>6. Page!Current(Head(s20)) => Len(s20) = 1 /\ Head(s20) = s20[Len(s20)]
    BY <1>2, <1>4
  <1> QED BY <1>2, <1>3, <1>5, <1>6

(* The worker begins a request, or drops one that does not count any more. *)
LEMMA PagesBegins ==
    ASSUME Page!FrontInv, PagesViewTypes, PagesAskedTypes, PagesWorkTypes, Page!JobsInv, Page!PdfInv, Page!BeginJob
    PROVE  Page!JobsInv' /\ PagesWorkTypes' /\ PagesAskedTypes' /\ Page!PdfInv'
  <1> DEFINE job == Head(s20)
  <1>1. /\ s20 # <<>> /\ ~s21
        /\ UNCHANGED <<s3, s12, s13, s14, s15, s16, s17, s18, s22>>
    BY DEF Page!BeginJob, Page!viewVars, Page!askedVars
  <1>2. PagesAskedTypes'
    BY <1>1 DEF PagesAskedTypes
  <1>3. CASE ~Page!Current(job)
    <2>1. s20' = Tail(s20) /\ s19' = s19 /\ s21' = s21
      BY <1>3 DEF Page!BeginJob
    <2>2. PagesWorkTypes'
      BY <1>1, <2>1, PagesTail DEF PagesWorkTypes
    <2>3. Page!JobsInv'
      <3>1. s22.generation = s18 => s20 = <<>>
        BY DEF Page!JobsInv
      <3>2. (s21' => s20' # <<>>) /\ (s22'.generation = s18' => s20' = <<>>)
            /\ (s22' # Page!NoResult => s22'.generation \in 1 .. s18')
        BY <1>1, <2>1, <3>1 DEF Page!JobsInv
      <3>3. \A i \in DOMAIN s20' : s20'[i].generation \in 1 .. s18'
                                    /\ (s20'[i].generation = s18' => i = Len(s20'))
        BY <1>1, <2>1, PagesTail DEF Page!Current
      <3> QED BY <3>2, <3>3 DEF Page!JobsInv, Page!Current
    <2>0. Page!Idle => Page!Idle'
      BY <1>1, <2>1, PagesTail DEF Page!Idle, Page!Current
    <2>4. CASE ~s12
      <3>1. s13 = Page!None /\ s17 = Page!NoPage /\ (s18 # 0 => Page!Idle)
        BY <2>4 DEF Page!PdfInv
      <3>2. Page!PdfInv'
        BY <1>1, <2>0, <2>4, <3>1 DEF Page!PdfInv
      <3> QED BY <1>2, <2>2, <2>3, <3>2
    <2>5. CASE s12
      <3>1. Page!Waits(s3) => Page!Waits(s3)'
        <4> SUFFICES ASSUME Page!Waits(s3) PROVE Page!Waits(s3)'
          OBVIOUS
        <4>1. Len(s20) > 1
          <5>1. Page!Current(s20[Len(s20)])
            BY DEF Page!Waits, Page!Current
          <5>2. Len(s20) = 1 => job = s20[Len(s20)]
            BY <1>1, PagesTail
          <5> QED BY <1>1, <1>3, <5>1, <5>2, PagesTail
        <4>2. s20' # <<>> /\ s20'[Len(s20')] = s20[Len(s20)]
          BY <1>1, <2>1, <4>1, PagesTail
        <4> QED BY <1>1, <2>1, <4>2 DEF Page!Waits
      <3>2. (Page!Arrives(s3) => Page!Arrives(s3)') /\ (Page!Shown(s3) => Page!Shown(s3)')
        BY <1>1, <2>1 DEF Page!Arrives, Page!Shown
      <3>3. Page!PdfInv'
        BY <1>1, <2>0, <2>1, <2>5, <3>1, <3>2 DEF Page!PdfInv
      <3> QED BY <1>2, <2>2, <2>3, <3>3
    <2> QED BY <2>4, <2>5
  <1>4. CASE Page!Current(job)
    <2>1. /\ s21' = TRUE /\ s20' = s20
          /\ s19' = IF job.path = Page!None THEN s19 ELSE IF DocumentPages[job.path] = 0 THEN Page!None ELSE job.path
      BY <1>4 DEF Page!BeginJob
    <2>2. job \in Page!Jobs /\ Len(s20) = 1 /\ job = s20[Len(s20)] /\ 1 \in DOMAIN s20 /\ job = s20[1]
      BY <1>1, <1>4, PagesTail DEF PagesWorkTypes
    <2>3. PagesWorkTypes'
      <3>1. job.path \in Page!Files \cup {Page!None} /\ Page!None \in Page!Files \cup {Page!None}
        BY <2>2 DEF Page!Jobs
      <3>2. s19' \in Page!Files \cup {Page!None}
        BY <2>1, <3>1 DEF PagesWorkTypes
      <3> QED BY <1>1, <2>1, <3>2 DEF PagesWorkTypes
    <2>4. Page!JobsInv'
      BY <1>1, <2>1 DEF Page!JobsInv, Page!Current
    <2>5. ~Page!Idle /\ s20 # <<>> /\ s18 # 0
      <3>1. s18 # 0
        BY <1>4, <2>2 DEF Page!JobsInv, Page!Current
      <3> QED BY <1>1, <1>4, <2>2, <3>1 DEF Page!Idle
    <2>6. s12 /\ Page!Waits(s3)
      <3>1. s12
        BY <2>5 DEF Page!PdfInv
      <3>2. ~Page!Arrives(s3)
        <4>1. s22.generation # s18
          BY <2>5 DEF Page!JobsInv
        <4> QED BY <4>1 DEF Page!Arrives
      <3> QED BY <2>5, <3>1, <3>2 DEF Page!PdfInv
    <2>7. job.path = (IF s15 = 0 THEN s3 ELSE Page!None) /\ s3 \in Page!Files /\ s3 # Page!None /\ DocumentPages[s3] \in Nat
      <3>1. job.path = IF s15 = 0 THEN s3 ELSE Page!None
        BY <2>2, <2>6 DEF Page!Waits
      <3>2. s2 = "pdf" /\ s2 = FileKinds[s3] /\ s3 # Page!None
        BY <2>6 DEF Page!FrontInv, Page!None
      <3>3. s3 \in Page!Files
        BY <3>2 DEF PagesViewTypes
      <3> QED BY <3>1, <3>2, <3>3, PagesAssumption
    <2>8. s19' = Page!Opened(s3)
      <3>1. CASE s15 = 0
        BY <2>1, <2>7, <3>1 DEF Page!Opened
      <3>2. CASE s15 # 0
        BY <2>1, <2>6, <2>7, <3>2 DEF Page!Opened, Page!PdfInv
      <3> QED BY <3>1, <3>2
    <2>9. Page!Waits(s3)'
      BY <1>1, <2>1, <2>6, <2>8 DEF Page!Waits, Page!Opened
    <2>10. s15 # 0 => s19' = s19
      BY <2>1, <2>7
    <2>11. Page!PdfInv'
      BY <1>1, <2>6, <2>9, <2>10 DEF Page!PdfInv
    <2> QED BY <1>2, <2>3, <2>4, <2>11
  <1> QED BY <1>3, <1>4

(* The worker is through with a request: if it still counts, it is of the
   document that is open, and its result is on its way. *)
LEMMA PagesFinishes ==
    ASSUME Page!FrontInv, PagesViewTypes, PagesAskedTypes, PagesWorkTypes, Page!JobsInv, Page!PdfInv, Page!FinishJob
    PROVE  Page!JobsInv' /\ PagesWorkTypes' /\ PagesAskedTypes' /\ Page!PdfInv'
  <1> DEFINE job == Head(s20)
             done == [generation |-> job.generation, file |-> s19, zoom |-> job.zoom, of |-> Page!Rendered(job)]
  <1>1. /\ s21 /\ s20 # <<>> /\ s21' = FALSE /\ s20' = Tail(s20)
        /\ s22' = IF Len(s20) > 1 \/ ~Page!Current(job) THEN s22 ELSE done
        /\ UNCHANGED <<s3, s12, s13, s14, s15, s16, s17, s18, s19>>
    BY DEF Page!FinishJob, Page!viewVars, Page!askedVars, Page!JobsInv
  <1>2. PagesAskedTypes'
    BY <1>1 DEF PagesAskedTypes
  <1>3. /\ s20' \in Seq(Page!Jobs) /\ s19' \in Page!Files \cup {Page!None} /\ s21' \in BOOLEAN
        /\ \A i \in DOMAIN s20' : s20'[i].generation \in 1 .. s18'
                                   /\ (s20'[i].generation = s18' => i = Len(s20'))
        /\ job \in Page!Jobs /\ Len(s20) \in Nat /\ Len(s20) >= 1 /\ (s20' = <<>> <=> Len(s20) = 1)
        /\ Page!Current(job) => Len(s20) = 1 /\ job = s20[Len(s20)]
        /\ Len(s20) > 1 => s20'[Len(s20')] = s20[Len(s20)]
    <2>1. s19' \in Page!Files \cup {Page!None} /\ s21' \in BOOLEAN
      BY <1>1 DEF PagesWorkTypes
    <2> QED BY <1>1, <2>1, PagesTail DEF Page!Current
  <1>4. s22.generation # s18
    BY <1>1 DEF Page!JobsInv
  <1>5. CASE ~Page!Current(job)
    <2>1. s22' = s22
      BY <1>1, <1>5
    <2>2. PagesWorkTypes'
      BY <1>3, <2>1 DEF PagesWorkTypes
    <2>3. Page!JobsInv'
      <3>1. s22' # Page!NoResult => s22'.generation \in 1 .. s18'
        BY <1>1, <2>1 DEF Page!JobsInv
      <3>2. s22'.generation # s18' /\ ~s21'
        BY <1>1, <1>4, <2>1
      <3> QED BY <1>3, <3>1, <3>2 DEF Page!JobsInv, Page!Current
    <2>4. Page!Idle => Page!Idle'
      BY <1>1, <2>1, PagesTail DEF Page!Idle, Page!Current
    <2>5. Page!PdfInv'
      <3>1. CASE ~s12
        BY <1>1, <2>4, <3>1 DEF Page!PdfInv
      <3>2. CASE s12
        <4>1. Page!Waits(s3) => Page!Waits(s3)'
          <5> SUFFICES ASSUME Page!Waits(s3) PROVE Page!Waits(s3)'
            OBVIOUS
          <5>1. Len(s20) > 1
            <6>1. Page!Current(s20[Len(s20)])
              BY DEF Page!Waits, Page!Current
            <6>2. Len(s20) = 1 => job = s20[Len(s20)]
              BY <1>1, PagesTail
            <6> QED BY <1>3, <1>5, <6>1, <6>2
          <5>2. s20' # <<>> /\ s20'[Len(s20')] = s20[Len(s20)]
            BY <1>3, <5>1
          <5> QED BY <1>1, <5>2 DEF Page!Waits
        <4>2. ~Page!Arrives(s3)
          BY <1>4 DEF Page!Arrives
        <4>3. Page!Shown(s3) => Page!Shown(s3)'
          BY <1>1 DEF Page!Shown
        <4> QED BY <1>1, <2>4, <3>2, <4>1, <4>2, <4>3 DEF Page!PdfInv
      <3> QED BY <3>1, <3>2
    <2> QED BY <1>2, <2>2, <2>3, <2>5
  <1>6. CASE Page!Current(job)
    <2>1. Len(s20) = 1 /\ job = s20[Len(s20)] /\ s20' = <<>> /\ job = s20[1] /\ 1 \in DOMAIN s20
      BY <1>1, <1>3, <1>6, PagesTail
    <2>2. s22' = done
      BY <1>1, <1>6, <2>1
    <2>3. job.generation = s18 /\ s18 \in 1 .. s18
      BY <1>6, <2>1 DEF Page!Current, Page!JobsInv
    <2>4. s12 /\ Page!Waits(s3)
      <3>1. ~Page!Idle
        BY <1>6, <2>1 DEF Page!Idle
      <3>2. s18 # 0
        BY <2>3
      <3>3. s12
        BY <3>1, <3>2 DEF Page!PdfInv
      <3>4. ~Page!Arrives(s3)
        BY <1>4 DEF Page!Arrives
      <3> QED BY <3>1, <3>3, <3>4 DEF Page!PdfInv
    <2>5. s3 \in Page!Files /\ DocumentPages[s3] \in Nat /\ s3 # Page!None
      <3>1. s2 = "pdf" /\ s2 = FileKinds[s3] /\ s3 # Page!None
        BY <2>4 DEF Page!FrontInv, Page!None
      <3> QED BY <3>1, PagesAssumption DEF PagesViewTypes
    <2>6. s19 = Page!Opened(s3) /\ job.zoom = s16 /\ job.page = s14
      BY <1>1, <2>1, <2>4 DEF Page!Waits
    <2>7. Page!Rendered(job) = IF DocumentPages[s3] = 0 THEN [as |-> "error", page |-> 0, pages |-> 0]
                               ELSE [as |-> "page", page |-> s14, pages |-> DocumentPages[s3]]
      <3>1. CASE DocumentPages[s3] = 0
        BY <2>6, <3>1 DEF Page!Rendered, Page!Opened
      <3>2. CASE DocumentPages[s3] # 0
        <4>1. s19 = s3
          BY <2>6, <3>2 DEF Page!Opened
        <4>2. job.page < DocumentPages[s3]
          <5>1. s15 = 0 => s14 = 0
            BY <2>4 DEF Page!PdfInv
          <5>2. s15 # 0 => s15 = DocumentPages[s3] /\ s14 < s15
            BY <2>4 DEF Page!PdfInv
          <5> QED BY <2>5, <2>6, <3>2, <5>1, <5>2
        <4> QED BY <2>5, <2>6, <3>2, <4>1, <4>2 DEF Page!Rendered
      <3> QED BY <3>1, <3>2
    <2>8. done \in Page!Results
      <3>1. s14 \in Nat /\ s16 \in Page!Zooms /\ s18 \in Nat /\ s19 \in Page!Files \cup {Page!None}
        BY DEF PagesAskedTypes, PagesWorkTypes
      <3>2. Page!Rendered(job) \in Page!Pictures
        BY <2>5, <2>7, <3>1 DEF Page!Pictures
      <3> HIDE DEF job
      <3> QED BY <2>3, <2>6, <3>1, <3>2 DEF Page!Results
    <2>9. done = [generation |-> s18, file |-> s19, zoom |-> s16,
                  of |-> IF DocumentPages[s3] = 0 THEN [as |-> "error", page |-> 0, pages |-> 0]
                         ELSE [as |-> "page", page |-> s14, pages |-> DocumentPages[s3]]]
      BY <2>3, <2>6, <2>7
    <2>10. done.generation = s18
      BY <2>3
    <2> HIDE DEF done, job
    <2>11. Page!Arrives(s3)'
      BY <1>1, <2>2, <2>6, <2>9 DEF Page!Arrives, Page!Opened
    <2>12. PagesWorkTypes'
      BY <1>3, <2>2, <2>8 DEF PagesWorkTypes
    <2>13. Page!JobsInv'
      <3>1. ~s21' /\ DOMAIN s20' = {} /\ s20' = <<>>
        BY <1>1, <2>1
      <3>2. s22'.generation \in 1 .. s18'
        BY <1>1, <2>2, <2>3, <2>10
      <3> QED BY <3>1, <3>2 DEF Page!JobsInv
    <2>14. Page!PdfInv'
      BY <1>1, <2>4, <2>11 DEF Page!PdfInv
    <2> QED BY <1>2, <2>12, <2>13, <2>14
  <1> QED BY <1>5, <1>6

(* A result arrives: if it still counts, it is what is shown. *)
LEMMA PagesArrive ==
    ASSUME Page!FrontInv, PagesViewTypes, PagesAskedTypes, PagesWorkTypes, Page!JobsInv, Page!PdfInv, Page!OnRendered
    PROVE  Page!JobsInv' /\ PagesWorkTypes' /\ PagesAskedTypes' /\ Page!PdfInv'
  <1>1. /\ s22 # Page!NoResult /\ s22' = Page!NoResult
        /\ UNCHANGED <<s3, s12, s13, s16, s18, s19, s20, s21>>
    BY DEF Page!OnRendered, Page!viewVars
  <1>2. s22.generation \in 1 .. s18 /\ s18 # 0 /\ Page!NoResult.generation = 0 /\ s18 \in Nat
    BY <1>1 DEF Page!JobsInv, Page!NoResult, PagesAskedTypes
  <1>3. PagesWorkTypes'
    BY <1>1 DEF PagesWorkTypes
  <1>4. Page!JobsInv'
    BY <1>1, <1>2 DEF Page!JobsInv, Page!Current
  <1>5. CASE s22.generation # s18
    <2>1. UNCHANGED <<s15, s14, s17>>
      BY <1>5 DEF Page!OnRendered
    <2>2. PagesAskedTypes'
      BY <1>1, <2>1 DEF PagesAskedTypes
    <2>3. Page!Idle => Page!Idle'
      BY <1>1, <1>2 DEF Page!Idle, Page!Current
    <2>4. Page!PdfInv'
      <3>1. CASE ~s12
        BY <1>1, <2>1, <2>3, <3>1 DEF Page!PdfInv
      <3>2. CASE s12
        <4>1. ~Page!Arrives(s3)
          BY <1>5 DEF Page!Arrives
        <4>2. (Page!Waits(s3) => Page!Waits(s3)') /\ (Page!Shown(s3) => Page!Shown(s3)')
          BY <1>1, <2>1 DEF Page!Waits, Page!Shown
        <4> QED BY <1>1, <2>1, <2>3, <3>2, <4>1, <4>2 DEF Page!PdfInv
      <3> QED BY <3>1, <3>2
    <2> QED BY <1>3, <1>4, <2>2, <2>4
  <1>6. CASE s22.generation = s18
    <2>1. s20 = <<>> /\ ~Page!Idle
      BY <1>6 DEF Page!JobsInv, Page!Idle
    <2>2. s12 /\ Page!Arrives(s3)
      <3>1. s12
        BY <1>2, <2>1 DEF Page!PdfInv
      <3>2. ~Page!Waits(s3)
        BY <2>1 DEF Page!Waits
      <3> QED BY <2>1, <3>1, <3>2 DEF Page!PdfInv
    <2>3. s3 \in Page!Files /\ DocumentPages[s3] \in Nat /\ s3 # Page!None
      <3>1. s2 = "pdf" /\ s2 = FileKinds[s3] /\ s3 # Page!None
        BY <2>2 DEF Page!FrontInv, Page!None
      <3> QED BY <3>1, PagesAssumption DEF PagesViewTypes
    <2>4. /\ s22.file = s19 /\ s22.zoom = s16 /\ s19 = Page!Opened(s3)
          /\ DocumentPages[s3] = 0 => s22.of = [as |-> "error", page |-> 0, pages |-> 0]
          /\ DocumentPages[s3] # 0 => s22.of = [as |-> "page", page |-> s14, pages |-> DocumentPages[s3]]
      BY <2>2 DEF Page!Arrives
    <2>5. /\ s15' = s22.of.pages /\ s14' = s22.of.page
          /\ s17' = [as |-> s22.of.as, file |-> s22.file, page |-> s22.of.page, zoom |-> s22.zoom]
      BY <1>6 DEF Page!OnRendered
    <2>6. Page!Idle'
      <3>1. DOMAIN s20 = {}
        BY <2>1
      <3> QED BY <1>1, <1>2, <3>1 DEF Page!Idle
    <2>7. s14 \in Nat /\ s16 \in Page!Zooms /\ s19 \in Page!Files \cup {Page!None}
      BY DEF PagesAskedTypes, PagesWorkTypes
    <2>8. CASE DocumentPages[s3] = 0
      <3>1. s15' = 0 /\ s14' = 0 /\ s17' = [as |-> "error", file |-> s19, page |-> 0, zoom |-> s16]
        BY <2>4, <2>5, <2>8
      <3>2. PagesAskedTypes'
        <4>1. s17' \in Page!Shots /\ s15' \in Nat /\ s14' \in Nat
          BY <2>7, <3>1 DEF Page!Shots, Page!Ways
        <4> QED BY <1>1, <4>1 DEF PagesAskedTypes
      <3>3. s17'.as = "error"
        BY <3>1
      <3>4. Page!Shown(s3)'
        BY <1>1, <2>8, <3>3 DEF Page!Shown
      <3>5. Page!PdfInv'
        BY <1>1, <2>2, <2>6, <3>1, <3>3, <3>4 DEF Page!PdfInv
      <3> QED BY <1>3, <1>4, <3>2, <3>5
    <2>9. CASE DocumentPages[s3] # 0
      <3>1. /\ s15' = DocumentPages[s3] /\ s14' = s14 /\ s19 = s3
            /\ s17' = [as |-> "page", file |-> s3, page |-> s14, zoom |-> s16]
        BY <2>4, <2>5, <2>9 DEF Page!Opened
      <3>2. PagesAskedTypes'
        <4>1. s17' \in Page!Shots /\ s15' \in Nat /\ s14' \in Nat
          BY <2>3, <2>7, <3>1 DEF Page!Shots, Page!Ways
        <4> QED BY <1>1, <4>1 DEF PagesAskedTypes
      <3>3. s17'.file = s3
        BY <3>1
      <3>4. Page!Shown(s3)'
        BY <1>1, <2>9, <3>1 DEF Page!Shown
      <3>5. s14' < s15'
        <4>1. s15 = 0 => s14 = 0
          BY <2>2 DEF Page!PdfInv
        <4>2. s15 # 0 => s15 = DocumentPages[s3] /\ s14 < s15
          BY <2>2 DEF Page!PdfInv
        <4> QED BY <2>3, <2>9, <3>1, <4>1, <4>2
      <3>6. Page!PdfInv'
        BY <1>1, <2>2, <2>6, <2>9, <3>1, <3>3, <3>4, <3>5 DEF Page!PdfInv
      <3> QED BY <1>3, <1>4, <3>2, <3>6
    <2> QED BY <2>8, <2>9
  <1> QED BY <1>5, <1>6

(* What is said of the document is kept by every step. *)
LEMMA PagesPdfStep ==
    ASSUME Page!TypeOK, Page!FrontInv, Page!JobsInv, Page!PdfInv, [Page!Next]_Page!vars
    PROVE  Page!JobsInv' /\ PagesWorkTypes' /\ PagesAskedTypes' /\ Page!PdfInv'
  <1>0. PagesViewTypes /\ PagesAskedTypes /\ PagesWorkTypes
    BY PagesTypes
  <1>1. CASE UNCHANGED <<s2, s3, Page!pdfVars>>
    <2>1. UNCHANGED <<Page!askedVars, Page!workVars>> /\ s12' = s12 /\ s3' = s3
      BY <1>1 DEF Page!pdfVars
    <2> QED BY <1>0, <2>1, PagesStay
  <1>2. CASE s2 = "pdf" /\ s12 /\ UNCHANGED <<s2, s3>> /\ Page!PdfKey
    BY <1>0, <1>2, PagesKey
  <1>3. ASSUME Page!ClearPlugin
        PROVE  Page!JobsInv' /\ PagesWorkTypes' /\ PagesAskedTypes' /\ Page!PdfInv'
    <2>1. s12' = FALSE
      BY <1>3 DEF Page!ClearPlugin
    <2>2. CASE PdfPlugin
      BY <1>0, <1>3, <2>1, <2>2, PagesLeaves DEF Page!ClearPlugin
    <2>3. CASE ~PdfPlugin
      <3>1. s12 = FALSE
        BY <1>0, <2>3 DEF Page!FrontInv, PagesAskedTypes
      <3>2. UNCHANGED <<Page!askedVars, Page!workVars>>
        BY <1>3, <2>3 DEF Page!ClearPlugin
      <3> QED BY <1>0, <2>1, <3>1, <3>2, PagesStay
    <2> QED BY <2>2, <2>3
  <1>4. ASSUME UNCHANGED Page!pdfVars, s2 # "pdf"
        PROVE  Page!JobsInv' /\ PagesWorkTypes' /\ PagesAskedTypes' /\ Page!PdfInv'
    <2>1. UNCHANGED <<Page!askedVars, Page!workVars>> /\ s12' = s12 /\ ~s12
      BY <1>4 DEF Page!pdfVars, Page!FrontInv
    <2> QED BY <1>0, <2>1, PagesStay
  <1>5. CASE Page!OnLoaded
    <2>1. s1 \in Page!Files /\ s3' = s1
      BY <1>0, <1>5 DEF Page!OnLoaded, PagesViewTypes
    <2>2. CASE s2' = "pdf"
      <3>1. Page!SetPluginContent(s1)
        BY <1>5, <2>2 DEF Page!OnLoaded, Page!Give
      <3>2. CASE PdfPlugin /\ s1 \notin LargeFiles
        <4>1. s12' = TRUE /\ Page!SetPdf(s1)
          BY <3>1, <3>2 DEF Page!SetPluginContent
        <4> QED BY <1>0, <2>1, <4>1, PagesOpens
      <3>3. CASE ~(PdfPlugin /\ s1 \notin LargeFiles) /\ s12
        <4>1. s12' = FALSE /\ Page!ClearPdf
          BY <3>1, <3>3 DEF Page!SetPluginContent
        <4> QED BY <1>0, <4>1, PagesLeaves
      <3>4. CASE ~(PdfPlugin /\ s1 \notin LargeFiles) /\ ~s12
        <4>1. s12' = FALSE /\ UNCHANGED <<Page!askedVars, Page!workVars>>
          BY <3>1, <3>4 DEF Page!SetPluginContent
        <4>2. s12 = FALSE
          BY <1>0, <3>4 DEF PagesAskedTypes
        <4> QED BY <1>0, <4>1, <4>2, PagesStay
      <3> QED BY <3>2, <3>3, <3>4
    <2>3. CASE s2' # "pdf" /\ s2 = "pdf"
      BY <1>3, <1>5, <2>3 DEF Page!OnLoaded, Page!Give
    <2>4. CASE s2' # "pdf" /\ s2 # "pdf"
      BY <1>4, <1>5, <2>4 DEF Page!OnLoaded, Page!Give
    <2> QED BY <2>2, <2>3, <2>4
  <1>6. CASE Page!Clear
    <2>1. IF s2 = "pdf" THEN Page!ClearPlugin ELSE UNCHANGED Page!pdfVars
      BY <1>6 DEF Page!Clear
    <2> QED BY <1>3, <1>4, <2>1
  <1>7. CASE Page!BeginJob
    BY <1>0, <1>7, PagesBegins
  <1>8. CASE Page!FinishJob
    BY <1>0, <1>8, PagesFinishes
  <1>9. CASE Page!OnRendered
    BY <1>0, <1>9, PagesArrive
  <1> QED BY <1>1, <1>2, <1>5, <1>6, <1>7, <1>8, <1>9, PagesPdfMoves

(* The view before it is given anything. *)
LEMMA PagesInit ==
    ASSUME Page!Init
    PROVE  Page!TypeOK /\ Page!FrontInv /\ Page!ImageInv /\ Page!TextInv /\ Page!JobsInv /\ Page!PdfInv
  <1>1. /\ s1 = Page!None /\ s2 = Page!None /\ s3 = Page!None
        /\ s4 = Page!None /\ s5 = Page!None /\ s6 = Page!Blank /\ s8 = 0
        /\ s9 = Page!None /\ s10 = Page!None
    BY DEF Page!Init
  <1>2. /\ s13 = Page!None /\ s14 = 0 /\ s15 = 0 /\ s16 = 0 /\ s17 = Page!NoPage
        /\ s18 = 0 /\ s19 = Page!None /\ s20 = <<>> /\ s22 = Page!NoResult
    BY DEF Page!Init
  <1>3. s7 = TRUE /\ s11 = FALSE /\ s12 = FALSE /\ s21 = FALSE
    BY DEF Page!Init
  <1>4. Page!Blank \in Page!Labels /\ Page!NoPage \in Page!Shots /\ 0 \in Page!Zooms
    BY PagesZooms DEF Page!Blank, Page!NoPage, Page!Labels, Page!Shots, Page!Ways
  <1>5. PagesViewTypes /\ PagesTextTypes
    BY <1>1, <1>3 DEF PagesViewTypes, PagesTextTypes
  <1>6. PagesImageTypes
    BY <1>1, <1>3, <1>4 DEF PagesImageTypes
  <1>7. PagesAskedTypes
    BY <1>2, <1>3, <1>4 DEF PagesAskedTypes
  <1>8. PagesWorkTypes
    <2>1. s20 \in Seq(Page!Jobs)
      BY <1>2, EmptySeq
    <2>2. s19 \in Page!Files \cup {Page!None} /\ s21 \in BOOLEAN /\ s22 \in Page!Results \cup {Page!NoResult}
      BY <1>2, <1>3
    <2> QED BY <2>1, <2>2 DEF PagesWorkTypes
  <1>9. Page!FrontInv /\ Page!ImageInv /\ Page!TextInv
    BY <1>1, <1>3 DEF Page!FrontInv, Page!ImageInv, Page!TextInv, Page!None
  <1>10. Page!JobsInv /\ Page!PdfInv
    <2>1. DOMAIN s20 = {} /\ ~s21 /\ s18 = 0
      BY <1>2, <1>3
    <2>2. Page!JobsInv
      BY <1>2, <2>1 DEF Page!JobsInv
    <2>3. Page!PdfInv
      BY <1>2, <1>3, <2>1 DEF Page!PdfInv
    <2> QED BY <2>2, <2>3
  <1> QED BY <1>5, <1>6, <1>7, <1>8, <1>9, <1>10, PagesTypes

(* What the invariants say of what is in front. *)
LEMMA PagesResult ==
    ASSUME Page!TypeOK, Page!FrontInv, Page!ImageInv, Page!TextInv, Page!JobsInv, Page!PdfInv
    PROVE  Page!PagesAreOfTheFile
  <1>1. s17.as = "page" => s2 = "pdf" /\ s17.file = s3
    <2>1. Page!NoPage.as # "page"
      BY DEF Page!NoPage
    <2> QED BY <2>1 DEF Page!PdfInv, Page!FrontInv
  <1>2. s2 = "pdf" /\ s12 /\ Page!Rests => Page!Shown(s3)
    <2> SUFFICES ASSUME s12, Page!Rests PROVE Page!Shown(s3)
      OBVIOUS
    <2>1. ~Page!Waits(s3)
      BY DEF Page!Rests, Page!Waits
    <2>2. ~Page!Arrives(s3)
      <3>1. "of" \notin DOMAIN Page!NoResult
        BY DEF Page!NoResult
      <3> QED BY <3>1 DEF Page!Rests, Page!Arrives
    <2> QED BY <2>1, <2>2 DEF Page!PdfInv
  <1>3. s5 \in {Page!None, s3} /\ s10 \in {Page!None, s3} /\ s9 \in {Page!None, s3}
    BY DEF Page!ImageInv, Page!TextInv
  <1>4. /\ s2 = "image" /\ s3 \notin LargeFiles => s6.file = s3 /\ s4 = s3
        /\ s2 # "image" => s4 = Page!None /\ s6 = Page!Blank
    BY DEF Page!ImageInv
  <1> QED BY <1>1, <1>2, <1>3, <1>4 DEF Page!PagesAreOfTheFile

(* QuickLookView.cpp, PdfPlugin.cpp: what is in front is of the content it
   was given last, and a page rendered late or superseded is never shown
   for another file. *)
THEOREM PagesAreAlwaysOfTheFile ==
    Page!Spec => [](Page!TypeOK /\ Page!FrontInv /\ Page!ImageInv /\ Page!TextInv /\ Page!JobsInv /\ Page!PdfInv /\ Page!PagesAreOfTheFile)
  <1>1. Page!Init => Page!TypeOK /\ Page!FrontInv /\ Page!ImageInv /\ Page!TextInv /\ Page!JobsInv /\ Page!PdfInv
    BY PagesInit
  <1>2. Page!TypeOK /\ Page!FrontInv /\ Page!ImageInv /\ Page!TextInv /\ Page!JobsInv /\ Page!PdfInv /\ [Page!Next]_Page!vars
        => (Page!TypeOK /\ Page!FrontInv /\ Page!ImageInv /\ Page!TextInv /\ Page!JobsInv /\ Page!PdfInv)'
    <2> SUFFICES ASSUME Page!TypeOK, Page!FrontInv, Page!ImageInv, Page!TextInv, Page!JobsInv, Page!PdfInv, [Page!Next]_Page!vars
                 PROVE  (Page!TypeOK /\ Page!FrontInv /\ Page!ImageInv /\ Page!TextInv /\ Page!JobsInv /\ Page!PdfInv)'
      OBVIOUS
    <2>1. Page!FrontInv' /\ PagesViewTypes'
      BY PagesFrontStep
    <2>2. Page!ImageInv' /\ PagesImageTypes'
      BY PagesImageStep
    <2>3. Page!TextInv' /\ PagesTextTypes'
      BY PagesTextStep
    <2>4. Page!JobsInv' /\ PagesWorkTypes' /\ PagesAskedTypes' /\ Page!PdfInv'
      BY PagesPdfStep
    <2> QED BY <2>1, <2>2, <2>3, <2>4, PagesTypes
  <1>3. Page!TypeOK /\ Page!FrontInv /\ Page!ImageInv /\ Page!TextInv /\ Page!JobsInv /\ Page!PdfInv => Page!PagesAreOfTheFile
    BY PagesResult
  <1> QED BY <1>1, <1>2, <1>3, PTL DEF Page!Spec

(* Sequences that are prefixes of one another in layers of their own, and  *)
(* hotkey files that replace them while one is half typed.                 *)
Plain(s) == [ctrl |-> FALSE, key |-> s]
Ctrl(s) == [ctrl |-> TRUE, key |-> s]
DefaultKeys == << [layer |-> "Normal", action |-> "lead", binding |-> <<Ctrl("g"), Plain("h")>>],
                  [layer |-> "Global", action |-> "all",
                   binding |-> <<Ctrl("g"), Plain("g"), Plain("h")>>],
                  [layer |-> "Selection", action |-> "short", binding |-> <<Ctrl("g")>>],
                  [layer |-> "Selection", action |-> "long", binding |-> <<Ctrl("g"), Plain("g")>>] >>
HotkeyFiles ==
    { <<>>, << [layer |-> "Normal", action |-> "lead", bindings |-> <<>>] >>,
      << [layer |-> "Normal", action |-> "lead",
          bindings |-> << <<Ctrl("g")>>, <<Ctrl("g"), Plain("g"), Plain("g")>> >>],
         [layer |-> "Normal", action |-> "other", bindings |-> << <<Ctrl("g")>> >>] >> }
Typing == INSTANCE KeyDispatch WITH
    Letters <- KeyLetters, Actions <- KeyActions, Defaults <- KeyDefaults,
    Files <- KeyFiles, keymap <- s1, layers <- s2, pending <- s3, held <- s4,
    timers <- s5, hint <- s6

(* Both tables of shortcuts name actions, by layer and by chords. *)
ASSUME TypingAssumption ==
    /\ KeyDefaults \in Seq([layer : Typing!Layers, action : KeyActions, binding : Seq(Typing!Chords)])
    /\ KeyFiles \subseteq Seq([layer : Typing!Layers, action : KeyActions, bindings : Seq(Seq(Typing!Chords))])
    /\ Typing!None \notin KeyActions

(* The keymaps of a layer, those of all layers, and what has become of one
   while hotkeys.toml is applied. *)
TypingMaps == UNION {[B -> KeyActions] : B \in SUBSET Seq(Typing!Chords)}
TypingKeymaps == [Typing!Layers -> TypingMaps]
TypingStates == [map : TypingKeymaps, claimed : SUBSET (Typing!Layers \X Seq(Typing!Chords))]

(* What a layer's map is made of. *)
LEMMA TypingMap ==
    \A map : map \in TypingMaps <=> /\ map = [b \in DOMAIN map |-> map[b]]
                                    /\ \A b \in DOMAIN map : b \in Seq(Typing!Chords) /\ map[b] \in KeyActions
  <1>1. ASSUME NEW map \in TypingMaps
        PROVE  /\ map = [b \in DOMAIN map |-> map[b]]
               /\ \A b \in DOMAIN map : b \in Seq(Typing!Chords) /\ map[b] \in KeyActions
    <2>1. PICK B \in SUBSET Seq(Typing!Chords) : map \in [B -> KeyActions]
      BY DEF TypingMaps
    <2> QED BY <2>1
  <1>2. ASSUME NEW map, map = [b \in DOMAIN map |-> map[b]],
               \A b \in DOMAIN map : b \in Seq(Typing!Chords) /\ map[b] \in KeyActions
        PROVE  map \in TypingMaps
    <2>1. map \in [DOMAIN map -> KeyActions] /\ DOMAIN map \in SUBSET Seq(Typing!Chords)
      BY <1>2
    <2> QED BY <2>1 DEF TypingMaps
  <1> QED BY <1>1, <1>2

(* A binding comes, a binding goes, the bindings of an action go. *)
LEMMA TypingBind ==
    ASSUME NEW map \in TypingMaps, NEW b \in Seq(Typing!Chords), NEW a \in KeyActions
    PROVE  /\ Typing!Bind(map, b, a) \in TypingMaps
           /\ Typing!RemoveBinding(map, b) \in TypingMaps
           /\ Typing!Unbind(map, a) \in TypingMaps
  <1>1. \A c \in DOMAIN map : c \in Seq(Typing!Chords) /\ map[c] \in KeyActions
    BY TypingMap
  <1>2. Typing!Bind(map, b, a) \in TypingMaps
    <2>1. CASE b \in DOMAIN map
      BY <2>1 DEF Typing!Bind
    <2>2. CASE b \notin DOMAIN map
      <3> DEFINE more == [c \in DOMAIN map \cup {b} |-> IF c = b THEN a ELSE map[c]]
      <3>1. DOMAIN more = DOMAIN map \cup {b} /\ more = [c \in DOMAIN more |-> more[c]]
        OBVIOUS
      <3>2. \A c \in DOMAIN more : c \in Seq(Typing!Chords) /\ more[c] \in KeyActions
        BY <1>1
      <3>3. Typing!Bind(map, b, a) = more
        BY <2>2 DEF Typing!Bind
      <3> HIDE DEF more
      <3> QED BY <3>1, <3>2, <3>3, TypingMap
    <2> QED BY <2>1, <2>2
  <1>3. ASSUME NEW D \in SUBSET DOMAIN map
        PROVE  [c \in D |-> map[c]] \in TypingMaps
    <2> DEFINE less == [c \in D |-> map[c]]
    <2>1. DOMAIN less = D /\ less = [c \in DOMAIN less |-> less[c]]
      OBVIOUS
    <2>2. \A c \in DOMAIN less : c \in Seq(Typing!Chords) /\ less[c] \in KeyActions
      BY <1>1
    <2> HIDE DEF less
    <2> QED BY <2>1, <2>2, TypingMap DEF less
  <1>4. Typing!RemoveBinding(map, b) \in TypingMaps
    BY <1>3 DEF Typing!RemoveBinding, Typing!Restrict
  <1>5. Typing!Unbind(map, a) \in TypingMaps
    BY <1>3 DEF Typing!Unbind, Typing!Restrict
  <1> QED BY <1>2, <1>4, <1>5

(* The table of defaults, entry by entry. *)
LEMMA TypingDefaults == Typing!InstallDefaults \in TypingKeymaps
  <1> DEFINE m       == Len(KeyDefaults)
             S       == TypingKeymaps
             Rec(g)  == [k \in 0..m |-> IF k = 0 THEN Typing!Empty ELSE Typing!BindDefault(g[k - 1], KeyDefaults[k])]
             step    == [k \in 1..m |-> [w \in S |-> Typing!BindDefault(w, KeyDefaults[k])]]
             made    == CHOOSE g : g = Rec(g)
  <1>1. m \in Nat /\ \A k \in 1..m : KeyDefaults[k] \in [layer : Typing!Layers, action : KeyActions, binding : Seq(Typing!Chords)]
    <2> DEFINE T == [layer : Typing!Layers, action : KeyActions, binding : Seq(Typing!Chords)]
    <2>1. KeyDefaults \in Seq(T)
      BY TypingAssumption
    <2> HIDE DEF T
    <2>2. Len(KeyDefaults) \in Nat /\ \A k \in 1..Len(KeyDefaults) : KeyDefaults[k] \in T
      BY <2>1
    <2> QED BY <2>2 DEF T
  <1>2. Typing!Empty \in S
    <2>1. [b \in {} |-> Typing!None] \in TypingMaps
      <3> DEFINE e == [b \in {} |-> Typing!None]
      <3>1. e = [b \in DOMAIN e |-> e[b]] /\ DOMAIN e = {}
        OBVIOUS
      <3> HIDE DEF e
      <3> QED BY <3>1, TypingMap DEF e
    <2> QED BY <2>1 DEF Typing!Empty, TypingKeymaps
  <1>3. ASSUME NEW w \in S, NEW k \in 1..m
        PROVE  Typing!BindDefault(w, KeyDefaults[k]) \in S
    <2> DEFINE d == KeyDefaults[k]
    <2>1. d.layer \in Typing!Layers /\ d.action \in KeyActions /\ d.binding \in Seq(Typing!Chords)
      BY <1>1
    <2> HIDE DEF d
    <2>2. w[d.layer] \in TypingMaps
      BY <2>1 DEF TypingKeymaps
    <2>3. Typing!Bind(w[d.layer], d.binding, d.action) \in TypingMaps
      BY <2>1, <2>2, TypingBind
    <2>4. Typing!BindDefault(w, d) \in S
      BY <2>1, <2>3 DEF Typing!BindDefault, TypingKeymaps
    <2> QED BY <2>4 DEF d
  <1>4. step \in [1..m -> [S -> S]]
    BY <1>3
  <1>5. PICK f : f \in [0..m -> S] /\ f[0] = Typing!Empty /\ \A k \in 1..m : f[k] = step[k][f[k - 1]]
    <2> HIDE DEF step, m, S
    <2>1. \E f : Window!Takes(f, S, m, Typing!Empty, step)
      BY <1>1, <1>2, <1>4, WindowAssumption, Window!StepsExist
    <2> QED BY <2>1 DEF Window!Takes
  <1>6. f = Rec(f)
    <2>1. ASSUME NEW k \in 0..m
          PROVE  f[k] = IF k = 0 THEN Typing!Empty ELSE Typing!BindDefault(f[k - 1], KeyDefaults[k])
      <3>1. k = 0 \/ (k \in 1..m /\ k - 1 \in 0..m)
        BY <1>1
      <3> QED BY <1>5, <3>1
    <2>2. f = [k \in 0..m |-> f[k]]
      BY <1>5
    <2> QED BY <2>1, <2>2
  <1>7. Typing!InstallDefaults = made[m]
    BY DEF Typing!InstallDefaults, Typing!InTurn
  <1>8. made = Rec(made)
    BY <1>6
  <1> HIDE DEF made
  <1>9. /\ made[0] = Typing!Empty
        /\ \A k \in 1..m : made[k] = Typing!BindDefault(made[k - 1], KeyDefaults[k])
    <2>1. ASSUME NEW k \in 0..m
          PROVE  made[k] = IF k = 0 THEN Typing!Empty ELSE Typing!BindDefault(made[k - 1], KeyDefaults[k])
      <3>1. made[k] = Rec(made)[k]
        BY <1>8
      <3>2. Rec(made)[k] = IF k = 0 THEN Typing!Empty ELSE Typing!BindDefault(made[k - 1], KeyDefaults[k])
        OBVIOUS
      <3> QED BY <3>1, <3>2
    <2>2. 0 \in 0..m /\ \A k \in 1..m : k \in 0..m /\ k # 0
      BY <1>1
    <2> HIDE DEF m, Rec
    <2> QED BY <2>1, <2>2
  <1> DEFINE Good == {k \in 0..m : made[k] \in S}
  <1>10. 0 \in Good /\ Good \in SUBSET Nat
    BY <1>1, <1>2, <1>9
  <1>11. \A k \in 1..m : k - 1 \in Good => k \in Good
    BY <1>1, <1>3, <1>9
  <1> HIDE DEF Good, S, m
  <1>12. m \in Good
    BY <1>1, <1>10, <1>11, WindowAssumption, Window!StepByStep
  <1> QED BY <1>7, <1>12 DEF Good, S

(* One entry of hotkeys.toml, binding by binding. *)
LEMMA TypingEntry ==
    ASSUME NEW state \in TypingStates,
           NEW entry \in [layer : Typing!Layers, action : KeyActions, bindings : Seq(Seq(Typing!Chords))]
    PROVE  Typing!ApplyEntry(state, entry) \in TypingStates
  <1> DEFINE list    == entry.bindings
             m       == Len(list)
             S       == TypingStates
             Take(s, b) ==
               IF <<entry.layer, b>> \in s.claimed THEN s
               ELSE [map |-> [s.map EXCEPT ![entry.layer] = Typing!Bind(Typing!RemoveBinding(@, b), b, entry.action)],
                     claimed |-> s.claimed \cup {<<entry.layer, b>>}]
             unbound == [state EXCEPT !.map[entry.layer] = Typing!Unbind(@, entry.action)]
             Rec(g)  == [k \in 0..m |-> IF k = 0 THEN unbound ELSE Take(g[k - 1], list[k])]
             step    == [k \in 1..m |-> [w \in S |-> Take(w, list[k])]]
             made    == CHOOSE g : g = Rec(g)
  <1>1. /\ entry.layer \in Typing!Layers /\ entry.action \in KeyActions
        /\ m \in Nat /\ \A k \in 1..m : list[k] \in Seq(Typing!Chords)
    <2>1. entry.layer \in Typing!Layers /\ entry.action \in KeyActions /\ entry.bindings \in Seq(Seq(Typing!Chords))
      OBVIOUS
    <2> DEFINE T == Seq(Typing!Chords)
    <2> HIDE DEF T
    <2>2. entry.bindings \in Seq(T) => Len(entry.bindings) \in Nat
                                       /\ \A k \in 1..Len(entry.bindings) : entry.bindings[k] \in T
      OBVIOUS
    <2> QED BY <2>1, <2>2 DEF T
  <1>2. unbound \in S
    <2>1. state.map \in TypingKeymaps /\ state.map[entry.layer] \in TypingMaps
      BY <1>1 DEF TypingStates, TypingKeymaps
    <2>2. Typing!Unbind(state.map[entry.layer], entry.action) \in TypingMaps
      <3>1. <<>> \in Seq(Typing!Chords)
        BY EmptySeq
      <3> QED BY <1>1, <2>1, <3>1, TypingBind
    <2> DEFINE less == Typing!Unbind(state.map[entry.layer], entry.action)
               all  == [state.map EXCEPT ![entry.layer] = less]
    <2>3. all \in TypingKeymaps
      BY <1>1, <2>1, <2>2 DEF TypingKeymaps
    <2>4. unbound = [state EXCEPT !.map = all]
      BY DEF TypingStates
    <2> HIDE DEF all, less
    <2> QED BY <2>3, <2>4 DEF TypingStates
  <1>3. ASSUME NEW w \in S, NEW k \in 1..m
        PROVE  Take(w, list[k]) \in S
    <2> DEFINE b == list[k]
    <2>1. b \in Seq(Typing!Chords) /\ <<entry.layer, b>> \in Typing!Layers \X Seq(Typing!Chords)
      BY <1>1
    <2> HIDE DEF b, list
    <2>2. w.map \in TypingKeymaps /\ w.map[entry.layer] \in TypingMaps
          /\ w.claimed \in SUBSET (Typing!Layers \X Seq(Typing!Chords))
      BY <1>1 DEF TypingStates, TypingKeymaps
    <2> DEFINE free == Typing!RemoveBinding(w.map[entry.layer], b)
               new  == Typing!Bind(free, b, entry.action)
               all  == [w.map EXCEPT ![entry.layer] = new]
    <2>3. new \in TypingMaps
      <3>1. free \in TypingMaps
        BY <1>1, <2>1, <2>2, TypingBind
      <3> HIDE DEF free
      <3> QED BY <1>1, <2>1, <3>1, TypingBind
    <2>4. all \in TypingKeymaps
      <3> HIDE DEF new
      <3> QED BY <1>1, <2>2, <2>3 DEF TypingKeymaps
    <2>5. [map |-> all, claimed |-> w.claimed \cup {<<entry.layer, b>>}] \in S
      <3> HIDE DEF all
      <3> QED BY <2>1, <2>2, <2>4 DEF TypingStates
    <2> QED BY <2>5 DEF b
  <1>4. step \in [1..m -> [S -> S]]
    <2> HIDE DEF Take
    <2> QED BY <1>3
  <1> HIDE DEF Take
  <1>5. PICK f : f \in [0..m -> S] /\ f[0] = unbound /\ \A k \in 1..m : f[k] = step[k][f[k - 1]]
    <2> HIDE DEF step, m, S, unbound
    <2>1. \E f : Window!Takes(f, S, m, unbound, step)
      BY <1>1, <1>2, <1>4, WindowAssumption, Window!StepsExist
    <2> QED BY <2>1 DEF Window!Takes
  <1> HIDE DEF unbound
  <1>6. f = Rec(f)
    <2>1. ASSUME NEW k \in 0..m
          PROVE  f[k] = IF k = 0 THEN unbound ELSE Take(f[k - 1], list[k])
      <3>1. k = 0 \/ (k \in 1..m /\ k - 1 \in 0..m)
        BY <1>1
      <3> QED BY <1>5, <3>1
    <2>2. f = [k \in 0..m |-> f[k]]
      BY <1>5
    <2> QED BY <2>1, <2>2
  <1>7. Typing!ApplyEntry(state, entry) = made[m]
    BY DEF Typing!ApplyEntry, Typing!InTurn, Take, unbound
  <1>8. made = Rec(made)
    BY <1>6
  <1> HIDE DEF made
  <1>9. /\ made[0] = unbound
        /\ \A k \in 1..m : made[k] = Take(made[k - 1], list[k])
    <2>1. m \in Nat
      BY <1>1
    <2> HIDE DEF m, list
    <2>2. made[0] = unbound
      BY <1>8, <2>1
    <2>3. ASSUME NEW k \in 1..m
          PROVE  made[k] = Take(made[k - 1], list[k])
      <3>1. k \in 0..m /\ k # 0
        BY <2>1
      <3> QED BY <1>8, <3>1
    <2> QED BY <2>2, <2>3
  <1> DEFINE Good == {k \in 0..m : made[k] \in S}
  <1>10. 0 \in Good /\ Good \in SUBSET Nat
    BY <1>1, <1>2, <1>9
  <1>11. \A k \in 1..m : k - 1 \in Good => k \in Good
    BY <1>1, <1>3, <1>9
  <1> HIDE DEF Good, S, m
  <1>12. m \in Good
    BY <1>1, <1>10, <1>11, WindowAssumption, Window!StepByStep
  <1> QED BY <1>7, <1>12 DEF Good, S

(* All of hotkeys.toml, entry by entry. *)
LEMMA TypingHotkeys ==
    ASSUME NEW map \in TypingKeymaps, NEW file \in KeyFiles
    PROVE  Typing!ApplyHotkeys(map, file) \in TypingKeymaps
  <1> DEFINE m       == Len(file)
             S       == TypingStates
             start   == [map |-> map, claimed |-> {}]
             Rec(g)  == [k \in 0..m |-> IF k = 0 THEN start ELSE Typing!ApplyEntry(g[k - 1], file[k])]
             step    == [k \in 1..m |-> [w \in S |-> Typing!ApplyEntry(w, file[k])]]
             made    == CHOOSE g : g = Rec(g)
  <1>1. m \in Nat
        /\ \A k \in 1..m : file[k] \in [layer : Typing!Layers, action : KeyActions, bindings : Seq(Seq(Typing!Chords))]
    <2> DEFINE T == [layer : Typing!Layers, action : KeyActions, bindings : Seq(Seq(Typing!Chords))]
    <2>1. file \in Seq(T)
      BY TypingAssumption
    <2> HIDE DEF T
    <2>2. Len(file) \in Nat /\ \A k \in 1..Len(file) : file[k] \in T
      BY <2>1
    <2> QED BY <2>2 DEF T
  <1>2. start \in S
    BY DEF TypingStates
  <1>3. ASSUME NEW w \in S, NEW k \in 1..m
        PROVE  Typing!ApplyEntry(w, file[k]) \in S
    BY <1>1, TypingEntry
  <1>4. step \in [1..m -> [S -> S]]
    BY <1>3
  <1>5. PICK f : f \in [0..m -> S] /\ f[0] = start /\ \A k \in 1..m : f[k] = step[k][f[k - 1]]
    <2> HIDE DEF step, m, S, start
    <2>1. \E f : Window!Takes(f, S, m, start, step)
      BY <1>1, <1>2, <1>4, WindowAssumption, Window!StepsExist
    <2> QED BY <2>1 DEF Window!Takes
  <1> HIDE DEF start
  <1>6. f = Rec(f)
    <2>1. ASSUME NEW k \in 0..m
          PROVE  f[k] = IF k = 0 THEN start ELSE Typing!ApplyEntry(f[k - 1], file[k])
      <3>1. k = 0 \/ (k \in 1..m /\ k - 1 \in 0..m)
        BY <1>1
      <3> QED BY <1>5, <3>1
    <2>2. f = [k \in 0..m |-> f[k]]
      BY <1>5
    <2> QED BY <2>1, <2>2
  <1>7. Typing!ApplyHotkeys(map, file) = made[m].map
    BY DEF Typing!ApplyHotkeys, Typing!InTurn, start
  <1>8. made = Rec(made)
    BY <1>6
  <1> HIDE DEF made
  <1>9. /\ made[0] = start
        /\ \A k \in 1..m : made[k] = Typing!ApplyEntry(made[k - 1], file[k])
    <2>1. ASSUME NEW k \in 0..m
          PROVE  made[k] = IF k = 0 THEN start ELSE Typing!ApplyEntry(made[k - 1], file[k])
      <3>1. made[k] = Rec(made)[k]
        BY <1>8
      <3>2. Rec(made)[k] = IF k = 0 THEN start ELSE Typing!ApplyEntry(made[k - 1], file[k])
        OBVIOUS
      <3> QED BY <3>1, <3>2
    <2>2. 0 \in 0..m /\ \A k \in 1..m : k \in 0..m /\ k # 0
      BY <1>1
    <2> HIDE DEF m, Rec
    <2> QED BY <2>1, <2>2
  <1> DEFINE Good == {k \in 0..m : made[k] \in S}
  <1>10. 0 \in Good /\ Good \in SUBSET Nat
    BY <1>1, <1>2, <1>9
  <1>11. \A k \in 1..m : k - 1 \in Good => k \in Good
    BY <1>1, <1>3, <1>9
  <1> HIDE DEF Good, S, m
  <1>12. m \in Good
    BY <1>1, <1>10, <1>11, WindowAssumption, Window!StepByStep
  <1>13. made[m] \in S
    BY <1>12 DEF Good
  <1> QED BY <1>7, <1>13 DEF S, TypingStates

(* What the panels make of the layers, and what a layer answers. *)
LEMMA TypingLayers ==
    \A s \in BOOLEAN : /\ Typing!LayersFor(s) \in Seq(Typing!Layers) /\ Typing!LayersFor(s) # <<>>
                       /\ Typing!LayersFor(s) \in {Typing!LayersFor(x) : x \in BOOLEAN}
  <1> DEFINE always == <<"Normal", "Global">>
             head(s) == IF s THEN <<"Selection">> ELSE <<>>
  <1>1. "Selection" \in Typing!Layers /\ "Normal" \in Typing!Layers /\ "Global" \in Typing!Layers
    BY DEF Typing!Layers
  <1>2. always \in Seq(Typing!Layers) /\ Len(always) = 2 /\ \A s \in BOOLEAN : head(s) \in Seq(Typing!Layers)
    <2> DEFINE T == Typing!Layers
    <2>1. "Selection" \in T /\ "Normal" \in T /\ "Global" \in T
      BY <1>1
    <2> HIDE DEF T
    <2>2. <<"Selection">> \in Seq(T) /\ always \in Seq(T) /\ <<>> \in Seq(T) /\ Len(always) = 2
      BY <2>1, EmptySeq
    <2> QED BY <2>2 DEF T
  <1>3. \A s : Typing!LayersFor(s) = head(s) \o always
    BY DEF Typing!LayersFor
  <1> HIDE DEF always, head
  <1>4. ASSUME NEW s \in BOOLEAN
        PROVE  Typing!LayersFor(s) \in Seq(Typing!Layers) /\ Typing!LayersFor(s) # <<>>
    <2> DEFINE first == head(s)
    <2>a. first \in Seq(Typing!Layers) /\ always \in Seq(Typing!Layers) /\ Len(always) = 2
      BY <1>2
    <2> HIDE DEF first
    <2>b. first \o always \in Seq(Typing!Layers) /\ Len(first \o always) = Len(first) + Len(always)
      BY <2>a, ConcatProperties
    <2>c. Len(first) \in Nat
      BY <2>a
    <2>1. head(s) \o always \in Seq(Typing!Layers) /\ Len(head(s) \o always) = Len(first) + 2
      BY <2>a, <2>b DEF first
    <2>2. Len(head(s) \o always) # 0
      BY <2>c, <2>1
    <2>3. head(s) \o always # <<>>
      BY <2>2, EmptySeq
    <2> QED BY <1>3, <2>1, <2>3
  <1> QED BY <1>4

(* An exact match is of an action, in whichever layer it is. *)
LEMMA TypingLookup ==
    ASSUME Typing!TypeOK, NEW typed
    PROVE  /\ Typing!Lookup(typed).type \in {"Exact", "Partial", "NoMatch"}
           /\ Typing!Lookup(typed).type = "Exact" => Typing!Lookup(typed).action \in KeyActions
           /\ Typing!Lookup(typed).longer \in BOOLEAN
  <1>1. ASSUME NEW l \in Typing!Layers
        PROVE  /\ Typing!LookupLayer(l, typed).type \in {"Exact", "Partial", "NoMatch"}
               /\ Typing!LookupLayer(l, typed).type = "Exact" => Typing!LookupLayer(l, typed).action \in KeyActions
               /\ Typing!LookupLayer(l, typed).longer \in BOOLEAN
    <2> DEFINE longer == \E b \in DOMAIN s1[l] : Typing!Extends(b, typed)
    <2>1. longer \in BOOLEAN
      OBVIOUS
    <2>2. typed \in DOMAIN s1[l] => s1[l][typed] \in KeyActions
      BY DEF Typing!TypeOK
    <2>3. Typing!LookupLayer(l, typed) =
            CASE typed \in DOMAIN s1[l] -> [type |-> "Exact", action |-> s1[l][typed], longer |-> longer]
              [] typed \notin DOMAIN s1[l] /\ longer -> [type |-> "Partial", action |-> Typing!None, longer |-> TRUE]
              [] OTHER -> [type |-> "NoMatch", action |-> Typing!None, longer |-> FALSE]
      BY DEF Typing!LookupLayer
    <2> HIDE DEF longer
    <2>4. CASE typed \in DOMAIN s1[l]
      <3>1. Typing!LookupLayer(l, typed) = [type |-> "Exact", action |-> s1[l][typed], longer |-> longer]
        BY <2>3, <2>4
      <3> QED BY <2>1, <2>2, <2>4, <3>1
    <2>5. CASE typed \notin DOMAIN s1[l] /\ longer
      <3>1. Typing!LookupLayer(l, typed) = [type |-> "Partial", action |-> Typing!None, longer |-> TRUE]
        BY <2>3, <2>5
      <3> QED BY <3>1
    <2>6. CASE typed \notin DOMAIN s1[l] /\ ~longer
      <3>1. Typing!LookupLayer(l, typed) = [type |-> "NoMatch", action |-> Typing!None, longer |-> FALSE]
        BY <2>3, <2>6
      <3> QED BY <3>1
    <2> QED BY <2>4, <2>5, <2>6
  <1>2. PICK s \in BOOLEAN : s2 = Typing!LayersFor(s)
    BY DEF Typing!TypeOK
  <1>3. s2 \in Seq(Typing!Layers) /\ s2 # <<>>
    BY <1>2, TypingLayers
  <1>4. Typing!Last(s2) \in Typing!Layers
    BY <1>3 DEF Typing!Last
  <1>5. ASSUME Typing!Owners(typed) # {}
        PROVE  Typing!Owner(typed) \in Typing!Layers
    <2> DEFINE O == Typing!Owners(typed)
    <2>1. O \in SUBSET (DOMAIN s2) /\ DOMAIN s2 = 1..Len(s2) /\ Len(s2) \in Nat
      BY <1>3 DEF Typing!Owners
    <2>2. O \in SUBSET Nat
      BY <2>1
    <2>3. \E c \in O : \A e \in O : c <= e
      <3> HIDE DEF O
      <3> QED BY <1>5, <2>2, WindowAssumption, Window!LeastNumber DEF O
    <2>4. Typing!Min(O) \in O
      BY <2>3 DEF Typing!Min
    <2>5. Typing!Min(O) \in 1..Len(s2)
      BY <2>1, <2>4
    <2> HIDE DEF O
    <2>6. s2[Typing!Min(O)] \in Typing!Layers
      BY <1>3, <2>5
    <2> QED BY <2>6 DEF Typing!Owner, O
  <1> QED BY <1>1, <1>4, <1>5 DEF Typing!Lookup

(* A step keeps the types and the promise. *)
LEMMA TypingStep ==
    ASSUME Typing!TypeOK, Typing!SequenceEnds, [Typing!Next]_Typing!vars
    PROVE  Typing!TypeOK' /\ Typing!SequenceEnds'
  <1>1. /\ s3 \in Seq(Typing!Chords) /\ s6 \in Seq(Typing!Chords) /\ s4 \in KeyActions \cup {Typing!None}
        /\ s5 \subseteq {"sequence", "ambiguity", "hint"} /\ <<>> \in Seq(Typing!Chords)
        /\ Typing!None \notin KeyActions
    BY EmptySeq, TypingAssumption DEF Typing!TypeOK
  <1>2. ASSUME UNCHANGED s1, s2' \in {Typing!LayersFor(s) : s \in BOOLEAN}, Typing!ClearPending
        PROVE  Typing!TypeOK' /\ Typing!SequenceEnds'
    <2>1. s5' = {} /\ s4' = Typing!None /\ s3' = <<>>
          /\ s6' = IF s3 = <<>> THEN s6 ELSE <<>>
      BY <1>2 DEF Typing!ClearPending, Typing!HidesList
    <2>2. s6' = <<>>
      BY <2>1 DEF Typing!SequenceEnds
    <2>3. Typing!TypeOK'
      BY <1>1, <1>2, <2>1, <2>2 DEF Typing!TypeOK
    <2>4. Typing!SequenceEnds'
      BY <2>1, <2>2 DEF Typing!SequenceEnds
    <2> QED BY <2>3, <2>4
  <1>3. s2 \in {Typing!LayersFor(s) : s \in BOOLEAN}
    BY DEF Typing!TypeOK
  <1>4. ASSUME UNCHANGED <<s1, s2>>, NEW c \in Seq(Typing!Chords), c # <<>>,
               NEW a \in KeyActions \cup {Typing!None}, NEW started \in SUBSET {"sequence", "ambiguity", "hint"},
               Typing!Await(c, a, started), "sequence" \in started, a # Typing!None <=> "ambiguity" \in started
        PROVE  Typing!TypeOK' /\ Typing!SequenceEnds'
    <2>1. /\ s3' = c /\ s4' = a /\ s5' = (s5 \ {"ambiguity"}) \cup started
          /\ s6' = s6
      BY <1>4 DEF Typing!Await, Typing!HidesList
    <2>2. Typing!TypeOK'
      BY <1>1, <1>4, <2>1 DEF Typing!TypeOK
    <2>3. Typing!SequenceEnds'
      BY <1>4, <2>1 DEF Typing!SequenceEnds
    <2> QED BY <2>2, <2>3
  <1>5. ASSUME NEW chord \in Typing!Chords, Typing!HandleKeyPress(chord)
        PROVE  Typing!TypeOK' /\ Typing!SequenceEnds'
    <2> DEFINE c     == Typing!Candidate(chord)
               match == Typing!Lookup(c)
    <2>1. /\ UNCHANGED <<s1, s2>>
          /\ \/ Typing!ClearPending
             \/ /\ match.type = "Exact" /\ match.longer
                /\ Typing!Await(c, match.action, {"ambiguity", "sequence"})
             \/ /\ match.type = "Partial"
                /\ Typing!Await(c, Typing!None, {"sequence", "hint"})
             \/ UNCHANGED Typing!dispatcher
      BY <1>5 DEF Typing!HandleKeyPress, Typing!Fire
    <2>2. c \in Seq(Typing!Chords) /\ c # <<>>
      <3>1. chord.ctrl => Typing!Released(chord) \in Typing!Chords
        <4>1. CASE chord = Typing!Escape
          BY <4>1 DEF Typing!Escape
        <4>2. CASE chord \in [ctrl : BOOLEAN, key : KeyLetters]
          BY <4>2 DEF Typing!Released, Typing!Chords
        <4> QED BY <4>1, <4>2 DEF Typing!Chords
      <3>2. ASSUME NEW x \in Typing!Chords
            PROVE  Append(s3, x) \in Seq(Typing!Chords) /\ Append(s3, x) # <<>>
        <4> DEFINE T == Typing!Chords
        <4>1. s3 \in Seq(T) /\ x \in T
          BY <1>1
        <4> HIDE DEF T
        <4>2. Append(s3, x) \in Seq(T) /\ Append(s3, x) # <<>>
          BY <4>1, AppendProperties
        <4> QED BY <4>2 DEF T
      <3> QED BY <3>1, <3>2 DEF Typing!Candidate
    <2>3. match.type = "Exact" => match.action \in KeyActions
      BY TypingLookup
    <2> HIDE DEF c, match
    <2>4. CASE UNCHANGED Typing!dispatcher
      BY <2>1, <2>4 DEF Typing!dispatcher, Typing!TypeOK, Typing!SequenceEnds
    <2>5. CASE match.type = "Exact" /\ Typing!Await(c, match.action, {"ambiguity", "sequence"})
      <3>1. match.action \in KeyActions \cup {Typing!None} /\ match.action # Typing!None
        BY <1>1, <2>3, <2>5
      <3>2. {"ambiguity", "sequence"} \in SUBSET {"sequence", "ambiguity", "hint"}
        OBVIOUS
      <3> QED BY <1>4, <2>1, <2>2, <2>5, <3>1, <3>2
    <2>6. CASE Typing!Await(c, Typing!None, {"sequence", "hint"})
      <3>1. {"sequence", "hint"} \in SUBSET {"sequence", "ambiguity", "hint"}
            /\ "ambiguity" \notin {"sequence", "hint"} /\ Typing!None \in KeyActions \cup {Typing!None}
        OBVIOUS
      <3> QED BY <1>4, <2>1, <2>2, <2>6, <3>1
    <2> QED BY <1>2, <1>3, <2>1, <2>4, <2>5, <2>6
  <1>6. CASE Typing!OnSequenceTimeout \/ Typing!PointerPress
    BY <1>2, <1>3, <1>6 DEF Typing!OnSequenceTimeout, Typing!PointerPress
  <1>7. CASE Typing!OnHintTimeout
    <2>1. /\ UNCHANGED <<s1, s2, s3, s4>>
          /\ IF s3 = <<>> \/ Typing!Continuations(s3) = {}
             THEN s5' = s5 \ {"hint"} /\ s6' = s6
             ELSE s5' = s5 \ {"hint", "sequence"} /\ s6' = s3
      BY <1>7 DEF Typing!OnHintTimeout
    <2>2. Typing!TypeOK'
      BY <1>1, <2>1 DEF Typing!TypeOK
    <2>3. Typing!SequenceEnds'
      BY <2>1 DEF Typing!SequenceEnds
    <2> QED BY <2>2, <2>3
  <1>8. CASE Typing!OnAmbiguityTimeout
    BY <1>2, <1>3, <1>8 DEF Typing!OnAmbiguityTimeout, Typing!Fire, Typing!SequenceEnds
  <1>9. ASSUME NEW selecting \in BOOLEAN, Typing!SetActiveLayers(selecting)
        PROVE  Typing!TypeOK' /\ Typing!SequenceEnds'
    BY <1>2, <1>9 DEF Typing!SetActiveLayers
  <1>10. ASSUME NEW file \in KeyFiles, Typing!ReloadHotkeys(file)
         PROVE  Typing!TypeOK' /\ Typing!SequenceEnds'
    <2>1. s1' \in TypingKeymaps /\ UNCHANGED <<s2, Typing!dispatcher>>
      BY <1>10, TypingDefaults, TypingHotkeys DEF Typing!ReloadHotkeys
    <2>2. /\ DOMAIN s1' = Typing!Layers
          /\ \A l \in Typing!Layers : \A b \in DOMAIN s1'[l] : b \in Seq(Typing!Chords) /\ s1'[l][b] \in KeyActions
      <3>1. DOMAIN s1' = Typing!Layers /\ \A l \in Typing!Layers : s1'[l] \in TypingMaps
        BY <2>1 DEF TypingKeymaps
      <3> QED BY <3>1, TypingMap
    <2>3. Typing!TypeOK'
      BY <2>1, <2>2 DEF Typing!TypeOK, Typing!dispatcher
    <2>4. Typing!SequenceEnds'
      BY <2>1 DEF Typing!SequenceEnds, Typing!dispatcher
    <2> QED BY <2>3, <2>4
  <1>11. CASE UNCHANGED Typing!vars
    BY <1>11 DEF Typing!vars, Typing!dispatcher, Typing!TypeOK, Typing!SequenceEnds
  <1> QED BY <1>5, <1>6, <1>7, <1>8, <1>9, <1>10, <1>11 DEF Typing!Next

(* For any letters, tables of shortcuts and files, a sequence half typed is
   on screen or runs out, and an action held back is going to be decided. *)
THEOREM SequencesAlwaysEnd == Typing!Spec => [](Typing!TypeOK /\ Typing!SequenceEnds)
  <1>1. Typing!Init => Typing!TypeOK /\ Typing!SequenceEnds
    <2> SUFFICES ASSUME Typing!Init PROVE Typing!TypeOK /\ Typing!SequenceEnds
      OBVIOUS
    <2>1. /\ s1 = Typing!InstallDefaults /\ s2 = Typing!LayersFor(FALSE) /\ s3 = <<>> /\ s4 = Typing!None
          /\ s5 = {} /\ s6 = <<>> /\ <<>> \in Seq(Typing!Chords)
      BY EmptySeq DEF Typing!Init
    <2>2. s2 \in {Typing!LayersFor(s) : s \in BOOLEAN}
      BY <2>1
    <2>3. /\ DOMAIN s1 = Typing!Layers
          /\ \A l \in Typing!Layers : \A b \in DOMAIN s1[l] : b \in Seq(Typing!Chords) /\ s1[l][b] \in KeyActions
      <3>1. DOMAIN s1 = Typing!Layers /\ \A l \in Typing!Layers : s1[l] \in TypingMaps
        BY <2>1, TypingDefaults DEF TypingKeymaps
      <3> QED BY <3>1, TypingMap
    <2>4. Typing!TypeOK
      BY <2>1, <2>2, <2>3 DEF Typing!TypeOK
    <2>5. Typing!SequenceEnds
      BY <2>1 DEF Typing!SequenceEnds
    <2> QED BY <2>4, <2>5
  <1>2. Typing!TypeOK /\ Typing!SequenceEnds /\ [Typing!Next]_Typing!vars => Typing!TypeOK' /\ Typing!SequenceEnds'
    BY TypingStep
  <1> QED BY <1>1, <1>2, PTL DEF Typing!Spec

(* Two panels on two volumes, y inside x, and two questions on screen one  *)
(* after the other.                                                        *)
Inside == [f \in {"x", "y"} |-> IF f = "x" THEN {"y"} ELSE {}]
Volumes == [f \in {"x", "y"} |-> f]
Settled == {[trash |-> TRUE, delete |-> FALSE, freed |-> FALSE],
            [trash |-> FALSE, delete |-> FALSE, freed |-> TRUE]}
Ask == INSTANCE Questions WITH
    Panels <- AskPanels, Folders <- AskFolders, Names <- AskNames,
    Inside <- AskInside, Volume <- AskVolumes, Configs <- AskConfigs,
    Begun <- AskBegun, MaxShown <- AskShown, MaxFiles <- AskFiles,
    settings <- s1, path <- s2, focused <- s3, screen <- s4, confirm <- s5,
    name <- s6, drop <- s7, disk <- s8, backing <- s9, agreed <- s10,
    careless <- s11, strayed <- s12

(* A new file has a name, and folders are among the rows of folders. *)
ASSUME AskingAssumption == "new" \in AskNames /\ AskInside \in [AskFolders -> SUBSET AskFolders]

(* The modals of a screen, and that each is there once. *)
AskingUp(s, x) == \E i \in DOMAIN s.shown : s.shown[i] = x
AskingOnce(s) == \A i, j \in DOMAIN s.shown : s.shown[i] = s.shown[j] => i = j

(* One of a sequence's elements is taken out. *)
LEMMA AskingRemoved ==
    ASSUME NEW T, NEW q \in Seq(T), NEW k \in 1..Len(q)
    PROVE  /\ Ask!RemoveAt(q, k) \in Seq(T)
           /\ Len(Ask!RemoveAt(q, k)) = Len(q) - 1
           /\ \A i \in 1..(Len(q) - 1) : Ask!RemoveAt(q, k)[i] = IF i < k THEN q[i] ELSE q[i + 1]
  <1> DEFINE a == SubSeq(q, 1, k - 1)
             b == SubSeq(q, k + 1, Len(q))
  <1>1. /\ a \in Seq(T) /\ Len(a) = k - 1
        /\ \A i \in 1..(k - 1) : a[i] = q[i]
    OBVIOUS
  <1>2. /\ b \in Seq(T) /\ Len(b) = Len(q) - k
        /\ \A i \in 1..(Len(q) - k) : b[i] = q[i + k]
    OBVIOUS
  <1> HIDE DEF a, b
  <1>3. /\ a \o b \in Seq(T) /\ Len(a \o b) = Len(q) - 1
        /\ \A i \in 1..(Len(q) - 1) :
               (a \o b)[i] = IF i <= k - 1 THEN a[i] ELSE b[i - (k - 1)]
    <2>1. /\ a \o b \in Seq(T) /\ Len(a \o b) = Len(a) + Len(b)
          /\ \A i \in 1..(Len(a) + Len(b)) :
                 (a \o b)[i] = IF i <= Len(a) THEN a[i] ELSE b[i - Len(a)]
      BY <1>1, <1>2, ConcatProperties
    <2>2. Len(a) + Len(b) = Len(q) - 1 /\ Len(a) = k - 1
      BY <1>1, <1>2
    <2> QED BY <2>1, <2>2
  <1>4. ASSUME NEW i \in 1..(Len(q) - 1)
        PROVE  (a \o b)[i] = IF i < k THEN q[i] ELSE q[i + 1]
    <2>1. CASE i < k
      BY <1>1, <1>3, <2>1
    <2>2. CASE ~(i < k)
      <3>1. i - (k - 1) \in 1..(Len(q) - k) /\ (i - (k - 1)) + k = i + 1 /\ ~(i <= k - 1)
        BY <2>2
      <3> QED BY <1>2, <1>3, <2>2, <3>1
    <2> QED BY <2>1, <2>2
  <1> QED BY <1>3, <1>4 DEF Ask!RemoveAt, a, b

(* A screen without one of its modals: the others are there, once. *)
LEMMA AskingWithout ==
    ASSUME NEW m, NEW s \in Ask!Screens, AskingOnce(s)
    PROVE  /\ Ask!Without(m, s) \in Seq(Ask!Modals)
           /\ \A i, j \in DOMAIN Ask!Without(m, s) : Ask!Without(m, s)[i] = Ask!Without(m, s)[j] => i = j
           /\ \A x : (\E i \in DOMAIN Ask!Without(m, s) : Ask!Without(m, s)[i] = x) <=> x # m /\ AskingUp(s, x)
  <1> DEFINE q == s.shown
             k == Ask!PlaceOf(m, s)
             w == Ask!Without(m, s)
  <1>1. q \in Seq(Ask!Modals) /\ DOMAIN q = 1..Len(q) /\ Len(q) \in Nat
    BY DEF Ask!Screens
  <1>2. \A i, j \in 1..Len(q) : q[i] = q[j] => i = j
    BY <1>1 DEF AskingOnce
  <1>3. CASE AskingUp(s, m)
    <2>1. k \in 1..Len(q) /\ q[k] = m /\ w = Ask!RemoveAt(q, k)
      BY <1>1, <1>3 DEF AskingUp, Ask!PlaceOf, Ask!Without
    <2> HIDE DEF k
    <2>2. /\ w \in Seq(Ask!Modals) /\ Len(w) = Len(q) - 1
          /\ \A i \in 1..(Len(q) - 1) : w[i] = IF i < k THEN q[i] ELSE q[i + 1]
      <3> HIDE DEF q, w
      <3>1. /\ Ask!RemoveAt(q, k) \in Seq(Ask!Modals) /\ Len(Ask!RemoveAt(q, k)) = Len(q) - 1
            /\ \A i \in 1..(Len(q) - 1) : Ask!RemoveAt(q, k)[i] = IF i < k THEN q[i] ELSE q[i + 1]
        BY <1>1, <2>1, AskingRemoved
      <3> QED BY <2>1, <3>1
    <2> HIDE DEF w, q
    <2>3. DOMAIN w = 1..(Len(q) - 1)
      BY <2>2
    <2>4. \A i \in 1..(Len(q) - 1) : i \in 1..Len(q) /\ i + 1 \in 1..Len(q)
      BY <1>1
    <2>5. \A i, j \in DOMAIN w : w[i] = w[j] => i = j
      BY <1>1, <1>2, <2>1, <2>2, <2>3, <2>4
    <2>6. ASSUME NEW x, NEW i \in DOMAIN w, w[i] = x
          PROVE  x # m /\ \E j \in 1..Len(q) : q[j] = x
      <3>1. CASE i < k
        <4>1. i \in 1..Len(q) /\ q[i] = x /\ i # k
          BY <1>1, <2>1, <2>2, <2>3, <2>4, <2>6, <3>1
        <4> QED BY <1>2, <2>1, <4>1
      <3>2. CASE ~(i < k)
        <4>1. i + 1 \in 1..Len(q) /\ q[i + 1] = x /\ i + 1 # k
          BY <1>1, <2>1, <2>2, <2>3, <2>4, <2>6, <3>2
        <4> QED BY <1>2, <2>1, <4>1
      <3> QED BY <3>1, <3>2
    <2>7. ASSUME NEW x, NEW j \in 1..Len(q), q[j] = x, x # m
          PROVE  \E i \in DOMAIN w : w[i] = x
      <3>1. CASE j < k
        <4>1. j \in 1..(Len(q) - 1) /\ w[j] = q[j]
          BY <1>1, <2>1, <2>2, <3>1
        <4> QED BY <4>1, <2>3, <2>7
      <3>2. CASE j > k
        <4>1. j - 1 \in 1..(Len(q) - 1) /\ ~(j - 1 < k) /\ (j - 1) + 1 = j
          BY <1>1, <2>1, <3>2
        <4>2. w[j - 1] = q[j]
          BY <2>2, <4>1
        <4> QED BY <4>1, <4>2, <2>3, <2>7
      <3> QED BY <1>1, <2>1, <2>7, <3>1, <3>2
    <2> QED BY <1>1, <2>2, <2>5, <2>6, <2>7 DEF AskingUp, q, w
  <1>4. CASE ~AskingUp(s, m)
    <2>1. w = q
      BY <1>4 DEF AskingUp, Ask!Without
    <2> QED BY <1>1, <1>2, <1>4, <2>1 DEF AskingUp
  <1> QED BY <1>3, <1>4

(* A modal is shown, or goes. *)
LEMMA AskingShows ==
    ASSUME NEW m \in Ask!Modals, NEW s \in Ask!Screens, AskingOnce(s)
    PROVE  /\ Ask!ShowModal(m, s) \in Ask!Screens /\ AskingOnce(Ask!ShowModal(m, s))
           /\ \A x : AskingUp(Ask!ShowModal(m, s), x) <=> x = m \/ AskingUp(s, x)
           /\ Ask!Dismissed(m, s) \in Ask!Screens /\ AskingOnce(Ask!Dismissed(m, s))
           /\ \A x : AskingUp(Ask!Dismissed(m, s), x) <=> x # m /\ AskingUp(s, x)
  <1> DEFINE w == Ask!Without(m, s)
             t == Append(w, m)
  <1>1. /\ w \in Seq(Ask!Modals)
        /\ \A i, j \in DOMAIN w : w[i] = w[j] => i = j
        /\ \A x : (\E i \in DOMAIN w : w[i] = x) <=> x # m /\ AskingUp(s, x)
    BY AskingWithout
  <1> HIDE DEF w
  <1>2. /\ t \in Seq(Ask!Modals) /\ Len(w) \in Nat /\ DOMAIN w = 1..Len(w)
        /\ DOMAIN t = 1..(Len(w) + 1) /\ t[Len(w) + 1] = m
        /\ \A i \in 1..Len(w) : t[i] = w[i]
    BY <1>1
  <1>3. /\ \A i \in DOMAIN t : i = Len(w) + 1 \/ i \in DOMAIN w
        /\ \A i \in DOMAIN w : i \in DOMAIN t /\ i # Len(w) + 1
        /\ Len(w) + 1 \in DOMAIN t
    BY <1>2
  <1> HIDE DEF t
  <1>4. \A i \in DOMAIN w : w[i] # m
    BY <1>1
  <1>5. \A i, j \in DOMAIN t : t[i] = t[j] => i = j
    BY <1>1, <1>2, <1>3, <1>4
  <1>6. \A x : (\E i \in DOMAIN t : t[i] = x) <=> x = m \/ AskingUp(s, x)
    BY <1>1, <1>2, <1>3
  <1>7. /\ Ask!ShowModal(m, s).shown = t /\ Ask!ShowModal(m, s).keyboard = m
        /\ Ask!ShowModal(m, s) = [shown |-> t, keyboard |-> m]
    BY DEF Ask!ShowModal, t, w
  <1>8. Ask!Dismissed(m, s).shown = w /\ Ask!Dismissed(m, s) = [shown |-> w, keyboard |-> "window"]
    BY DEF Ask!Dismissed, w
  <1>9. Ask!ShowModal(m, s) \in Ask!Screens /\ Ask!Dismissed(m, s) \in Ask!Screens
    BY <1>1, <1>2, <1>7, <1>8 DEF Ask!Screens
  <1> QED BY <1>1, <1>5, <1>6, <1>7, <1>8, <1>9 DEF AskingUp, AskingOnce

(* All that is shown of the questions. *)
AskingInv ==
    /\ Ask!TypeOK /\ Ask!ScreenInv /\ Ask!ConfirmInv /\ Ask!DropInv
    /\ Ask!AnswersAreToTheQuestion /\ Ask!DestroyedIsAgreedTwice

(* A screen that an action may find: nothing is on it that is not on the
   window's. *)
AskingFrom(s) ==
    /\ s \in Ask!Screens /\ AskingOnce(s)
    /\ \A x \in {"confirm", "name"} : AskingUp(s, x) => Ask!IsShown(x)

(* The window's own screen is one. *)
LEMMA AskingFound == AskingInv => AskingFrom(s4)
  BY DEF AskingInv, AskingFrom, AskingOnce, AskingUp, Ask!ScreenInv, Ask!TypeOK, Ask!IsShown

(* What goes from the screen leaves one, too. *)
LEMMA AskingGone ==
    ASSUME AskingInv, NEW m \in Ask!Modals
    PROVE  AskingFrom(Ask!Dismissed(m, s4)) /\ ~AskingUp(Ask!Dismissed(m, s4), m)
  <1>1. AskingFrom(s4)
    BY AskingFound
  <1>2. s4 \in Ask!Screens /\ AskingOnce(s4)
    BY <1>1 DEF AskingFrom
  <1> DEFINE t == Ask!Dismissed(m, s4)
  <1>3. /\ t \in Ask!Screens /\ AskingOnce(t)
        /\ \A x : AskingUp(t, x) <=> x # m /\ AskingUp(s4, x)
    BY <1>2, AskingShows
  <1> HIDE DEF t
  <1>4. AskingFrom(t) /\ ~AskingUp(t, m)
    BY <1>1, <1>3 DEF AskingFrom
  <1> QED BY <1>4 DEF t

(* Where no question is asked or answered, nothing can go wrong. *)
LEMMA AskingQuiet ==
    ASSUME AskingInv, AskingFrom(s4'),
           UNCHANGED <<s1, s5, s6, s7, s10, s11, s12>>,
           s2' \in [AskPanels -> AskFolders], s3' \in AskPanels, s8' \subseteq Ask!Items,
           s9' \subseteq AskBegun
    PROVE  AskingInv'
  <1>1. Ask!TypeOK'
    BY DEF AskingInv, Ask!TypeOK, AskingFrom
  <1>2. Ask!ScreenInv' /\ Ask!ConfirmInv' /\ Ask!DropInv' /\ Ask!DestroyedIsAgreedTwice'
    BY DEF AskingInv, Ask!ScreenInv, Ask!ConfirmInv, Ask!DropInv, Ask!DestroyedIsAgreedTwice, AskingFrom, AskingOnce
  <1>3. Ask!AnswersAreToTheQuestion'
    BY DEF AskingInv, Ask!AnswersAreToTheQuestion, AskingFrom, AskingUp, Ask!IsShown
  <1> QED BY <1>1, <1>2, <1>3 DEF AskingInv

(* A modal that asks nothing is shown. *)
LEMMA AskingShown ==
    ASSUME AskingInv, NEW s, AskingFrom(s), NEW m \in {"shell", "palette"}
    PROVE  AskingFrom(Ask!ShowModal(m, s))
  <1>1. m \in Ask!Modals
    BY DEF Ask!Modals
  <1> QED BY <1>1, AskingShows DEF AskingFrom

(* A question of the confirmation is asked. *)
LEMMA AskingAsks ==
    ASSUME AskingInv, NEW s, AskingFrom(s), NEW items \in SUBSET Ask!Items,
           NEW step \in {"trash", "first", "second"}, Ask!Ask(items, step, s),
           UNCHANGED <<s1, s2, s3, s6, s7, s8, s12, s11>>,
           s9' \subseteq AskBegun,
           s10' \in [items : SUBSET Ask!Items, yes : Nat],
           step = "second" => s10'.items = items /\ s10'.yes >= 1
    PROVE  AskingInv'
  <1> DEFINE q == Ask!Question(items, step)
  <1>1. /\ q = [verb |-> step, items |-> items] /\ q.verb = step /\ q.items = items
        /\ q \in Ask!Asked /\ q # Ask!None
    BY DEF Ask!Question, Ask!Asked, Ask!None
  <1> HIDE DEF q
  <1>2. s5' = [says |-> q, does |-> q] /\ s4' = Ask!ShowModal("confirm", s)
    BY DEF Ask!Ask, q
  <1>3. "confirm" \in Ask!Modals
    BY DEF Ask!Modals
  <1>4. /\ s4' \in Ask!Screens /\ AskingOnce(s4')
        /\ AskingUp(s4', "name") => AskingUp(s, "name")
    BY <1>2, <1>3, AskingShows DEF AskingFrom
  <1>5. Ask!TypeOK'
    BY <1>1, <1>2, <1>4 DEF AskingInv, Ask!TypeOK
  <1>6. Ask!ScreenInv' /\ Ask!DropInv' /\ Ask!DestroyedIsAgreedTwice'
    BY <1>4 DEF AskingInv, Ask!ScreenInv, Ask!DropInv, Ask!DestroyedIsAgreedTwice, AskingOnce
  <1>7. Ask!ConfirmInv'
    BY <1>1, <1>2 DEF Ask!ConfirmInv
  <1>8. Ask!IsShown("name")' => Ask!IsShown("name")
    BY <1>4 DEF AskingFrom, AskingUp, Ask!IsShown
  <1>9. Ask!AnswersAreToTheQuestion'
    BY <1>1, <1>2, <1>8 DEF AskingInv, Ask!AnswersAreToTheQuestion
  <1> QED BY <1>5, <1>6, <1>7, <1>9 DEF AskingInv

(* A question of the confirmation is gone, and its files with it if it was
   agreed to. *)
LEMMA AskingEnds ==
    ASSUME AskingInv, s4' = Ask!Dismissed("confirm", s4),
           s5' = [says |-> Ask!None, does |-> Ask!None],
           UNCHANGED <<s1, s2, s3, s6, s7, s12, s11>>,
           s8' \subseteq Ask!Items, s9' \subseteq AskBegun,
           s10' \in [items : SUBSET Ask!Items, yes : Nat]
    PROVE  AskingInv'
  <1>1. "confirm" \in Ask!Modals
    BY DEF Ask!Modals
  <1>2. AskingFrom(s4') /\ ~AskingUp(s4', "confirm")
    BY <1>1, AskingGone
  <1>3. s5'.says = Ask!None /\ s5'.does = Ask!None /\ Ask!None.verb # "second" /\ Ask!None \in Ask!Asked
    BY DEF Ask!None, Ask!Asked
  <1>4. s5' \in [says : Ask!Asked, does : Ask!Asked]
    BY <1>3
  <1>5. Ask!TypeOK'
    BY <1>2, <1>4 DEF AskingInv, Ask!TypeOK, AskingFrom
  <1>6. Ask!ScreenInv' /\ Ask!ConfirmInv' /\ Ask!DropInv' /\ Ask!DestroyedIsAgreedTwice'
    BY <1>2, <1>3 DEF AskingInv, Ask!ScreenInv, Ask!ConfirmInv, Ask!DropInv, Ask!DestroyedIsAgreedTwice, AskingFrom,
                      AskingOnce
  <1>7. ~Ask!IsShown("confirm")' /\ (Ask!IsShown("name")' => Ask!IsShown("name"))
    BY <1>2 DEF AskingFrom, AskingUp, Ask!IsShown
  <1>8. Ask!AnswersAreToTheQuestion'
    BY <1>7 DEF AskingInv, Ask!AnswersAreToTheQuestion
  <1> QED BY <1>5, <1>6, <1>8 DEF AskingInv

(* delete_items and permanently_delete_items. *)
LEMMA AskingDeletes ==
    ASSUME AskingInv, NEW permanent \in BOOLEAN, NEW s, AskingFrom(s), Ask!DeleteSelection(permanent, s)
    PROVE  AskingInv'
  <1>1. PICK items \in SUBSET {i \in s8 : i[1] = s2[s3]} \ {{}} :
            /\ IF ~s1.trash /\ ~permanent
               THEN /\ Ask!StartDelete(items, FALSE, Ask!Nobody)
                    /\ s4' = s
                    /\ UNCHANGED s5
               ELSE /\ Ask!Ask(items, IF permanent THEN "first" ELSE "trash", s)
                    /\ UNCHANGED <<s8, s9, s11>>
            /\ s10' = IF permanent THEN Ask!Nobody ELSE s10
            /\ UNCHANGED <<s1, s2, s3, s6, s7, s12>>
    BY DEF Ask!DeleteSelection
  <1>2. items \in SUBSET Ask!Items
    BY DEF AskingInv, Ask!TypeOK
  <1>3. s10' \in [items : SUBSET Ask!Items, yes : Nat]
    BY <1>1 DEF AskingInv, Ask!TypeOK, Ask!Nobody
  <1>4. CASE ~s1.trash /\ ~permanent
    <2>1. /\ s8' = s8 \ items /\ s9' = s9 \ {"selection"}
          /\ s11' = (s11 \/ (FALSE /\ (Ask!Nobody.items # items \/ Ask!Nobody.yes < 2)))
          /\ s4' = s /\ UNCHANGED <<s1, s2, s3, s5, s6, s7, s12, s10>>
      BY <1>1, <1>4 DEF Ask!StartDelete
    <2>2. s11' = s11
      BY <2>1 DEF AskingInv, Ask!TypeOK
    <2> QED BY <2>1, <2>2, AskingQuiet DEF AskingInv, Ask!TypeOK
  <1>5. CASE ~(~s1.trash /\ ~permanent)
    <2> DEFINE step == IF permanent THEN "first" ELSE "trash"
    <2>1. /\ Ask!Ask(items, step, s)
          /\ UNCHANGED <<s1, s2, s3, s6, s7, s8, s9, s12, s11>>
      BY <1>1, <1>5
    <2>2. step \in {"trash", "first", "second"} /\ step # "second"
      OBVIOUS
    <2> HIDE DEF step
    <2>3. s9' \subseteq AskBegun
      BY <2>1 DEF AskingInv, Ask!TypeOK
    <2> QED BY <1>2, <1>3, <2>1, <2>2, <2>3, AskingAsks
  <1> QED BY <1>4, <1>5

(* One who asks for a name is the only one to hear it. *)
LEMMA AskingForName ==
    ASSUME AskingInv, NEW s, AskingFrom(s), NEW prompt \in Ask!Prompts, Ask!AskForName(prompt, s)
    PROVE  AskingInv'
  <1>1. "name" \in Ask!Modals
    BY DEF Ask!Modals
  <1>2. /\ s6' = [says |-> prompt, handlers |-> {prompt}] /\ s4' = Ask!ShowModal("name", s)
        /\ UNCHANGED <<s1, s2, s3, s5, s7, s8, s9, s10, s11, s12>>
    BY DEF Ask!AskForName, Ask!Listen, Ask!history
  <1>3. /\ s4' \in Ask!Screens /\ AskingOnce(s4')
        /\ AskingUp(s4', "confirm") => AskingUp(s, "confirm")
    BY <1>1, <1>2, AskingShows DEF AskingFrom
  <1>4. Ask!TypeOK'
    BY <1>2, <1>3 DEF AskingInv, Ask!TypeOK
  <1>5. Ask!ScreenInv' /\ Ask!ConfirmInv' /\ Ask!DropInv' /\ Ask!DestroyedIsAgreedTwice'
    BY <1>2, <1>3 DEF AskingInv, Ask!ScreenInv, Ask!ConfirmInv, Ask!DropInv, Ask!DestroyedIsAgreedTwice, AskingOnce
  <1>6. Ask!IsShown("confirm")' => Ask!IsShown("confirm")
    BY <1>3 DEF AskingFrom, AskingUp, Ask!IsShown
  <1>7. Ask!AnswersAreToTheQuestion'
    BY <1>2, <1>6 DEF AskingInv, Ask!AnswersAreToTheQuestion
  <1> QED BY <1>4, <1>5, <1>7 DEF AskingInv

(* What the registry invokes, whatever screen it finds. *)
LEMMA AskingInvokes ==
    ASSUME AskingInv, NEW s, AskingFrom(s), NEW id, Ask!Invoke(id, s)
    PROVE  AskingInv'
  <1>1. CASE Ask!DeleteSelection(FALSE, s) \/ Ask!DeleteSelection(TRUE, s)
    BY <1>1, AskingDeletes
  <1>2. CASE Ask!CreateItem(s)
    <2>1. <<s2[s3], "new">> \in Ask!Items
      BY AskingAssumption DEF AskingInv, Ask!TypeOK, Ask!Items
    <2>2. Ask!Prompt("create", <<s2[s3], "new">>) \in Ask!Prompts
      BY <2>1 DEF Ask!Prompt, Ask!Prompts
    <2> QED BY <1>2, <2>2, AskingForName DEF Ask!CreateItem
  <1>3. CASE Ask!RenameCursorItem(s)
    <2>1. PICK item \in s8 : Ask!AskForName(Ask!Prompt("rename", item), s)
      BY <1>3 DEF Ask!RenameCursorItem
    <2>2. Ask!Prompt("rename", item) \in Ask!Prompts
      BY <2>1 DEF Ask!Prompt, Ask!Prompts, AskingInv, Ask!TypeOK
    <2> QED BY <2>1, <2>2, AskingForName
  <1>4. CASE Ask!Show("shell", s)
    <2>1. /\ s4' = Ask!ShowModal("shell", s)
          /\ UNCHANGED <<s1, s2, s3, s5, s6, s7, s8, s9, s10, s11,
                         s12>>
      BY <1>4 DEF Ask!Show, Ask!content, Ask!history
    <2>2. AskingFrom(Ask!ShowModal("shell", s))
      BY AskingShown
    <2>3. AskingFrom(s4')
      BY <2>1, <2>2
    <2> QED BY <2>1, <2>3, AskingQuiet DEF AskingInv, Ask!TypeOK
  <1> QED BY <1>1, <1>2, <1>3, <1>4 DEF Ask!Invoke

(* A yes to what the title says: only the second one to the same files
   destroys them. *)
LEMMA AskingConfirmed ==
    ASSUME AskingInv, Ask!Confirmed
    PROVE  AskingInv'
  <1> DEFINE q     == s5.does
             s     == Ask!Dismissed("confirm", s4)
             asked == Ask!SaidYes
  <1>1. /\ s10' = IF s5.says.verb = "first" THEN asked ELSE Ask!Nobody
        /\ IF q.verb = "first"
           THEN /\ Ask!Ask(q.items, "second", s)
                /\ UNCHANGED <<s8, s9, s11>>
           ELSE /\ s4' = s
                /\ s5' = [says |-> Ask!None, does |-> Ask!None]
                /\ IF q = Ask!None THEN UNCHANGED <<s8, s9, s11>>
                   ELSE Ask!StartDelete(q.items, q.verb = "second", asked)
        /\ UNCHANGED <<s1, s2, s3, s6, s7, s12>>
    BY DEF Ask!Confirmed
  <1>2. Ask!IsShown("confirm")
    BY DEF Ask!Confirmed, Ask!OnTop, Ask!IsShown, AskingInv, Ask!TypeOK, Ask!Screens
  <1>3. s5.says = q /\ q \in Ask!Asked /\ q # Ask!None
    BY <1>2 DEF AskingInv, Ask!AnswersAreToTheQuestion, Ask!TypeOK
  <1>4. q.verb \in {"trash", "first", "second"} /\ q.items \in SUBSET Ask!Items
    BY <1>3 DEF Ask!Asked
  <1>5. s10 \in [items : SUBSET Ask!Items, yes : Nat]
        /\ (q.verb = "second" => s10.items = q.items /\ s10.yes >= 1)
    BY <1>3 DEF AskingInv, Ask!TypeOK, Ask!ConfirmInv
  <1>6. /\ asked \in [items : SUBSET Ask!Items, yes : Nat] /\ asked.items = q.items /\ asked.yes >= 1
        /\ s10.items = q.items /\ s10.yes >= 1 => asked.yes >= 2
    <2>1. CASE s10.items = q.items
      <3>1. asked = [s10 EXCEPT !.yes = @ + 1]
        BY <1>3, <2>1 DEF Ask!SaidYes
      <3> QED BY <1>5, <2>1, <3>1
    <2>2. CASE s10.items # q.items
      <3>1. asked = [items |-> q.items, yes |-> 1]
        BY <1>3, <2>2 DEF Ask!SaidYes
      <3> QED BY <1>4, <2>2, <3>1
    <2> QED BY <2>1, <2>2
  <1>7. Ask!Nobody \in [items : SUBSET Ask!Items, yes : Nat]
    BY DEF Ask!Nobody
  <1>8. AskingFrom(s)
    <2>1. "confirm" \in Ask!Modals
      BY DEF Ask!Modals
    <2> QED BY <2>1, AskingGone
  <1> HIDE DEF q, s, asked
  <1>9. CASE q.verb = "first"
    <2>1. s10' = asked /\ Ask!Ask(q.items, "second", s)
          /\ UNCHANGED <<s1, s2, s3, s6, s7, s8, s9, s11, s12>>
      BY <1>1, <1>3, <1>9
    <2>2. s9' \subseteq AskBegun
      BY <2>1 DEF AskingInv, Ask!TypeOK
    <2> QED BY <1>4, <1>6, <1>8, <2>1, <2>2, AskingAsks
  <1>10. CASE q.verb # "first"
    <2>1. /\ s10' = Ask!Nobody /\ s4' = s /\ s5' = [says |-> Ask!None, does |-> Ask!None]
          /\ Ask!StartDelete(q.items, q.verb = "second", asked)
          /\ UNCHANGED <<s1, s2, s3, s6, s7, s12>>
      BY <1>1, <1>3, <1>10
    <2>2. /\ s8' = s8 \ q.items /\ s9' = s9 \ {"selection"}
          /\ s11' = (s11 \/ (q.verb = "second" /\ (asked.items # q.items \/ asked.yes < 2)))
      BY <2>1 DEF Ask!StartDelete
    <2>3. ~(q.verb = "second" /\ (asked.items # q.items \/ asked.yes < 2))
      BY <1>5, <1>6
    <2>4. s11' = s11
      BY <2>2, <2>3 DEF AskingInv, Ask!TypeOK
    <2>5. s8' \subseteq Ask!Items /\ s9' \subseteq AskBegun
      BY <2>2 DEF AskingInv, Ask!TypeOK
    <2> QED BY <1>7, <2>1, <2>4, <2>5, AskingEnds DEF s
  <1> QED BY <1>9, <1>10

(* A no, to the first question or the second. *)
LEMMA AskingDeclined ==
    ASSUME AskingInv, Ask!Declined
    PROVE  AskingInv'
  <1>1. Ask!Nobody \in [items : SUBSET Ask!Items, yes : Nat]
    BY DEF Ask!Nobody
  <1>2. s8' \subseteq Ask!Items /\ s9' \subseteq AskBegun
    BY DEF AskingInv, Ask!TypeOK, Ask!Declined
  <1> QED BY <1>1, <1>2, AskingEnds DEF Ask!Declined

(* The question for a name is gone, and the name may have been used. *)
LEMMA AskingNamed ==
    ASSUME AskingInv, s4' = Ask!Dismissed("name", s4), s6' = [s6 EXCEPT !.says = Ask!None],
           UNCHANGED <<s1, s2, s3, s5, s7, s9, s10, s11, s12>>,
           s8' \subseteq Ask!Items
    PROVE  AskingInv'
  <1>1. "name" \in Ask!Modals
    BY DEF Ask!Modals
  <1>2. AskingFrom(s4') /\ ~AskingUp(s4', "name")
    BY <1>1, AskingGone
  <1>3. Ask!TypeOK'
    BY <1>2 DEF AskingInv, Ask!TypeOK, AskingFrom
  <1>4. Ask!ScreenInv' /\ Ask!ConfirmInv' /\ Ask!DropInv' /\ Ask!DestroyedIsAgreedTwice'
    BY <1>2 DEF AskingInv, Ask!ScreenInv, Ask!ConfirmInv, Ask!DropInv, Ask!DestroyedIsAgreedTwice, AskingFrom,
                AskingOnce
  <1>5. ~Ask!IsShown("name")' /\ (Ask!IsShown("confirm")' => Ask!IsShown("confirm"))
    BY <1>2 DEF AskingFrom, AskingUp, Ask!IsShown
  <1>6. Ask!AnswersAreToTheQuestion'
    BY <1>5 DEF AskingInv, Ask!AnswersAreToTheQuestion
  <1> QED BY <1>3, <1>4, <1>6 DEF AskingInv

(* A typed name is taken. *)
LEMMA AskingSubmitted ==
    ASSUME AskingInv, NEW typed \in AskNames, Ask!Submitted(typed)
    PROVE  AskingInv'
  <1> DEFINE taken == {h \in s6.handlers : ~Ask!Refused(h, typed)}
             old   == {h.item : h \in {x \in taken : x.verb = "rename"}}
             new   == {Ask!Target(h, typed) : h \in {x \in taken : x.verb = "create" \/ x.item \in s8}}
  <1>1. /\ s8' = (s8 \ old) \cup new
        /\ s4' = Ask!Dismissed("name", s4) /\ s6' = [s6 EXCEPT !.says = Ask!None]
        /\ UNCHANGED <<s1, s2, s3, s5, s7, s9, s10, s11, s12>>
    BY DEF Ask!Submitted, Ask!history
  <1>2. \A h \in s6.handlers : Ask!Target(h, typed) \in Ask!Items
    BY DEF AskingInv, Ask!TypeOK, Ask!Prompts, Ask!Items, Ask!Target
  <1>3. new \subseteq Ask!Items
    BY <1>2
  <1>4. s8 \subseteq Ask!Items
    BY DEF AskingInv, Ask!TypeOK
  <1> HIDE DEF old, new
  <1>5. s8' \subseteq Ask!Items
    BY <1>1, <1>3, <1>4
  <1> QED BY <1>1, <1>5, AskingNamed

(* A drop is carried out, or asked about. *)
LEMMA AskingDrops ==
    ASSUME AskingInv, NEW items \in SUBSET Ask!Items, NEW to \in AskFolders, NEW verb,
           Ask!FilesDropped(items, to, verb)
    PROVE  s8' \subseteq Ask!Items
  <1> DEFINE moving == {i \in items \cap s8 : i[1] # to /\ <<to, i[2]>> \notin s8}
             placed == {<<to, i[2]>> : i \in moving}
  <1>1. s8' = (IF verb = "move" THEN s8 \ moving ELSE s8) \cup placed
    BY DEF Ask!FilesDropped
  <1>2. \A i \in moving : <<to, i[2]>> \in Ask!Items
    BY DEF Ask!Items
  <1>3. placed \subseteq Ask!Items
    BY <1>2
  <1>4. s8 \subseteq Ask!Items
    BY DEF AskingInv, Ask!TypeOK
  <1> HIDE DEF moving, placed
  <1> QED BY <1>1, <1>3, <1>4

(* What is let go over a panel stays meant for the place below the pointer,
   also while the menu asks and the panel goes elsewhere. *)
LEMMA AskingDrop ==
    ASSUME AskingInv, NEW p \in AskPanels, NEW row \in AskFolders, NEW key, Ask!DropEvent(p, row, key)
    PROVE  AskingInv'
  <1>1. PICK i \in s8 :
            LET to == Ask!DestinationFor(p, row) IN
            /\ IF key = "alt"
               THEN /\ s7' = [verb |-> "ask", items |-> {i}, to |-> to, aim |-> to]
                    /\ UNCHANGED s8
               ELSE /\ Ask!FilesDropped({i}, to, Ask!ActionFor(key, i, to))
                    /\ UNCHANGED s7
            /\ UNCHANGED <<s1, s2, s3, s4, Ask!content, s9, Ask!history>>
    BY DEF Ask!DropEvent
  <1> DEFINE to == Ask!DestinationFor(p, row)
  <1>2. to \in AskFolders /\ {i} \in SUBSET Ask!Items
    BY AskingAssumption DEF Ask!DestinationFor, AskingInv, Ask!TypeOK
  <1>3. UNCHANGED <<s1, s2, s3, s4, s5, s6, s9, s10, s11, s12>>
    BY <1>1 DEF Ask!content, Ask!history
  <1> HIDE DEF to
  <1>4. CASE key = "alt"
    <2> DEFINE asks == [verb |-> "ask", items |-> {i}, to |-> to, aim |-> to]
    <2>1. s7' = asks /\ s8' = s8
      BY <1>1, <1>4 DEF to
    <2>2. asks \in Ask!Drops /\ asks.to = asks.aim
      BY <1>2 DEF Ask!Drops
    <2> HIDE DEF asks
    <2>3. Ask!TypeOK'
      BY <1>3, <2>1, <2>2 DEF AskingInv, Ask!TypeOK
    <2>4. Ask!ScreenInv' /\ Ask!ConfirmInv' /\ Ask!DropInv' /\ Ask!DestroyedIsAgreedTwice'
      BY <1>3, <2>1, <2>2 DEF AskingInv, Ask!ScreenInv, Ask!ConfirmInv, Ask!DropInv, Ask!DestroyedIsAgreedTwice
    <2>5. Ask!AnswersAreToTheQuestion'
      BY <1>3 DEF AskingInv, Ask!AnswersAreToTheQuestion, Ask!IsShown
    <2> QED BY <2>3, <2>4, <2>5 DEF AskingInv
  <1>5. CASE key # "alt"
    <2>1. Ask!FilesDropped({i}, to, Ask!ActionFor(key, i, to)) /\ s7' = s7
      BY <1>1, <1>5 DEF to
    <2>2. s8' \subseteq Ask!Items
      BY <1>2, <2>1, AskingDrops
    <2>3. AskingFrom(s4')
      BY <1>3, AskingFound
    <2> QED BY <1>3, <2>1, <2>2, <2>3, AskingQuiet DEF AskingInv, Ask!TypeOK
  <1> QED BY <1>4, <1>5

(* The menu's answer is about the drop it was shown for. *)
LEMMA AskingChosen ==
    ASSUME AskingInv, NEW verb, Ask!ChooseHere(verb)
    PROVE  AskingInv'
  <1>1. /\ s7 # Ask!None /\ s7' = Ask!None
        /\ UNCHANGED <<s1, s2, s3, s4, s5, s6, s9, s10, s11>>
    BY DEF Ask!ChooseHere, Ask!content, Ask!MenuIsUp
  <1>2. s7.to = s7.aim /\ s7.items \in SUBSET Ask!Items /\ s7.to \in AskFolders
    BY <1>1 DEF AskingInv, Ask!TypeOK, Ask!Drops, Ask!DropInv
  <1>3. s8' \subseteq Ask!Items /\ s12' = s12
    <2>1. CASE verb = "cancel"
      BY <2>1 DEF Ask!ChooseHere, AskingInv, Ask!TypeOK
    <2>2. CASE verb # "cancel"
      <3>1. Ask!FilesDropped(s7.items, s7.to, verb) /\ s12' = (s12 \/ s7.to # s7.aim)
        BY <2>2 DEF Ask!ChooseHere
      <3>2. s8' \subseteq Ask!Items
        BY <1>2, <3>1, AskingDrops
      <3>3. s12 \in BOOLEAN
        BY DEF AskingInv, Ask!TypeOK
      <3> QED BY <1>2, <3>1, <3>2, <3>3
    <2> QED BY <2>1, <2>2
  <1>4. Ask!TypeOK'
    BY <1>1, <1>3 DEF AskingInv, Ask!TypeOK, Ask!Drops
  <1>5. Ask!ScreenInv' /\ Ask!ConfirmInv' /\ Ask!DropInv' /\ Ask!DestroyedIsAgreedTwice'
    BY <1>1 DEF AskingInv, Ask!ScreenInv, Ask!ConfirmInv, Ask!DropInv, Ask!DestroyedIsAgreedTwice
  <1>6. Ask!AnswersAreToTheQuestion'
    BY <1>1, <1>3 DEF AskingInv, Ask!AnswersAreToTheQuestion, Ask!IsShown
  <1> QED BY <1>4, <1>5, <1>6 DEF AskingInv

(* A panel or the whole window is pointed at, and keys reach another part. *)
LEMMA AskingKeyboard ==
    ASSUME AskingInv, NEW k \in Ask!Modals \cup {"panel", "window"},
           s4' = [s4 EXCEPT !.keyboard = k]
    PROVE  AskingFrom(s4')
  BY AskingFound DEF AskingFrom, AskingOnce, AskingUp, AskingInv, Ask!TypeOK, Ask!Screens, Ask!IsShown

(* Every step keeps them. *)
LEMMA AskingStep ==
    ASSUME AskingInv, [Ask!Next]_Ask!vars
    PROVE  AskingInv'
  <1>1. AskingFrom(s4)
    BY AskingFound
  <1>2. s2 \in [AskPanels -> AskFolders] /\ s3 \in AskPanels /\ s8 \subseteq Ask!Items /\ s9 \subseteq AskBegun
    BY DEF AskingInv, Ask!TypeOK
  <1>3. ASSUME NEW m \in Ask!Modals, Ask!Dismiss(m)
        PROVE  AskingInv'
    <2>1. /\ s4' = Ask!Dismissed(m, s4)
          /\ s6' = IF m = "name" THEN [s6 EXCEPT !.says = Ask!None] ELSE s6
          /\ UNCHANGED <<s1, s2, s3, s5, s7, s8, s9, s10, s11, s12>>
      BY <1>3 DEF Ask!Dismiss, Ask!history
    <2>2. CASE m = "name"
      BY <1>2, <2>1, <2>2, AskingNamed
    <2>3. CASE m # "name"
      <3>1. AskingFrom(Ask!Dismissed(m, s4))
        BY <1>3, AskingGone
      <3>2. AskingFrom(s4')
        BY <2>1, <3>1
      <3> QED BY <1>2, <2>1, <2>3, <3>2, AskingQuiet
    <2> QED BY <2>2, <2>3
  <1>4. ASSUME NEW f \in AskFolders, NEW s, AskingFrom(s), Ask!OpenPath(f, s)
        PROVE  AskingInv'
    <2>1. /\ s2' = [s2 EXCEPT ![s3] = f] /\ s4' = s
          /\ UNCHANGED <<s1, s3, s5, s6, s7, s8, s9, s10, s11, s12>>
      BY <1>4 DEF Ask!OpenPath, Ask!content, Ask!history
    <2>2. AskingFrom(s4')
      BY <1>4, <2>1
    <2> QED BY <1>2, <2>1, <2>2, AskingQuiet
  <1>5. ASSUME NEW m \in {"shell", "palette"}, Ask!Show(m, s4)
        PROVE  AskingInv'
    <2>1. /\ s4' = Ask!ShowModal(m, s4)
          /\ UNCHANGED <<s1, s2, s3, s5, s6, s7, s8, s9, s10, s11,
                         s12>>
      BY <1>5 DEF Ask!Show, Ask!content, Ask!history
    <2>2. AskingFrom(Ask!ShowModal(m, s4))
      BY <1>1, AskingShown
    <2>3. AskingFrom(s4')
      BY <2>1, <2>2
    <2> QED BY <1>2, <2>1, <2>3, AskingQuiet
  <1>6. ASSUME Ask!ActivateCursorItem
        PROVE  AskingInv'
    <2>1. PICK f \in AskInside[s2[s3]] : s2' = [s2 EXCEPT ![s3] = f]
      BY <1>6 DEF Ask!ActivateCursorItem
    <2>2. f \in AskFolders
      BY <1>2, <2>1, AskingAssumption
    <2>3. UNCHANGED <<s1, s3, s4, s5, s6, s7, s8, s9, s10, s11,
                      s12>>
      BY <1>6 DEF Ask!ActivateCursorItem, Ask!content, Ask!history
    <2>4. AskingFrom(s4')
      BY <1>1, <2>3
    <2> QED BY <1>2, <2>1, <2>2, <2>3, <2>4, AskingQuiet
  <1>7. ASSUME Ask!Cancel
        PROVE  AskingInv'
    <2>1. s9' \subseteq s9
      BY <1>7 DEF Ask!Cancel
    <2>2. UNCHANGED <<s1, s2, s3, s4, s5, s6, s7, s8, s10, s11, s12>>
      BY <1>7 DEF Ask!Cancel, Ask!content, Ask!history
    <2>3. AskingFrom(s4')
      BY <1>1, <2>2
    <2> QED BY <1>2, <2>1, <2>2, <2>3, AskingQuiet
  <1>8. CASE Ask!PressReturn
    <2>1. CASE \E typed \in AskNames : Ask!Submitted(typed)
      BY <2>1, AskingSubmitted
    <2>2. CASE Ask!PaletteAccepted
      <3> DEFINE s == Ask!Dismissed("palette", s4)
      <3>1. PICK row \in Ask!Offered : \/ row \in AskFolders /\ Ask!OpenPath(row, s)
                                       \/ row \in Ask!Verbs /\ Ask!Invoke(row, s)
        BY <2>2 DEF Ask!PaletteAccepted
      <3>2. AskingFrom(s)
        <4>1. "palette" \in Ask!Modals
          BY DEF Ask!Modals
        <4> QED BY <4>1, AskingGone
      <3> HIDE DEF s
      <3> QED BY <1>4, <3>1, <3>2, AskingInvokes
    <2> QED BY <1>6, <1>8, <2>1, <2>2, AskingDeclined DEF Ask!PressReturn
  <1>9. CASE Ask!PressEscape
    <2>1. CASE Ask!Typing /\ Ask!Dismiss(s4.keyboard)
      <3>1. s4.keyboard \in Ask!Modals
        BY <2>1 DEF Ask!Typing, Ask!Modals
      <3> QED BY <1>3, <2>1, <3>1
    <2> QED BY <1>7, <1>9, <2>1, AskingDeclined DEF Ask!PressEscape
  <1>10. CASE \/ Ask!PressPaletteKey \/ Ask!ClickBackdrop
              \/ \E m \in {"name", "shell", "palette"} : Ask!ClickField(m)
    <2>1. CASE Ask!PressPaletteKey
      BY <1>5, <2>1 DEF Ask!PressPaletteKey
    <2>2. CASE Ask!ClickBackdrop
      <3>1. "palette" \in Ask!Modals
        BY DEF Ask!Modals
      <3> QED BY <1>3, <2>2, <3>1 DEF Ask!ClickBackdrop
    <2>3. ASSUME NEW m \in {"name", "shell", "palette"}, Ask!ClickField(m)
          PROVE  AskingInv'
      <3>1. /\ s4' = [s4 EXCEPT !.keyboard = m]
            /\ UNCHANGED <<s1, s2, s3, s5, s6, s7, s8, s9, s10, s11,
                           s12>>
        BY <2>3 DEF Ask!ClickField, Ask!content, Ask!history
      <3>2. m \in Ask!Modals \cup {"panel", "window"}
        BY DEF Ask!Modals
      <3>3. AskingFrom(s4')
        BY <3>1, <3>2, AskingKeyboard
      <3> QED BY <1>2, <3>1, <3>3, AskingQuiet
    <2> QED BY <1>10, <2>1, <2>2, <2>3
  <1>11. CASE Ask!NextFilePanel
    <2>1. PICK p \in AskPanels : Ask!FocusPanel(p)
      BY <1>11 DEF Ask!NextFilePanel
    <2>2. /\ s3' = p /\ s4' = [s4 EXCEPT !.keyboard = "panel"]
          /\ UNCHANGED <<s1, s2, s5, s6, s7, s8, s9, s10, s11, s12>>
      BY <2>1 DEF Ask!FocusPanel, Ask!content, Ask!history
    <2>3. AskingFrom(s4')
      BY <2>2, AskingKeyboard
    <2> QED BY <1>2, <2>2, <2>3, AskingQuiet
  <1>12. ASSUME NEW p \in AskPanels, Ask!OpenPaletteFromPanel(p)
         PROVE  AskingInv'
    <2>1. /\ s3' = p /\ s4' = Ask!ShowModal("palette", s4)
          /\ UNCHANGED <<s1, s2, s5, s6, s7, s8, s9, s10, s11, s12>>
      BY <1>12 DEF Ask!OpenPaletteFromPanel, Ask!content, Ask!history
    <2>2. AskingFrom(Ask!ShowModal("palette", s4))
      BY <1>1, AskingShown
    <2>3. AskingFrom(s4')
      BY <2>1, <2>2
    <2> QED BY <1>2, <2>1, <2>3, AskingQuiet
  <1>13. CASE \/ \E id \in Ask!Verbs : Ask!PressKey(id)
              \/ Ask!ClickConfirm \/ Ask!ClickCancel
              \/ \E f \in AskFolders : Ask!Handed(f)
    BY <1>1, <1>4, <1>13, AskingInvokes, AskingConfirmed, AskingDeclined
       DEF Ask!PressKey, Ask!ClickConfirm, Ask!ClickCancel, Ask!Handed
  <1>14. CASE UNCHANGED Ask!vars
    <2>1. UNCHANGED <<s1, s2, s3, s4, s5, s6, s7, s8, s9, s10, s11,
                      s12>>
      BY <1>14 DEF Ask!vars, Ask!content, Ask!history
    <2>2. AskingFrom(s4')
      BY <1>1, <2>1
    <2> QED BY <1>2, <2>1, <2>2, AskingQuiet
  <1> QED BY <1>8, <1>9, <1>10, <1>11, <1>12, <1>13, <1>14, AskingDrop, AskingChosen DEF Ask!Next

(* A button does what its title says, one caller hears a typed name, a drop
   goes where it was let go, and nothing is destroyed but what the user has
   twice in a row agreed to destroy, for any panels, folders and settings
   and any questions asked over one another. *)
THEOREM AnswersAreAlwaysMeant ==
    Ask!Spec => [](/\ Ask!TypeOK /\ Ask!ScreenInv /\ Ask!ConfirmInv /\ Ask!DropInv
               /\ Ask!AnswersAreToTheQuestion /\ Ask!DestroyedIsAgreedTwice)
  <1>1. ASSUME Ask!Init
        PROVE  AskingInv
    <2>1. /\ s4.shown = <<>> /\ s4 = [shown |-> <<>>, keyboard |-> "panel"]
          /\ s5 = [says |-> Ask!None, does |-> Ask!None] /\ s6 = [says |-> Ask!None, handlers |-> {}]
          /\ s7 = Ask!None /\ s10 = [items |-> {}, yes |-> 0] /\ s11 = FALSE /\ s12 = FALSE
          /\ s1 \in AskConfigs /\ s2 \in [AskPanels -> AskFolders] /\ s3 \in AskPanels
          /\ s8 \subseteq Ask!Items /\ s9 = AskBegun
      BY <1>1 DEF Ask!Init, Ask!Nobody
    <2>2. <<>> \in Seq(Ask!Modals) /\ DOMAIN <<>> = {}
      BY EmptySeq
    <2>3. s4 \in Ask!Screens
      BY <2>1, <2>2 DEF Ask!Screens
    <2>4. Ask!None \in Ask!Asked /\ Ask!None \in Ask!Drops /\ Ask!None.verb # "second"
      BY DEF Ask!None, Ask!Asked, Ask!Drops
    <2>5. Ask!TypeOK
      BY <2>1, <2>3, <2>4 DEF Ask!TypeOK
    <2>6. Ask!ScreenInv /\ Ask!ConfirmInv /\ Ask!DropInv /\ Ask!DestroyedIsAgreedTwice
      BY <2>1, <2>2, <2>4 DEF Ask!ScreenInv, Ask!ConfirmInv, Ask!DropInv, Ask!DestroyedIsAgreedTwice
    <2>7. Ask!AnswersAreToTheQuestion
      BY <2>1, <2>2 DEF Ask!AnswersAreToTheQuestion, Ask!IsShown
    <2> QED BY <2>5, <2>6, <2>7 DEF AskingInv
  <1>2. AskingInv /\ [Ask!Next]_Ask!vars => AskingInv'
    BY AskingStep
  <1>3. AskingInv => /\ Ask!TypeOK /\ Ask!ScreenInv /\ Ask!ConfirmInv /\ Ask!DropInv
                     /\ Ask!AnswersAreToTheQuestion /\ Ask!DestroyedIsAgreedTwice
    BY DEF AskingInv
  <1> QED BY <1>1, <1>2, <1>3, PTL DEF Ask!Spec

(* Two launches, one by an older version, and a service; one of them may   *)
(* be killed.                                                              *)
Launch == INSTANCE InstanceLaunch WITH
    Procs <- Launched, Alone <- LaunchedAlone, Services <- LaunchedByBus,
    OldVersion <- LaunchedOld, MaxCrashes <- LaunchKills, pc <- s1,
    path <- s2, listening <- s3, serving <- s4, backlog <- s5, peer <- s6,
    acked <- s7, forward <- s8, called <- s9, opened <- s10, crashed <- s11

(* Each step keeps the types ... *)
LEMMA LaunchTypeStep ==
    ASSUME Launch!TypeOK, [Launch!Next]_Launch!vars
    PROVE  Launch!TypeOK'
  <1> USE DEF Launch!TypeOK, Launch!sockets, Launch!requests, Launch!Goto, Launch!Open
  <1>1. CASE UNCHANGED Launch!vars
    BY <1>1 DEF Launch!vars
  <1>2. ASSUME NEW p \in Launched, Launch!Connect(p) \/ Launch!HandedOver(p) \/ Launch!NotAcked(p)
        PROVE  Launch!TypeOK'
    BY <1>2 DEF Launch!Connect, Launch!HandedOver, Launch!NotAcked, Launch!ShowHere, Launch!GiveUp, Launch!Answers
  <1>3. ASSUME NEW p \in Launched, Launch!Launch(p) \/ Launch!StartUp(p) \/ Launch!Unlink(p) \/ Launch!ShowRequested(p)
        PROVE  Launch!TypeOK'
    BY <1>3 DEF Launch!Launch, Launch!StartUp, Launch!Unlink, Launch!ShowRequested
  <1>4. ASSUME NEW p \in Launched, Launch!Probe(p)
        PROVE  Launch!TypeOK'
    BY <1>4 DEF Launch!Probe
  <1>5. ASSUME NEW p \in Launched, Launch!Bind(p) \/ Launch!Listen(p) \/ Launch!StartServing(p) \/ Launch!OnNewConnection(p)
        PROVE  Launch!TypeOK'
    BY <1>5 DEF Launch!Bind, Launch!Listen, Launch!StartServing, Launch!OnNewConnection
  <1>6. ASSUME NEW p \in Launched, Launch!Quit(p) \/ Launch!Crash(p)
        PROVE  Launch!TypeOK'
    BY <1>6 DEF Launch!Quit, Launch!Crash, Launch!Gone
  <1> QED BY <1>1, <1>2, <1>3, <1>4, <1>5, <1>6 DEF Launch!Next, Launch!Step

(* ... and the invariant. *)
LEMMA LaunchStep ==
    ASSUME Launch!TypeOK, Launch!LaunchInv, [Launch!Next]_Launch!vars
    PROVE  Launch!LaunchInv'
  <1> USE DEF Launch!TypeOK, Launch!sockets, Launch!requests, Launch!Goto, Launch!Open, Launch!LaunchInv, Launch!ClientInv, Launch!OpenInv, Launch!ServiceInv
  <1>1. CASE UNCHANGED Launch!vars
    BY <1>1 DEF Launch!vars
  <1>2. ASSUME NEW p \in Launched, Launch!Connect(p)
        PROVE  Launch!LaunchInv'
    <2>1. CASE /\ Launch!Answers
               /\ Launch!Goto(p, "ack")
               /\ s5' = [s5 EXCEPT ![s2] = @ \cup {p}]
               /\ s6' = [s6 EXCEPT ![p] = s2]
               /\ UNCHANGED <<s8, s10>>
      BY <1>2, <2>1 DEF Launch!Connect, Launch!Answers
    <2>2. CASE UNCHANGED <<s5, s6, s10>> /\ Launch!Goto(p, "retry")
      BY <1>2, <2>2 DEF Launch!Connect
    <2>3. CASE Launch!ShowHere(p) /\ UNCHANGED <<s5, s6>>
      <3>1. /\ UNCHANGED <<s7, s9, s11>>
            /\ s1[p] \in {"connect", "retry"}
        BY <1>2 DEF Launch!Connect
      <3>2. CASE p \in LaunchedByBus
        BY <2>3, <3>1, <3>2 DEF Launch!ShowHere, Launch!GiveUp
      <3>3. CASE p \notin LaunchedByBus
        BY <2>3, <3>1, <3>3 DEF Launch!ShowHere, Launch!GiveUp
      <3> QED BY <3>2, <3>3
    <2> QED BY <1>2, <2>1, <2>2, <2>3 DEF Launch!Connect
  <1>3. ASSUME NEW p \in Launched, Launch!HandedOver(p) \/ Launch!NotAcked(p)
        PROVE  Launch!LaunchInv'
    BY <1>3 DEF Launch!HandedOver, Launch!NotAcked, Launch!ShowHere, Launch!GiveUp
  <1>4. ASSUME NEW p \in Launched, Launch!Launch(p)
        PROVE  Launch!LaunchInv'
    BY <1>4 DEF Launch!Launch
  <1>5. ASSUME NEW p \in Launched, Launch!StartUp(p)
        PROVE  Launch!LaunchInv'
    BY <1>5 DEF Launch!StartUp
  <1>6. ASSUME NEW p \in Launched, Launch!Unlink(p) \/ Launch!Probe(p) \/ Launch!Bind(p) \/ Launch!Listen(p)
        PROVE  Launch!LaunchInv'
    <2>1. /\ s1[p] \in {"unlink", "probe", "bind", "listen"}
          /\ \E l \in {"bind", "running", "unlink", "listen"} : s1' = [s1 EXCEPT ![p] = l]
          /\ UNCHANGED <<s5, s6, s7, s9, s10, s11>>
      BY <1>6 DEF Launch!Unlink, Launch!Probe, Launch!Bind, Launch!Listen
    <2> QED BY <2>1
  <1>7. ASSUME NEW p \in Launched, Launch!StartServing(p)
        PROVE  Launch!LaunchInv'
    BY <1>7 DEF Launch!StartServing
  <1>8. ASSUME NEW p \in Launched, Launch!OnNewConnection(p)
        PROVE  Launch!LaunchInv'
    BY <1>8 DEF Launch!OnNewConnection
  <1>9. ASSUME NEW p \in Launched, Launch!ShowRequested(p)
        PROVE  Launch!LaunchInv'
    BY <1>9 DEF Launch!ShowRequested
  <1>10. ASSUME NEW p \in Launched, Launch!Quit(p) \/ Launch!Crash(p)
        PROVE  Launch!LaunchInv'
    BY <1>10 DEF Launch!Quit, Launch!Crash, Launch!Gone
  <1> QED BY <1>1, <1>2, <1>3, <1>4, <1>5, <1>6, <1>7, <1>8, <1>9, <1>10 DEF Launch!Next, Launch!Step

(* Every variable of the launches keeps its type. *)
THEOREM LaunchTypesHold == Launch!Spec => []Launch!TypeOK
  <1>1. Launch!Init => Launch!TypeOK
    BY DEF Launch!Init, Launch!TypeOK
  <1>2. Launch!TypeOK /\ [Launch!Next]_Launch!vars => Launch!TypeOK'
    BY LaunchTypeStep
  <1> QED BY <1>1, <1>2, PTL DEF Launch!Spec

(* No request is lost, by any number of launches, services, processes of
   another version and crashes. *)
THEOREM LaunchesLoseNothing == Launch!Spec => [](Launch!LaunchInv /\ Launch!NoRequestLost)
  <1>1. Launch!Init => Launch!LaunchInv
    BY DEF Launch!Init, Launch!LaunchInv, Launch!ClientInv, Launch!OpenInv, Launch!ServiceInv
  <1>2. Launch!TypeOK /\ Launch!LaunchInv /\ [Launch!Next]_Launch!vars => Launch!LaunchInv'
    BY LaunchStep
  <1>3. Launch!TypeOK /\ Launch!LaunchInv => Launch!NoRequestLost
    BY DEF Launch!LaunchInv, Launch!ClientInv, Launch!OpenInv, Launch!NoRequestLost
  <1> QED BY <1>1, <1>2, <1>3, LaunchTypesHold, PTL DEF Launch!Spec

(* The offer to become the default file manager, with three changes from   *)
(* outside.                                                                *)
Offer == INSTANCE DefaultOffer WITH
    MaxChanges <- OfferChanges, MaxMakes <- OfferMakes, default <- s1,
    installed <- s2, asks <- s3, other <- s4, place <- s5, calls <- s6,
    messages <- s7, pool <- s8, posted <- s9, statusKnown <- s10,
    isDefault <- s11, optedIn <- s12, dismissed <- s13, working <- s14,
    bar <- s15, mayClaim <- s16, activated <- s17, requesting <- s18,
    owns <- s19, reportClaim <- s20, made <- s21, changes <- s22, makes <- s23

(* The bounds of the model are numbers. *)
ASSUME OfferAssumption == OfferChanges \in Nat /\ OfferMakes \in Nat

OfferBus == UNCHANGED <<s4, s5, s6, s7, s18, s19, s16>>

OfferInv == Offer!TypeOK /\ Offer!WorkInv /\ Offer!BusInv /\ Offer!OffersAreWanted

(* A list with one more, and without its first. *)
LEMMA OfferLists ==
    ASSUME NEW T, NEW q \in Seq(T)
    PROVE  /\ DOMAIN q = 1..Len(q) /\ Len(q) \in Nat
           /\ \A x \in T :
                 /\ Append(q, x) \in Seq(T) /\ DOMAIN Append(q, x) = 1..(Len(q) + 1)
                 /\ Append(q, x)[Len(q) + 1] = x
                 /\ \A i \in 1..Len(q) : Append(q, x)[i] = q[i]
           /\ q # <<>> =>
                 /\ 1 \in DOMAIN q /\ Head(q) = q[1] /\ Head(q) \in T
                 /\ Tail(q) \in Seq(T) /\ DOMAIN Tail(q) = 1..(Len(q) - 1)
                 /\ \A i \in 1..(Len(q) - 1) : i + 1 \in 1..Len(q) /\ Tail(q)[i] = q[i + 1]
  OBVIOUS

(* What does not touch the bus leaves what is said of it. *)
LEMMA OfferBusRests ==
    ASSUME Offer!BusInv, OfferBus
    PROVE  Offer!BusInv'
  BY DEF Offer!BusInv, OfferBus, Offer!Tells

(* Asking for the name. *)
LEMMA OfferClaims ==
    ASSUME Offer!TypeOK, Offer!BusInv, NEW report \in BOOLEAN, Offer!ClaimName(report),
           UNCHANGED <<s4, s5, s7, s16>>
    PROVE  /\ s6' \in Seq({"request", "who"})
           /\ s18' \in BOOLEAN /\ s19' \in BOOLEAN /\ s20' \in BOOLEAN
           /\ Offer!BusInv'
  <1> DEFINE more == Append(s6, "request")
  <1>1. /\ more \in Seq({"request", "who"})
        /\ Len(s6) + 1 \in DOMAIN more /\ more[Len(s6) + 1] = "request"
    <2>1. s6 \in Seq({"request", "who"}) /\ "request" \in {"request", "who"}
      BY DEF Offer!TypeOK, Offer!QueuesOK
    <2>2. /\ more \in Seq({"request", "who"}) /\ DOMAIN more = 1..(Len(s6) + 1)
          /\ more[Len(s6) + 1] = "request" /\ Len(s6) \in Nat
      BY <2>1, OfferLists
    <2>3. Len(s6) + 1 \in 1..(Len(s6) + 1)
      BY <2>2
    <2> QED BY <2>2, <2>3
  <1>2. CASE s16 /\ ~(s19 \/ s18)
    <2>1. s6' = more /\ s18' = TRUE /\ s19' = s19 /\ s20' = (report /\ ~s19)
      BY <1>2 DEF Offer!ClaimName, Offer!RequestName
    <2> HIDE DEF more
    <2> QED BY <1>1, <1>2, <2>1 DEF Offer!TypeOK, Offer!QueuesOK, Offer!FlagsOK, Offer!BusInv, Offer!Tells
  <1>3. CASE ~(s16 /\ ~(s19 \/ s18))
    <2>1. UNCHANGED <<s6, s18, s19>> /\ s20' \in {report, report /\ ~s19}
      BY <1>3 DEF Offer!ClaimName, Offer!RequestName
    <2> QED BY <2>1 DEF Offer!TypeOK, Offer!QueuesOK, Offer!FlagsOK, Offer!BusInv, Offer!Tells
  <1> QED BY <1>2, <1>3

(* The pool runs a task. *)
LEMMA OfferRuns ==
    ASSUME OfferInv, Offer!RunTask
    PROVE  OfferInv'
  <1>1. /\ s8 \in Seq({"query", "make"}) /\ s9 \in Seq([of : {"query", "make"}, ok : BOOLEAN])
        /\ s8 # <<>> /\ s8' = Tail(s8)
    BY DEF OfferInv, Offer!TypeOK, Offer!QueuesOK, Offer!RunTask
  <1>2. /\ Tail(s8) \in Seq({"query", "make"}) /\ DOMAIN Tail(s8) = 1..(Len(s8) - 1)
        /\ \A i \in 1..(Len(s8) - 1) : i + 1 \in DOMAIN s8 /\ Tail(s8)[i] = s8[i + 1]
        /\ 1 \in DOMAIN s8 /\ Head(s8) = s8[1] /\ Head(s8) \in {"query", "make"}
    BY <1>1, OfferLists
  <1>3. PICK ok \in BOOLEAN : s9' = Append(s9, [of |-> Head(s8), ok |-> ok])
    BY DEF Offer!RunTask, OfferInv, Offer!TypeOK, Offer!FlagsOK
  <1> DEFINE a == [of |-> Head(s8), ok |-> ok]
  <1>4. a \in [of : {"query", "make"}, ok : BOOLEAN] /\ a.of = s8[1]
    BY <1>2
  <1> HIDE DEF a
  <1>5. /\ Append(s9, a) \in Seq([of : {"query", "make"}, ok : BOOLEAN])
        /\ DOMAIN Append(s9, a) = 1..(Len(s9) + 1)
        /\ Append(s9, a)[Len(s9) + 1] = a
        /\ \A i \in 1..Len(s9) : Append(s9, a)[i] = s9[i]
        /\ DOMAIN s9 = 1..Len(s9) /\ Len(s9) \in Nat
    BY <1>1, <1>4, OfferLists
  <1>6. s9' = Append(s9, a)
    BY <1>3 DEF a
  <1>12. s1' \in BOOLEAN
    BY DEF Offer!RunTask, OfferInv, Offer!TypeOK, Offer!FlagsOK
  <1>13. UNCHANGED <<s2, s3, s4, Offer!bus, Offer!offer, Offer!claim, Offer!context, s21, s22, s23>>
    BY DEF Offer!RunTask
  <1>7. Offer!TypeOK'
    <2>1. Offer!QueuesOK'
      BY <1>1, <1>2, <1>5, <1>6 DEF Offer!RunTask, OfferInv, Offer!TypeOK, Offer!QueuesOK, Offer!bus, Offer!offer, Offer!claim, Offer!context
    <2>2. Offer!CountsOK'
      BY <1>1, <1>2, <1>5, <1>6 DEF Offer!RunTask, OfferInv, Offer!TypeOK, Offer!CountsOK, Offer!bus, Offer!offer, Offer!claim, Offer!context
    <2>3. Offer!FlagsOK'
      BY <1>12, <1>13 DEF OfferInv, Offer!TypeOK, Offer!FlagsOK, Offer!bus, Offer!offer, Offer!claim, Offer!context
    <2> QED BY <2>1, <2>2, <2>3 DEF Offer!TypeOK
  <1>8. Offer!WorkInv'
    <2>1. \A i \in DOMAIN s8' : s8'[i] # "query"
      <3> TAKE i \in DOMAIN s8'
      <3>1. i \in 1..(Len(s8) - 1) /\ s8'[i] = s8[i + 1] /\ i + 1 \in DOMAIN s8 /\ i + 1 # 1
        BY <1>1, <1>2
      <3> QED BY <3>1 DEF OfferInv, Offer!WorkInv
    <2>2. ASSUME NEW i \in DOMAIN s9', s9'[i].of = "query"
          PROVE  i = 1 /\ ~s21
      <3>1. CASE i \in 1..Len(s9)
        BY <1>5, <1>6, <2>2, <3>1 DEF OfferInv, Offer!WorkInv
      <3>2. CASE i = Len(s9) + 1
        <4>1. s8[1] = "query"
          BY <1>4, <1>5, <1>6, <2>2, <3>2
        <4>2. s9 = <<>> /\ ~s21
          BY <1>2, <4>1 DEF OfferInv, Offer!WorkInv
        <4> QED BY <3>2, <4>2
      <3> QED BY <1>5, <1>6, <2>2, <3>1, <3>2
    <2> QED BY <2>1, <2>2 DEF Offer!RunTask, Offer!offer, OfferInv, Offer!WorkInv
  <1>9. Offer!BusInv'
    BY OfferBusRests DEF Offer!RunTask, OfferInv, OfferBus, Offer!bus, Offer!claim, Offer!context
  <1>10. Offer!OffersAreWanted'
    BY DEF Offer!RunTask, OfferInv, Offer!OffersAreWanted, Offer!offer, Offer!context
  <1> QED BY <1>7, <1>8, <1>9, <1>10 DEF OfferInv

(* An answer of the pool is delivered. *)
LEMMA OfferDelivers ==
    ASSUME OfferInv, Offer!Deliver
    PROVE  OfferInv'
  <1>1. /\ s9 \in Seq([of : {"query", "make"}, ok : BOOLEAN]) /\ s9 # <<>> /\ s9' = Tail(s9)
        /\ UNCHANGED <<Offer!world, s5, s7, s8, Offer!context, s22, s23>>
    BY DEF OfferInv, Offer!TypeOK, Offer!QueuesOK, Offer!Deliver
  <1>2. /\ Tail(s9) \in Seq([of : {"query", "make"}, ok : BOOLEAN])
        /\ DOMAIN Tail(s9) = 1..(Len(s9) - 1)
        /\ \A i \in 1..(Len(s9) - 1) : i + 1 \in DOMAIN s9 /\ Tail(s9)[i] = s9[i + 1]
        /\ 1 \in DOMAIN s9 /\ Head(s9) = s9[1]
        /\ Head(s9) \in [of : {"query", "make"}, ok : BOOLEAN] /\ Len(s9) \in Nat
    BY <1>1, OfferLists
  <1> DEFINE a == Head(s9)
  <1> HIDE DEF a
  <1>3. a.ok \in BOOLEAN /\ a.of \in {"query", "make"} /\ a.of = s9[1].of
    BY <1>2 DEF a
  <1>4. \A i \in DOMAIN s9' : s9'[i].of # "query"
    <2> TAKE i \in DOMAIN s9'
    <2>1. i \in 1..(Len(s9) - 1) /\ s9'[i] = s9[i + 1] /\ i + 1 \in DOMAIN s9 /\ i + 1 # 1
      BY <1>1, <1>2
    <2> QED BY <2>1 DEF OfferInv, Offer!WorkInv
  <1>5. \A i \in DOMAIN s8' : s8'[i] # "query"
    BY <1>1 DEF OfferInv, Offer!WorkInv
  <1>6. /\ s6' \in Seq({"request", "who"})
        /\ s18' \in BOOLEAN /\ s19' \in BOOLEAN /\ s20' \in BOOLEAN
        /\ Offer!BusInv'
    <2>1. UNCHANGED <<s4, s5, s7, s16>>
      BY <1>1 DEF Offer!world, Offer!context
    <2>2. (\E report \in BOOLEAN : Offer!ClaimName(report)) \/ UNCHANGED <<s6, Offer!claim>>
      BY <1>3 DEF Offer!Deliver, Offer!ApplyStatus, Offer!OnMadeDefault, OfferInv, Offer!TypeOK, Offer!FlagsOK
    <2>3. CASE UNCHANGED <<s6, Offer!claim>>
      BY <2>1, <2>3, OfferBusRests DEF Offer!claim, OfferInv, OfferBus, Offer!TypeOK, Offer!QueuesOK, Offer!FlagsOK
    <2> QED BY <2>1, <2>2, <2>3, OfferClaims DEF OfferInv
  <1>7. Offer!QueuesOK' /\ Offer!CountsOK'
    BY <1>1, <1>2, <1>6 DEF OfferInv, Offer!TypeOK, Offer!QueuesOK, Offer!CountsOK
  <1>8. CASE a.of = "query"
    <2>1. Offer!ApplyStatus(a.ok) /\ ~s21
      BY <1>2, <1>3, <1>8 DEF Offer!Deliver, a, OfferInv, Offer!WorkInv
    <2>2. /\ s10' = TRUE /\ s11' = a.ok
          /\ UNCHANGED <<s12, s13, s14, s21>>
          /\ s15' = s15 \/ (s15' = "offer" /\ ~s14 /\ s12 /\ s2 /\ ~s17 /\ ~s13)
      BY <2>1 DEF Offer!ApplyStatus, Offer!OfferIfWanted, Offer!ShouldOffer
    <2>3. Offer!FlagsOK'
      BY <1>1, <1>3, <1>6, <2>2 DEF OfferInv, Offer!TypeOK, Offer!FlagsOK, Offer!world, Offer!context
    <2>4. Offer!WorkInv'
      BY <1>1, <1>4, <1>5, <2>1, <2>2 DEF OfferInv, Offer!WorkInv, Offer!world
    <2>5. Offer!OffersAreWanted'
      BY <1>1, <2>1, <2>2 DEF OfferInv, Offer!OffersAreWanted, Offer!WorkInv, Offer!world, Offer!context
    <2> QED BY <1>6, <1>7, <2>3, <2>4, <2>5 DEF OfferInv, Offer!TypeOK
  <1>9. CASE a.of = "make"
    <2>1. Offer!OnMadeDefault(a.ok)
      BY <1>3, <1>9 DEF Offer!Deliver, a
    <2>2. /\ s14' = FALSE
          /\ s15' = IF s15 # "hidden" THEN "result" ELSE s15
          /\ s11' \in BOOLEAN /\ (s11' <=> s11 \/ a.ok)
          /\ s21' \in BOOLEAN /\ (s21' <=> s21 \/ a.ok)
          /\ UNCHANGED <<s10, s12, s13>>
      BY <2>1 DEF Offer!OnMadeDefault
    <2>3. Offer!FlagsOK'
      <3>1. UNCHANGED <<s1, s2, s3, s4, s5, s16, s17>>
        BY <1>1 DEF Offer!world, Offer!context
      <3>2. s15' \in {"hidden", "offer", "busy", "result"}
        BY <2>2 DEF OfferInv, Offer!TypeOK, Offer!FlagsOK
      <3> QED BY <1>6, <2>2, <3>1, <3>2 DEF OfferInv, Offer!TypeOK, Offer!FlagsOK
    <2>4. Offer!WorkInv'
      BY <1>1, <1>4, <1>5, <2>2 DEF OfferInv, Offer!WorkInv, Offer!world
    <2>5. Offer!OffersAreWanted'
      BY <2>2 DEF Offer!OffersAreWanted
    <2> QED BY <1>6, <1>7, <2>3, <2>4, <2>5 DEF OfferInv, Offer!TypeOK
  <1> QED BY <1>3, <1>8, <1>9

(* What the user does. *)
LEMMA OfferUser ==
    ASSUME OfferInv, Offer!MakeDefault \/ Offer!NotNow \/ Offer!Never \/ Offer!HideResult \/ Offer!SetOptedIn
    PROVE  OfferInv'
  <1>1. Offer!BusInv'
    BY OfferBusRests DEF OfferInv, OfferBus, Offer!MakeDefault, Offer!NotNow, Offer!Never, Offer!HideResult, Offer!SetOptedIn,
                         Offer!world, Offer!bus, Offer!claim, Offer!context
  <1>2. CASE Offer!MakeDefault
    <2>1. /\ s8 \in Seq({"query", "make"}) /\ s8' = Append(s8, "make")
          /\ UNCHANGED <<Offer!world, Offer!bus, s9, s10, s11, s12, s13, Offer!claim,
                         Offer!context, s21, s22>>
          /\ s14' = TRUE /\ s15' = IF s15 # "hidden" THEN "busy" ELSE s15
      BY <1>2 DEF OfferInv, Offer!TypeOK, Offer!QueuesOK, Offer!MakeDefault
    <2>2. /\ Append(s8, "make") \in Seq({"query", "make"})
          /\ DOMAIN Append(s8, "make") = 1..(Len(s8) + 1)
          /\ Append(s8, "make")[Len(s8) + 1] = "make"
          /\ \A i \in 1..Len(s8) : Append(s8, "make")[i] = s8[i]
          /\ DOMAIN s8 = 1..Len(s8) /\ Len(s8) \in Nat
      BY <2>1, OfferLists
    <2>3. s23' \in 0..OfferMakes
      BY <1>2, OfferAssumption DEF OfferInv, Offer!TypeOK, Offer!CountsOK, Offer!MakeDefault
    <2>4. Offer!TypeOK'
      <3>1. Offer!QueuesOK'
        BY <2>1, <2>2, <2>3 DEF OfferInv, Offer!TypeOK, Offer!QueuesOK, Offer!world, Offer!bus, Offer!claim, Offer!context
      <3>2. Offer!CountsOK'
        BY <2>1, <2>2, <2>3 DEF OfferInv, Offer!TypeOK, Offer!CountsOK, Offer!world, Offer!bus, Offer!claim, Offer!context
      <3>3. Offer!FlagsOK'
        BY <2>1, <2>2, <2>3 DEF OfferInv, Offer!TypeOK, Offer!FlagsOK, Offer!world, Offer!bus, Offer!claim, Offer!context
      <3> QED BY <3>1, <3>2, <3>3 DEF Offer!TypeOK
    <2>5. ASSUME NEW i \in DOMAIN s8', s8'[i] = "query"
          PROVE  i = 1 /\ s9 = <<>> /\ ~s21
      <3>1. i \in 1..Len(s8) /\ s8[i] = "query"
        BY <2>1, <2>2, <2>5
      <3> QED BY <2>2, <3>1 DEF OfferInv, Offer!WorkInv
    <2>6. Offer!WorkInv' /\ Offer!OffersAreWanted'
      BY <2>1, <2>5 DEF OfferInv, Offer!WorkInv, Offer!OffersAreWanted, Offer!world
    <2> QED BY <1>1, <2>4, <2>6 DEF OfferInv
  <1>3. CASE Offer!NotNow \/ Offer!Never \/ Offer!HideResult
    <2>1. /\ UNCHANGED <<s1, s2, s4, Offer!bus, Offer!work, s10, s11, s14, Offer!claim,
                         Offer!context, s21, s22, s23>>
          /\ s15' = "hidden" /\ s13' \in BOOLEAN
          /\ s3' \in BOOLEAN /\ s12' = s3'
      BY <1>3 DEF Offer!NotNow, Offer!Never, Offer!HideResult, OfferInv, Offer!TypeOK, Offer!FlagsOK, Offer!WorkInv, Offer!world
    <2>2. Offer!QueuesOK'
      BY <2>1 DEF OfferInv, Offer!TypeOK, Offer!QueuesOK, Offer!bus, Offer!work
    <2>3. Offer!CountsOK'
      BY <2>1 DEF OfferInv, Offer!TypeOK, Offer!CountsOK
    <2>4. Offer!FlagsOK'
      BY <2>1 DEF OfferInv, Offer!TypeOK, Offer!FlagsOK, Offer!bus, Offer!claim, Offer!context
    <2>5. Offer!WorkInv' /\ Offer!OffersAreWanted'
      BY <2>1 DEF OfferInv, Offer!WorkInv, Offer!OffersAreWanted, Offer!work
    <2> QED BY <1>1, <2>2, <2>3, <2>4, <2>5 DEF OfferInv, Offer!TypeOK
  <1>4. CASE Offer!SetOptedIn
    <2>1. PICK b \in BOOLEAN :
             /\ s3' = b /\ s12' = b
             /\ \/ s15' = s15 /\ (b = s12 \/ b)
                \/ s15' = "hidden"
                \/ s15' = s15 /\ s15 # "offer"
                \/ /\ s15' = "offer" /\ b /\ ~s14 /\ ~s11
                   /\ s2 /\ ~s17 /\ ~s13
      BY <1>4 DEF Offer!SetOptedIn, Offer!OfferIfWanted, Offer!ShouldOffer, OfferInv, Offer!TypeOK, Offer!FlagsOK
    <2>2. s22' \in 0..OfferChanges
      BY <1>4, OfferAssumption DEF OfferInv, Offer!TypeOK, Offer!CountsOK, Offer!SetOptedIn, Offer!Change
    <2>3. UNCHANGED <<s1, s2, s4, Offer!bus, Offer!work, s10, s11, s13, s14,
                      Offer!claim, Offer!context, s21, s23>>
      BY <1>4 DEF Offer!SetOptedIn
    <2>4. Offer!TypeOK'
      <3>1. Offer!QueuesOK'
        BY <2>1, <2>2, <2>3 DEF OfferInv, Offer!TypeOK, Offer!QueuesOK, Offer!bus, Offer!work, Offer!claim, Offer!context
      <3>2. Offer!CountsOK'
        BY <2>1, <2>2, <2>3 DEF OfferInv, Offer!TypeOK, Offer!CountsOK, Offer!bus, Offer!work, Offer!claim, Offer!context
      <3>3. Offer!FlagsOK'
        BY <2>1, <2>2, <2>3 DEF OfferInv, Offer!TypeOK, Offer!FlagsOK, Offer!bus, Offer!work, Offer!claim, Offer!context
      <3> QED BY <3>1, <3>2, <3>3 DEF Offer!TypeOK
    <2>5. Offer!WorkInv'
      BY <2>1, <2>3 DEF OfferInv, Offer!WorkInv, Offer!work
    <2>6. Offer!OffersAreWanted'
      BY <2>1, <2>3 DEF OfferInv, Offer!WorkInv, Offer!OffersAreWanted, Offer!context
    <2> QED BY <1>1, <2>4, <2>5, <2>6 DEF OfferInv
  <1> QED BY <1>2, <1>3, <1>4

OfferMessages == Offer!Replies \cup {"acquired", "lost", "it is"}

OfferTelling == {"acquired", "primary", "lost"}

(* What a list of messages says of a place, to one who thinks to own it. *)
OfferSays(q, thinks, p) ==
    /\ q \in Seq(OfferMessages)
    /\ (\A i \in DOMAIN q : q[i] \notin OfferTelling) => (thinks <=> p = "owner")
    /\ \A i \in DOMAIN q :
          q[i] \in OfferTelling /\ (\A j \in DOMAIN q : q[j] \in OfferTelling => j <= i)
            => (p = "owner" <=> q[i] # "lost")

(* A message goes with what the bus does with the place. *)
OfferMeans(m, p, p2) ==
    IF m \in OfferTelling THEN p2 = "owner" <=> m # "lost" ELSE p2 = "owner" <=> p = "owner"

(* The messages of the bus say of Panefile's place what is true. *)
LEMMA OfferSaid ==
    /\ Offer!TypeOK /\ Offer!BusInv => OfferSays(s7, s19, s5)
    /\ OfferSays(s7', s19', s5')
         => /\ s7' \in Seq(Offer!Replies \cup {"acquired", "lost", "it is"})
            /\ Offer!Tells' = {} => (s19' <=> s5' = "owner")
            /\ \A i \in Offer!Tells' : (\A j \in Offer!Tells' : j <= i)
                                  => (s5' = "owner" <=> s7'[i] # "lost")
  <1>1. ASSUME Offer!TypeOK, Offer!BusInv
        PROVE  OfferSays(s7, s19, s5)
    <2>1. s7 \in Seq(OfferMessages)
      BY <1>1 DEF Offer!TypeOK, Offer!QueuesOK, OfferMessages
    <2>2. ASSUME \A i \in DOMAIN s7 : s7[i] \notin OfferTelling
          PROVE  s19 <=> s5 = "owner"
      <3>1. Offer!Tells = {}
        BY <2>2 DEF Offer!Tells, OfferTelling
      <3> QED BY <1>1, <3>1 DEF Offer!BusInv
    <2>3. ASSUME NEW i \in DOMAIN s7, s7[i] \in OfferTelling,
                 \A j \in DOMAIN s7 : s7[j] \in OfferTelling => j <= i
          PROVE  s5 = "owner" <=> s7[i] # "lost"
      <3>1. i \in Offer!Tells /\ \A j \in Offer!Tells : j <= i
        BY <2>3 DEF Offer!Tells, OfferTelling
      <3> QED BY <1>1, <3>1 DEF Offer!BusInv
    <2> QED BY <2>1, <2>2, <2>3 DEF OfferSays
  <1>2. ASSUME OfferSays(s7', s19', s5')
        PROVE  /\ s7' \in Seq(Offer!Replies \cup {"acquired", "lost", "it is"})
               /\ Offer!Tells' = {} => (s19' <=> s5' = "owner")
               /\ \A i \in Offer!Tells' : (\A j \in Offer!Tells' : j <= i)
                                     => (s5' = "owner" <=> s7'[i] # "lost")
    <2>1. s7' \in Seq(Offer!Replies \cup {"acquired", "lost", "it is"})
      BY <1>2 DEF OfferSays, OfferMessages
    <2>2. ASSUME Offer!Tells' = {}
          PROVE  s19' <=> s5' = "owner"
      <3>1. \A i \in DOMAIN s7' : s7'[i] \notin OfferTelling
        BY <2>2 DEF Offer!Tells, OfferTelling
      <3> QED BY <1>2, <3>1 DEF OfferSays
    <2>3. ASSUME NEW i \in Offer!Tells', \A j \in Offer!Tells' : j <= i
          PROVE  s5' = "owner" <=> s7'[i] # "lost"
      <3>1. /\ i \in DOMAIN s7' /\ s7'[i] \in OfferTelling
            /\ \A j \in DOMAIN s7' : s7'[j] \in OfferTelling => j <= i
        BY <2>3 DEF Offer!Tells, OfferTelling
      <3> QED BY <1>2, <3>1 DEF OfferSays
    <2> QED BY <2>1, <2>2, <2>3
  <1> QED BY <1>1, <1>2

(* One more message tells what the bus has done, or says nothing of it. *)
LEMMA OfferTold ==
    ASSUME NEW q, NEW thinks \in BOOLEAN, NEW p, NEW p2, NEW m \in OfferMessages,
           OfferSays(q, thinks, p), OfferMeans(m, p, p2)
    PROVE  /\ OfferSays(Append(q, m), thinks, p2)
           /\ \A i \in DOMAIN q : i \in DOMAIN Append(q, m) /\ Append(q, m)[i] = q[i]
           /\ \E i \in DOMAIN Append(q, m) : Append(q, m)[i] = m
  <1> DEFINE more == Append(q, m)
             k == Len(q)
             n == k + 1
  <1>1. q \in Seq(OfferMessages)
    BY DEF OfferSays
  <1>2. /\ more \in Seq(OfferMessages) /\ DOMAIN q = 1..k /\ k \in Nat
        /\ DOMAIN more = 1..n /\ more[n] = m
        /\ \A i \in 1..k : more[i] = q[i]
    BY <1>1, OfferLists
  <1> HIDE DEF k, more
  <1>3. /\ more \in Seq(OfferMessages)
        /\ n \in DOMAIN more /\ more[n] = m
        /\ \A i \in DOMAIN more : i \in DOMAIN q \/ i = n
        /\ \A i \in DOMAIN q : i <= n /\ ~(n <= i) /\ i \in DOMAIN more /\ more[i] = q[i]
    <2>1. /\ n \in 1..n /\ \A i \in 1..n : i \in 1..k \/ i = n
          /\ \A i \in 1..k : i <= n /\ ~(n <= i) /\ i \in 1..n
      BY <1>2
    <2> HIDE DEF n
    <2> QED BY <1>2, <2>1
  <1> HIDE DEF n
  <1>4. ASSUME \A i \in DOMAIN more : more[i] \notin OfferTelling
        PROVE  thinks <=> p2 = "owner"
    <2>1. m \notin OfferTelling /\ \A i \in DOMAIN q : q[i] \notin OfferTelling
      BY <1>3, <1>4
    <2> QED BY <2>1 DEF OfferSays, OfferMeans
  <1>5. ASSUME NEW i \in DOMAIN more, more[i] \in OfferTelling,
               \A j \in DOMAIN more : more[j] \in OfferTelling => j <= i
        PROVE  p2 = "owner" <=> more[i] # "lost"
    <2>1. CASE m \in OfferTelling
      <3>1. n <= i
        BY <1>3, <1>5, <2>1
      <3>2. i = n
        BY <1>3, <1>5, <3>1
      <3> QED BY <1>3, <2>1, <3>2 DEF OfferMeans
    <2>2. CASE m \notin OfferTelling
      <3>1. i \in DOMAIN q /\ q[i] = more[i]
        BY <1>3, <1>5, <2>2
      <3>2. \A j \in DOMAIN q : q[j] \in OfferTelling => j <= i
        BY <1>3, <1>5
      <3> QED BY <1>5, <2>2, <3>1, <3>2 DEF OfferSays, OfferMeans
    <2> QED BY <2>1, <2>2
  <1>6. OfferSays(more, thinks, p2)
    BY <1>3, <1>4, <1>5 DEF OfferSays
  <1>7. /\ \A i \in DOMAIN q : i \in DOMAIN more /\ more[i] = q[i]
        /\ \E i \in DOMAIN more : more[i] = m
    BY <1>3
  <1> QED BY <1>6, <1>7 DEF more

(* Who has seen the first message thinks what the rest goes on from. *)
LEMMA OfferSeen ==
    ASSUME NEW q, NEW thinks \in BOOLEAN, NEW now \in BOOLEAN, NEW p,
           OfferSays(q, thinks, p), q # <<>>,
           now <=> (Head(q) \in {"acquired", "primary"} \/ (thinks /\ Head(q) # "lost"))
    PROVE  /\ OfferSays(Tail(q), now, p)
           /\ Head(q) \in OfferMessages
           /\ \A i \in DOMAIN q : q[i] # Head(q) => \E j \in DOMAIN Tail(q) : Tail(q)[j] = q[i]
           /\ \A i \in DOMAIN q : i # 1 => \E j \in DOMAIN Tail(q) : Tail(q)[j] = q[i]
  <1> DEFINE rest == Tail(q)
             n == Len(q)
  <1>1. q \in Seq(OfferMessages)
    BY DEF OfferSays
  <1>2. /\ DOMAIN q = 1..n /\ n \in Nat
        /\ 1 \in 1..n /\ Head(q) = q[1] /\ Head(q) \in OfferMessages
        /\ rest \in Seq(OfferMessages) /\ DOMAIN rest = 1..(n - 1)
        /\ \A i \in 1..(n - 1) : i + 1 \in 1..n /\ rest[i] = q[i + 1]
    BY <1>1, OfferLists
  <1> HIDE DEF rest, n
  <1>3. ASSUME NEW i \in DOMAIN q, i # 1
        PROVE  i - 1 \in DOMAIN rest /\ rest[i - 1] = q[i]
    <2>1. i - 1 \in 1..(n - 1) /\ (i - 1) + 1 = i
      BY <1>2, <1>3
    <2> QED BY <1>2, <2>1
  <1>4. ASSUME \A i \in DOMAIN rest : rest[i] \notin OfferTelling
        PROVE  now <=> p = "owner"
    <2>1. \A i \in DOMAIN q : q[i] \in OfferTelling => i = 1
      BY <1>3, <1>4
    <2>2. CASE q[1] \in OfferTelling
      <3>1. \A j \in DOMAIN q : q[j] \in OfferTelling => j <= 1
        BY <2>1
      <3>2. p = "owner" <=> q[1] # "lost"
        BY <1>2, <2>2, <3>1 DEF OfferSays
      <3> QED BY <1>2, <2>2, <3>2 DEF OfferTelling
    <2>3. CASE q[1] \notin OfferTelling
      <3>1. \A i \in DOMAIN q : q[i] \notin OfferTelling
        BY <2>1, <2>3
      <3>2. thinks <=> p = "owner"
        BY <3>1 DEF OfferSays
      <3> QED BY <1>2, <2>3, <3>2 DEF OfferTelling
    <2> QED BY <2>2, <2>3
  <1>5. ASSUME NEW i \in DOMAIN rest, rest[i] \in OfferTelling,
               \A j \in DOMAIN rest : rest[j] \in OfferTelling => j <= i
        PROVE  p = "owner" <=> rest[i] # "lost"
    <2>1. i + 1 \in DOMAIN q /\ rest[i] = q[i + 1] /\ i \in Nat
      BY <1>2, <1>5
    <2>2. ASSUME NEW j \in DOMAIN q, q[j] \in OfferTelling
          PROVE  j <= i + 1
      <3>1. CASE j = 1
        BY <2>1, <3>1
      <3>2. CASE j # 1
        <4>1. j - 1 \in DOMAIN rest /\ rest[j - 1] = q[j]
          BY <1>3, <3>2
        <4>2. j - 1 <= i
          BY <1>5, <2>2, <4>1
        <4> QED BY <1>2, <2>1, <4>2
      <3> QED BY <3>1, <3>2
    <2> QED BY <1>5, <2>1, <2>2 DEF OfferSays
  <1>6. OfferSays(rest, now, p)
    BY <1>2, <1>4, <1>5 DEF OfferSays
  <1>7. \A i \in DOMAIN q : i # 1 => \E j \in DOMAIN rest : rest[j] = q[i]
    BY <1>3
  <1> QED BY <1>2, <1>6, <1>7 DEF rest

(* Other file managers come and go. *)
LEMMA OfferOthers ==
    ASSUME OfferInv, Offer!OtherStarts \/ Offer!OtherExits
    PROVE  OfferInv'
  <1>1. /\ UNCHANGED <<s1, s2, s3, s6, Offer!work, Offer!offer, Offer!claim, Offer!context, s21, s23>>
        /\ s22 < OfferChanges /\ s22' = s22 + 1 /\ s4' \in BOOLEAN
    BY DEF Offer!OtherStarts, Offer!OtherExits, Offer!Change
  <1>2. s22' \in 0..OfferChanges
    BY <1>1, OfferAssumption DEF OfferInv, Offer!TypeOK, Offer!CountsOK
  <1>3. /\ s7' \in Seq(Offer!Replies \cup {"acquired", "lost", "it is"})
        /\ s5' \in {"out", "queued", "owner"}
        /\ Offer!BusInv'
    <2>1. CASE UNCHANGED <<s5, s7>>
      <3>1. s5 = "out" \/ (s4' <=> s5 = "queued")
        BY <2>1 DEF Offer!OtherStarts, Offer!OtherExits, OfferInv, Offer!TypeOK, Offer!FlagsOK, Offer!BusInv
      <3>2. Offer!Tells' = Offer!Tells
        BY <2>1 DEF Offer!Tells
      <3> QED BY <1>1, <2>1, <3>1, <3>2 DEF OfferInv, Offer!TypeOK, Offer!QueuesOK, Offer!FlagsOK, Offer!BusInv, Offer!claim, Offer!context
    <2>2. CASE ~UNCHANGED <<s5, s7>>
      <3>1. \E m \in {"lost", "acquired"} :
               /\ s7' = Append(s7, m)
               /\ s5 # "out" /\ s5' # "out" /\ (s4' <=> s5' = "queued")
               /\ (s5' = "owner" <=> m # "lost")
               /\ s5' \in {"queued", "owner"}
        BY <2>2 DEF Offer!OtherStarts, Offer!OtherExits
      <3>2. PICK m \in {"lost", "acquired"} :
               /\ s7' = Append(s7, m)
               /\ s5 # "out" /\ s5' # "out" /\ (s4' <=> s5' = "queued")
               /\ (s5' = "owner" <=> m # "lost")
               /\ s5' \in {"queued", "owner"}
        BY <3>1
      <3>3. /\ s7' \in Seq(Offer!Replies \cup {"acquired", "lost", "it is"})
            /\ Offer!Tells' = {} => (s19' <=> s5' = "owner")
            /\ \A i \in Offer!Tells' : (\A j \in Offer!Tells' : j <= i) => (s5' = "owner" <=> s7'[i] # "lost")
            /\ \A i \in DOMAIN s7 : i \in DOMAIN s7' /\ s7'[i] = s7[i]
        <4>1. OfferSays(s7, s19, s5) /\ s19 \in BOOLEAN
          BY OfferSaid DEF OfferInv, Offer!TypeOK, Offer!FlagsOK
        <4>2. m \in OfferMessages /\ OfferMeans(m, s5, s5')
          BY <3>2 DEF OfferMessages, OfferTelling, OfferMeans
        <4>3. /\ OfferSays(Append(s7, m), s19, s5')
              /\ \A i \in DOMAIN s7 :
                    i \in DOMAIN Append(s7, m) /\ Append(s7, m)[i] = s7[i]
          BY <4>1, <4>2, OfferTold
        <4>4. s19' = s19
          BY <1>1 DEF Offer!claim
        <4>5. OfferSays(s7', s19', s5')
          BY <3>2, <4>3, <4>4
        <4> QED BY <3>2, <4>3, <4>5, OfferSaid
      <3>4. s16
        BY <3>2 DEF OfferInv, Offer!BusInv, Offer!TypeOK, Offer!FlagsOK
      <3> QED BY <1>1, <3>2, <3>3, <3>4 DEF OfferInv, Offer!BusInv, Offer!claim, Offer!context
    <2> QED BY <2>1, <2>2
  <1>4. Offer!TypeOK'
    <2>1. Offer!QueuesOK'
      BY <1>1, <1>2, <1>3 DEF OfferInv, Offer!TypeOK, Offer!QueuesOK, Offer!work, Offer!offer, Offer!claim, Offer!context
    <2>2. Offer!CountsOK'
      BY <1>1, <1>2, <1>3 DEF OfferInv, Offer!TypeOK, Offer!CountsOK, Offer!work, Offer!offer, Offer!claim, Offer!context
    <2>3. Offer!FlagsOK'
      <3>1. /\ UNCHANGED <<s1, s2, s3, Offer!offer, Offer!claim, Offer!context, s21>>
            /\ s5' \in {"out", "queued", "owner"} /\ s4' \in BOOLEAN
        BY <1>1, <1>3
      <3> QED BY <3>1 DEF OfferInv, Offer!TypeOK, Offer!FlagsOK, Offer!offer, Offer!claim, Offer!context
    <2> QED BY <2>1, <2>2, <2>3 DEF Offer!TypeOK
  <1>5. Offer!WorkInv' /\ Offer!OffersAreWanted'
    BY <1>1 DEF OfferInv, Offer!WorkInv, Offer!OffersAreWanted, Offer!work, Offer!offer, Offer!context
  <1> QED BY <1>3, <1>4, <1>5 DEF OfferInv

(* What the bus does with a call. *)
LEMMA OfferServes ==
    ASSUME OfferInv, Offer!Serve
    PROVE  /\ OfferSays(s7', s19, s5')
           /\ s5' \in {"out", "queued", "owner"}
           /\ s5' # "out" => (s4 <=> s5' = "queued")
           /\ \A i \in DOMAIN s7 : i \in DOMAIN s7' /\ s7'[i] = s7[i]
           /\ Head(s6) = "request" => \E i \in DOMAIN s7' : s7'[i] \in Offer!Replies
  <1>1. OfferSays(s7, s19, s5) /\ s19 \in BOOLEAN /\ s4 \in BOOLEAN
    BY OfferSaid DEF OfferInv, Offer!TypeOK, Offer!FlagsOK
  <1>2. /\ s5 \in {"out", "queued", "owner"}
        /\ s5 # "out" => (s4 <=> s5 = "queued")
    BY DEF OfferInv, Offer!TypeOK, Offer!FlagsOK, Offer!BusInv
  <1> DEFINE Quiet(m) == m \in {"in queue", "refused", "it is"}
  <1>3. ASSUME NEW m, Quiet(m), s7' = Append(s7, m),
               s5' = "owner" <=> s5 = "owner"
        PROVE  /\ OfferSays(s7', s19, s5')
               /\ \A i \in DOMAIN s7 : i \in DOMAIN s7' /\ s7'[i] = s7[i]
               /\ m # "it is" => \E i \in DOMAIN s7' : s7'[i] \in Offer!Replies
    <2>1. m \in OfferMessages /\ m \notin OfferTelling /\ (m # "it is" => m \in Offer!Replies)
      BY <1>3 DEF OfferMessages, OfferTelling, Offer!Replies
    <2>2. OfferMeans(m, s5, s5')
      BY <1>3, <2>1 DEF OfferMeans
    <2> HIDE DEF Quiet
    <2>3. /\ OfferSays(Append(s7, m), s19, s5')
          /\ \A i \in DOMAIN s7 :
                i \in DOMAIN Append(s7, m) /\ Append(s7, m)[i] = s7[i]
      <3>1. OfferSays(s7, s19, s5) /\ s19 \in BOOLEAN
        BY <1>1
      <3>2. m \in OfferMessages /\ OfferMeans(m, s5, s5')
        BY <2>1, <2>2
      <3> QED BY <3>1, <3>2, OfferTold
    <2>4. \E i \in DOMAIN Append(s7, m) : Append(s7, m)[i] = m
      <3>1. m \in OfferMessages /\ s7 \in Seq(OfferMessages)
        BY <1>1, <2>1 DEF OfferSays
      <3> QED BY <3>1, OfferLists
    <2> QED BY <1>3, <2>1, <2>3, <2>4
  <1>4. CASE Head(s6) = "request" /\ s4 /\ s5' = "queued"
             /\ s7' = Append(s7, "in queue")
    <2>1. s5 # "owner"
      BY <1>2, <1>4
    <2> QED BY <1>2, <1>3, <1>4, <2>1
  <1>5. CASE /\ Head(s6) = "request" /\ ~s4 /\ s5' = "owner"
             /\ s7' = (IF s5 = "owner" THEN s7 ELSE Append(s7, "acquired"))
                            \o <<"primary">>
    <2> DEFINE heard == IF s5 = "owner" THEN s7 ELSE Append(s7, "acquired")
    <2>1. /\ "acquired" \in OfferMessages /\ "acquired" \in OfferTelling
          /\ "primary" \in OfferMessages /\ "primary" \in OfferTelling /\ "primary" \in Offer!Replies
      BY DEF OfferMessages, OfferTelling, Offer!Replies
    <2>2. /\ OfferSays(heard, s19, s5')
          /\ \A i \in DOMAIN s7 : i \in DOMAIN heard /\ heard[i] = s7[i]
      <3>1. CASE s5 = "owner"
        BY <1>1, <1>5, <3>1
      <3>2. CASE s5 # "owner"
        <4>1. OfferMeans("acquired", s5, s5')
          BY <1>5, <2>1 DEF OfferMeans
        <4>2. /\ OfferSays(Append(s7, "acquired"), s19, s5')
              /\ \A i \in DOMAIN s7 :
                    /\ i \in DOMAIN Append(s7, "acquired")
                    /\ Append(s7, "acquired")[i] = s7[i]
          BY <1>1, <2>1, <4>1, OfferTold
        <4> QED BY <3>2, <4>2
      <3> QED BY <3>1, <3>2
    <2>3. s7' = heard \o <<"primary">>
      BY <1>5
    <2> HIDE DEF heard
    <2>4. heard \in Seq(OfferMessages)
      BY <2>2 DEF OfferSays
    <2>5. s7' = Append(heard, "primary")
      BY <2>1, <2>3, <2>4
    <2>6. OfferMeans("primary", s5', s5')
      BY <1>5, <2>1 DEF OfferMeans
    <2>7. /\ OfferSays(Append(heard, "primary"), s19, s5')
          /\ \A i \in DOMAIN heard :
                i \in DOMAIN Append(heard, "primary") /\ Append(heard, "primary")[i] = heard[i]
          /\ \E i \in DOMAIN Append(heard, "primary") : Append(heard, "primary")[i] = "primary"
      BY <1>1, <2>1, <2>2, <2>6, OfferTold
    <2> QED BY <1>1, <1>5, <2>1, <2>2, <2>5, <2>7
  <1>6. CASE Head(s6) = "request" /\ s7' = Append(s7, "refused") /\ s5' = s5
    BY <1>2, <1>3, <1>6
  <1>7. CASE Head(s6) = "who" /\ s7' = Append(s7, "it is") /\ s5' = s5
    BY <1>2, <1>3, <1>7
  <1> QED BY <1>4, <1>5, <1>6, <1>7 DEF Offer!Serve

(* The calls that wait for an answer, when the first has had it. *)
LEMMA OfferWaits ==
    ASSUME NEW T, NEW q \in Seq(T), q # <<>>
    PROVE  /\ Tail(q) \in Seq(T)
           /\ \A i \in DOMAIN q : i # 1 => \E j \in DOMAIN Tail(q) : Tail(q)[j] = q[i]
  <1>1. /\ DOMAIN q = 1..Len(q) /\ Len(q) \in Nat
        /\ Tail(q) \in Seq(T) /\ DOMAIN Tail(q) = 1..(Len(q) - 1)
        /\ \A i \in 1..(Len(q) - 1) : Tail(q)[i] = q[i + 1]
    BY OfferLists
  <1>2. ASSUME NEW i \in DOMAIN q, i # 1
        PROVE  \E j \in DOMAIN Tail(q) : Tail(q)[j] = q[i]
    <2>1. i - 1 \in 1..(Len(q) - 1) /\ (i - 1) + 1 = i
      BY <1>1, <1>2
    <2> QED BY <1>1, <2>1
  <1> QED BY <1>1, <1>2

(* The bus answers a call. *)
LEMMA OfferServed ==
    ASSUME OfferInv, Offer!Serve
    PROVE  OfferInv'
  <1> DEFINE Calls == {"request", "who"}
  <1>1. /\ UNCHANGED <<Offer!world, Offer!work, Offer!offer, Offer!claim, Offer!context, s21, s22, s23>>
        /\ s6 # <<>> /\ s6' = Tail(s6) /\ s6 \in Seq(Calls)
    BY DEF Offer!Serve, OfferInv, Offer!TypeOK, Offer!QueuesOK
  <1> HIDE DEF Calls
  <1>2. /\ Head(s6) = s6[1] /\ s6' \in Seq(Calls)
        /\ \A i \in DOMAIN s6 : i # 1 => \E j \in DOMAIN s6' : s6'[j] = s6[i]
    BY <1>1, OfferLists, OfferWaits
  <1>3. s16
    BY <1>1 DEF OfferInv, Offer!BusInv
  <1>4. /\ OfferSays(s7', s19', s5')
        /\ s5' \in {"out", "queued", "owner"}
        /\ s5' # "out" => (s4' <=> s5' = "queued")
        /\ \A i \in DOMAIN s7 : i \in DOMAIN s7' /\ s7'[i] = s7[i]
        /\ Head(s6) = "request" => \E i \in DOMAIN s7' : s7'[i] \in Offer!Replies
    BY <1>1, OfferServes DEF Offer!world, Offer!claim
  <1>5. s18' =>
          \/ \E i \in DOMAIN s6' : s6'[i] = "request"
          \/ \E i \in DOMAIN s7' : s7'[i] \in Offer!Replies
    <2> SUFFICES ASSUME s18'
                 PROVE  \/ \E i \in DOMAIN s6' : s6'[i] = "request"
                        \/ \E i \in DOMAIN s7' : s7'[i] \in Offer!Replies
      OBVIOUS
    <2>1. CASE \E i \in DOMAIN s6 : s6[i] = "request"
      BY <1>2, <1>4, <2>1
    <2>2. CASE \E i \in DOMAIN s7 : s7[i] \in Offer!Replies
      BY <1>4, <2>2
    <2> QED BY <1>1, <2>1, <2>2 DEF OfferInv, Offer!BusInv, Offer!claim
  <1>6. /\ s7' \in Seq(Offer!Replies \cup {"acquired", "lost", "it is"})
        /\ Offer!Tells' = {} => (s19' <=> s5' = "owner")
        /\ \A i \in Offer!Tells' : (\A j \in Offer!Tells' : j <= i) => (s5' = "owner" <=> s7'[i] # "lost")
    BY <1>4, OfferSaid
  <1>7. Offer!BusInv'
    BY <1>1, <1>3, <1>4, <1>5, <1>6 DEF Offer!BusInv, Offer!context
  <1>8. Offer!QueuesOK'
    BY <1>1, <1>2, <1>6 DEF OfferInv, Offer!TypeOK, Offer!QueuesOK, Offer!work, Calls
  <1>9. Offer!CountsOK'
    BY <1>1 DEF OfferInv, Offer!TypeOK, Offer!CountsOK
  <1>10. Offer!FlagsOK'
    BY <1>1, <1>4 DEF OfferInv, Offer!TypeOK, Offer!FlagsOK, Offer!world, Offer!offer, Offer!claim, Offer!context
  <1>11. Offer!WorkInv' /\ Offer!OffersAreWanted'
    BY <1>1 DEF OfferInv, Offer!WorkInv, Offer!OffersAreWanted, Offer!world, Offer!work, Offer!offer, Offer!context
  <1> QED BY <1>7, <1>8, <1>9, <1>10, <1>11 DEF OfferInv, Offer!TypeOK

(* Panefile hears from the bus. *)
LEMMA OfferHeard ==
    ASSUME OfferInv, Offer!OnMessage
    PROVE  OfferInv'
  <1> DEFINE m == Head(s7)
  <1>1. /\ UNCHANGED <<Offer!world, s5, Offer!work, Offer!offer, Offer!context, s21, s22, s23>>
        /\ s7 # <<>> /\ s7' = Tail(s7)
        /\ s19' = (Offer!Acquired(m) \/ (s19 /\ ~Offer!OnNameLost(m)))
        /\ s18' = (s18 /\ m \notin {"primary", "in queue", "refused"})
        /\ s6' = IF m = "in queue" THEN Append(s6, "who") ELSE s6
        /\ s20' = (s20 /\ m \notin {"it is", "refused"} /\ ~(Offer!Acquired(m) /\ ~s19))
    BY DEF Offer!OnMessage
  <1>2. /\ s19' \in BOOLEAN /\ s18' \in BOOLEAN /\ s20' \in BOOLEAN
        /\ s19' <=> (m \in {"acquired", "primary"} \/ (s19 /\ m # "lost"))
        /\ s18' => s18 /\ m \notin Offer!Replies
    <2>1. s19 \in BOOLEAN /\ s18 \in BOOLEAN /\ s20 \in BOOLEAN
      BY DEF OfferInv, Offer!TypeOK, Offer!FlagsOK
    <2> HIDE DEF m
    <2> QED BY <1>1, <2>1, Zenon DEF Offer!Acquired, Offer!OnNameLost, Offer!Replies
  <1>3. OfferSays(s7, s19, s5) /\ s19 \in BOOLEAN
    BY OfferSaid DEF OfferInv, Offer!TypeOK, Offer!FlagsOK
  <1>4. /\ OfferSays(Tail(s7), s19', s5)
        /\ \A i \in DOMAIN s7 :
              s7[i] # Head(s7)
                => \E j \in DOMAIN Tail(s7) : Tail(s7)[j] = s7[i]
    BY <1>1, <1>2, <1>3, OfferSeen
  <1>5. /\ OfferSays(s7', s19', s5')
        /\ \A i \in DOMAIN s7 :
              s7[i] # m => \E j \in DOMAIN s7' : s7'[j] = s7[i]
    BY <1>1, <1>4
  <1> HIDE DEF m
  <1>6. /\ s7' \in Seq(Offer!Replies \cup {"acquired", "lost", "it is"})
        /\ Offer!Tells' = {} => (s19' <=> s5' = "owner")
        /\ \A i \in Offer!Tells' : (\A j \in Offer!Tells' : j <= i) => (s5' = "owner" <=> s7'[i] # "lost")
    BY <1>5, OfferSaid
  <1>7. /\ s6' \in Seq({"request", "who"})
        /\ \A i \in DOMAIN s6 : i \in DOMAIN s6' /\ s6'[i] = s6[i]
    <2>1. s6 \in Seq({"request", "who"}) /\ "who" \in {"request", "who"}
      BY DEF OfferInv, Offer!TypeOK, Offer!QueuesOK
    <2> DEFINE more == Append(s6, "who")
    <2>2. /\ DOMAIN s6 = 1..Len(s6) /\ Len(s6) \in Nat
          /\ more \in Seq({"request", "who"})
          /\ DOMAIN more = 1..(Len(s6) + 1)
          /\ \A i \in 1..Len(s6) : more[i] = s6[i]
      BY <2>1, OfferLists
    <2>3. s6' = more \/ s6' = s6
      BY <1>1
    <2> HIDE DEF more
    <2> QED BY <2>1, <2>2, <2>3
  <1>8. s18' =>
          \/ \E i \in DOMAIN s6' : s6'[i] = "request"
          \/ \E i \in DOMAIN s7' : s7'[i] \in Offer!Replies
    <2> SUFFICES ASSUME s18'
                 PROVE  \/ \E i \in DOMAIN s6' : s6'[i] = "request"
                        \/ \E i \in DOMAIN s7' : s7'[i] \in Offer!Replies
      OBVIOUS
    <2>1. s18 /\ m \notin Offer!Replies
      BY <1>2
    <2>2. CASE \E i \in DOMAIN s6 : s6[i] = "request"
      BY <1>7, <2>2
    <2>3. CASE \E i \in DOMAIN s7 : s7[i] \in Offer!Replies
      BY <1>5, <2>1, <2>3
    <2> QED BY <2>1, <2>2, <2>3 DEF OfferInv, Offer!BusInv
  <1>9. s16
    BY <1>1 DEF OfferInv, Offer!BusInv
  <1>10. Offer!BusInv'
    <2>1. s5' # "out" => (s4' <=> s5' = "queued")
      BY <1>1 DEF OfferInv, Offer!BusInv, Offer!world
    <2> QED BY <1>1, <1>6, <1>8, <1>9, <2>1 DEF Offer!BusInv, Offer!context
  <1>11. Offer!QueuesOK'
    BY <1>1, <1>6, <1>7 DEF OfferInv, Offer!TypeOK, Offer!QueuesOK, Offer!work
  <1>12. Offer!CountsOK'
    BY <1>1 DEF OfferInv, Offer!TypeOK, Offer!CountsOK
  <1>13. Offer!FlagsOK'
    <2>1. UNCHANGED <<Offer!world, s5, Offer!offer, Offer!context, s21>>
      BY <1>1
    <2> QED BY <1>2, <2>1 DEF OfferInv, Offer!TypeOK, Offer!FlagsOK, Offer!world, Offer!offer, Offer!context
  <1>14. Offer!WorkInv' /\ Offer!OffersAreWanted'
    BY <1>1 DEF OfferInv, Offer!WorkInv, Offer!OffersAreWanted, Offer!world, Offer!work, Offer!offer, Offer!context
  <1> QED BY <1>10, <1>11, <1>12, <1>13, <1>14 DEF OfferInv, Offer!TypeOK

(* The offer is made only to one who wants it, and the name is Panefile's
   exactly when the bus says so once all has been said. *)
THEOREM OffersAlwaysWanted ==
    Offer!Spec => [](Offer!TypeOK /\ Offer!WorkInv /\ Offer!BusInv /\ Offer!OffersAreWanted /\ Offer!NameIsAsTheBusSays)
  <1>1. Offer!Init => OfferInv
    <2> SUFFICES ASSUME Offer!Init
                 PROVE  OfferInv
      OBVIOUS
    <2>1. Offer!QueuesOK
      BY DEF Offer!Init, Offer!QueuesOK
    <2>2. Offer!CountsOK
      BY OfferAssumption DEF Offer!Init, Offer!CountsOK
    <2>3. Offer!FlagsOK
      BY DEF Offer!Init, Offer!FlagsOK
    <2>4. Offer!WorkInv
      BY DEF Offer!Init, Offer!WorkInv
    <2>5. Offer!BusInv
      BY DEF Offer!Init, Offer!BusInv, Offer!Tells
    <2>6. Offer!OffersAreWanted
      BY DEF Offer!Init, Offer!OffersAreWanted
    <2> QED BY <2>1, <2>2, <2>3, <2>4, <2>5, <2>6 DEF OfferInv, Offer!TypeOK
  <1>2. OfferInv /\ [Offer!Next]_Offer!vars => OfferInv'
    <2> SUFFICES ASSUME OfferInv, [Offer!Next]_Offer!vars
                 PROVE  OfferInv'
      OBVIOUS
    <2>1. CASE Offer!RunTask
      BY <2>1, OfferRuns
    <2>2. CASE Offer!Deliver
      BY <2>2, OfferDelivers
    <2>3. CASE Offer!MakeDefault \/ Offer!NotNow \/ Offer!Never \/ Offer!HideResult \/ Offer!SetOptedIn
      BY <2>3, OfferUser
    <2>4. CASE Offer!OtherStarts \/ Offer!OtherExits
      BY <2>4, OfferOthers
    <2>5. CASE Offer!Serve
      BY <2>5, OfferServed
    <2>6. CASE Offer!OnMessage
      BY <2>6, OfferHeard
    <2>7. CASE UNCHANGED Offer!vars
      <3>1. Offer!TypeOK'
        <4>1. Offer!QueuesOK'
          BY <2>7 DEF OfferInv, Offer!TypeOK, Offer!QueuesOK, Offer!vars, Offer!bus, Offer!work
        <4>2. Offer!CountsOK'
          BY <2>7 DEF OfferInv, Offer!TypeOK, Offer!CountsOK, Offer!vars
        <4>3. Offer!FlagsOK'
          BY <2>7 DEF OfferInv, Offer!TypeOK, Offer!FlagsOK, Offer!vars, Offer!world, Offer!bus, Offer!offer, Offer!claim, Offer!context
        <4> QED BY <4>1, <4>2, <4>3 DEF Offer!TypeOK
      <3>2. Offer!BusInv'
        BY <2>7, OfferBusRests DEF OfferInv, OfferBus, Offer!vars, Offer!world, Offer!bus, Offer!claim, Offer!context
      <3>3. Offer!WorkInv' /\ Offer!OffersAreWanted'
        BY <2>7 DEF OfferInv, Offer!WorkInv, Offer!OffersAreWanted, Offer!vars, Offer!world, Offer!work, Offer!offer, Offer!context
      <3> QED BY <3>1, <3>2, <3>3 DEF OfferInv
    <2> QED BY <2>1, <2>2, <2>3, <2>4, <2>5, <2>6, <2>7 DEF Offer!Next
  <1>3. OfferInv => Offer!TypeOK /\ Offer!WorkInv /\ Offer!BusInv /\ Offer!OffersAreWanted /\ Offer!NameIsAsTheBusSays
    <2> SUFFICES ASSUME OfferInv
                 PROVE  Offer!NameIsAsTheBusSays
      BY DEF OfferInv
    <2>1. ASSUME s6 = <<>>, s7 = <<>>
          PROVE  (s19 <=> s5 = "owner") /\ ~s18
      <3>1. Offer!Tells = {}
        BY <2>1 DEF Offer!Tells
      <3> QED BY <2>1, <3>1 DEF OfferInv, Offer!BusInv
    <2>2. ~s16 => s5 = "out" /\ s6 = <<>>
      BY DEF OfferInv, Offer!BusInv
    <2> QED BY <2>1, <2>2 DEF Offer!NameIsAsTheBusSays
  <1> QED BY <1>1, <1>2, <1>3, PTL DEF Offer!Spec

(* Four mimeapps files, one of them the user's own, changed once by        *)
(* others.                                                                 *)
ByPrecedence == <<"desktop", "user", "system", "data">>
Mime == INSTANCE MimeApps WITH
    Apps <- MimeApplications, Us <- MimeUs, Paths <- MimeLists,
    UserFile <- MimeUserFile, UserPaths <- MimeUserLists,
    MaxChanges <- MimeChanges, MaxEntries <- MimeEntries, files <- s1,
    readOnly <- s2, installed <- s3, service <- s4, result <- s5,
    theirs <- s6, changes <- s7

(* The user's own file is one of those that are read, and Panefile is an
   application. *)
ASSUME MimeAssumption ==
    /\ MimeLists \in Seq(Mime!Range(MimeLists)) /\ MimeUserFile \in Mime!Range(MimeLists)
    /\ MimeUs \in MimeApplications
    /\ MimeChanges \in Nat /\ MimeEntries \in Nat

MimeFiles == [exists : BOOLEAN, readable : BOOLEAN, defaults : Seq(MimeApplications), added : Seq(MimeApplications),
              rest : BOOLEAN]

(* Min is the least number there is. *)
LEMMA MimeLeast ==
    ASSUME NEW S \in SUBSET Nat, S # {}
    PROVE  Mime!Min(S) \in S /\ \A k \in S : Mime!Min(S) <= k
  <1>1. \E c \in S : \A e \in S : c <= e
    BY WindowAssumption, Window!LeastNumber
  <1> QED BY <1>1 DEF Mime!Min

(* What is read of a file is a file's content. *)
LEMMA MimeRead ==
    ASSUME Mime!TypeOK, NEW p \in Mime!Range(MimeLists)
    PROVE  Mime!Read(p) \in MimeFiles /\ s1[p] \in MimeFiles
  <1>1. s1[p] \in MimeFiles
    BY DEF Mime!TypeOK, MimeFiles
  <1>2. <<>> \in Seq(MimeApplications)
    BY EmptySeq
  <1>3. Mime!NoFile \in MimeFiles
    BY <1>2 DEF Mime!NoFile, MimeFiles
  <1>4. [Mime!NoFile EXCEPT !.exists = TRUE] \in MimeFiles
    BY <1>3 DEF MimeFiles
  <1> QED BY <1>1, <1>4 DEF Mime!Read

(* The paths by their numbers. *)
LEMMA MimeNumbers ==
    /\ DOMAIN MimeLists \in SUBSET (Nat \ {0}) /\ DOMAIN MimeLists = 1..Len(MimeLists) /\ Len(MimeLists) \in Nat
    /\ \A k \in DOMAIN MimeLists : MimeLists[k] \in Mime!Range(MimeLists)
    /\ \E k \in DOMAIN MimeLists : MimeLists[k] = MimeUserFile
  <1>1. DOMAIN MimeLists = 1..Len(MimeLists) /\ Len(MimeLists) \in Nat
    BY MimeAssumption
  <1>2. \A k \in DOMAIN MimeLists : MimeLists[k] \in Mime!Range(MimeLists)
    BY DEF Mime!Range
  <1>3. \E k \in DOMAIN MimeLists : MimeLists[k] = MimeUserFile
    BY MimeAssumption DEF Mime!Range
  <1> QED BY <1>1, <1>2, <1>3

(* The file that is chosen: none of those before it sets a default. *)
LEMMA MimeChosen ==
    ASSUME Mime!TypeOK, Mime!ChooseMimeappsFile # "overridden"
    PROVE  \E k \in DOMAIN MimeLists :
              /\ MimeLists[k] = Mime!ChooseMimeappsFile
              /\ \A j \in DOMAIN MimeLists :
                    j < k => MimeLists[j] # Mime!ChooseMimeappsFile /\ Mime!Read(MimeLists[j]).defaults = <<>>
  <1> DEFINE user == {k \in DOMAIN MimeLists : MimeLists[k] = MimeUserFile}
             first == Mime!Min(Mime!Setting)
             userIndex == Mime!Min(user)
  <1>1. userIndex \in user /\ \A k \in user : userIndex <= k
    BY MimeNumbers, MimeLeast
  <1>2. userIndex \in DOMAIN MimeLists /\ MimeLists[userIndex] = MimeUserFile
    BY <1>1
  <1>3. \A j \in DOMAIN MimeLists : j < userIndex => MimeLists[j] # MimeUserFile
    <2>1. ASSUME NEW j \in DOMAIN MimeLists, j < userIndex, MimeLists[j] = MimeUserFile
          PROVE  FALSE
      <3>1. j \in user /\ j \in Nat /\ userIndex \in Nat
        BY <1>1, <2>1, MimeNumbers
      <3> QED BY <1>1, <2>1, <3>1
    <2> QED BY <2>1
  <1>4. Mime!ChooseMimeappsFile = IF Mime!Setting = {} THEN MimeUserFile
                                  ELSE IF MimeLists[first] \in MimeUserLists \ s2 THEN MimeLists[first]
                                  ELSE IF first < userIndex THEN "overridden"
                                  ELSE MimeUserFile
    BY DEF Mime!ChooseMimeappsFile
  <1>5. CASE Mime!Setting = {}
    <2>1. \A j \in DOMAIN MimeLists : Mime!Read(MimeLists[j]).defaults = <<>>
      BY <1>5 DEF Mime!Setting
    <2> HIDE DEF user
    <2> QED BY <1>2, <1>3, <1>4, <1>5, <2>1
  <1>6. CASE Mime!Setting # {}
    <2>1. Mime!Setting \in SUBSET Nat
      BY MimeNumbers DEF Mime!Setting
    <2>2. first \in Mime!Setting /\ \A k \in Mime!Setting : first <= k
      BY <1>6, <2>1, MimeLeast
    <2>3. first \in DOMAIN MimeLists /\ Mime!Read(MimeLists[first]).defaults # <<>> /\ first \in Nat
      BY <2>1, <2>2 DEF Mime!Setting
    <2>4. \A j \in DOMAIN MimeLists : j < first => Mime!Read(MimeLists[j]).defaults = <<>>
      <3>1. ASSUME NEW j \in DOMAIN MimeLists, j < first, j \in Mime!Setting
            PROVE  FALSE
        BY <2>1, <2>2, <2>3, <3>1
      <3> QED BY <3>1 DEF Mime!Setting
    <2>5. userIndex \in Nat /\ \A j \in DOMAIN MimeLists : j \in Nat
      BY <1>2, MimeNumbers
    <2> HIDE DEF user, first
    <2>6. CASE MimeLists[first] \in MimeUserLists \ s2
      BY <1>4, <1>6, <2>3, <2>4, <2>6
    <2>7. CASE MimeLists[first] \notin MimeUserLists \ s2
      <3>1. ~(first < userIndex) /\ Mime!ChooseMimeappsFile = MimeUserFile
        BY <1>4, <1>6, <2>7
      <3>2. \A j \in DOMAIN MimeLists : j < userIndex => j < first
        BY <2>3, <2>5, <3>1
      <3> QED BY <1>2, <1>3, <2>4, <3>1, <3>2
    <2> QED BY <2>6, <2>7
  <1> QED BY <1>5, <1>6

(* What is written to a file says Us, and leaves the rest. *)
LEMMA MimeAfter ==
    ASSUME NEW f \in MimeFiles
    PROVE  /\ Mime!WithDefaultApplication(f) \in MimeFiles
           /\ Mime!WithDefaultApplication(f).defaults = <<MimeUs>>
           /\ Mime!WithDefaultApplication(f).readable = f.readable
           /\ Mime!WithDefaultApplication(f).rest = f.rest
  <1> DEFINE list == f.added
  <1>1. list \in Seq(MimeApplications) /\ DOMAIN list = 1..Len(list) /\ MimeUs \in MimeApplications
    BY MimeAssumption DEF MimeFiles
  <1>2. <<MimeUs>> \in Seq(MimeApplications)
    BY <1>1
  <1>3. Mime!TheOthers(list) \in Seq(MimeApplications)
    <2> HIDE DEF list
    <2>1. CASE \E i \in DOMAIN list : list[i] = MimeUs
      <3> DEFINE k == CHOOSE i \in DOMAIN list : list[i] = MimeUs
      <3>1. k \in 1..Len(list)
        BY <1>1, <2>1
      <3>2. Mime!TheOthers(list) = Mime!RemoveAt(list, k)
        BY <2>1 DEF Mime!TheOthers
      <3> HIDE DEF k
      <3>3. SubSeq(list, 1, k - 1) \in Seq(MimeApplications) /\ SubSeq(list, k + 1, Len(list)) \in Seq(MimeApplications)
        BY <1>1, <3>1
      <3> QED BY <3>2, <3>3 DEF Mime!RemoveAt
    <2>2. CASE ~\E i \in DOMAIN list : list[i] = MimeUs
      BY <1>1, <2>2 DEF Mime!TheOthers
    <2> QED BY <2>1, <2>2
  <1>4. <<MimeUs>> \o Mime!TheOthers(list) \in Seq(MimeApplications)
    BY <1>2, <1>3
  <1>5. CASE f.defaults = <<MimeUs>> /\ f.added # <<>> /\ Head(f.added) = MimeUs
    BY <1>5 DEF Mime!WithDefaultApplication
  <1>6. CASE ~(f.defaults = <<MimeUs>> /\ f.added # <<>> /\ Head(f.added) = MimeUs)
    <2>1. Mime!WithDefaultApplication(f) = [f EXCEPT !.exists = TRUE, !.defaults = <<MimeUs>>,
                                                     !.added = <<MimeUs>> \o Mime!TheOthers(list)]
      BY <1>6 DEF Mime!WithDefaultApplication
    <2> DEFINE more == <<MimeUs>> \o Mime!TheOthers(list)
    <2> HIDE DEF more
    <2>2. more \in Seq(MimeApplications)
      BY <1>4 DEF more
    <2> DEFINE g == [f EXCEPT !.exists = TRUE, !.defaults = <<MimeUs>>, !.added = more]
    <2>3. g \in MimeFiles
      BY <1>2, <2>2 DEF MimeFiles
    <2>4. g.defaults = <<MimeUs>> /\ g.readable = f.readable /\ g.rest = f.rest
      BY DEF MimeFiles
    <2> QED BY <2>1, <2>3, <2>4 DEF more
  <1> QED BY <1>5, <1>6

(* The file that is written decides, and says Us. *)
LEMMA MimeWritten ==
    ASSUME Mime!TypeOK, Mime!MakingItDefaultWorks, MimeUs \in s3, Mime!SetDefaultApplication,
           UNCHANGED <<s2, s3, s6, s7>>
    PROVE  Mime!TypeOK' /\ Mime!MakingItDefaultWorks'
  <1> DEFINE p == Mime!ChooseMimeappsFile
             after == Mime!WithDefaultApplication(Mime!Read(p))
  <1>1. p # "overridden" /\ s1[p].readable /\ s1' = [s1 EXCEPT ![p] = after]
    BY DEF Mime!SetDefaultApplication, Mime!MayWrite
  <1>2. PICK k \in DOMAIN MimeLists :
           /\ MimeLists[k] = p
           /\ \A j \in DOMAIN MimeLists : j < k => MimeLists[j] # p /\ Mime!Read(MimeLists[j]).defaults = <<>>
    BY <1>1, MimeChosen
  <1>3. p \in Mime!Range(MimeLists) /\ Mime!Read(p) = s1[p]
    BY <1>1, <1>2, MimeNumbers DEF Mime!Read
  <1> HIDE DEF p
  <1>4. after \in MimeFiles /\ after.defaults = <<MimeUs>> /\ after.readable /\ after.rest = s1[p].rest
    BY <1>1, <1>3, MimeRead, MimeAfter
  <1> HIDE DEF after
  <1>5. s1 \in [Mime!Range(MimeLists) -> MimeFiles]
    BY DEF Mime!TypeOK, MimeFiles
  <1>6. /\ s1' \in [Mime!Range(MimeLists) -> MimeFiles]
        /\ s1'[p] = after
        /\ \A q \in Mime!Range(MimeLists) \ {p} : s1'[q] = s1[q]
    BY <1>1, <1>3, <1>4, <1>5
  <1>7. s4' \in {"none", "ours", "stale"} /\ s5' \in {"ok", "refused"} /\ (s5' = "ok" => s4' = "ours")
    BY DEF Mime!SetDefaultApplication, Mime!WriteServiceFile, Mime!TypeOK
  <1>8. Mime!TypeOK'
    BY <1>6, <1>7 DEF Mime!TypeOK, MimeFiles
  <1>9. \A q \in s6' : s1'[q].rest
    BY <1>4, <1>6 DEF Mime!MakingItDefaultWorks, Mime!TypeOK
  <1>10. Mime!Read(MimeLists[k])' = after
    BY <1>2, <1>4, <1>6 DEF Mime!Read
  <1>11. \A j \in DOMAIN MimeLists : j < k => Mime!Read(MimeLists[j])' = Mime!Read(MimeLists[j])
    <2> TAKE j \in DOMAIN MimeLists
    <2> HAVE j < k
    <2>1. s1'[MimeLists[j]] = s1[MimeLists[j]]
      BY <1>2, <1>6, MimeNumbers
    <2> QED BY <2>1 DEF Mime!Read
  <1>12. Mime!Named(MimeLists[k])' = {1}
    <2>1. Mime!Named(MimeLists[k])' = {i \in DOMAIN <<MimeUs>> : <<MimeUs>>[i] \in s3}
      BY <1>4, <1>10 DEF Mime!Named
    <2>2. DOMAIN <<MimeUs>> = {1} /\ <<MimeUs>>[1] = MimeUs
      OBVIOUS
    <2> QED BY <2>1, <2>2
  <1>13. \A j \in DOMAIN MimeLists : j < k => Mime!Named(MimeLists[j])' = {}
    <2> TAKE j \in DOMAIN MimeLists
    <2> HAVE j < k
    <2>1. Mime!Named(MimeLists[j])' = {i \in DOMAIN <<>> : <<>>[i] \in s3'}
      BY <1>2, <1>11 DEF Mime!Named
    <2>2. DOMAIN <<>> = {}
      OBVIOUS
    <2> QED BY <2>1, <2>2
  <1>14. Mime!Min(Mime!Deciding') = k
    <2> DEFINE D == {i \in DOMAIN MimeLists : Mime!Named(MimeLists[i])' # {}}
    <2>1. Mime!Deciding' = D /\ D \in SUBSET Nat /\ k \in D
      BY <1>12, MimeNumbers DEF Mime!Deciding
    <2>2. \A i \in D : ~(i < k)
      BY <1>13
    <2> HIDE DEF D
    <2>3. Mime!Min(D) \in D /\ \A i \in D : Mime!Min(D) <= i
      BY <2>1, MimeLeast
    <2>4. Mime!Min(D) \in Nat /\ k \in Nat /\ Mime!Min(D) <= k /\ ~(Mime!Min(D) < k)
      BY <2>1, <2>2, <2>3
    <2>5. Mime!Min(D) = k
      BY <2>4
    <2> QED BY <2>1, <2>5
  <1>15. Mime!Deciding' # {}
    BY <1>12 DEF Mime!Deciding
  <1>16. Mime!Min({1}) = 1
    <2>1. Mime!Min({1}) \in {1}
      BY MimeLeast
    <2> QED BY <2>1
  <1>17. Mime!ResolveDefault' = MimeUs
    <2>1. Mime!ResolveDefault' = (Mime!Read(MimeLists[k])').defaults[Mime!Min(Mime!Named(MimeLists[k])')]
      BY <1>14, <1>15 DEF Mime!ResolveDefault
    <2>2. (Mime!Read(MimeLists[k])').defaults = <<MimeUs>>
      BY <1>4, <1>10
    <2>3. Mime!ResolveDefault' = <<MimeUs>>[1]
      BY <1>12, <1>16, <2>1, <2>2
    <2> QED BY <2>3
  <1> QED BY <1>7, <1>8, <1>9, <1>17 DEF Mime!MakingItDefaultWorks, Mime!IsDefault

(* A success of making Panefile the default is what the files say, wherever
   they rank, and nothing of what others wrote in them is lost. *)
THEOREM DefaultIsAlwaysMade == Mime!Spec => [](Mime!TypeOK /\ Mime!MakingItDefaultWorks)
  <1>1. Mime!Init => Mime!TypeOK /\ Mime!MakingItDefaultWorks
    <2> SUFFICES ASSUME Mime!Init PROVE Mime!TypeOK /\ Mime!MakingItDefaultWorks
      OBVIOUS
    <2>1. <<>> \in Seq(MimeApplications)
      BY EmptySeq
    <2>2. Mime!NoFile \in MimeFiles
      BY <2>1 DEF Mime!NoFile, MimeFiles
    <2>3. s1 \in [Mime!Range(MimeLists) -> MimeFiles]
      BY <2>2 DEF Mime!Init
    <2> QED BY <2>3, MimeAssumption DEF Mime!Init, Mime!TypeOK, Mime!MakingItDefaultWorks, MimeFiles
  <1>2. ASSUME Mime!TypeOK, Mime!MakingItDefaultWorks, [Mime!Next]_Mime!vars
        PROVE  Mime!TypeOK' /\ Mime!MakingItDefaultWorks'
    <2>1. CASE Mime!MakeDefault
      <3>1. UNCHANGED <<s2, s3, s6, s7>>
        BY <2>1 DEF Mime!MakeDefault
      <3>2. CASE s5' = "refused" /\ UNCHANGED <<s1, s4>>
        BY <1>2, <3>1, <3>2 DEF Mime!TypeOK, Mime!MakingItDefaultWorks
      <3>3. CASE MimeUs \in s3 /\ Mime!SetDefaultApplication
        BY <1>2, <3>1, <3>3, MimeWritten
      <3> QED BY <2>1, <3>2, <3>3 DEF Mime!MakeDefault, Mime!SetDefaultFails
    <2>2. CASE Mime!OthersEdit
      <3>1. PICK p \in Mime!Range(MimeLists), d \in Mime!Lists, a \in Mime!Lists, r \in BOOLEAN :
               /\ s1' = [s1 EXCEPT ![p] =
                     [exists |-> TRUE, readable |-> r, defaults |-> d, added |-> a, rest |-> TRUE]]
               /\ s6' = s6 \cup {p}
        BY <2>2 DEF Mime!OthersEdit
      <3>2. \A s \in Mime!Lists : s \in Seq(MimeApplications)
        <4>1. \A s \in Mime!Lists : \E n \in 0..MimeEntries : s \in [1..n -> MimeApplications]
          BY DEF Mime!Lists, Mime!SeqOf
        <4>2. 0..MimeEntries \subseteq Nat
          BY MimeAssumption
        <4> QED BY <4>1, <4>2, SeqDef
      <3> DEFINE f == [exists |-> TRUE, readable |-> r, defaults |-> d, added |-> a, rest |-> TRUE]
      <3>3. f \in MimeFiles /\ f.rest
        BY <3>2 DEF MimeFiles
      <3>4. s1 \in [Mime!Range(MimeLists) -> MimeFiles]
        BY <1>2 DEF Mime!TypeOK, MimeFiles
      <3> HIDE DEF f
      <3>5. /\ s1' = [s1 EXCEPT ![p] = f]
            /\ UNCHANGED <<s2, s3, s4>> /\ s5' = "none"
            /\ s7 < MimeChanges /\ s7' = s7 + 1
        BY <2>2, <3>1 DEF Mime!OthersEdit, Mime!Change, f
      <3>6. s1' \in [Mime!Range(MimeLists) -> MimeFiles] /\ \A q \in s6' : s1'[q].rest
        BY <1>2, <3>1, <3>3, <3>4, <3>5 DEF Mime!MakingItDefaultWorks, Mime!TypeOK
      <3>7. s7' \in 0..MimeChanges
        BY <1>2, <3>5, MimeAssumption DEF Mime!TypeOK
      <3>8. Mime!TypeOK'
        BY <1>2, <3>1, <3>5, <3>6, <3>7 DEF Mime!TypeOK, MimeFiles
      <3> QED BY <3>5, <3>6, <3>8 DEF Mime!MakingItDefaultWorks
    <2>3. CASE Mime!OthersInstall
      <3>1. s7' \in 0..MimeChanges
        BY <1>2, <2>3, MimeAssumption DEF Mime!OthersInstall, Mime!Change, Mime!TypeOK
      <3>2. Mime!TypeOK'
        BY <1>2, <2>3, <3>1 DEF Mime!OthersInstall, Mime!Change, Mime!TypeOK
      <3> QED BY <1>2, <2>3, <3>2 DEF Mime!OthersInstall, Mime!Change, Mime!MakingItDefaultWorks
    <2>4. CASE UNCHANGED Mime!vars
      <3>1. \A p : Mime!Read(p)' = Mime!Read(p)
        BY <2>4 DEF Mime!vars, Mime!Read
      <3>2. \A p : Mime!Named(p)' = Mime!Named(p)
        BY <2>4, <3>1 DEF Mime!vars, Mime!Named
      <3>3. Mime!Deciding' = Mime!Deciding
        BY <3>2 DEF Mime!Deciding
      <3>4. Mime!ResolveDefault' = Mime!ResolveDefault
        BY <3>1, <3>2, <3>3 DEF Mime!ResolveDefault
      <3> QED BY <1>2, <2>4, <3>4 DEF Mime!vars, Mime!TypeOK, Mime!MakingItDefaultWorks, Mime!IsDefault
    <2> QED BY <1>2, <2>1, <2>2, <2>3, <2>4 DEF Mime!Next
  <1> QED BY <1>1, <1>2, PTL DEF Mime!Spec

(* The rows of a panel under the pointer and the keys, one of them hidden  *)
(* at times.                                                               *)
ThreeRows == <<"a", "b", "c">>
Pointing == INSTANCE PanelSelection WITH
    Order <- PanelRows, Dotted <- DottedRows, NoName <- NoRow,
    MaxLosses <- RowLosses, listed <- s1, hiding <- s2, cursor <- s3,
    selection <- s4, anchor <- s5, selecting <- s6, typed <- s7, press <- s8,
    marked <- s9, dragged <- s10, clicked <- s11

ASSUME PointingAssumption ==
    /\ NoRow \notin Pointing!Names
    /\ Pointing!NoPress \notin Pointing!Names \cup {NoRow}

(* What the three ways to change a selection leave of it. *)
LEMMA PointingWays ==
    ASSUME Pointing!TypeOK
    PROVE  /\ Pointing!Visible \subseteq Pointing!Names
           /\ Pointing!SelectedPaths \subseteq Pointing!Names
           /\ Pointing!ClearSelection => s4' = {} /\ s5' \in Pointing!Names \cup {NoRow}
           /\ \A n \in Pointing!Names \cup {NoRow} : Pointing!ToggleSelectionAt(n)
                 => s4' \subseteq Pointing!Names /\ s5' \in Pointing!Names \cup {NoRow}
           /\ \A n, a, c \in Pointing!Names \cup {NoRow} : Pointing!ExtendSelectionTo(n, a, c)
                 => s4' \subseteq Pointing!Names /\ s5' \in Pointing!Names \cup {NoRow}
  BY DEF Pointing!TypeOK, Pointing!Visible, Pointing!SelectedPaths, Pointing!ClearSelection,
         Pointing!ToggleSelectionAt, Pointing!Toggled, Pointing!ExtendSelectionTo, Pointing!Between

(* Where the cursor goes is a row, or nowhere. *)
LEMMA PointingCursor ==
    ASSUME Pointing!TypeOK
    PROVE  /\ \A step \in {-1, 1} : Pointing!Neighbour(step) \subseteq Pointing!Names \cup {NoRow}
           /\ (Pointing!CursorFollows /\ Pointing!Visible' \subseteq Pointing!Names)
                 => s3' \in Pointing!Names \cup {NoRow}
  BY PointingWays DEF Pointing!TypeOK, Pointing!Neighbour, Pointing!CursorFollows

(* The steps of the pointer, with any key or none. *)
LEMMA PointingByPointer ==
    ASSUME Pointing!TypeOK, Pointing!PointerInv,
           \/ \E n \in Pointing!Visible \cup {NoRow} :
                 Pointing!ShiftPress(n) \/ Pointing!CtrlPress(n) \/ Pointing!HandleClickPress(n)
           \/ Pointing!HandleClickRelease
           \/ Pointing!BeginPanelDrag
           \/ \E n \in Pointing!Visible : Pointing!ContextMenu(n)
    PROVE  Pointing!TypeOK' /\ Pointing!PointerInv'
  <1> USE PointingAssumption, PointingWays
  <1>1. ASSUME NEW n \in Pointing!Visible \cup {NoRow},
               Pointing!ShiftPress(n) \/ Pointing!CtrlPress(n)
        PROVE  Pointing!TypeOK' /\ Pointing!PointerInv'
    <2>1. s4' \subseteq Pointing!Names /\ s5' \in Pointing!Names \cup {NoRow}
      BY <1>1 DEF Pointing!ShiftPress, Pointing!CtrlPress, Pointing!TypeOK
    <2>2. /\ UNCHANGED <<s1, s2, s6, s8, s9>> /\ s8 = Pointing!NoPress
          /\ s3' = IF n = NoRow THEN s3 ELSE n
          /\ s7' = FALSE /\ s10' = {} /\ s11' = NoRow
      BY <1>1 DEF Pointing!ShiftPress, Pointing!CtrlPress, Pointing!Pressed
    <2>3. Pointing!TypeOK'
      BY <2>1, <2>2 DEF Pointing!TypeOK
    <2> QED BY <2>2, <2>3 DEF Pointing!PointerInv
  <1>2. ASSUME NEW n \in Pointing!Visible \cup {NoRow}, Pointing!HandleClickPress(n)
        PROVE  Pointing!TypeOK' /\ Pointing!PointerInv'
    <2>1. /\ UNCHANGED <<s1, s2, s6>> /\ s8 = Pointing!NoPress
          /\ s3' = IF n = NoRow THEN s3 ELSE n
          /\ s4' = IF n \in s4 THEN s4 ELSE {}
          /\ s5' = n /\ s8' = n /\ s9' = s4
          /\ s7' = FALSE /\ s10' = {} /\ s11' = NoRow
      BY <1>2 DEF Pointing!HandleClickPress, Pointing!Pressed
    <2>2. Pointing!TypeOK'
      BY <2>1 DEF Pointing!TypeOK
    <2>3. Pointing!Visible' = Pointing!Visible
      BY <2>1 DEF Pointing!Visible
    <2> QED BY <2>1, <2>2, <2>3 DEF Pointing!TypeOK, Pointing!PointerInv
  <1>3. ASSUME Pointing!HandleClickRelease PROVE Pointing!TypeOK' /\ Pointing!PointerInv'
    <2>1. /\ UNCHANGED <<s1, s2, s3, s6, s7, s9, s10>>
          /\ s8 # Pointing!NoPress /\ s8' = Pointing!NoPress
          /\ s11' = IF s9 = Pointing!Lost THEN NoRow ELSE s8
          /\ \/ s4' = {} /\ s5' = s8 /\ s8 \in s4
             \/ UNCHANGED <<s4, s5>> /\ ~(s8 \in s4 /\ s4 # {s8})
      BY <1>3 DEF Pointing!HandleClickRelease
    <2>2. Pointing!TypeOK'
      BY <2>1 DEF Pointing!TypeOK
    <2>3. s10 = {} /\ (s11' # NoRow => s4' \subseteq {s11'})
      <3>1. s10 = {}
        BY <2>1 DEF Pointing!PointerInv
      <3>2. ASSUME s11' # NoRow, s4' # {} PROVE s4' \subseteq {s11'}
        <4>1. s9 # Pointing!Lost /\ s11' = s8 /\ s4' = s4 /\ ~(s8 \in s4 /\ s4 # {s8})
          BY <2>1, <3>2
        <4>2. s8 \in s4
          BY <2>1, <3>2, <4>1 DEF Pointing!PointerInv
        <4> QED BY <4>1, <4>2
      <3> QED BY <3>1, <3>2
    <2> QED BY <2>1, <2>2, <2>3 DEF Pointing!PointerInv
  <1>4. ASSUME Pointing!BeginPanelDrag PROVE Pointing!TypeOK' /\ Pointing!PointerInv'
    <2>1. /\ UNCHANGED <<s1, s2, s3, s4, s5, s6, s7>>
          /\ s8 # Pointing!NoPress /\ s8' = Pointing!NoPress
          /\ s10' = Pointing!SelectedPaths /\ s11' = NoRow
          /\ s9' = IF s9 = Pointing!Lost THEN {}
                   ELSE IF s8 \in s9 THEN s9 \cap Pointing!Visible ELSE {s8} \cap Pointing!Visible
      BY <1>4 DEF Pointing!BeginPanelDrag
    <2>2. Pointing!TypeOK'
      BY <2>1 DEF Pointing!TypeOK
    <2>3. s10' # {} /\ s9' # {} => s10' = s9'
      BY <2>1 DEF Pointing!TypeOK, Pointing!PointerInv, Pointing!SelectedPaths
    <2> QED BY <2>1, <2>2, <2>3 DEF Pointing!PointerInv
  <1>5. ASSUME NEW n \in Pointing!Visible, Pointing!ContextMenu(n)
        PROVE  Pointing!TypeOK' /\ Pointing!PointerInv'
    BY <1>5 DEF Pointing!ContextMenu, Pointing!TypeOK, Pointing!PointerInv
  <1> QED BY <1>1, <1>2, <1>3, <1>4, <1>5

(* The steps of the keyboard, which wait for the pointer to be up. *)
LEMMA PointingByKeys ==
    ASSUME Pointing!TypeOK, Pointing!PointerInv,
           \/ \E step \in {-1, 1} : Pointing!MoveCursor(step) \/ Pointing!ExtendSelectionByRows(step)
           \/ Pointing!KeyboardSearch \/ Pointing!ClearTypeAhead \/ Pointing!SetSelectionMode
           \/ Pointing!SelectAll \/ Pointing!Escape \/ Pointing!SelectNames
           \/ Pointing!SetFilterText
    PROVE  Pointing!TypeOK' /\ Pointing!PointerInv'
  <1> USE PointingAssumption, PointingWays, PointingCursor DEF Pointing!Keys
  <1>1. ASSUME s8 = Pointing!NoPress, s8' = s8, s11' = NoRow, s10' = {}
        PROVE  Pointing!PointerInv'
    BY <1>1 DEF Pointing!PointerInv
  <1>2. ASSUME NEW step \in {-1, 1}, Pointing!MoveCursor(step)
        PROVE  Pointing!TypeOK' /\ Pointing!PointerInv'
    BY <1>1, <1>2 DEF Pointing!MoveCursor, Pointing!TypeOK
  <1>3. ASSUME NEW step \in {-1, 1}, Pointing!ExtendSelectionByRows(step)
        PROVE  Pointing!TypeOK' /\ Pointing!PointerInv'
    <2>1. s3' \in Pointing!Names \cup {NoRow}
      BY <1>3 DEF Pointing!ExtendSelectionByRows
    <2>2. s4' \subseteq Pointing!Names /\ s5' \in Pointing!Names \cup {NoRow}
      BY <1>3, <2>1 DEF Pointing!ExtendSelectionByRows, Pointing!TypeOK
    <2> QED BY <1>1, <1>3, <2>1, <2>2 DEF Pointing!ExtendSelectionByRows, Pointing!TypeOK
  <1>4. ASSUME Pointing!KeyboardSearch PROVE Pointing!TypeOK' /\ Pointing!PointerInv'
    BY <1>1, <1>4 DEF Pointing!KeyboardSearch, Pointing!TypeOK
  <1>5. ASSUME Pointing!ClearTypeAhead PROVE Pointing!TypeOK' /\ Pointing!PointerInv'
    BY <1>5 DEF Pointing!ClearTypeAhead, Pointing!TypeOK, Pointing!PointerInv, Pointing!pointer,
                Pointing!Visible
  <1>6. ASSUME Pointing!SetSelectionMode PROVE Pointing!TypeOK' /\ Pointing!PointerInv'
    BY <1>1, <1>6 DEF Pointing!SetSelectionMode, Pointing!TypeOK
  <1>7. ASSUME Pointing!SelectAll PROVE Pointing!TypeOK' /\ Pointing!PointerInv'
    BY <1>1, <1>7 DEF Pointing!SelectAll, Pointing!TypeOK
  <1>8. ASSUME Pointing!Escape PROVE Pointing!TypeOK' /\ Pointing!PointerInv'
    BY <1>1, <1>8 DEF Pointing!Escape, Pointing!TypeOK
  <1>9. ASSUME Pointing!SelectNames PROVE Pointing!TypeOK' /\ Pointing!PointerInv'
    BY <1>1, <1>9 DEF Pointing!SelectNames, Pointing!TypeOK
  <1>10. ASSUME Pointing!SetFilterText PROVE Pointing!TypeOK' /\ Pointing!PointerInv'
    <2>1. Pointing!Visible' \subseteq Pointing!Names
      BY <1>10 DEF Pointing!SetFilterText, Pointing!Visible, Pointing!TypeOK
    <2> QED BY <1>1, <1>10, <2>1 DEF Pointing!SetFilterText, Pointing!TypeOK
  <1> QED BY <1>2, <1>3, <1>4, <1>5, <1>6, <1>7, <1>8, <1>9, <1>10

(* A file goes or comes back, whatever the pointer is doing. *)
LEMMA PointingAtRows ==
    ASSUME Pointing!TypeOK, Pointing!PointerInv,
           Pointing!FileVanishes \/ Pointing!ExpectRemoval \/ Pointing!FileReturns
    PROVE  Pointing!TypeOK' /\ Pointing!PointerInv'
  <1> USE PointingAssumption
  <1>1. ASSUME NEW n \in s1, NEW rest, s1' = s1 \ {n}, s9' = Pointing!Owed(n, rest),
               \/ rest = s9 /\ s4' = s4
               \/ rest = s9 \ {n} /\ s4' = s4 \ {n},
               s7' = FALSE, UNCHANGED <<s2, s5, s6, s8, s10, s11>>, Pointing!CursorFollows
        PROVE  Pointing!TypeOK' /\ Pointing!PointerInv'
    <2>1. Pointing!Visible' = Pointing!Visible \ {n} /\ Pointing!Visible \subseteq Pointing!Names
      BY <1>1 DEF Pointing!Visible, Pointing!TypeOK
    <2>2. Pointing!TypeOK'
      <3>1. s3' \in Pointing!Names \cup {NoRow}
        BY <1>1, <2>1, PointingCursor
      <3>2. s9' \subseteq Pointing!Names \/ s9' = Pointing!Lost
        BY <1>1 DEF Pointing!TypeOK, Pointing!Owed
      <3> QED BY <1>1, <3>1, <3>2 DEF Pointing!TypeOK
    <2>3. s3 \in Pointing!Visible /\ s3 # n => s3' = s3
      BY <1>1, <2>1 DEF Pointing!CursorFollows
    <2>4. (n \in Pointing!Names /\ n # NoRow /\ s8 # n) \/ s9' = Pointing!Lost
      BY <1>1 DEF Pointing!TypeOK, Pointing!Owed
    <2>5. s8 = Pointing!NoPress => s9' = s9
      BY <1>1, <2>1 DEF Pointing!TypeOK, Pointing!Owed, Pointing!Visible
    <2>6. s8 # Pointing!NoPress /\ s9 # Pointing!Lost /\ s9' # Pointing!Lost => s9' = rest
      BY <1>1 DEF Pointing!Owed
    <2>7. s9 = Pointing!Lost => s9' = Pointing!Lost
      BY <1>1 DEF Pointing!Owed
    <2> QED BY <1>1, <2>1, <2>2, <2>3, <2>4, <2>5, <2>6, <2>7 DEF Pointing!PointerInv
  <1>2. CASE Pointing!FileVanishes
    BY <1>1, <1>2 DEF Pointing!FileVanishes
  <1>3. CASE Pointing!ExpectRemoval
    BY <1>1, <1>3 DEF Pointing!ExpectRemoval
  <1>4. CASE Pointing!FileReturns
    BY <1>4 DEF Pointing!FileReturns, Pointing!TypeOK, Pointing!PointerInv, Pointing!pointer,
                Pointing!Visible
  <1> QED BY <1>2, <1>3, <1>4

(* For any rows and whatever leaves them meanwhile, a click is about its
   row alone and a drag about all that was selected with it. *)
THEOREM PointerActsAlways ==
    Pointing!Spec => [](Pointing!TypeOK /\ Pointing!PointerInv /\ Pointing!PointerActsOnWhatItShows)
  <1>1. Pointing!Init => Pointing!TypeOK /\ Pointing!PointerInv
    BY PointingAssumption DEF Pointing!Init, Pointing!TypeOK, Pointing!PointerInv
  <1>2. Pointing!TypeOK /\ Pointing!PointerInv /\ [Pointing!Next]_(Pointing!vars)
        => Pointing!TypeOK' /\ Pointing!PointerInv'
    <2> SUFFICES ASSUME Pointing!TypeOK, Pointing!PointerInv, [Pointing!Next]_(Pointing!vars)
                 PROVE  Pointing!TypeOK' /\ Pointing!PointerInv'
      OBVIOUS
    <2>1. CASE Pointing!Next
      BY <2>1, PointingByPointer, PointingByKeys, PointingAtRows DEF Pointing!Next
    <2>2. CASE UNCHANGED Pointing!vars
      BY <2>2 DEF Pointing!vars, Pointing!TypeOK, Pointing!PointerInv, Pointing!Visible
    <2> QED BY <2>1, <2>2
  <1>3. Pointing!TypeOK /\ Pointing!PointerInv => Pointing!PointerActsOnWhatItShows
    BY PointingAssumption, PointingWays
       DEF Pointing!TypeOK, Pointing!PointerInv, Pointing!PointerActsOnWhatItShows,
           Pointing!SelectedPaths
  <1> QED BY <1>1, <1>2, <1>3, PTL DEF Pointing!Spec

(* The thumbnail cache and one file, which changes while its picture is    *)
(* made.                                                                   *)
Thumbs == INSTANCE Thumbnails WITH
    MaxRequests <- ThumbRequests, MaxEdits <- ThumbEdits, file <- s1,
    now <- s2, memory <- s3, disk <- s4, marker <- s5, pending <- s6,
    task <- s7, started <- s8, posts <- s9, noPlugin <- s10, blurred <- s11

ASSUME ThumbsAssumption == ThumbRequests \in Nat /\ ThumbEdits \in Nat

(* Cancelling the pending request changes no picture and no stage. *)
LEMMA ThumbsCancelled ==
    ASSUME Thumbs!TypeOK
    PROVE  /\ Thumbs!Cancelled(s7) \in [Thumbs!Tasks -> Thumbs!TaskStates]
           /\ \A id \in Thumbs!Tasks : /\ Thumbs!Cancelled(s7)[id].of = s7[id].of
                                       /\ Thumbs!Cancelled(s7)[id].stage = s7[id].stage
                                       /\ Thumbs!Cancelled(s7)[id].size = s7[id].size
  <1>1. CASE s6.id = 0
    BY <1>1 DEF Thumbs!TypeOK, Thumbs!Cancelled
  <1>2. CASE s6.id # 0
    <2>1. s6.id \in Thumbs!Tasks
      BY <1>2, ThumbsAssumption DEF Thumbs!TypeOK, Thumbs!Tasks
    <2>2. Thumbs!Cancelled(s7) = [s7 EXCEPT ![s6.id] = [@ EXCEPT !.cancelled = TRUE]]
      BY <1>2, <2>1 DEF Thumbs!TypeOK, Thumbs!Cancelled
    <2>3. s7[s6.id] \in Thumbs!TaskStates
      BY <2>1 DEF Thumbs!TypeOK
    <2>4. /\ [s7[s6.id] EXCEPT !.cancelled = TRUE] \in Thumbs!TaskStates
          /\ [s7[s6.id] EXCEPT !.cancelled = TRUE].of = s7[s6.id].of
          /\ [s7[s6.id] EXCEPT !.cancelled = TRUE].stage = s7[s6.id].stage
          /\ [s7[s6.id] EXCEPT !.cancelled = TRUE].size = s7[s6.id].size
      BY <2>3 DEF Thumbs!TaskStates
    <2> QED BY <2>1, <2>2, <2>4 DEF Thumbs!TypeOK
  <1> QED BY <1>1, <1>2

(* What the lookup keeps in memory is a picture, and of the version its
   time says if those in the caches are. *)
LEMMA ThumbsLookup ==
    ASSUME Thumbs!TypeOK, NEW size \in Thumbs!Sizes, Thumbs!Lookup(size)
    PROVE  /\ s3' \in [Thumbs!Sizes -> Thumbs!Pictures]
           /\ (\A s \in Thumbs!Sizes : s3[s].of = s3[s].mtime /\ s4[s].of = s4[s].mtime)
                => \A s \in Thumbs!Sizes : s3'[s].of = s3'[s].mtime
  BY ThumbsAssumption DEF Thumbs!TypeOK, Thumbs!Lookup, Thumbs!Pictures, Thumbs!None, Thumbs!Versions

(* What a request that begins leaves: no picture that is not of its time's
   version, and either nothing pending or one task more, which is queued. *)
ThumbsBegun(size) ==
    /\ s3' \in [Thumbs!Sizes -> Thumbs!Pictures]
    /\ (\A s \in Thumbs!Sizes : s3[s].of = s3[s].mtime /\ s4[s].of = s4[s].mtime)
         => \A s \in Thumbs!Sizes : s3'[s].of = s3'[s].mtime
    /\ s8' \in s8 .. ThumbRequests
    /\ s7' \in [Thumbs!Tasks -> Thumbs!TaskStates]
    /\ \A id \in Thumbs!Tasks :
          \/ /\ s7'[id].of = s7[id].of /\ s7'[id].stage = s7[id].stage
             /\ s7'[id].size = s7[id].size
          \/ id = s8 + 1 /\ id = s8' /\ s7'[id].stage = "queued" /\ s7'[id].size = size
    /\ \/ s6' = Thumbs!NoRequest
       \/ /\ s6' = [size |-> size, id |-> s8'] /\ s8' = s8 + 1
          /\ s7'[s8'].stage = "queued" /\ s7'[s8'].size = size /\ ~s7'[s8'].cancelled

(* Beginning a request, however the other tasks stand. *)
LEMMA ThumbsBegin ==
    ASSUME Thumbs!TypeOK, Thumbs!TaskInv, NEW size \in Thumbs!Sizes, NEW tasks,
           tasks \in [Thumbs!Tasks -> Thumbs!TaskStates],
           \A id \in Thumbs!Tasks : /\ tasks[id].of = s7[id].of
                                    /\ tasks[id].stage = s7[id].stage
                                    /\ tasks[id].size = s7[id].size,
           s10' \in BOOLEAN, Thumbs!Begin(size, tasks)
    PROVE  ThumbsBegun(size)
  <1> USE DEF ThumbsBegun
  <1>1. CASE Thumbs!HasFailed
    BY <1>1, ThumbsAssumption
       DEF Thumbs!Begin, Thumbs!TypeOK, Thumbs!NoRequest
  <1>2. CASE ~Thumbs!HasFailed /\ Thumbs!Found(size)
    BY <1>2, ThumbsLookup, ThumbsAssumption
       DEF Thumbs!Begin, Thumbs!TypeOK, Thumbs!NoRequest
  <1>3. CASE ~Thumbs!HasFailed /\ ~Thumbs!Found(size)
    <2>1. s8 < ThumbRequests /\ s8' = s8 + 1 /\ s8' \in Thumbs!Tasks /\ Thumbs!Lookup(size)
      BY <1>3, ThumbsAssumption DEF Thumbs!Begin, Thumbs!TypeOK, Thumbs!Tasks
    <2> DEFINE new == [Thumbs!NoTask EXCEPT !.size = size, !.mode = Thumbs!KindFor,
                                            !.stage = "queued"]
    <2>2. s7' = [tasks EXCEPT ![s8 + 1] = new]
      BY <1>3 DEF Thumbs!Begin
    <2>3. Thumbs!KindFor \in {"video", "external"}
      BY DEF Thumbs!KindFor
    <2>4. Thumbs!NoTask \in Thumbs!TaskStates
      BY ThumbsAssumption DEF Thumbs!NoTask, Thumbs!TaskStates
    <2>5. new \in Thumbs!TaskStates /\ new.size = size /\ new.stage = "queued" /\ ~new.cancelled
      BY <2>3, <2>4 DEF Thumbs!TaskStates, Thumbs!NoTask
    <2> HIDE DEF new
    <2>6. s7' \in [Thumbs!Tasks -> Thumbs!TaskStates] /\ s7'[s8 + 1] = new
      BY <2>1, <2>2, <2>5
    <2>7. \A id \in Thumbs!Tasks : id # s8 + 1 => s7'[id] = tasks[id]
      BY <2>2
    <2>8. s8' \in s8 .. ThumbRequests
      BY <2>1, ThumbsAssumption DEF Thumbs!TypeOK
    <2>9. s6' = [size |-> size, id |-> s8']
      BY <1>3, <2>1 DEF Thumbs!Begin
    <2> QED
      BY <2>1, <2>5, <2>6, <2>7, <2>8, <2>9, ThumbsLookup
  <1> QED BY <1>1, <1>2, <1>3

(* So a request that begins keeps the types and the bookkeeping. *)
LEMMA ThumbsBegunTypes ==
    ASSUME Thumbs!TypeOK, Thumbs!TaskInv, NEW size \in Thumbs!Sizes, ThumbsBegun(size),
           UNCHANGED <<s1, s2, s4, s5, s11>>, s10' \in BOOLEAN,
           s9' \in Seq(Thumbs!Reports), \A i \in DOMAIN s9' : s9'[i].id <= s8
    PROVE  Thumbs!TypeOK' /\ Thumbs!TaskInv'
  <1> USE ThumbsAssumption
  <1>1. s8 \in Nat /\ s8' \in Nat /\ s8 <= s8' /\ s8' \in 0 .. ThumbRequests
    BY DEF ThumbsBegun, Thumbs!TypeOK
  <1>2. s6' \in [size : Thumbs!Sizes \cup {"none"}, id : 0 .. ThumbRequests]
    BY <1>1 DEF ThumbsBegun, Thumbs!NoRequest
  <1>3. s6' # Thumbs!NoRequest => s6'.size \in Thumbs!Sizes /\ s6'.id \in 1 .. s8'
    BY <1>1 DEF ThumbsBegun
  <1>4. \A i \in DOMAIN s9' : s9'[i].id <= s8'
    <2> TAKE i \in DOMAIN s9'
    <2>1. s9'[i] \in Thumbs!Reports
      OBVIOUS
    <2>2. s9'[i].id \in Nat
      BY <2>1 DEF Thumbs!Reports, Thumbs!Tasks
    <2> QED BY <1>1, <2>2
  <1>5. \A id \in Thumbs!Tasks : s7'[id].stage \in {"queued", "decoded", "stored"}
                                  => id <= s8' /\ s7'[id].size \in Thumbs!Sizes
    BY <1>1 DEF ThumbsBegun, Thumbs!TaskInv, Thumbs!Tasks
  <1> QED
    BY <1>1, <1>2, <1>3, <1>4, <1>5 DEF ThumbsBegun, Thumbs!TypeOK, Thumbs!TaskInv

(* What the worker of a task does to it: a step of its stage, with the
   version it read from the file or the one it had, and at most one report
   at the end of the queue, which a cancelled task does not get. *)
LEMMA ThumbsWork ==
    ASSUME Thumbs!TypeOK, NEW id \in Thumbs!Tasks,
           Thumbs!Run(id) \/ Thumbs!RunExternal(id) \/ Thumbs!Store(id) \/ Thumbs!Finish(id)
    PROVE  /\ UNCHANGED <<s1, s2, s3, s5, s6, s8, s10, s11>>
           /\ s7' \in [Thumbs!Tasks -> Thumbs!TaskStates]
           /\ \A i \in Thumbs!Tasks \ {id} : s7'[i] = s7[i]
           /\ s7[id].stage \in {"queued", "decoded", "stored"}
           /\ s7'[id].size = s7[id].size /\ s7'[id].cancelled = s7[id].cancelled
           /\ s7'[id].of \in IF s7[id].stage = "queued" THEN {s1.of, s7[id].of} ELSE {s7[id].of}
           /\ s7'[id].stage \in {"decoded", "stored"}
                => s7'[id].of = IF s7[id].stage = "queued" THEN s1.of ELSE s7[id].of
           /\ \/ s9' = s9 /\ (s7[id].cancelled \/ s7'[id].stage \in {"decoded", "stored"})
              \/ /\ ~s7[id].cancelled
                 /\ \E outcome \in Thumbs!Outcomes :
                       s9' = Append(s9, [id |-> id, size |-> s7[id].size, outcome |-> outcome])
                 /\ s7'[id].of = IF s7[id].stage = "queued" THEN s1.of ELSE s7[id].of
           /\ \/ s4' = s4
              \/ /\ s7[id].stage = "decoded"
                 /\ s4' = [s4 EXCEPT ![s7[id].size] = [of |-> s7[id].of, mtime |-> s1.mtime]]
  <1> USE ThumbsAssumption DEF Thumbs!caches
  <1>1. /\ s7 \in [Thumbs!Tasks -> Thumbs!TaskStates] /\ s7[id] \in Thumbs!TaskStates
        /\ s1.of \in Thumbs!Versions /\ s1.mtime \in Thumbs!Versions
    BY DEF Thumbs!TypeOK
  <1> DEFINE over == [s7[id] EXCEPT !.stage = "over"]
             stored == [s7[id] EXCEPT !.stage = "stored"]
             failed == [s7[id] EXCEPT !.stage = "over", !.of = s1.of]
             decoded == [s7[id] EXCEPT !.stage = "decoded", !.of = s1.of]
  <1>2. \A new \in {over, stored, failed, decoded} :
           /\ new \in Thumbs!TaskStates
           /\ new.size = s7[id].size /\ new.cancelled = s7[id].cancelled
    BY <1>1 DEF Thumbs!TaskStates
  <1>3. /\ over.stage = "over" /\ over.of = s7[id].of
        /\ stored.stage = "stored" /\ stored.of = s7[id].of
        /\ failed.stage = "over" /\ failed.of = s1.of
        /\ decoded.stage = "decoded" /\ decoded.of = s1.of
    BY <1>1 DEF Thumbs!TaskStates
  <1>4. Thumbs!Over(id) => s7' = [s7 EXCEPT ![id] = over]
    BY <1>1 DEF Thumbs!Over
  <1>5. Thumbs!Decoded(id) => s7' = [s7 EXCEPT ![id] = decoded] /\ s9' = s9
    BY <1>1 DEF Thumbs!Decoded
  <1>6. ASSUME NEW outcome, Thumbs!Fails(id, outcome)
        PROVE  /\ s7' = [s7 EXCEPT ![id] = failed]
               /\ s9' = IF s7[id].cancelled THEN s9
                        ELSE Append(s9, [id |-> id, size |-> s7[id].size, outcome |-> outcome])
    BY <1>1, <1>6 DEF Thumbs!Fails, Thumbs!Report
  <1> HIDE DEF over, stored, failed, decoded
  <1> USE DEF Thumbs!Outcomes
  <1>7. ASSUME NEW new \in {over, stored, failed, decoded}, s7' = [s7 EXCEPT ![id] = new]
        PROVE  /\ s7' \in [Thumbs!Tasks -> Thumbs!TaskStates]
               /\ s7'[id] = new /\ \A i \in Thumbs!Tasks \ {id} : s7'[i] = s7[i]
    BY <1>1, <1>2, <1>7
  <1>8. CASE Thumbs!Run(id)
    <2>1. CASE s7[id].cancelled /\ Thumbs!Over(id) /\ s9' = s9
      BY <1>2, <1>3, <1>4, <1>7, <1>8, <2>1 DEF Thumbs!Run
    <2>2. CASE Thumbs!Decoded(id)
      BY <1>2, <1>3, <1>5, <1>7, <1>8, <2>2 DEF Thumbs!Run
    <2>3. CASE \E outcome \in {"failed", "unavailable"} :
                  ~s7[id].cancelled /\ Thumbs!Fails(id, outcome)
      BY <1>2, <1>3, <1>6, <1>7, <1>8, <2>3 DEF Thumbs!Run
    <2> QED BY <1>8, <2>1, <2>2, <2>3 DEF Thumbs!Run
  <1>9. CASE Thumbs!RunExternal(id)
    <2>1. CASE Thumbs!Fails(id, "failed")
      BY <1>2, <1>3, <1>6, <1>7, <1>9, <2>1 DEF Thumbs!RunExternal
    <2>2. CASE Thumbs!Decoded(id)
      BY <1>2, <1>3, <1>5, <1>7, <1>9, <2>2 DEF Thumbs!RunExternal
    <2> QED BY <1>9, <2>1, <2>2 DEF Thumbs!RunExternal
  <1>10. CASE Thumbs!Store(id)
    <2>1. CASE s7[id].cancelled
      BY <1>2, <1>3, <1>4, <1>7, <1>10, <2>1 DEF Thumbs!Store
    <2>2. CASE ~s7[id].cancelled
      <3>1. s7' = [s7 EXCEPT ![id] = stored]
        BY <1>10, <2>2 DEF Thumbs!Store, stored
      <3> QED BY <1>2, <1>3, <1>7, <1>10, <2>2, <3>1 DEF Thumbs!Store
    <2> QED BY <2>1, <2>2
  <1>11. CASE Thumbs!Finish(id)
    BY <1>2, <1>3, <1>4, <1>7, <1>11 DEF Thumbs!Finish, Thumbs!Report
  <1> QED BY <1>8, <1>9, <1>10, <1>11

(* The reports it leaves: those there were, and perhaps its own. *)
LEMMA ThumbsReported ==
    ASSUME Thumbs!TypeOK, Thumbs!TaskInv, NEW id \in Thumbs!Tasks,
           Thumbs!Run(id) \/ Thumbs!RunExternal(id) \/ Thumbs!Store(id) \/ Thumbs!Finish(id)
    PROVE  /\ s9' \in Seq(Thumbs!Reports)
           /\ \A i \in DOMAIN s9 : i \in DOMAIN s9' /\ s9'[i] = s9[i]
           /\ \/ s9' = s9 /\ (s7[id].cancelled \/ s7'[id].stage \in {"decoded", "stored"})
              \/ /\ DOMAIN s9' = DOMAIN s9 \cup {Len(s9) + 1}
                 /\ s9'[Len(s9) + 1].id = id
  <1>1. s7[id].size \in Thumbs!Sizes /\ s9 \in Seq(Thumbs!Reports)
    BY ThumbsWork DEF Thumbs!TaskInv, Thumbs!TypeOK
  <1>2. ASSUME NEW outcome \in Thumbs!Outcomes, NEW post,
               post = [id |-> id, size |-> s7[id].size, outcome |-> outcome],
               s9' = Append(s9, post)
        PROVE  /\ s9' \in Seq(Thumbs!Reports)
               /\ \A i \in DOMAIN s9 : i \in DOMAIN s9' /\ s9'[i] = s9[i]
               /\ DOMAIN s9' = DOMAIN s9 \cup {Len(s9) + 1}
               /\ s9'[Len(s9) + 1].id = id
    <2>1. post \in Thumbs!Reports /\ post.id = id
      BY <1>1, <1>2 DEF Thumbs!Reports
    <2> QED BY <1>1, <1>2, <2>1
  <1> QED BY <1>1, <1>2, ThumbsWork

(* The types and the bookkeeping of tasks are kept by every step. *)
LEMMA ThumbsTypeStep ==
    ASSUME Thumbs!TypeOK, Thumbs!TaskInv, [Thumbs!Next]_(Thumbs!vars)
    PROVE  Thumbs!TypeOK' /\ Thumbs!TaskInv'
  <1> USE ThumbsAssumption
  <1>1. ASSUME NEW size \in Thumbs!Sizes, Thumbs!Request(size)
        PROVE  Thumbs!TypeOK' /\ Thumbs!TaskInv'
    <2>1. s10' \in BOOLEAN /\ Thumbs!Begin(size, Thumbs!Cancelled(s7))
      BY <1>1 DEF Thumbs!Request, Thumbs!TypeOK
    <2> DEFINE tasks == Thumbs!Cancelled(s7)
    <2>2. /\ tasks \in [Thumbs!Tasks -> Thumbs!TaskStates]
          /\ \A id \in Thumbs!Tasks : /\ tasks[id].of = s7[id].of
                                      /\ tasks[id].stage = s7[id].stage
                                      /\ tasks[id].size = s7[id].size
      BY ThumbsCancelled
    <2> HIDE DEF tasks
    <2>3. ThumbsBegun(size)
      BY <2>1, <2>2, ThumbsBegin DEF tasks
    <2>4. /\ UNCHANGED <<s1, s2, s4, s5, s11>>
          /\ s9' \in Seq(Thumbs!Reports) /\ \A i \in DOMAIN s9' : s9'[i].id <= s8
      BY <1>1 DEF Thumbs!Request, Thumbs!TypeOK, Thumbs!TaskInv
    <2> QED BY <2>1, <2>3, <2>4, ThumbsBegunTypes
  <1>2. ASSUME Thumbs!Cancel PROVE Thumbs!TypeOK' /\ Thumbs!TaskInv'
    BY <1>2, ThumbsCancelled
       DEF Thumbs!Cancel, Thumbs!TypeOK, Thumbs!TaskInv, Thumbs!NoRequest, Thumbs!caches
  <1>3. ASSUME NEW id \in Thumbs!Tasks,
               Thumbs!Run(id) \/ Thumbs!RunExternal(id) \/ Thumbs!Store(id) \/ Thumbs!Finish(id),
               Thumbs!TaskInv
        PROVE  Thumbs!TypeOK' /\ Thumbs!TaskInv'
    <2>1. s7[id].size \in Thumbs!Sizes /\ id <= s8
      BY <1>3, ThumbsWork DEF Thumbs!TaskInv
    <2>2. s4' \in [Thumbs!Sizes -> Thumbs!Pictures]
      <3> DEFINE picture == [of |-> s7[id].of, mtime |-> s1.mtime]
      <3>1. picture \in Thumbs!Pictures
        BY <1>3 DEF Thumbs!TypeOK, Thumbs!TaskStates, Thumbs!Pictures
      <3>2. s4' = s4 \/ s4' = [s4 EXCEPT ![s7[id].size] = picture]
        BY <1>3, ThumbsWork
      <3> HIDE DEF picture
      <3> QED BY <2>1, <3>1, <3>2 DEF Thumbs!TypeOK
    <2>4. s9' \in Seq(Thumbs!Reports) /\ \A i \in DOMAIN s9' : s9'[i].id <= s8
      BY <1>3, <2>1, ThumbsReported DEF Thumbs!TaskInv
    <2>5. s7' \in [Thumbs!Tasks -> Thumbs!TaskStates] /\ UNCHANGED <<s1, s2, s3, s5, s6, s8, s10, s11>>
      BY <1>3, ThumbsWork
    <2>6. \A i \in Thumbs!Tasks : s7'[i].stage \in {"queued", "decoded", "stored"}
                                    => i <= s8' /\ s7'[i].size \in Thumbs!Sizes
      BY <1>3, <2>1, <2>5, ThumbsWork DEF Thumbs!TaskInv
    <2> QED
      BY <2>2, <2>4, <2>5, <2>6 DEF Thumbs!TypeOK, Thumbs!TaskInv
  <1>4. ASSUME Thumbs!Deliver PROVE Thumbs!TypeOK' /\ Thumbs!TaskInv'
    <2> DEFINE post == Head(s9)
    <2>1. /\ post \in Thumbs!Reports
          /\ s9' = Tail(s9) /\ s9 # <<>>
          /\ s9' \in Seq(Thumbs!Reports)
          /\ \A i \in DOMAIN s9' : s9'[i].id <= s8
      <3>1. s9 # <<>> /\ s9' = Tail(s9)
        BY <1>4 DEF Thumbs!Deliver
      <3>2. s9 \in Seq(Thumbs!Reports) /\ \A i \in DOMAIN s9 : s9[i].id <= s8
        BY DEF Thumbs!TypeOK, Thumbs!TaskInv
      <3> QED BY <3>1, <3>2
    <2>2. s10' \in BOOLEAN
      BY <1>4 DEF Thumbs!Deliver, Thumbs!TypeOK
    <2>3. /\ s7[post.id].of \in Thumbs!Versions \cup {-1}
          /\ s1.mtime \in Thumbs!Versions /\ s2 \in Thumbs!Versions
      BY <2>1 DEF Thumbs!TypeOK, Thumbs!TaskStates, Thumbs!Versions, Thumbs!Reports
    <2>4. CASE post.outcome = "generated" /\ Thumbs!Remember(post)
               /\ s6' = Thumbs!NoRequest /\ UNCHANGED <<s7, s8, s5>>
      <3>1. s3' \in [Thumbs!Sizes -> Thumbs!Pictures]
        BY <2>1, <2>3, <2>4 DEF Thumbs!Remember, Thumbs!TypeOK, Thumbs!Pictures, Thumbs!Reports
      <3> QED
        BY <1>4, <2>1, <2>2, <2>4, <3>1
           DEF Thumbs!Deliver, Thumbs!TypeOK, Thumbs!TaskInv, Thumbs!NoRequest
    <2>5. CASE post.outcome = "failed" /\ Thumbs!WriteFailMarker(post)
               /\ s6' = Thumbs!NoRequest /\ UNCHANGED <<s7, s8, s3>>
      BY <1>4, <2>1, <2>2, <2>3, <2>5
         DEF Thumbs!Deliver, Thumbs!TypeOK, Thumbs!TaskInv, Thumbs!NoRequest, Thumbs!WriteFailMarker
    <2>6. CASE Thumbs!Begin(post.size, s7) /\ s5' = s5
      <3>1. s7 \in [Thumbs!Tasks -> Thumbs!TaskStates] /\ post.size \in Thumbs!Sizes
        BY <2>1 DEF Thumbs!TypeOK, Thumbs!Reports
      <3> HIDE DEF post
      <3>2. ThumbsBegun(post.size)
        BY <2>2, <2>6, <3>1, ThumbsBegin
      <3>3. UNCHANGED <<s1, s2, s4, s5, s11>>
        BY <1>4, <2>6 DEF Thumbs!Deliver
      <3> QED BY <2>1, <2>2, <3>1, <3>2, <3>3, ThumbsBegunTypes
    <2> QED BY <1>4, <2>4, <2>5, <2>6 DEF Thumbs!Deliver
  <1>5. ASSUME Thumbs!Edit PROVE Thumbs!TypeOK' /\ Thumbs!TaskInv'
    BY <1>5 DEF Thumbs!Edit, Thumbs!TypeOK, Thumbs!TaskInv, Thumbs!caches, Thumbs!work,
                Thumbs!InFlight, Thumbs!Versions
  <1>6. ASSUME Thumbs!Evict PROVE Thumbs!TypeOK' /\ Thumbs!TaskInv'
    BY <1>6 DEF Thumbs!Evict, Thumbs!TypeOK, Thumbs!TaskInv, Thumbs!work, Thumbs!None,
                Thumbs!Pictures, Thumbs!Versions
  <1>7. ASSUME UNCHANGED Thumbs!vars PROVE Thumbs!TypeOK' /\ Thumbs!TaskInv'
    BY <1>7 DEF Thumbs!vars, Thumbs!caches, Thumbs!work, Thumbs!TypeOK, Thumbs!TaskInv
  <1> QED BY <1>1, <1>2, <1>3, <1>4, <1>5, <1>6, <1>7 DEF Thumbs!Next

(* Who is waited for is being made. *)
LEMMA ThumbsServedStep ==
    ASSUME Thumbs!TypeOK, Thumbs!TaskInv, Thumbs!WaitingIsServed, [Thumbs!Next]_(Thumbs!vars)
    PROVE  Thumbs!WaitingIsServed'
  <1> USE ThumbsAssumption
  <1>1. ASSUME s6' = Thumbs!NoRequest PROVE Thumbs!WaitingIsServed'
    BY <1>1 DEF Thumbs!WaitingIsServed, Thumbs!NoRequest
  <1>2. ASSUME NEW size, ThumbsBegun(size) PROVE Thumbs!WaitingIsServed'
    BY <1>2, <1>1 DEF ThumbsBegun, Thumbs!WaitingIsServed
  <1>3. ASSUME NEW size \in Thumbs!Sizes, Thumbs!Request(size) PROVE Thumbs!WaitingIsServed'
    <2> DEFINE tasks == Thumbs!Cancelled(s7)
    <2>1. s10' \in BOOLEAN /\ Thumbs!Begin(size, tasks)
      BY <1>3 DEF Thumbs!Request, Thumbs!TypeOK
    <2>2. /\ tasks \in [Thumbs!Tasks -> Thumbs!TaskStates]
          /\ \A id \in Thumbs!Tasks : /\ tasks[id].of = s7[id].of
                                      /\ tasks[id].stage = s7[id].stage
                                      /\ tasks[id].size = s7[id].size
      BY ThumbsCancelled
    <2> HIDE DEF tasks
    <2> QED BY <1>2, <2>1, <2>2, ThumbsBegin
  <1>4. ASSUME Thumbs!Cancel PROVE Thumbs!WaitingIsServed'
    BY <1>1, <1>4 DEF Thumbs!Cancel
  <1>5. ASSUME NEW id \in Thumbs!Tasks,
               Thumbs!Run(id) \/ Thumbs!RunExternal(id) \/ Thumbs!Store(id) \/ Thumbs!Finish(id),
               s6 # Thumbs!NoRequest
        PROVE  Thumbs!WaitingIsServed'
    <2>1. s6.id \in Thumbs!Tasks /\ s6' = s6
      <3>1. s6.id \in 1 .. s8 /\ s8 \in 0 .. ThumbRequests
        BY <1>5 DEF Thumbs!TaskInv, Thumbs!TypeOK
      <3>2. s6.id \in Thumbs!Tasks
        BY <3>1 DEF Thumbs!Tasks
      <3> QED BY <1>5, <3>2, ThumbsWork
    <2>4. \A i \in DOMAIN s9 : i \in DOMAIN s9' /\ s9'[i] = s9[i]
      BY <1>5, ThumbsReported
    <2>5. CASE s6.id # id
      <3>1. s7'[s6.id] = s7[s6.id]
        BY <1>5, <2>1, <2>5, ThumbsWork
      <3> QED BY <1>5, <2>1, <2>4, <3>1 DEF Thumbs!WaitingIsServed
    <2>6. CASE s6.id = id
      <3>1. ~s7[id].cancelled /\ s7[id].size = s6.size
        BY <1>5, <2>6 DEF Thumbs!WaitingIsServed
      <3>2. s7'[id].size = s6'.size /\ ~s7'[id].cancelled
        BY <1>5, <2>1, <3>1, ThumbsWork
      <3>3. CASE s7'[id].stage \in {"decoded", "stored"}
        BY <2>1, <2>6, <3>2, <3>3 DEF Thumbs!WaitingIsServed
      <3>4. CASE DOMAIN s9' = DOMAIN s9 \cup {Len(s9) + 1} /\ s9'[Len(s9) + 1].id = id
        <4>1. Len(s9) + 1 \in DOMAIN s9' /\ s9'[Len(s9) + 1].id = id
          BY <3>4
        <4>2. \E i \in DOMAIN s9' : s9'[i].id = s6'.id
          BY <2>1, <2>6, <4>1
        <4> QED BY <2>1, <2>6, <3>2, <4>2 DEF Thumbs!WaitingIsServed
      <3> QED BY <1>5, <3>1, <3>3, <3>4, ThumbsReported
    <2> QED BY <2>5, <2>6
  <1>6. ASSUME Thumbs!Deliver PROVE Thumbs!WaitingIsServed'
    <2> DEFINE post == Head(s9)
    <2>1. CASE Thumbs!Begin(post.size, s7)
      <3>1. s7 \in [Thumbs!Tasks -> Thumbs!TaskStates] /\ post.size \in Thumbs!Sizes
        <4>1. post \in Thumbs!Reports
          BY <1>6 DEF Thumbs!TypeOK, Thumbs!Deliver
        <4> QED BY <4>1 DEF Thumbs!TypeOK, Thumbs!Reports
      <3>2. s10' \in BOOLEAN
        BY <1>6 DEF Thumbs!Deliver, Thumbs!TypeOK
      <3> HIDE DEF post
      <3> QED BY <1>2, <2>1, <3>1, <3>2, ThumbsBegin
    <2> QED BY <1>1, <1>6, <2>1 DEF Thumbs!Deliver
  <1>7. ASSUME Thumbs!Edit \/ Thumbs!Evict \/ UNCHANGED Thumbs!vars PROVE Thumbs!WaitingIsServed'
    BY <1>7 DEF Thumbs!Edit, Thumbs!Evict, Thumbs!vars, Thumbs!work, Thumbs!WaitingIsServed
  <1>8. ASSUME NEW id \in Thumbs!Tasks,
               Thumbs!Run(id) \/ Thumbs!RunExternal(id) \/ Thumbs!Store(id) \/ Thumbs!Finish(id),
               s6 = Thumbs!NoRequest
        PROVE  Thumbs!WaitingIsServed'
    BY <1>1, <1>8, ThumbsWork
  <1> QED BY <1>3, <1>4, <1>5, <1>6, <1>7, <1>8 DEF Thumbs!Next

(* The times stand for the versions, until there is an edit they cannot
   tell. *)
LEMMA ThumbsTimesStep ==
    ASSUME Thumbs!TypeOK, Thumbs!TaskInv, Thumbs!TimesInv, [Thumbs!Next]_(Thumbs!vars)
    PROVE  Thumbs!TimesInv'
  <1> USE ThumbsAssumption
  <1> SUFFICES ASSUME ~s11' PROVE Thumbs!TimesInv'
    BY DEF Thumbs!TimesInv
  <1>0. /\ ~s11
        /\ s1.mtime = s1.of /\ s2 = s1.of
        /\ \A size \in Thumbs!Sizes : s3[size].of = s3[size].mtime /\ s4[size].of = s4[size].mtime
        /\ s5.of = s5.time /\ s5.time <= s2
        /\ \A id \in Thumbs!Tasks : s7[id].stage \in {"decoded", "stored"} => s7[id].of = s1.of
        /\ \A i \in DOMAIN s9 : s7[s9[i].id].of = s1.of
    <2>1. ~s11
      BY DEF Thumbs!Next, Thumbs!Request, Thumbs!Cancel, Thumbs!Run, Thumbs!RunExternal,
             Thumbs!Store, Thumbs!Finish, Thumbs!Deliver, Thumbs!Edit, Thumbs!Evict, Thumbs!vars
    <2> QED BY <2>1 DEF Thumbs!TimesInv
  <1>1. \A i \in DOMAIN s9 : s9[i] \in Thumbs!Reports /\ s9[i].id \in Thumbs!Tasks /\ s9[i].id <= s8
    <2>1. \A i \in DOMAIN s9 : s9[i] \in Thumbs!Reports
      BY DEF Thumbs!TypeOK
    <2> QED BY <2>1 DEF Thumbs!TaskInv, Thumbs!Reports
  <1>2. ASSUME NEW size, ThumbsBegun(size), UNCHANGED <<s1, s2, s4, s5>>,
               \A i \in DOMAIN s9' : \E j \in DOMAIN s9 : s9'[i] = s9[j]
        PROVE  Thumbs!TimesInv'
    <2>1. \A id \in Thumbs!Tasks : id <= s8 => s7'[id].of = s7[id].of
      BY <1>2 DEF ThumbsBegun, Thumbs!Tasks, Thumbs!TypeOK
    <2>2. \A id \in Thumbs!Tasks : s7'[id].stage \in {"decoded", "stored"} => s7'[id].of = s1.of
      BY <1>0, <1>2 DEF ThumbsBegun
    <2>3. \A i \in DOMAIN s9' : s7'[s9'[i].id].of = s1.of
      BY <1>0, <1>1, <1>2, <2>1
    <2>4. \A s \in Thumbs!Sizes : s3'[s].of = s3'[s].mtime
      BY <1>0, <1>2 DEF ThumbsBegun
    <2> QED BY <1>0, <1>2, <2>2, <2>3, <2>4 DEF Thumbs!TimesInv
  <1>3. ASSUME NEW size \in Thumbs!Sizes, Thumbs!Request(size) PROVE Thumbs!TimesInv'
    <2> DEFINE tasks == Thumbs!Cancelled(s7)
    <2>1. s10' \in BOOLEAN /\ Thumbs!Begin(size, tasks)
      BY <1>3 DEF Thumbs!Request, Thumbs!TypeOK
    <2>2. /\ tasks \in [Thumbs!Tasks -> Thumbs!TaskStates]
          /\ \A id \in Thumbs!Tasks : /\ tasks[id].of = s7[id].of
                                      /\ tasks[id].stage = s7[id].stage
                                      /\ tasks[id].size = s7[id].size
      BY ThumbsCancelled
    <2> HIDE DEF tasks
    <2>3. UNCHANGED <<s1, s2, s4, s5, s9>>
      BY <1>3 DEF Thumbs!Request
    <2> QED BY <1>2, <2>1, <2>2, <2>3, ThumbsBegin
  <1>4. ASSUME Thumbs!Cancel PROVE Thumbs!TimesInv'
    <2>1. /\ UNCHANGED <<s1, s2, s3, s4, s5, s9>>
          /\ \A id \in Thumbs!Tasks : s7'[id].of = s7[id].of /\ s7'[id].stage = s7[id].stage
      BY <1>4, ThumbsCancelled DEF Thumbs!Cancel, Thumbs!caches
    <2> QED BY <1>0, <1>1, <2>1 DEF Thumbs!TimesInv
  <1>5. ASSUME NEW id \in Thumbs!Tasks,
               Thumbs!Run(id) \/ Thumbs!RunExternal(id) \/ Thumbs!Store(id) \/ Thumbs!Finish(id)
        PROVE  Thumbs!TimesInv'
    <2>1. /\ UNCHANGED <<s1, s2, s3, s5>>
          /\ \A i \in Thumbs!Tasks \ {id} : s7'[i] = s7[i]
      BY <1>5, ThumbsWork
    <2>2. s7'[id].stage \in {"decoded", "stored"} => s7'[id].of = s1.of
      BY <1>0, <1>5, ThumbsWork
    <2>3. \A i \in Thumbs!Tasks : s7'[i].stage \in {"decoded", "stored"} => s7'[i].of = s1.of
      BY <1>0, <2>1, <2>2
    <2>4. \A size \in Thumbs!Sizes : s4'[size].of = s4'[size].mtime
      <3> DEFINE picture == [of |-> s7[id].of, mtime |-> s1.mtime]
      <3>1. s4' = s4 \/ (s7[id].stage = "decoded" /\ s4' = [s4 EXCEPT ![s7[id].size] = picture])
        BY <1>5, ThumbsWork
      <3>2. s7[id].stage = "decoded" => picture.of = picture.mtime
        BY <1>0
      <3> HIDE DEF picture
      <3> QED BY <1>0, <3>1, <3>2 DEF Thumbs!TypeOK
    <2>5. s7'[id].of \in IF s7[id].stage = "queued" THEN {s1.of, s7[id].of} ELSE {s7[id].of}
      BY <1>5, ThumbsWork
    <2>6. s7[id].stage \in {"queued", "decoded", "stored"} /\ s9 \in Seq(Thumbs!Reports)
      BY <1>5, ThumbsWork DEF Thumbs!TypeOK
    <2>7. \A i \in DOMAIN s9 : s7'[s9[i].id].of = s1.of
      BY <1>0, <1>1, <2>1, <2>5
    <2>8. \A i \in DOMAIN s9' : s7'[s9'[i].id].of = s1.of
      <3>1. s9' # s9 => s7'[id].of = s1.of
        BY <1>0, <1>5, <2>6, ThumbsWork
      <3> QED BY <1>5, <2>7, <3>1, ThumbsReported
    <2> QED BY <1>0, <2>1, <2>3, <2>4, <2>8 DEF Thumbs!TimesInv
  <1>6. ASSUME Thumbs!Deliver PROVE Thumbs!TimesInv'
    <2> DEFINE post == Head(s9)
    <2>1. /\ s9 # <<>> /\ s9 \in Seq(Thumbs!Reports) /\ s9' = Tail(s9)
          /\ UNCHANGED <<s1, s2, s4>>
      BY <1>6 DEF Thumbs!Deliver, Thumbs!TypeOK
    <2>2. \A i \in DOMAIN s9' : \E j \in DOMAIN s9 : s9'[i] = s9[j]
      <3> TAKE i \in DOMAIN s9'
      <3>1. i + 1 \in DOMAIN s9 /\ s9'[i] = s9[i + 1]
        BY <2>1
      <3> QED BY <3>1
    <2>3. 1 \in DOMAIN s9 /\ post = s9[1]
      BY <2>1
    <2>4. post \in Thumbs!Reports /\ s7[post.id].of = s1.of /\ post.size \in Thumbs!Sizes
      BY <1>0, <1>1, <2>3 DEF Thumbs!Reports
    <2>5. s10' \in BOOLEAN
      BY <1>6 DEF Thumbs!Deliver, Thumbs!TypeOK
    <2> HIDE DEF post
    <2>6. CASE Thumbs!Remember(post) /\ UNCHANGED <<s7, s8, s5>>
      <3> DEFINE picture == [of |-> s7[post.id].of, mtime |-> s1.mtime]
      <3>1. s3' = [s3 EXCEPT ![post.size] = picture] /\ picture.of = picture.mtime
        BY <1>0, <2>4, <2>6 DEF Thumbs!Remember
      <3> HIDE DEF picture
      <3>2. \A size \in Thumbs!Sizes : s3'[size].of = s3'[size].mtime
        BY <1>0, <3>1 DEF Thumbs!TypeOK
      <3> QED BY <1>0, <2>1, <2>2, <2>6, <3>2 DEF Thumbs!TimesInv
    <2>7. CASE Thumbs!WriteFailMarker(post) /\ UNCHANGED <<s7, s8, s3>>
      <3>1. s5'.of = s5'.time /\ s5'.time <= s2
        BY <1>0, <2>4, <2>7 DEF Thumbs!WriteFailMarker, Thumbs!TypeOK
      <3> QED BY <1>0, <2>1, <2>2, <2>7, <3>1 DEF Thumbs!TimesInv
    <2>8. CASE Thumbs!Begin(post.size, s7) /\ s5' = s5
      <3>1. s7 \in [Thumbs!Tasks -> Thumbs!TaskStates]
        BY DEF Thumbs!TypeOK
      <3> QED BY <1>2, <2>1, <2>2, <2>4, <2>5, <2>8, <3>1, ThumbsBegin
    <2> QED BY <1>6, <2>6, <2>7, <2>8 DEF Thumbs!Deliver, post
  <1>7. ASSUME Thumbs!Edit PROVE Thumbs!TimesInv'
    <2>1. /\ s2' = s2 + 1 /\ s1' = [of |-> s1.of + 1, mtime |-> s2'] /\ s9 = <<>>
          /\ \A id \in Thumbs!Tasks : s7[id].stage \notin {"decoded", "stored"}
          /\ UNCHANGED <<s3, s4, s5, s7, s9>>
      BY <1>7 DEF Thumbs!Edit, Thumbs!InFlight, Thumbs!caches, Thumbs!work
    <2>2. s1'.of = s1.of + 1 /\ s1'.mtime = s1'.of /\ s2' = s1'.of /\ s2 \in Nat /\ s5.time <= s2'
      BY <1>0, <2>1 DEF Thumbs!TypeOK, Thumbs!Versions
    <2> QED BY <1>0, <2>1, <2>2 DEF Thumbs!TimesInv
  <1>8. ASSUME Thumbs!Evict PROVE Thumbs!TimesInv'
    BY <1>0, <1>8 DEF Thumbs!Evict, Thumbs!TimesInv, Thumbs!TypeOK, Thumbs!work, Thumbs!None
  <1>9. ASSUME UNCHANGED Thumbs!vars PROVE Thumbs!TimesInv'
    BY <1>0, <1>9 DEF Thumbs!vars, Thumbs!caches, Thumbs!work, Thumbs!TimesInv
  <1> QED BY <1>3, <1>4, <1>5, <1>6, <1>7, <1>8, <1>9 DEF Thumbs!Next

(* For any number of requests and edits, pictures and failures are of the
   version the file holds, and whoever waits for one is served. *)
THEOREM ThumbnailsAreCurrent ==
    Thumbs!Spec => [](/\ Thumbs!TypeOK /\ Thumbs!TaskInv /\ Thumbs!TimesInv
                      /\ Thumbs!PicturesAreCurrent /\ Thumbs!WaitingIsServed)
  <1>1. Thumbs!Init => /\ Thumbs!TypeOK /\ Thumbs!TaskInv
                       /\ Thumbs!TimesInv /\ Thumbs!WaitingIsServed
    <2> SUFFICES ASSUME Thumbs!Init
                 PROVE  /\ Thumbs!TypeOK /\ Thumbs!TaskInv
                        /\ Thumbs!TimesInv /\ Thumbs!WaitingIsServed
      OBVIOUS
    <2>1. Thumbs!NoTask \in Thumbs!TaskStates /\ Thumbs!None \in Thumbs!Pictures
      BY ThumbsAssumption DEF Thumbs!NoTask, Thumbs!TaskStates, Thumbs!None, Thumbs!Pictures
    <2>2. Thumbs!TypeOK
      <3>1. /\ s1 \in [of : Thumbs!Versions, mtime : Thumbs!Versions] /\ s2 \in 0 .. s1.of
            /\ s5 \in [of : Thumbs!Versions \cup {-1}, time : Thumbs!Versions \cup {-1}]
            /\ s6 \in [size : Thumbs!Sizes \cup {"none"}, id : 0 .. ThumbRequests]
        BY ThumbsAssumption DEF Thumbs!Init, Thumbs!Versions, Thumbs!NoRequest
      <3>2. s9 \in Seq(Thumbs!Reports)
        BY DEF Thumbs!Init
      <3>3. /\ s3 \in [Thumbs!Sizes -> Thumbs!Pictures] /\ s4 \in [Thumbs!Sizes -> Thumbs!Pictures]
            /\ s7 \in [Thumbs!Tasks -> Thumbs!TaskStates]
        BY <2>1 DEF Thumbs!Init
      <3>4. s8 \in 0 .. ThumbRequests
        BY ThumbsAssumption DEF Thumbs!Init
      <3>5. s10 \in BOOLEAN /\ s11 \in BOOLEAN
        BY Zenon DEF Thumbs!Init
      <3> QED BY <3>1, <3>2, <3>3, <3>4, <3>5 DEF Thumbs!TypeOK
    <2>3. Thumbs!TaskInv /\ Thumbs!WaitingIsServed
      BY DEF Thumbs!Init, Thumbs!TaskInv, Thumbs!NoTask, Thumbs!WaitingIsServed
    <2>4. Thumbs!TimesInv
      BY DEF Thumbs!Init, Thumbs!TimesInv, Thumbs!NoTask, Thumbs!None
    <2> QED BY <2>2, <2>3, <2>4
  <1>2. Thumbs!TypeOK /\ Thumbs!TimesInv => Thumbs!PicturesAreCurrent
    BY ThumbsAssumption
       DEF Thumbs!TypeOK, Thumbs!TimesInv, Thumbs!PicturesAreCurrent, Thumbs!InMemory,
           Thumbs!OnDisk, Thumbs!HasFailed, Thumbs!Versions
  <1> QED
    BY <1>1, <1>2, ThumbsTypeStep, ThumbsServedStep, ThumbsTimesStep, PTL DEF Thumbs!Spec

(* A panel on one directory that changes twice.                            *)
Listing == INSTANCE DirectoryListing WITH
    Names <- {"f", "g"}, RescanThreshold <- 2, Dirs <- {"d"}, Held <- {},
    BatchSize <- 1, MaxOps <- 2, MaxVisits <- 0, Lossy <- {}, content <- s1,
    ops <- s2, raw <- s3, deleting <- s4, task <- s5, events <- s6,
    path <- s7, rows <- s8, scanning <- s9, rescanning <- s10, seen <- s11,
    removals <- s12, deferred <- s13, failed <- s14, watching <- s15,
    conns <- s16, visits <- s17, raced <- s18

(* A panel that goes from one directory to another and back: one of them   *)
(* is shown elsewhere too, and the queue of the other's watch may          *)
(* overflow.                                                               *)
Visits == INSTANCE DirectoryListing WITH
    Names <- {"f"}, RescanThreshold <- 2, Dirs <- {"d", "e"}, Held <- {"d"},
    BatchSize <- 1, MaxOps <- 1, MaxVisits <- 2, Lossy <- {"e"},
    content <- s1, ops <- s2, raw <- s3, deleting <- s4, task <- s5,
    events <- s6, path <- s7, rows <- s8, scanning <- s9, rescanning <- s10,
    seen <- s11, removals <- s12, deferred <- s13, failed <- s14,
    watching <- s15, conns <- s16, visits <- s17, raced <- s18

(* A panel's way through three folders, one below another, which may       *)
(* vanish.                                                                 *)
Parents == [x \in {"r", "a", "ab", "f", "g"} |-> IF x \in {"ab", "g"} THEN "a" ELSE "r"]
History == INSTANCE PanelHistory WITH
    Folders <- {"r", "a", "ab"}, Files <- {"f", "g"}, Root <- "r",
    ParentOf <- Parents, NoName <- "", Capacity <- 2, MaxVisits <- 2,
    MaxVanishings <- 1, there <- s1, path <- s2, backStack <- s3,
    forwardStack <- s4, rows <- s5, cursor <- s6, pendingCursor <- s7,
    scanning <- s8, memory <- s9, filtered <- s10, meant <- s11,
    vanishings <- s12

(* Any two entries, under every sort key: short names over digits, letters *)
(* of both cases and a dot, with some longer ones that need it.            *)
Letters == {"0", "1", "a", "A", "."}
Code == [c \in Letters |-> CASE c = "." -> 1 [] c = "0" -> 2 [] c = "1" -> 3
                             [] c = "A" -> 4 [] c = "a" -> 5]
Folded == [c \in Letters |-> IF c = "A" THEN "a" ELSE c]
ShortNames == UNION {[1..n -> Letters \ {"1"}] : n \in 1..2}
LongNames == {<<"a", ".", "a">>, <<"A", ".", "a">>, <<"a", ".", "A">>,
              <<"0", "0", "1">>, <<"a", "0", "1">>, <<"A", "1", "0">>}
SomeEntries == {[name |-> n, dir |-> n[1] = "a", size |-> Len(n) % 2] :
                n \in ShortNames \cup LongNames}
Order == INSTANCE EntryOrder WITH
    Codes <- Code, Lowered <- Folded, Digits <- {"0", "1"},
    Entries <- SomeEntries, key <- s1, reverse <- s2, directoriesFirst <- s3,
    left <- s4, right <- s5

(* Three names, one of them hidden; the second filter ranks them otherwise *)
(* than the first.                                                         *)
Filters == {"", "s", "sr"}
Scores == [t \in Filters |->
             CASE t = ""   -> [n \in {"a", "b", "c"} |-> 1]
               [] t = "s"  -> [n \in {"a", "b", "c"} |-> IF n = "b" THEN 2 ELSE 1]
               [] t = "sr" -> [n \in {"a", "b", "c"} |-> CASE n = "a" -> 0 [] n = "b" -> 1
                                                           [] n = "c" -> 2]]
Ranks == [n \in {"a", "b", "c"} |-> CASE n = "a" -> 1 [] n = "b" -> 2 [] n = "c" -> 3]
Rows == INSTANCE ListOrder WITH
    Names <- {"a", "b", "c"}, Hidden <- {"a"}, Texts <- Filters, NoText <- "",
    Score <- Scores, NameRank <- Ranks, Sizes <- {0, 1}, source <- s1,
    rows <- s2, filterText <- s3, fuzzy <- s4, showHidden <- s5,
    sortKey <- s6, reverseSort <- s7, rescored <- s8, scanning <- s9,
    bar <- s10, barText <- s11, header <- s12, placeholder <- s13,
    unseen <- s14

(* Every query of two characters against every candidate of five.          *)
Characters == {"a", "b", "B", "-"}
CaseFold == [x \in Characters |-> IF x = "B" THEN "b" ELSE x]
Fuzzy == INSTANCE FuzzyMatch WITH
    Alphabet <- Characters, Fold <- CaseFold, Upper <- {"B"},
    WordSeparators <- {"-"}, PathSeparators <- {"/"}, MaxQuery <- 2,
    MaxCandidate <- 5, query <- s1, candidate <- s2

(* A folder of four files, a row high, and one of a single file.           *)
FilesIn == [f \in {"a", "b"} |-> IF f = "a" THEN 1..4 ELSE {5}]
View == INSTANCE ThumbnailWindow WITH
    FilesIn <- FilesIn, Directories <- {2}, Pictures <- {1, 4}, Broken <- {4},
    Height <- 1, Overshoot <- 1, MaxChanges <- 1, folder <- s1, rows <- s2,
    scanning <- s3, top <- s4, mode <- s5, enabled <- s6, window <- s7,
    size <- s8, cache <- s9, made <- s10, failed <- s11, changes <- s12,
    gone <- s13

(* Keys of every sort, with and without modifiers, in bindings of up to    *)
(* two chords.                                                             *)
Key(name, text) == [key |-> name, text |-> text]
SomeKeys ==
    [k \in {"j", ",", "/", "num /", "1", "Tab", "Space", "F2", "Esc", "Ctrl", "Home Page"} |->
       CASE k = "j"     -> <<Key("J", "j"), Key("J", "J")>>
         [] k = ","     -> <<Key(",", ","), Key("<", "<")>>
         [] k = "/"     -> <<Key("/", "/"), Key("?", "?")>>
         [] k = "num /" -> <<Key("/", "/"), Key("/", "/")>>
         [] k = "1"     -> <<Key("1", "1"), Key("!", "!")>>
         [] k = "Tab"   -> <<Key("Tab", ""), Key("Backtab", "")>>
         [] k = "Space" -> <<Key("Space", " "), Key("Space", " ")>>
         [] OTHER       -> <<Key(k, ""), Key(k, "")>>]
KeyNames == {"J", "<", "/", "?", "1", "!", "Tab", "Backtab", "Space", "F2", "Esc", "Home Page", "Home"}
NamedKeys == [n \in KeyNames \cup {"j"} |-> IF n = "j" THEN "J" ELSE n]
TwoWords == [w \in {"Home Page"} |-> <<"Home", "Page">>]
Spelling == INSTANCE Chords WITH
    Keyboard <- SomeKeys, Keypad <- {"num /"}, ModifierKeys <- {"Ctrl"},
    Punctuation <- {",", "<", "/", "?", "!"}, Letters <- {"j"},
    Characters <- {"j", "J", ",", "<", "/", "?", "1", "!"},
    KeyOf <- NamedKeys, Words <- TwoWords,
    Held <- {{}, {"Shift"}, {"Ctrl"}, {"Ctrl", "Shift"}, {"Alt", "Shift"}, {"Meta"}},
    MaxChords <- 2, meant <- s1, recorded <- s2, bound <- s3

(* Three files renamed at once beside a fourth: swaps, cycles and names    *)
(* that are refused.                                                       *)
File(n) == [name |-> n]
Rename == INSTANCE BulkRename WITH
    Names <- {File("a"), File("b"), File("c")}, Others <- {File("d")},
    Unusable <- File("/"), MaxTemporaries <- 3, phase <- s1, directory <- s2,
    existing <- s3, asked <- s4, pending <- s5, occupied <- s6, steps <- s7,
    completed <- s8, disturbed <- s9

(* Two files copied or cut into a folder that has a third, and a clipboard *)
(* others use.                                                             *)
Home == [f \in {"a", "b", "t"} |-> IF f = "t" THEN "dst" ELSE "src"]
Copies == INSTANCE CopyList WITH
    Folders <- {"src", "dst"}, Files <- {"a", "b", "t"}, FolderOf <- Home,
    Foreign <- {"x"}, focus <- s1, cursor <- s2, marked <- s3, pending <- s4,
    isCut <- s5, pastedSinceCopy <- s6, copySource <- s7, clipboard <- s8,
    transfer <- s9, meant <- s10

(* A file and an empty folder, three formats, one of which this build      *)
(* cannot write.                                                           *)
Formats == <<"zip", "tgz", "7z">>
Pack == INSTANCE Compress WITH
    Items <- {"p", "q"}, EmptyFolders <- {"q"}, Formats <- Formats,
    Writable <- {"zip", "tgz"}, Stem <- "stem", stage <- s1, selected <- s2,
    name <- s3, format <- s4, destination <- s5, readable <- s6,
    collected <- s7, unwritten <- s8, partial <- s9, disk <- s10,
    errors <- s11, cancelled <- s12, told <- s13

(* Archives with one folder at the top, with several entries, and with one *)
(* that would escape.                                                      *)
TopOf == [e \in {"d/a", "d/b", "f", "../x"} |-> CASE e = "f" -> "f" [] e = "../x" -> ".."
                                                   [] OTHER -> "d"]
Archives == {{}, {"d/a", "d/b"}, {"d/a", "f"}, {"f"}, {"d/a", "../x"}}
Unpack == INSTANCE Extract WITH
    Entries <- {"d/a", "d/b", "f", "../x"}, Top <- TopOf, LooseFiles <- {"f"},
    Escaping <- {"../x"}, Contents <- Archives, MaxSwaps <- 2, stage <- s1,
    archive <- s2, encrypted <- s3, root <- s4, reading <- s5, written <- s6,
    cancelled <- s7, told <- s8, swaps <- s9

(* A media and an image job, one of whose destinations is there already.   *)
MediaNames == {"a.mov", "a.mp4", "a (2).mp4", "b.gif", "b.jpg", "b (2).jpg"}
JobKinds == <<"media", "image">>
Selections == <<{"a.mov"}, {"b.gif", "b.jpg"}>>
JpegsSoFar == <<{}, {"b.jpg"}>>
ConvertedTo == <<[n \in MediaNames |-> "a.mp4"], [n \in MediaNames |-> "b.jpg"]>>
SecondName == [n \in MediaNames |-> IF n = "b.jpg" THEN "b (2).jpg" ELSE "a (2).mp4"]
Convert == INSTANCE Conversions WITH
    Jobs <- {1, 2}, KindOf <- JobKinds, Selection <- Selections,
    InFormat <- JpegsSoFar, Names <- MediaNames, Converted <- ConvertedTo,
    Unique <- SecondName, MaxTouches <- 1, disk <- s1, partial <- s2,
    complete <- s3, stage <- s4, todo <- s5, source <- s6, destination <- s7,
    agreed <- s8, cancelled <- s9, touched <- s10

(* Three launches of a program with up to three panels.                    *)
AsItIs == [f \in {"h", "a"} |-> f]
FolderOf == [x \in {"h", "a", "f"} |-> IF x = "f" THEN "a" ELSE "h"]
Session == INSTANCE PanelSession WITH
    Folders <- {"h", "a"}, ParentOf <- FolderOf, Home <- "h",
    Trimmed <- AsItIs, MaxPanels <- 3, MaxLaunches <- 3, MaxMoves <- 2,
    exists <- s1, file <- s2, left <- s3, mode <- s4, panels <- s5,
    focused <- s6, slot <- s7, narrow <- s8, compact <- s9, painted <- s10,
    tasks <- s11, turns <- s12, restoring <- s13, untouched <- s14,
    moves <- s15, launches <- s16

(* The preview in each of its places.                                      *)
Dock == INSTANCE QuickLookDock WITH
    Configured <- {"float", "left", "full"}, dock <- s1, before <- s2,
    resolved <- s3, persisted <- s4, setting <- s5, built <- s6, opened <- s7,
    place <- s8, visible <- s9, shown <- s10, panels <- s11

(* The configuration files, changed three times.                           *)
ThemeTexts == {[name |-> "light", follow |-> FALSE, accent |-> "red"],
               [name |-> "", follow |-> TRUE, accent |-> "not a colour"],
               [name |-> "no such theme", follow |-> FALSE, accent |-> ""],
               [name |-> "not toml", follow |-> FALSE, accent |-> ""]}
Config == INSTANCE ConfigReload WITH
    MaxEdits <- 3, MaxFlips <- 1, Texts <- ThemeTexts, folder <- s1,
    disk <- s2, text <- s3, mine <- s4, edits <- s5, flips <- s6,
    watched <- s7, watching <- s8, within <- s9, notes <- s10, pending <- s11,
    debounce <- s12, inUse <- s13, shown <- s14, desktop <- s15,
    follows <- s16

(* A file of up to five lines, with a table for the key, without, and      *)
(* twice.                                                                  *)
Toml == INSTANCE TomlEdit WITH
    Tables <- {"general", "panels"}, Keys <- {"a"}, Values <- {"1", "2"},
    MaxLines <- 5, text <- s1, made <- s2

(* Three actions and three chords; three rows, one of which reads less     *)
(* than the file may say.                                                  *)
ActionIds == <<"copy", "open_panefile_prompt", "rename">>
DefaultChords ==
    [lc \in {"global", "normal", "selection"} \X {"j", "k", "l"} |->
        CASE lc = <<"global", "k">> -> "open_panefile_prompt"
          [] lc \in {<<"normal", "j">>, <<"normal", "l">>, <<"global", "j">>} -> "copy"
          [] lc = <<"selection", "l">> -> "rename"
          [] OTHER -> "none"]
RowNames == {"follow_system", "name", "max_count"}
RowChoices == [r \in RowNames |-> CASE r = "name" -> {"nord", "dracula"}
                                    [] r = "max_count" -> {"1", "10"}
                                    [] OTHER -> {"true", "false"}]
RowReads == [r \in RowNames |->
               [t \in RowChoices[r] \cup (IF r = "max_count" THEN {"500"} ELSE {}) |->
                  IF t = "500" THEN "10" ELSE t]]
RowFallbacks == [r \in RowNames |-> CASE r = "name" -> "nord" [] r = "max_count" -> "10"
                                      [] OTHER -> "false"]
Prefs == INSTANCE Settings WITH
    Ids <- ActionIds, Chords <- {"j", "k", "l"}, Defaults <- DefaultChords,
    Choices <- RowChoices, Reads <- RowReads, Fallbacks <- RowFallbacks,
    Nonsense <- "nonsense", MaxEdits <- 1, MaxChanges <- 2, hotkeys <- s1,
    keymap <- s2, rows <- s3, open <- s4, shown <- s5, recording <- s6,
    pending <- s7, shortcut <- s8, saved <- s9, outside <- s10, raced <- s11,
    edits <- s12, changes <- s13

(* Two panels, two folders and two launches.                               *)
Memory == INSTANCE FolderMemory WITH
    Folders <- {"a", "b"}, Panels <- {1, 2}, Choices <- {"x", "y"},
    MaxSettings <- 2, MaxLaunches <- 2, kind <- s1, configured <- s2,
    file <- s3, memory <- s4, loaded <- s5, folder <- s6, default <- s7,
    shown <- s8, chosen <- s9, settings <- s10, launches <- s11

(* A sidebar of up to two sections of two entries, with one built-in place *)
(* that may have no folder.                                                *)
OneBuiltin == <<"music">>
MusicAt == [k \in {"music"} |-> {"", "/x"}]
Layout == INSTANCE SidebarPlaces WITH
    Builtins <- OneBuiltin, Paths <- {"/x"}, Locations <- MusicAt,
    NoFolder <- "", Ids <- {"i", "j", "k"}, Titles <- {"Pinned"},
    Favourites <- "Fav", Pinned <- "Pinned", MaxSections <- 2,
    MaxEntries <- 2, MaxEdits <- 1, layout <- s1, folderOf <- s2, file <- s3,
    asking <- s4, kept <- s5, landed <- s6, edits <- s7

(* One drive and two places, one of them on it.                            *)
OnDrive == [p \in {"home", "photos"} |-> IF p = "photos" THEN "u" ELSE "none"]
Drives == INSTANCE SidebarVolumes WITH
    Volumes <- {"u"}, Places <- {"home", "photos"}, DriveOf <- OnDrive,
    MaxChanges <- 2, MaxCalls <- 2, plugged <- s1, mounted <- s2,
    started <- s3, calls <- s4, messages <- s5, known <- s6, mounting <- s7,
    outside <- s8, changes <- s9, places <- s10, shown <- s11, drawn <- s12,
    candidate <- s13, drag <- s14

(* A wastebasket that changes four times.                                  *)
Waste == INSTANCE WastebasketCount WITH
    MaxChanges <- 4, content <- s1, notified <- s2, timer <- s3,
    generation <- s4, queue <- s5, walking <- s6, posts <- s7, summary <- s8

(* Three folders, one below another, three steps.                          *)
StartAt == 1 :> <<"a">> @@ 2 :> <<"b">> @@ 3 :> <<"a", "b">>
Icons == INSTANCE FolderIcons WITH
    Folders <- {1, 2, 3}, Start <- StartAt, Names <- {"a", "b", "c"},
    Images <- {"i", "j"}, Emblems <- {"e"}, MaxSteps <- 3, at <- s1,
    want <- s2, loaded <- s3, icons <- s4, images <- s5, json <- s6,
    masks <- s7, damaged <- s8, unsaved <- s9, astray <- s10, undo <- s11,
    steps <- s12

(* A picker with a strip and a grid, on folders with and without a glyph   *)
(* of their own.                                                           *)
Glyph(name) == <<name, "icon">>
Presets == <<Glyph("p"), Glyph("q")>>
Glyphs == <<Glyph("h"), Glyph("i"), Glyph("k")>>
Unclear == {[of |-> "blank", inverted |-> FALSE], [of |-> "blank", inverted |-> TRUE],
            [of |-> "full", inverted |-> TRUE]}
Chosen == "d" :> Glyph("default") @@ "e" :> <<"old", "image">> @@ "g" :> Glyph("i")
Picker == INSTANCE FolderIconPicker WITH
    Presets <- Presets, Grid <- Glyphs, Pictures <- {"old", "full", "blank"},
    Shapeless <- Unclear, Columns <- 2, Folder <- Chosen, folder <- s1,
    query <- s2, source <- s3, inverted <- s4, pasteGlyph <- s5, strip <- s6,
    grid <- s7, inStrip <- s8, row <- s9, preview <- s10

-----------------------------------------------------------------------------
Init ==
    /\ which \in Machines
    /\ \/ which = "window" /\ Window!Init /\ Empty4
       \/ which = "finder" /\ Find!Init /\ Empty12
       \/ which = "preview" /\ Look!Init /\ Empty16
       \/ which = "pages" /\ Page!Init /\ Empty22
       \/ which = "keys" /\ Typing!Init /\ Empty6
       \/ which = "questions" /\ Ask!Init /\ Empty12
       \/ which = "launch" /\ Launch!Init /\ Empty11
       \/ which = "offer" /\ Offer!Init
       \/ which = "mime" /\ Mime!Init /\ Empty7
       \/ which = "selection" /\ Pointing!Init /\ Empty11
       \/ which = "thumbs" /\ Thumbs!Init /\ Empty11
       \/ which = "listing" /\ Listing!Init /\ Empty18
       \/ which = "visits" /\ Visits!Init /\ Empty18
       \/ which = "history" /\ History!Init /\ Empty12
       \/ which = "order" /\ Order!Init /\ Empty5
       \/ which = "rows" /\ Rows!Init /\ Empty14
       \/ which = "fuzzy" /\ Fuzzy!Init /\ Empty2
       \/ which = "view" /\ View!Init /\ Empty13
       \/ which = "chords" /\ Spelling!Init /\ Empty3
       \/ which = "rename" /\ Rename!Init /\ Empty9
       \/ which = "copies" /\ Copies!Init /\ Empty10
       \/ which = "compress" /\ Pack!Init /\ Empty13
       \/ which = "extract" /\ Unpack!Init /\ Empty9
       \/ which = "convert" /\ Convert!Init /\ Empty10
       \/ which = "session" /\ Session!Init /\ Empty16
       \/ which = "dock" /\ Dock!Init /\ Empty11
       \/ which = "config" /\ Config!Init /\ Empty16
       \/ which = "toml" /\ Toml!Init /\ Empty2
       \/ which = "settings" /\ Prefs!Init /\ Empty13
       \/ which = "memory" /\ Memory!Init /\ Empty11
       \/ which = "places" /\ Layout!Init /\ Empty7
       \/ which = "volumes" /\ Drives!Init /\ Empty14
       \/ which = "waste" /\ Waste!Init /\ Empty8
       \/ which = "icons" /\ Icons!Init /\ Empty12
       \/ which = "picker" /\ Picker!Init /\ Empty10

Next ==
    \/ which = "window" /\ Window!Next /\ UNCHANGED <<which, After4>>
    \/ which = "finder" /\ Find!Next /\ UNCHANGED <<which, After12>>
    \/ which = "preview" /\ Look!Next /\ UNCHANGED <<which, After16>>
    \/ which = "pages" /\ Page!Next /\ UNCHANGED <<which, After22>>
    \/ which = "keys" /\ Typing!Next /\ UNCHANGED <<which, After6>>
    \/ which = "questions" /\ Ask!Next /\ UNCHANGED <<which, After12>>
    \/ which = "launch" /\ Launch!Next /\ UNCHANGED <<which, After11>>
    \/ which = "offer" /\ Offer!Next /\ UNCHANGED which
    \/ which = "mime" /\ Mime!Next /\ UNCHANGED <<which, After7>>
    \/ which = "selection" /\ Pointing!Next /\ UNCHANGED <<which, After11>>
    \/ which = "thumbs" /\ Thumbs!Next /\ UNCHANGED <<which, After11>>
    \/ which = "listing" /\ Listing!Next /\ UNCHANGED <<which, After18>>
    \/ which = "visits" /\ Visits!Next /\ UNCHANGED <<which, After18>>
    \/ which = "history" /\ History!Next /\ UNCHANGED <<which, After12>>
    \/ which = "order" /\ Order!Next /\ UNCHANGED <<which, After5>>
    \/ which = "rows" /\ Rows!Next /\ UNCHANGED <<which, After14>>
    \/ which = "fuzzy" /\ Fuzzy!Next /\ UNCHANGED <<which, After2>>
    \/ which = "view" /\ View!Next /\ UNCHANGED <<which, After13>>
    \/ which = "chords" /\ Spelling!Next /\ UNCHANGED <<which, After3>>
    \/ which = "rename" /\ Rename!Next /\ UNCHANGED <<which, After9>>
    \/ which = "copies" /\ Copies!Next /\ UNCHANGED <<which, After10>>
    \/ which = "compress" /\ Pack!Next /\ UNCHANGED <<which, After13>>
    \/ which = "extract" /\ Unpack!Next /\ UNCHANGED <<which, After9>>
    \/ which = "convert" /\ Convert!Next /\ UNCHANGED <<which, After10>>
    \/ which = "session" /\ Session!Next /\ UNCHANGED <<which, After16>>
    \/ which = "dock" /\ Dock!Next /\ UNCHANGED <<which, After11>>
    \/ which = "config" /\ Config!Next /\ UNCHANGED <<which, After16>>
    \/ which = "toml" /\ Toml!Next /\ UNCHANGED <<which, After2>>
    \/ which = "settings" /\ Prefs!Next /\ UNCHANGED <<which, After13>>
    \/ which = "memory" /\ Memory!Next /\ UNCHANGED <<which, After11>>
    \/ which = "places" /\ Layout!Next /\ UNCHANGED <<which, After7>>
    \/ which = "volumes" /\ Drives!Next /\ UNCHANGED <<which, After14>>
    \/ which = "waste" /\ Waste!Next /\ UNCHANGED <<which, After8>>
    \/ which = "icons" /\ Icons!Next /\ UNCHANGED <<which, After12>>
    \/ which = "picker" /\ Picker!Next /\ UNCHANGED <<which, After10>>

ASSUME ListingsAssumption ==
    /\ Listing!ListingAssumption /\ Visits!ListingAssumption
    /\ History!Tree

Spec == Init /\ [][Next]_pool

(* A process that can take a step of its launch takes it in the end. *)
Launching(p) == which = "launch" /\ Launch!Step(p) /\ UNCHANGED <<which, After11>>
FairSpec == Spec /\ \A p \in Launched : WF_pool(Launching(p))

-----------------------------------------------------------------------------
(***************************************************************************)
(* What each module promises of its machine; the module says why.          *)
(***************************************************************************)

(* However a burst of events is coalesced, the delta leaves a listing with *)
(* the names the directory has, looks up what has changed again, and, when *)
(* it asks for a rescan and names deletions, names all there were          *)
(* (WatchCoalescer.cpp, DirectoryModel.cpp).                               *)
BurstsAreTold ==
    which = "window" => /\ Window!TypeOK /\ Window!WindowInv
                        /\ Window!DeltaIsExact /\ Window!ChangesAreSeen /\ Window!EchoTellsAll

(* Once nothing is under way a panel shows what its directory holds,       *)
(* through navigation, superseded scans, bursts, overflows and deletions   *)
(* that succeed or fail (DirectoryModel.cpp).                              *)
SettledIsExact ==
    /\ which = "listing" => Listing!SettledIsExact /\ Listing!ExactInv
    /\ which = "visits" => Visits!SettledIsExact /\ Visits!ExactInv

(* Rows of files being deleted stay away until the job is over and no      *)
(* longer, and a panel that says it is scanning has a scan to wait for.    *)
DeletionsAreExact ==
    /\ which = "listing" => Listing!TypeOK /\ Listing!ListingInv
                            /\ Listing!DeletedStayHidden /\ Listing!RemovalsAreReleased
    /\ which = "visits" => Visits!TypeOK /\ Visits!ListingInv /\ Visits!ScansAreUnderWay

(* No scan, delta or rescan drops the row of a file that stayed where it   *)
(* was.                                                                    *)
RowsOfFilesStay == [][which = "listing" => Listing!RowsOfFilesStay]_pool

(* Back and forward walk one trail of folders: the two stacks of a panel   *)
(* implement BrowserHistory (PanelHistory.cpp).                            *)
WalksOneTrail ==
    /\ which = "history" => History!Trail!Init
    /\ [][which = "history" => History!Trail!Next \/ UNCHANGED History!Trail!history]_pool

(* The cursor is where the user expects it: after going up on the folder   *)
(* that was left, and while the pointer is down a drag, a click or a       *)
(* release acts on the row that was pressed, whichever rows come and go    *)
(* meanwhile (PanelHistory.cpp, FilePanel.cpp).                            *)
CursorIsWhereItShould ==
    /\ which = "history" => History!TypeOK /\ History!CursorInv /\ History!CursorOnTheWayUp
    /\ which = "selection" => /\ Pointing!TypeOK /\ Pointing!PointerInv
                            /\ Pointing!PointerActsOnWhatItShows

(* The rows are those that pass the filters, in an order that is one, and  *)
(* the header and the words in an empty list say so; a fuzzy match marks   *)
(* characters that match; and the rows in view have a thumbnail or wait    *)
(* for one (FileListModel.cpp, FilePanel.cpp, FuzzyMatcher.cpp,            *)
(* DirectoryModel.cpp).                                                    *)
RowsInOrder ==
    /\ which = "order" => Order!OrderIsStrict
    /\ which = "rows" => Rows!RowsInOrder /\ Rows!PanelSaysWhatIsThere
    /\ which = "fuzzy" => Fuzzy!MatchesAreReal
    /\ which = "view" => View!TypeOK /\ View!ViewIsServed

(* Thumbnails are of the files they stand for as they are, and whoever     *)
(* waits for one is served (ThumbnailCache.cpp).                           *)
PicturesAreCurrent ==
    which = "thumbs" => /\ Thumbs!TypeOK /\ Thumbs!TaskInv /\ Thumbs!TimesInv
                        /\ Thumbs!PicturesAreCurrent /\ Thumbs!WaitingIsServed

(* What a search or a preview shows is of what was asked for last, however *)
(* late the answers to earlier questions arrive, and no page of a preview  *)
(* stays behind for another file (RecursiveFinder.cpp, QuickLookLoader.cpp, *)
(* QuickLookView.cpp, PdfPlugin.cpp).                                      *)
ResultsAreOfTheQuestion ==
    /\ which = "finder" => Find!TypeOK /\ Find!WalkInv /\ Find!SearchInv /\ Find!ResultsAreOfTheQuery
    /\ which = "preview" => /\ Look!TypeOK /\ Look!LoaderInv /\ Look!AgesInv
                          /\ Look!ShownInv /\ Look!PreviewIsOfTheFile
    /\ which = "pages" => /\ Page!TypeOK /\ Page!FrontInv /\ Page!ImageInv
                          /\ Page!TextInv /\ Page!JobsInv /\ Page!PdfInv
                          /\ Page!PagesAreOfTheFile

(* An answer is to the question on screen and acts on the files and the    *)
(* folder it was asked about; nothing is destroyed that was not agreed to  *)
(* twice; and a key sequence half typed ends (Modal.cpp,                   *)
(* FileOperations.cpp, KeyDispatcher.cpp).                                 *)
AnswersAreToTheQuestion ==
    /\ which = "questions" => /\ Ask!TypeOK /\ Ask!ScreenInv /\ Ask!ConfirmInv /\ Ask!DropInv
                              /\ Ask!AnswersAreToTheQuestion /\ Ask!DestroyedIsAgreedTwice
    /\ which = "keys" => Typing!TypeOK /\ Typing!SequenceEnds

(* A confirmation takes Escape as its dismissal and Return as its          *)
(* confirmation: "Esc always dismisses, Enter always confirms. Handled in  *)
(* the base so that no subclass can forget" (ui/modals/Modal.cpp).         *)
KeysReachTheQuestion == [][which = "questions" => Ask!KeysReachTheQuestion]_pool

(* No request of a launch is lost, whoever crashes (SingleInstance.cpp).   *)
NoRequestLost == which = "launch" => /\ Launch!TypeOK /\ Launch!LaunchInv
                                      /\ Launch!NoRequestLost

(* A launch that is asked for something opens it or has it opened, or is   *)
(* killed: none waits forever for an instance that is gone.                *)
LaunchesEnd ==
    \A p \in Launched :
        (which = "launch" /\ Launch!Asked(p)) ~> (which = "launch" /\ Launch!Answered(p))

(* However files are saved, replaced and removed, the program ends up with *)
(* what they say, a key that is written there is the key that is pressed,  *)
(* and the palette's shortcut opens the palette (ConfigWatcher.cpp,        *)
(* Application.cpp, Chord.cpp, SettingsWindow.cpp).                        *)
EditsAreRead ==
    /\ which = "config" => Config!TypeOK /\ Config!EditsAreRead /\ Config!ThemeIsTheFiles
    /\ which = "settings" => Prefs!PaletteAnswers
    /\ which = "chords" => Spelling!KeysMeanWhatIsWritten

(* What is written is what the user meant and costs nothing else: one      *)
(* value of a file, the rows that were turned, and a folder's view comes   *)
(* back as it was chosen (TomlWriter.cpp, SettingsWindow.cpp,              *)
(* FolderSortMemory.cpp).                                                  *)
WritesAreTheUsers ==
    [][/\ which = "toml" => Toml!OneValueChanges
       /\ which = "settings" => Prefs!WritesAreTheUsers
       /\ which = "memory" => Memory!ViewsComeBack]_pool

(* Files end where they were asked to and whole: those copied or cut, those *)
(* renamed at once, packed, unpacked or converted (FileOperations.cpp,      *)
(* RenamePlan.cpp, ArchiveJob.cpp, ExtractJob.cpp, MediaJob.cpp).           *)
FilesGoAsAsked ==
    /\ which = "copies" => Copies!FilesGoAsAsked
    /\ which = "rename" => Rename!TypeOK /\ Rename!RenamesAsAsked
    /\ which = "compress" => Pack!ArchivesAreComplete
    /\ which = "extract" => Unpack!UnpacksBelowTheDestination
    /\ which = "convert" => Convert!ConversionsAreWhole

(* The sidebar shows each place once and where it was put, the drives as   *)
(* they are and the wastebasket as it is (Sidebar.cpp, SidebarLayout.cpp,  *)
(* VolumeMonitor_linux.cpp, TrashMonitor.cpp).                             *)
SidebarIsTrue ==
    /\ which = "places" =>
          Layout!EachPlaceOnce /\ Layout!PlacesAreKept /\ Layout!DropsLandInTheGap
    /\ which = "volumes" =>
          Drives!RowsAreTrue /\ Drives!MountsAreUnderWay /\ Drives!PressIsOnALiveRow
    /\ which = "waste" => Waste!SummaryIsCurrent

(* Making Panefile the default works wherever the defaults stand, it is    *)
(* offered to those who want it, and it has the name on the bus that it    *)
(* says it has (XdgMimeApps.cpp, DefaultFileManager_linux.cpp,             *)
(* DefaultFileManagerOffer.cpp).                                           *)
MakingItDefaultWorks ==
    /\ which = "offer" => /\ Offer!TypeOK /\ Offer!WorkInv /\ Offer!BusInv
                          /\ Offer!OffersAreWanted /\ Offer!NameIsAsTheBusSays
    /\ which = "mime" => Mime!TypeOK /\ Mime!MakingItDefaultWorks

(* What the user chose stays chosen: the folders' icons, the glyph the     *)
(* picker shows, the place of the preview with the panels it hid, and the  *)
(* panels of the last session (FolderIconStore.cpp, FolderIconModal.cpp,   *)
(* MainWindow.cpp, Session.cpp).                                           *)
ChoicesAreKept ==
    /\ which = "session" => Session!SessionComesBack /\ Session!StripIsUsable
    /\ which = "icons" => Icons!MasksAreThere /\ Icons!IconsFollow
    /\ which = "picker" => Picker!PickIsWhatIsShown
    /\ which = "dock" => Dock!TypeOK /\ Dock!PanelsComeBack /\ Dock!ChoiceIsKept

-----------------------------------------------------------------------------
(***************************************************************************)
(* Proofs.  A behaviour looks at one machine from its first state to its   *)
(* last and is a behaviour of that machine's module, so that a theorem of  *)
(* the module says what the pool does.                                     *)
(***************************************************************************)

LookingAt(machine) == which = machine

(* A behaviour that looks at a view is one of the machine's module. *)
LEMMA ViewsRun ==
    Spec =>
    /\ ([]LookingAt("window") /\ Window!Spec) \/ []~LookingAt("window")
    /\ ([]LookingAt("finder") /\ Find!Spec) \/ []~LookingAt("finder")
    /\ ([]LookingAt("preview") /\ Look!Spec) \/ []~LookingAt("preview")
    /\ ([]LookingAt("pages") /\ Page!Spec) \/ []~LookingAt("pages")
    /\ ([]LookingAt("selection") /\ Pointing!Spec) \/ []~LookingAt("selection")
    /\ ([]LookingAt("thumbs") /\ Thumbs!Spec) \/ []~LookingAt("thumbs")
    /\ ([]LookingAt("listing") /\ Listing!Spec) \/ []~LookingAt("listing")
    /\ ([]LookingAt("visits") /\ Visits!Spec) \/ []~LookingAt("visits")
    /\ ([]LookingAt("history") /\ History!Spec) \/ []~LookingAt("history")
  <1>1. Init =>
        /\ LookingAt("window") => Window!Init
        /\ LookingAt("finder") => Find!Init
        /\ LookingAt("preview") => Look!Init
        /\ LookingAt("pages") => Page!Init
        /\ LookingAt("selection") => Pointing!Init
        /\ LookingAt("thumbs") => Thumbs!Init
        /\ LookingAt("listing") => Listing!Init
        /\ LookingAt("visits") => Visits!Init
        /\ LookingAt("history") => History!Init
    BY DEF Init, LookingAt
  <1>2. [Next]_pool =>
        /\ LookingAt("window") => LookingAt("window")' /\ [Window!Next]_(Window!vars)
        /\ LookingAt("finder") => LookingAt("finder")' /\ [Find!Next]_(Find!vars)
        /\ LookingAt("preview") => LookingAt("preview")' /\ [Look!Next]_(Look!vars)
        /\ LookingAt("pages") => LookingAt("pages")' /\ [Page!Next]_(Page!vars)
        /\ LookingAt("selection") => LookingAt("selection")' /\ [Pointing!Next]_(Pointing!vars)
        /\ LookingAt("thumbs") => LookingAt("thumbs")' /\ [Thumbs!Next]_(Thumbs!vars)
        /\ LookingAt("listing") => LookingAt("listing")' /\ [Listing!Next]_(Listing!vars)
        /\ LookingAt("visits") => LookingAt("visits")' /\ [Visits!Next]_(Visits!vars)
        /\ LookingAt("history") => LookingAt("history")' /\ [History!Next]_(History!vars)
        /\ ~LookingAt("window") => ~LookingAt("window")'
        /\ ~LookingAt("finder") => ~LookingAt("finder")'
        /\ ~LookingAt("preview") => ~LookingAt("preview")'
        /\ ~LookingAt("pages") => ~LookingAt("pages")'
        /\ ~LookingAt("selection") => ~LookingAt("selection")'
        /\ ~LookingAt("thumbs") => ~LookingAt("thumbs")'
        /\ ~LookingAt("listing") => ~LookingAt("listing")'
        /\ ~LookingAt("visits") => ~LookingAt("visits")'
        /\ ~LookingAt("history") => ~LookingAt("history")'
    BY DEF Next, pool, LookingAt, Window!vars, Find!vars, Look!vars,
           Look!disk, Look!view, Look!loader, Page!vars, Page!viewVars,
           Page!imageVars, Page!textVars, Page!pdfVars, Page!askedVars,
           Page!workVars, Pointing!vars, Thumbs!vars, Thumbs!caches,
           Thumbs!work, Listing!vars, Listing!fsVars, Listing!scanVars,
           Listing!modelVars, Listing!watchVars, Visits!vars, Visits!fsVars,
           Visits!scanVars, Visits!modelVars, Visits!watchVars, History!vars
  <1> QED BY <1>1, <1>2, PTL
          DEF Spec, Window!Spec, Find!Spec, Look!Spec, Page!Spec,
              Pointing!Spec, Thumbs!Spec, Listing!Spec, Visits!Spec,
              History!Spec

(* A behaviour that looks at the desk is one of the machine's module. *)
LEMMA DeskRun ==
    Spec =>
    /\ ([]LookingAt("keys") /\ Typing!Spec) \/ []~LookingAt("keys")
    /\ ([]LookingAt("questions") /\ Ask!Spec) \/ []~LookingAt("questions")
    /\ ([]LookingAt("launch") /\ Launch!Spec) \/ []~LookingAt("launch")
    /\ ([]LookingAt("offer") /\ Offer!Spec) \/ []~LookingAt("offer")
    /\ ([]LookingAt("mime") /\ Mime!Spec) \/ []~LookingAt("mime")
  <1>1. Init =>
        /\ LookingAt("keys") => Typing!Init
        /\ LookingAt("questions") => Ask!Init
        /\ LookingAt("launch") => Launch!Init
        /\ LookingAt("offer") => Offer!Init
        /\ LookingAt("mime") => Mime!Init
    BY DEF Init, LookingAt
  <1>2. [Next]_pool =>
        /\ LookingAt("keys") => LookingAt("keys")' /\ [Typing!Next]_(Typing!vars)
        /\ LookingAt("questions") => LookingAt("questions")' /\ [Ask!Next]_(Ask!vars)
        /\ LookingAt("launch") => LookingAt("launch")' /\ [Launch!Next]_(Launch!vars)
        /\ LookingAt("offer") => LookingAt("offer")' /\ [Offer!Next]_(Offer!vars)
        /\ LookingAt("mime") => LookingAt("mime")' /\ [Mime!Next]_(Mime!vars)
        /\ ~LookingAt("keys") => ~LookingAt("keys")'
        /\ ~LookingAt("questions") => ~LookingAt("questions")'
        /\ ~LookingAt("launch") => ~LookingAt("launch")'
        /\ ~LookingAt("offer") => ~LookingAt("offer")'
        /\ ~LookingAt("mime") => ~LookingAt("mime")'
    BY DEF Next, pool, LookingAt, Typing!vars, Typing!dispatcher, Ask!vars,
           Ask!content, Ask!history, Launch!vars, Launch!sockets,
           Launch!requests, Offer!vars, Offer!world, Offer!bus, Offer!work,
           Offer!offer, Offer!claim, Offer!context, Mime!vars
  <1> QED BY <1>1, <1>2, PTL
          DEF Spec, Typing!Spec, Ask!Spec, Launch!Spec, Offer!Spec, Mime!Spec

(* Once nothing is under way a panel shows what its directory holds: the
   theorems of DirectoryListing hold of both machines. *)
THEOREM ListingsAreExact == Spec => []SettledIsExact
  <1>1. Listing!ListingAssumption /\ Visits!ListingAssumption
    BY ListingsAssumption
  <1>2. Listing!Spec => [](Listing!SettledIsExact /\ Listing!ExactInv)
    BY <1>1, Listing!SettledAlwaysExact, Listing!ExactInvHolds, PTL
  <1>3. Visits!Spec => [](Visits!SettledIsExact /\ Visits!ExactInv)
    BY <1>1, Visits!SettledAlwaysExact, Visits!ExactInvHolds, PTL
  <1>4. /\ LookingAt("listing") => Listing!SettledIsExact /\ Listing!ExactInv
        /\ LookingAt("visits") => Visits!SettledIsExact /\ Visits!ExactInv
        => SettledIsExact
    BY DEF SettledIsExact, LookingAt
  <1> QED BY <1>2, <1>3, <1>4, ViewsRun, PTL

(* Rows of files being deleted stay away until the job is over, and a
   panel that is scanning has a scan to wait for. *)
THEOREM DeletionsAlwaysExact == Spec => []DeletionsAreExact
  <1>1. Listing!ListingAssumption /\ Visits!ListingAssumption
    BY ListingsAssumption
  <1>2. Listing!Spec => [](/\ Listing!TypeOK /\ Listing!ListingInv
                           /\ Listing!DeletedStayHidden /\ Listing!RemovalsAreReleased)
    BY <1>1, Listing!TypesHold, Listing!ListingInvHolds, Listing!DeletedAlwaysHidden,
       Listing!RemovalsAlwaysReleased, PTL
  <1>3. Visits!Spec => [](Visits!TypeOK /\ Visits!ListingInv /\ Visits!ScansAreUnderWay)
    BY <1>1, Visits!TypesHold, Visits!ListingInvHolds, Visits!ScansAlwaysUnderWay, PTL
  <1>4. /\ LookingAt("listing") => /\ Listing!TypeOK /\ Listing!ListingInv
                                   /\ Listing!DeletedStayHidden /\ Listing!RemovalsAreReleased
        /\ LookingAt("visits") => Visits!TypeOK /\ Visits!ListingInv /\ Visits!ScansAreUnderWay
        => DeletionsAreExact
    BY DEF DeletionsAreExact, LookingAt
  <1> QED BY <1>2, <1>3, <1>4, ViewsRun, PTL

(* No step drops the row of a file that stayed where it was. *)
THEOREM RowsAlwaysStay == Spec => RowsOfFilesStay
  <1>1. Listing!ListingAssumption
    BY ListingsAssumption
  <1>2. Listing!Spec => [][Listing!RowsOfFilesStay]_(Listing!vars)
    BY <1>1, Listing!RowsAlwaysStay, PTL
  <1>3. LookingAt("listing") /\ [Listing!RowsOfFilesStay]_(Listing!vars)
        => (which = "listing" => Listing!RowsOfFilesStay)
    BY DEF LookingAt, Listing!vars, Listing!fsVars, Listing!scanVars, Listing!modelVars,
           Listing!watchVars, Listing!RowsOfFilesStay
  <1>4. ~LookingAt("listing") => (which = "listing" => Listing!RowsOfFilesStay)
    BY DEF LookingAt
  <1> QED BY <1>2, <1>3, <1>4, ViewsRun, PTL DEF RowsOfFilesStay

(* The two stacks of a panel implement BrowserHistory. *)
THEOREM PanelsWalkOneTrail == Spec => WalksOneTrail
  <1>1. History!Tree
    BY ListingsAssumption
  <1>2. History!Spec => History!Trail!Init /\ [][History!Trail!Next]_(History!Trail!history)
    BY <1>1, History!OneTrail DEF History!WalksOneTrail, History!Trail!Spec
  <1>3. LookingAt("history") /\ [History!Trail!Next]_(History!Trail!history)
        => (which = "history" => History!Trail!Next \/ UNCHANGED History!Trail!history)
    OBVIOUS
  <1>4. ~LookingAt("history")
        => /\ which = "history" => History!Trail!Init
           /\ which = "history" => History!Trail!Next \/ UNCHANGED History!Trail!history
    BY DEF LookingAt
  <1> QED BY <1>2, <1>3, <1>4, ViewsRun, PTL DEF WalksOneTrail

(* No request of a launch is lost, whoever is killed. *)
THEOREM RequestsNeverLost == Spec => []NoRequestLost
  <1>1. (LookingAt("launch") => Launch!TypeOK /\ Launch!LaunchInv /\ Launch!NoRequestLost)
        => NoRequestLost
    BY DEF LookingAt, NoRequestLost
  <1> QED BY <1>1, LaunchTypesHold, LaunchesLoseNothing, DeskRun, PTL

(* The cursor is where the user expects it: after going up, and while the
   pointer is down. *)
THEOREM CursorAlwaysThere == Spec => []CursorIsWhereItShould
  <1>1. History!Tree
    BY ListingsAssumption
  <1>2. History!Spec => [](History!TypeOK /\ History!CursorInv /\ History!CursorOnTheWayUp)
    BY <1>1, History!TypesHold, History!CursorInvHolds, History!CursorComesUp, PTL
  <1>3. Pointing!Spec => [](Pointing!TypeOK /\ Pointing!PointerInv /\ Pointing!PointerActsOnWhatItShows)
    BY PointerActsAlways
  <1>4. /\ LookingAt("history") => History!TypeOK /\ History!CursorInv /\ History!CursorOnTheWayUp
        /\ LookingAt("selection") => /\ Pointing!TypeOK /\ Pointing!PointerInv
                                     /\ Pointing!PointerActsOnWhatItShows
        => CursorIsWhereItShould
    BY DEF CursorIsWhereItShould, LookingAt
  <1> QED BY <1>2, <1>3, <1>4, ViewsRun, PTL

(* Thumbnails are of the files as they are, and whoever waits is served. *)
THEOREM PicturesAlwaysCurrent == Spec => []PicturesAreCurrent
  <1>1. (LookingAt("thumbs") => /\ Thumbs!TypeOK /\ Thumbs!TaskInv /\ Thumbs!TimesInv
                                /\ Thumbs!PicturesAreCurrent /\ Thumbs!WaitingIsServed)
        => PicturesAreCurrent
    BY DEF PicturesAreCurrent, LookingAt
  <1> QED BY <1>1, ThumbnailsAreCurrent, ViewsRun, PTL

(* What a search or a preview shows is of what was asked for last. *)
THEOREM ResultsAlwaysOfTheQuestion == Spec => []ResultsAreOfTheQuestion
  <1>1. /\ LookingAt("finder") => Find!TypeOK /\ Find!WalkInv /\ Find!SearchInv /\ Find!ResultsAreOfTheQuery
        /\ LookingAt("preview") => /\ Look!TypeOK /\ Look!LoaderInv /\ Look!AgesInv
                                   /\ Look!ShownInv /\ Look!PreviewIsOfTheFile
        /\ LookingAt("pages") => /\ Page!TypeOK /\ Page!FrontInv /\ Page!ImageInv
                                 /\ Page!TextInv /\ Page!JobsInv /\ Page!PdfInv
                                 /\ Page!PagesAreOfTheFile
        => ResultsAreOfTheQuestion
    BY DEF ResultsAreOfTheQuestion, LookingAt
  <1> QED BY <1>1, FindingsAreOfTheQuery, PreviewsAreOfTheFile, PagesAreAlwaysOfTheFile,
             ViewsRun, PTL

(* The delta of a window of events tells what became of the directory. *)
THEOREM BurstsAlwaysTold == Spec => []BurstsAreTold
  <1>1. (LookingAt("window") => /\ Window!TypeOK /\ Window!WindowInv
                                /\ Window!DeltaIsExact /\ Window!ChangesAreSeen /\ Window!EchoTellsAll)
        => BurstsAreTold
    BY DEF BurstsAreTold, LookingAt
  <1> QED BY <1>1, DeltasAlwaysTell, ViewsRun, PTL

(* An answer is to the question it was given to, and a half-typed sequence
   of keys ends. *)
THEOREM AnswersAlwaysToTheQuestion == Spec => []AnswersAreToTheQuestion
  <1>1. /\ LookingAt("questions") => /\ Ask!TypeOK /\ Ask!ScreenInv /\ Ask!ConfirmInv /\ Ask!DropInv
                                     /\ Ask!AnswersAreToTheQuestion /\ Ask!DestroyedIsAgreedTwice
        /\ LookingAt("keys") => Typing!TypeOK /\ Typing!SequenceEnds
        => AnswersAreToTheQuestion
    BY DEF AnswersAreToTheQuestion, LookingAt
  <1> QED BY <1>1, AnswersAreAlwaysMeant, SequencesAlwaysEnd, DeskRun, PTL

(* Making Panefile the default works, it is offered to those who want it,
   and the name on the bus is Panefile's when it takes it to be. *)
THEOREM DefaultAlwaysWorks == Spec => []MakingItDefaultWorks
  <1>1. /\ LookingAt("offer") => /\ Offer!TypeOK /\ Offer!WorkInv /\ Offer!BusInv
                                 /\ Offer!OffersAreWanted /\ Offer!NameIsAsTheBusSays
        /\ LookingAt("mime") => Mime!TypeOK /\ Mime!MakingItDefaultWorks
        => MakingItDefaultWorks
    BY DEF MakingItDefaultWorks, LookingAt
  <1> QED BY <1>1, OffersAlwaysWanted, DefaultIsAlwaysMade, DeskRun, PTL
=============================================================================
