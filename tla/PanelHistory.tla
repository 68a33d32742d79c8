---------------------------- MODULE PanelHistory ----------------------------
(* Where one panel is, where it has been and where its cursor lands          *)
(* (ui/FilePanel.cpp, ui/CursorMemory.cpp): navigation, the two history      *)
(* stacks, the walk up from a folder that is gone, and the entry that is     *)
(* remembered for every folder while the listing arrives asynchronously.     *)
(*                                                                           *)
(* An entry is named by its own value: a file, or a folder of the tree.      *)
EXTENDS Integers, Sequences, SequencesExt, FiniteSets, TLAPS

CONSTANTS
    Folders,        \* the folders of the tree
    Files,          \* the plain files, by name
    Root,           \* the folder nothing lies above
    ParentOf,       \* [Folders \cup Files -> Folders]; the root's is itself
    NoName,         \* the empty QString
    Capacity,       \* CursorMemory::kCapacity
    MaxVisits,      \* bound: length of the trail
    MaxVanishings   \* bound: times a part of the tree disappears

VARIABLES
    there,          \* the entries that exist on disk
    path,           \* m_path
    backStack,      \* m_backStack
    forwardStack,   \* m_forwardStack
    rows,           \* the entries the view shows
    cursor,         \* the view's current index, by name
    pendingCursor,  \* m_pendingCursorName
    scanning,       \* DirectoryModel::isScanning()
    memory,         \* CursorMemory: << folder, entry >> pairs, latest first
    filtered,       \* the filter hides the plain files
    meant,          \* the entry the last navigation promised, until the user
                    \* moves the cursor
    vanishings

vars == <<there, path, backStack, forwardStack, rows, cursor, pendingCursor,
          scanning, memory, filtered, meant, vanishings>>

Entries == (Folders \cup Files) \ {Root}

Inside(folder) == {e \in there \cap Entries : ParentOf[e] = folder}

Shown(names) == IF filtered THEN names \cap Folders ELSE names

-----------------------------------------------------------------------------
(* CursorMemory: bounded, least recently used last. *)

Known(m, folder) == \E i \in DOMAIN m : m[i][1] = folder

(* m_index: where the entry of a folder is. *)
EntryFor(m, folder) == CHOOSE i \in DOMAIN m : m[i][1] = folder

Others(m, folder) == IF Known(m, folder) THEN RemoveAt(m, EntryFor(m, folder)) ELSE m

(* remember() *)
Remember(m, folder, name) ==
    LET grown == <<<<folder, name>>>> \o Others(m, folder)
    IN  IF name = NoName THEN m
        ELSE SubSeq(grown, 1, IF Len(grown) > Capacity THEN Capacity ELSE Len(grown))

(* recall(): a recall is a use. *)
RecalledMemory(m, folder) ==
    IF Known(m, folder)
    THEN <<m[EntryFor(m, folder)]>> \o Others(m, folder)
    ELSE m

Recalled(m, folder) == IF Known(m, folder) THEN m[EntryFor(m, folder)][2] ELSE NoName

-----------------------------------------------------------------------------
(* rememberCursor() *)
CursorRemembered(m) == Remember(m, path, cursor)

(* The tail of setPathInternal(), from the new m_path on: no selection, no   *)
(* filter, a fresh listing with the remembered entry pending.                *)
Arrives(folder, m, promise) ==
    /\ path' = folder
    /\ pendingCursor' = Recalled(m, folder)
    /\ memory' = RecalledMemory(m, folder)
    /\ filtered' = FALSE
    /\ rows' = {}
    /\ cursor' = NoName
    /\ scanning' = TRUE
    /\ meant' = promise

Travels(folder, m, promise) ==
    /\ Arrives(folder, m, promise)
    /\ UNCHANGED <<there, vanishings>>

(* A visit that keeps the way forward. *)
SetPathInternalSlip(folder, m, promise) ==
    /\ folder # path
    /\ Len(backStack) < MaxVisits
    /\ backStack' = Append(backStack, path)
    /\ UNCHANGED forwardStack
    /\ Travels(folder, CursorRemembered(m), promise)

(* setPathInternal(path, true): nothing when already there. *)
SetPathInternal(folder, m, promise) ==
    /\ folder # path
    /\ Len(backStack) < MaxVisits
    /\ backStack' = Append(backStack, path)
    /\ forwardStack' = <<>>
    /\ Travels(folder, CursorRemembered(m), promise)

Init ==
    /\ there = Folders \cup Files
    /\ path = Root
    /\ backStack = <<>>
    /\ forwardStack = <<>>
    /\ rows = {}
    /\ cursor = NoName
    /\ pendingCursor = NoName
    /\ scanning = TRUE
    /\ memory = <<>>
    /\ filtered = FALSE
    /\ meant = NoName
    /\ vanishings = 0

(* navigateTo(): a bookmark, a crumb, a search result; the folder may be     *)
(* gone.                                                                     *)
NavigateTo == \E f \in Folders : SetPathInternal(f, memory, NoName)

(* activateCursorItem() on a folder. *)
ActivateCursorItem ==
    /\ cursor \in Folders
    /\ SetPathInternal(cursor, memory, NoName)

(* goToParent(): the folder being left is what the cursor lands on. *)
GoToParent ==
    /\ path # Root
    /\ ParentOf[path] \in there
    /\ SetPathInternal(ParentOf[path], Remember(memory, ParentOf[path], path), path)

(* goBack() *)
GoBack ==
    /\ backStack # <<>>
    /\ backStack' = Front(backStack)
    /\ forwardStack' = Append(forwardStack, path)
    /\ Travels(Last(backStack), CursorRemembered(memory), NoName)

(* goForward() *)
GoForward ==
    /\ forwardStack # <<>>
    /\ forwardStack' = Front(forwardStack)
    /\ backStack' = Append(backStack, path)
    /\ Travels(Last(forwardStack), CursorRemembered(memory), NoName)

(* g is the nearest folder at or above f that exists: all on the way are gone. *)
NearestExisting(f, g) ==
    \E n \in 0..Cardinality(Folders) : \E up \in [0..n -> Folders] :
        /\ up[0] = f /\ up[n] = g
        /\ \A k \in 1..n : up[k - 1] \notin there /\ up[k] = ParentOf[up[k - 1]]
        /\ g \in there

(* walkUpToExistingAncestor(): without history, and even to the same folder. *)
WalkUpToExistingAncestor ==
    /\ path \notin there
    /\ \E f \in Folders : NearestExisting(path, f) /\ Travels(f, memory, NoName)
    /\ UNCHANGED <<backStack, forwardStack>>

Stays == UNCHANGED <<path, backStack, forwardStack, memory, vanishings>>

(* setCursorName() on the rows r: a name that is not there yet is pending. *)
PutCursor(r, name) ==
    IF name \in r THEN cursor' = name /\ pendingCursor' = NoName
    ELSE UNCHANGED cursor /\ pendingCursor' = name

(* restoreCursor() on the rows r, then the first row when there is no cursor *)
(* yet; which row is first is up to the sort order.                          *)
RestoreCursor(r) ==
    IF r = {} \/ (pendingCursor \notin r /\ cursor \in r)
    THEN UNCHANGED <<cursor, pendingCursor>>
    ELSE IF pendingCursor \in r THEN PutCursor(r, pendingCursor)
    ELSE /\ \E first \in r : cursor' = first
         /\ UNCHANGED pendingCursor

(* One batch of a scan reaches the model before it is finished. *)
RowsArrive ==
    /\ scanning
    /\ \E batch \in SUBSET Shown(Inside(path)) :
          ~ batch \subseteq rows /\ rows' = rows \cup batch
    /\ Stays
    /\ UNCHANGED <<there, cursor, pendingCursor, scanning, filtered, meant>>

(* onScanFinished(); a listing that fails, fails in onScanFailed() and moves *)
(* no cursor.                                                                *)
ScanEnds ==
    /\ scanning
    /\ scanning' = FALSE
    /\ IF path \in there
       THEN rows' = Shown(Inside(path)) /\ RestoreCursor(rows')
       ELSE UNCHANGED <<rows, cursor, pendingCursor>>
    /\ Stays
    /\ UNCHANGED <<there, filtered, meant>>

(* moveCursor() and its kin. *)
MoveCursor ==
    /\ \E name \in rows : cursor' = name
    /\ meant' = NoName
    /\ Stays
    /\ UNCHANGED <<there, rows, pendingCursor, scanning, filtered>>

(* setFilterText() while the filter bar is open, and clearFilter(). *)
SetFilterText ==
    /\ ~scanning
    /\ filtered' = ~filtered
    /\ rows' = IF filtered THEN Inside(path) ELSE rows \cap Folders
    /\ LET kept == IF cursor \in rows' THEN cursor ELSE NoName
       IN  IF kept = cursor THEN RestoreCursor(rows')
           ELSE IF pendingCursor \in rows' THEN PutCursor(rows', pendingCursor)
           ELSE /\ UNCHANGED pendingCursor
                /\ IF rows' = {} THEN cursor' = NoName ELSE cursor' \in rows'
    /\ meant' = NoName
    /\ Stays
    /\ UNCHANGED <<there, scanning>>

(* Another program removes an entry and all that is under it.  The watcher   *)
(* takes the row of an entry of this folder out of the listing.              *)
Vanishes ==
    /\ vanishings < MaxVanishings
    /\ vanishings' = vanishings + 1
    /\ \E e \in there \ {Root} : \E gone \in SUBSET (there \ {Root}) :
          /\ e \in gone
          /\ \A x \in there \ {e, Root} : x \in gone <=> ParentOf[x] \in gone
          /\ there' = there \ gone
          /\ rows' = rows \ gone
          /\ IF cursor \in gone
             THEN IF rows' = {} THEN cursor' = NoName ELSE cursor' \in rows'
             ELSE UNCHANGED cursor
    /\ UNCHANGED <<path, backStack, forwardStack, pendingCursor, scanning, memory,
                   filtered, meant>>

Next ==
    \/ NavigateTo
    \/ ActivateCursorItem
    \/ GoToParent
    \/ GoBack
    \/ GoForward
    \/ WalkUpToExistingAncestor
    \/ RowsArrive
    \/ ScanEnds
    \/ MoveCursor
    \/ SetFilterText
    \/ Vanishes

Spec == Init /\ [][Next]_vars

-----------------------------------------------------------------------------
(* Back and forward move along one trail of folders, which only a visit cuts *)
(* short; a walk up from a folder that is gone changes one entry of it and   *)
(* loses none.                                                               *)
Places(back, here, ahead) == back \o <<here>> \o Reverse(ahead)

Trail == INSTANCE BrowserHistory WITH
           trail <- Places(backStack, path, forwardStack),
           place <- Len(backStack) + 1

WalksOneTrail == Trail!Spec

(* After going up the cursor is on the folder that was left, as soon as the  *)
(* listing is complete and unless the user has moved the cursor meanwhile:   *)
(* whatever that folder's remembered entry was, however many folders the     *)
(* memory has had to forget, and in whatever order the rows arrived.         *)
CursorOnTheWayUp ==
    (~scanning /\ meant # NoName /\ meant \in rows) => cursor = meant

-----------------------------------------------------------------------------
(* Proofs, for any tree of folders, any files and any capacity of the memory *)
(* that holds two folders (kCapacity is 256)                                 *)

Tree ==
    /\ Root \in Folders
    /\ ParentOf \in [Folders \cup Files -> Folders]
    /\ NoName \notin Folders \cup Files
    /\ Capacity \in Nat /\ Capacity >= 2

Pairs == Folders \X Entries

(* A memory has an entry for a folder once at most. *)
IsMemory(m) ==
    /\ m \in Seq(Pairs)
    /\ \A i, j \in DOMAIN m : m[i][1] = m[j][1] => i = j

TypeOK ==
    /\ there \subseteq Folders \cup Files
    /\ path \in Folders
    /\ backStack \in Seq(Folders)
    /\ forwardStack \in Seq(Folders)
    /\ rows \subseteq Entries
    /\ cursor \in Entries \cup {NoName}
    /\ pendingCursor \in Entries \cup {NoName}
    /\ scanning \in BOOLEAN
    /\ IsMemory(memory)
    /\ filtered \in BOOLEAN
    /\ meant \in Entries \cup {NoName}
    /\ vanishings \in Nat

(* Two sequences in a row. *)
LEMMA InARow ==
    ASSUME NEW S, NEW a \in Seq(S), NEW b \in Seq(S)
    PROVE  /\ a \o b \in Seq(S)
           /\ Len(a \o b) = Len(a) + Len(b)
           /\ \A i \in 1..Len(a) : (a \o b)[i] = a[i]
           /\ \A i \in 1..Len(b) : (a \o b)[Len(a) + i] = b[i]
  OBVIOUS

(* The trail, place by place. *)
IsTrail(t, back, here, ahead) ==
    /\ t \in Seq(Folders)
    /\ Len(t) = Len(back) + 1 + Len(ahead)
    /\ \A i \in 1..Len(back) : t[i] = back[i]
    /\ t[Len(back) + 1] = here
    /\ \A i \in 1..Len(ahead) : t[Len(back) + 1 + i] = ahead[Len(ahead) - i + 1]

(* Places is such a trail. *)
LEMMA PlacesAt ==
    ASSUME NEW back \in Seq(Folders), NEW here \in Folders, NEW ahead \in Seq(Folders)
    PROVE  IsTrail(Places(back, here, ahead), back, here, ahead)
  <1> DEFINE r == Reverse(ahead)
             b == back \o <<here>>
             t == b \o r
  <1>0. Len(back) \in Nat /\ Len(ahead) \in Nat
    OBVIOUS
  <1>1. r \in Seq(Folders) /\ Len(r) = Len(ahead) /\ \A i \in 1..Len(ahead) : r[i] = ahead[Len(ahead) - i + 1]
    <2>1. r = [i \in 1..Len(ahead) |-> ahead[(Len(ahead) - i) + 1]]
      BY DEF Reverse
    <2>2. \A i \in 1..Len(ahead) : (Len(ahead) - i) + 1 \in 1..Len(ahead)
      BY <1>0
    <2> HIDE DEF r
    <2>3. r \in [1..Len(ahead) -> Folders]
      BY <2>1, <2>2
    <2> QED BY <1>0, <2>1, <2>3
  <1> HIDE DEF r
  <1>2. <<here>> \in Seq(Folders) /\ Len(<<here>>) = 1 /\ <<here>>[1] = here
    OBVIOUS
  <1>3. /\ b \in Seq(Folders) /\ Len(b) = Len(back) + 1
        /\ \A i \in 1..Len(back) : b[i] = back[i]
        /\ b[Len(back) + 1] = here
    BY <1>2, InARow
  <1> HIDE DEF b
  <1>4. /\ t \in Seq(Folders) /\ Len(t) = Len(b) + Len(r)
        /\ \A i \in 1..Len(b) : t[i] = b[i]
        /\ \A i \in 1..Len(r) : t[Len(b) + i] = r[i]
    <2>1. b \in Seq(Folders) /\ r \in Seq(Folders)
      BY <1>1, <1>3
    <2> QED BY <2>1, InARow
  <1>5. t = Places(back, here, ahead)
    BY DEF b, r, Places
  <1> HIDE DEF t
  <1>6. \A i \in 1..(Len(back) + 1) : t[i] = b[i]
    BY <1>3, <1>4
  <1>7. \A i \in 1..Len(back) : i \in 1..(Len(back) + 1)
    BY <1>0
  <1>8. Len(back) + 1 \in 1..(Len(back) + 1)
    BY <1>0
  <1>9. \A i \in 1..Len(ahead) : t[Len(back) + 1 + i] = ahead[Len(ahead) - i + 1]
    BY <1>1, <1>3, <1>4
  <1>10. Len(t) = Len(back) + 1 + Len(ahead)
    BY <1>1, <1>3, <1>4
  <1> QED BY <1>3, <1>4, <1>5, <1>6, <1>7, <1>8, <1>9, <1>10 DEF IsTrail

(* Sequences that agree everywhere are the same. *)
LEMMA SameSequence ==
    ASSUME NEW S, NEW a \in Seq(S), NEW b \in Seq(S), Len(a) = Len(b),
           \A i \in 1..Len(a) : a[i] = b[i]
    PROVE  a = b
  OBVIOUS

(* All of a sequence but the last. *)
LEMMA FrontIs ==
    ASSUME NEW S, NEW s \in Seq(S), s # <<>>
    PROVE  /\ Front(s) \in Seq(S) /\ Len(Front(s)) = Len(s) - 1
           /\ \A i \in 1..(Len(s) - 1) : Front(s)[i] = s[i]
           /\ Last(s) \in S /\ Last(s) = s[Len(s)]
           /\ Len(s) \in Nat /\ Len(s) >= 1
  <1>1. Len(s) \in Nat /\ Len(s) >= 1
    OBVIOUS
  <1> DEFINE e == Len(s) - 1
  <1>2. e \in Nat /\ e <= Len(s)
    BY <1>1
  <1> HIDE DEF e
  <1>3. SubSeq(s, 1, e) \in Seq(S) /\ Len(SubSeq(s, 1, e)) = e /\ \A i \in 1..e : SubSeq(s, 1, e)[i] = s[i]
    BY <1>1, <1>2
  <1>4. Last(s) \in S /\ Last(s) = s[Len(s)]
    BY <1>1 DEF Last
  <1> QED BY <1>1, <1>3, <1>4 DEF Front, e

(* A visit cuts the trail behind the panel's place ... *)
LEMMA Visited ==
    ASSUME NEW back \in Seq(Folders), NEW here \in Folders, NEW ahead \in Seq(Folders),
           NEW folder \in Folders
    PROVE  Places(Append(back, here), folder, <<>>)
               = Append(SubSeq(Places(back, here, ahead), 1, Len(back) + 1), folder)
  <1> DEFINE t == Places(back, here, ahead)
             b == Append(back, here)
             none == <<>>
             u == Places(b, folder, none)
             s == SubSeq(t, 1, Len(back) + 1)
  <1>0. Len(back) \in Nat /\ Len(ahead) \in Nat
    OBVIOUS
  <1>1. /\ t \in Seq(Folders)
        /\ Len(t) = Len(back) + 1 + Len(ahead)
        /\ \A i \in 1..Len(back) : t[i] = back[i]
        /\ t[Len(back) + 1] = here
    BY PlacesAt DEF IsTrail
  <1>2. /\ b \in Seq(Folders) /\ Len(b) = Len(back) + 1
        /\ \A i \in 1..Len(back) : b[i] = back[i]
        /\ b[Len(back) + 1] = here
    OBVIOUS
  <1>3. none \in Seq(Folders) /\ Len(none) = 0
    OBVIOUS
  <1> HIDE DEF b, t, none
  <1>4. /\ u \in Seq(Folders)
        /\ Len(u) = Len(back) + 2
        /\ \A i \in 1..(Len(back) + 1) : u[i] = b[i]
        /\ u[Len(back) + 2] = folder
    <2>1. /\ u \in Seq(Folders)
          /\ Len(u) = Len(b) + 1 + Len(none)
          /\ \A i \in 1..Len(b) : u[i] = b[i]
          /\ u[Len(b) + 1] = folder
      <3>1. b \in Seq(Folders) /\ none \in Seq(Folders)
        BY <1>2, <1>3
      <3>2. IsTrail(u, b, folder, none)
        BY <3>1, PlacesAt
      <3> HIDE DEF u
      <3> QED BY <3>2 DEF IsTrail
    <2> HIDE DEF u
    <2> QED BY <1>0, <1>2, <1>3, <2>1
  <1>5. s \in Seq(Folders) /\ Len(s) = Len(back) + 1 /\ \A i \in 1..(Len(back) + 1) : s[i] = t[i]
    BY <1>0, <1>1
  <1> HIDE DEF u, s
  <1>6. /\ Append(s, folder) \in Seq(Folders) /\ Len(Append(s, folder)) = Len(back) + 2
        /\ \A i \in 1..(Len(back) + 1) : Append(s, folder)[i] = s[i]
        /\ Append(s, folder)[Len(back) + 2] = folder
    BY <1>0, <1>5
  <1>7. ASSUME NEW i \in 1..(Len(back) + 1)
        PROVE  b[i] = t[i]
    <2>1. i \in 1..Len(back) \/ i = Len(back) + 1
      BY <1>0
    <2> QED BY <1>1, <1>2, <2>1
  <1>8. \A i \in 1..Len(u) : u[i] = Append(s, folder)[i]
    <2>1. \A i \in 1..Len(u) : i \in 1..(Len(back) + 1) \/ i = Len(back) + 2
      BY <1>0, <1>4
    <2> QED BY <1>4, <1>5, <1>6, <1>7, <2>1
  <1>9. u = Append(s, folder)
    BY <1>4, <1>6, <1>8, SameSequence
  <1> QED BY <1>9 DEF u, s, b, t, none

(* ... a step back moves it along the trail ... *)
LEMMA SteppedBack ==
    ASSUME NEW back \in Seq(Folders), NEW here \in Folders, NEW ahead \in Seq(Folders), back # <<>>
    PROVE  /\ Front(back) \in Seq(Folders) /\ Last(back) \in Folders
           /\ Len(Front(back)) = Len(back) - 1
           /\ Places(Front(back), Last(back), Append(ahead, here)) = Places(back, here, ahead)
  <1> DEFINE f == Front(back)
             l == Last(back)
             g == Append(ahead, here)
             t == Places(back, here, ahead)
             u == Places(f, l, g)
  <1>0. Len(back) \in Nat /\ Len(ahead) \in Nat /\ Len(back) >= 1
    OBVIOUS
  <1>1. /\ f \in Seq(Folders) /\ Len(f) = Len(back) - 1 /\ \A i \in 1..(Len(back) - 1) : f[i] = back[i]
        /\ l \in Folders /\ l = back[Len(back)]
    BY FrontIs
  <1>2. /\ g \in Seq(Folders) /\ Len(g) = Len(ahead) + 1
        /\ \A i \in 1..Len(ahead) : g[i] = ahead[i]
        /\ g[Len(ahead) + 1] = here
    <2>1. Len(ahead) \in Nat
      OBVIOUS
    <2> QED BY <2>1
  <1>3. /\ t \in Seq(Folders)
        /\ Len(t) = Len(back) + 1 + Len(ahead)
        /\ \A i \in 1..Len(back) : t[i] = back[i]
        /\ t[Len(back) + 1] = here
        /\ \A i \in 1..Len(ahead) : t[Len(back) + 1 + i] = ahead[Len(ahead) - i + 1]
    BY PlacesAt DEF IsTrail
  <1> HIDE DEF f, l, g, t
  <1>4. /\ u \in Seq(Folders)
        /\ Len(u) = Len(f) + 1 + Len(g)
        /\ \A i \in 1..Len(f) : u[i] = f[i]
        /\ u[Len(f) + 1] = l
        /\ \A i \in 1..Len(g) : u[Len(f) + 1 + i] = g[Len(g) - i + 1]
    <2>1. f \in Seq(Folders) /\ l \in Folders /\ g \in Seq(Folders)
      BY <1>1, <1>2
    <2>2. IsTrail(u, f, l, g)
      BY <2>1, PlacesAt
    <2> HIDE DEF u
    <2> QED BY <2>2 DEF IsTrail
  <1> HIDE DEF u
  <1>5. ASSUME NEW i \in 1..Len(t)
        PROVE  t[i] = u[i]
    <2>1. CASE i \in 1..(Len(back) - 1)
      <3>1. i \in 1..Len(back) /\ i \in 1..Len(f)
        BY <1>0, <1>1, <2>1
      <3> QED BY <1>1, <1>3, <1>4, <2>1, <3>1
    <2>2. CASE i = Len(back)
      <3>1. i \in 1..Len(back) /\ i = Len(f) + 1
        BY <1>0, <1>1, <2>2
      <3> QED BY <1>1, <1>3, <1>4, <2>2, <3>1
    <2>3. CASE i = Len(back) + 1
      <3>1. 1 \in 1..Len(g) /\ i = Len(f) + 1 + 1 /\ Len(g) - 1 + 1 = Len(ahead) + 1
        BY <1>0, <1>1, <1>2, <2>3
      <3> QED BY <1>2, <1>3, <1>4, <2>3, <3>1
    <2>4. CASE i \in (Len(back) + 2)..Len(t)
      <3> DEFINE k == i - Len(back)
      <3>1. /\ k \in 1..Len(g) /\ Len(f) + 1 + k = i
            /\ k - 1 \in 1..Len(ahead) /\ Len(back) + 1 + (k - 1) = i
            /\ Len(g) - k + 1 = Len(ahead) - (k - 1) + 1
            /\ Len(g) - k + 1 \in 1..Len(ahead)
        BY <1>0, <1>1, <1>2, <1>3, <2>4
      <3> HIDE DEF k
      <3>2. u[i] = g[Len(g) - k + 1]
        BY <1>4, <3>1
      <3>3. t[i] = ahead[Len(ahead) - (k - 1) + 1]
        BY <1>3, <3>1
      <3> QED BY <1>2, <3>1, <3>2, <3>3
    <2>5. i \in 1..(Len(back) - 1) \/ i = Len(back) \/ i = Len(back) + 1 \/ i \in (Len(back) + 2)..Len(t)
      BY <1>0, <1>3
    <2> QED BY <2>1, <2>2, <2>3, <2>4, <2>5
  <1>6. Len(t) = Len(u)
    BY <1>0, <1>1, <1>2, <1>3, <1>4
  <1>7. t = u
    BY <1>3, <1>4, <1>5, <1>6, SameSequence
  <1> QED BY <1>1, <1>7 DEF t, u, f, l, g

(* ... so does a step forward ... *)
LEMMA SteppedForward ==
    ASSUME NEW back \in Seq(Folders), NEW here \in Folders, NEW ahead \in Seq(Folders), ahead # <<>>
    PROVE  /\ Front(ahead) \in Seq(Folders) /\ Last(ahead) \in Folders
           /\ Places(Append(back, here), Last(ahead), Front(ahead)) = Places(back, here, ahead)
  <1> DEFINE a == Append(back, here)
             b == Last(ahead)
             c == Front(ahead)
  <1>1. /\ c \in Seq(Folders) /\ b \in Folders /\ Append(c, b) = ahead
    <2>1. /\ c \in Seq(Folders) /\ Len(c) = Len(ahead) - 1
          /\ \A i \in 1..(Len(ahead) - 1) : c[i] = ahead[i]
          /\ b \in Folders /\ b = ahead[Len(ahead)]
          /\ Len(ahead) \in Nat
      BY FrontIs
    <2> HIDE DEF b, c
    <2>2. /\ Append(c, b) \in Seq(Folders) /\ Len(Append(c, b)) = Len(ahead)
          /\ \A i \in 1..(Len(ahead) - 1) : Append(c, b)[i] = c[i]
          /\ Append(c, b)[Len(ahead)] = b
      BY <2>1
    <2>3. \A i \in 1..Len(ahead) : i \in 1..(Len(ahead) - 1) \/ i = Len(ahead)
      BY <2>1
    <2>4. \A i \in 1..Len(ahead) : Append(c, b)[i] = ahead[i]
      BY <2>1, <2>2, <2>3
    <2> QED BY <2>1, <2>2, <2>4, SameSequence
  <1>2. a \in Seq(Folders) /\ a # <<>> /\ Front(a) = back /\ Last(a) = here
    <2>1. /\ a \in Seq(Folders) /\ Len(a) = Len(back) + 1 /\ Len(back) \in Nat
          /\ \A i \in 1..Len(back) : a[i] = back[i]
          /\ a[Len(a)] = here
      OBVIOUS
    <2> HIDE DEF a
    <2>2. SubSeq(a, 1, Len(a) - 1) \in Seq(Folders) /\ Len(SubSeq(a, 1, Len(a) - 1)) = Len(back)
          /\ \A i \in 1..Len(back) : SubSeq(a, 1, Len(a) - 1)[i] = a[i]
      BY <2>1
    <2>3. SubSeq(a, 1, Len(a) - 1) = back
      BY <2>1, <2>2, SameSequence
    <2> QED BY <2>1, <2>3 DEF Front, Last
  <1> HIDE DEF a, b, c
  <1>3. Places(Front(a), Last(a), Append(c, b)) = Places(a, b, c)
    BY <1>1, <1>2, SteppedBack
  <1>4. Places(back, here, ahead) = Places(a, b, c)
    BY <1>1, <1>2, <1>3
  <1> QED BY <1>1, <1>4 DEF a, b, c

(* ... and a walk up replaces the place it is at. *)
LEMMA WalkedUp ==
    ASSUME NEW back \in Seq(Folders), NEW here \in Folders, NEW ahead \in Seq(Folders),
           NEW folder \in Folders
    PROVE  Places(back, folder, ahead) = [Places(back, here, ahead) EXCEPT ![Len(back) + 1] = folder]
  <1> DEFINE t == Places(back, here, ahead)
             u == Places(back, folder, ahead)
             p == Len(back) + 1
             v == [t EXCEPT ![p] = folder]
  <1>0. Len(back) \in Nat /\ Len(ahead) \in Nat
    OBVIOUS
  <1>1. /\ t \in Seq(Folders)
        /\ Len(t) = Len(back) + 1 + Len(ahead)
        /\ \A i \in 1..Len(back) : t[i] = back[i]
        /\ t[Len(back) + 1] = here
        /\ \A i \in 1..Len(ahead) : t[Len(back) + 1 + i] = ahead[Len(ahead) - i + 1]
    BY PlacesAt DEF IsTrail
  <1>2. /\ u \in Seq(Folders)
        /\ Len(u) = Len(back) + 1 + Len(ahead)
        /\ \A i \in 1..Len(back) : u[i] = back[i]
        /\ u[Len(back) + 1] = folder
        /\ \A i \in 1..Len(ahead) : u[Len(back) + 1 + i] = ahead[Len(ahead) - i + 1]
    BY PlacesAt DEF IsTrail
  <1> HIDE DEF t, u
  <1>3. p \in 1..Len(t)
    BY <1>0, <1>1
  <1>4. /\ v \in Seq(Folders) /\ Len(v) = Len(t) /\ v[p] = folder
        /\ \A i \in 1..Len(t) : i # p => v[i] = t[i]
    BY <1>1, <1>3
  <1> HIDE DEF v
  <1>5. ASSUME NEW i \in 1..Len(t)
        PROVE  u[i] = v[i]
    <2>1. CASE i = p
      BY <1>2, <1>4, <2>1
    <2>2. CASE i \in 1..Len(back)
      BY <1>0, <1>1, <1>2, <1>4, <2>2
    <2>3. CASE i \in (p + 1)..Len(t)
      <3> DEFINE k == i - p
      <3>1. k \in 1..Len(ahead) /\ p + k = i /\ i # p
        BY <1>0, <1>1, <2>3
      <3> HIDE DEF k
      <3>2. t[p + k] = u[p + k]
        BY <1>1, <1>2, <3>1
      <3> QED BY <1>4, <3>1, <3>2
    <2>4. i = p \/ i \in 1..Len(back) \/ i \in (p + 1)..Len(t)
      BY <1>0, <1>1
    <2> QED BY <2>1, <2>2, <2>3, <2>4
  <1>6. u = v
    BY <1>1, <1>2, <1>4, <1>5, SameSequence
  <1> QED BY <1>6 DEF t, u, v

(* What is left of a sequence without its e-th. *)
LEMMA WithoutOne ==
    ASSUME NEW S, NEW m \in Seq(S), NEW e \in 1..Len(m)
    PROVE  /\ RemoveAt(m, e) \in Seq(S)
           /\ Len(RemoveAt(m, e)) = Len(m) - 1
           /\ \A i \in 1..(Len(m) - 1) : RemoveAt(m, e)[i] = IF i < e THEN m[i] ELSE m[i + 1]
  <1> DEFINE a == SubSeq(m, 1, e - 1)
             b == SubSeq(m, e + 1, Len(m))
  <1>1. a \in Seq(S) /\ Len(a) = e - 1 /\ \A i \in 1..(e - 1) : a[i] = m[i]
    OBVIOUS
  <1>2. b \in Seq(S) /\ Len(b) = Len(m) - e /\ \A i \in 1..(Len(m) - e) : b[i] = m[e + i]
    OBVIOUS
  <1> HIDE DEF a, b
  <1>3. RemoveAt(m, e) = a \o b
    BY DEF RemoveAt, a, b
  <1>4. ASSUME NEW i \in 1..(Len(m) - 1)
        PROVE  RemoveAt(m, e)[i] = IF i < e THEN m[i] ELSE m[i + 1]
    <2>1. CASE i < e
      <3>1. i \in 1..Len(a)
        BY <1>1, <2>1
      <3> QED BY <1>1, <1>2, <1>3, <2>1, <3>1, InARow
    <2>2. CASE ~ i < e
      <3> DEFINE k == i - Len(a)
      <3>1. k \in 1..Len(b) /\ Len(a) + k = i /\ e + k = i + 1
        BY <1>1, <1>2, <2>2
      <3> HIDE DEF k
      <3>2. (a \o b)[Len(a) + k] = b[k]
        BY <1>1, <1>2, <3>1, InARow
      <3> QED BY <1>2, <1>3, <2>2, <3>1, <3>2
    <2> QED BY <2>1, <2>2
  <1>5. RemoveAt(m, e) \in Seq(S) /\ Len(RemoveAt(m, e)) = Len(m) - 1
    <2>1. Len(m) \in Nat
      OBVIOUS
    <2>2. a \o b \in Seq(S) /\ Len(a \o b) = Len(a) + Len(b)
      BY <1>1, <1>2, InARow
    <2> QED BY <1>1, <1>2, <1>3, <2>1, <2>2
  <1> QED BY <1>4, <1>5

(* What is left after taking out the entry of a folder. *)
LEMMA OthersAre ==
    ASSUME NEW m, IsMemory(m), NEW f \in Folders
    PROVE  /\ IsMemory(Others(m, f))
           /\ \A i \in DOMAIN Others(m, f) : Others(m, f)[i][1] # f
           /\ m # <<>> /\ m[1][1] # f => Others(m, f) # <<>> /\ Others(m, f)[1] = m[1]
  <1>1. CASE ~Known(m, f)
    BY <1>1 DEF Others, Known, IsMemory
  <1>2. CASE Known(m, f)
    <2> DEFINE e == EntryFor(m, f)
               o == Others(m, f)
    <2>1. e \in DOMAIN m /\ m[e][1] = f
      BY <1>2 DEF Known, EntryFor
    <2>2. \A i \in DOMAIN m : m[i][1] = f => i = e
      BY <2>1 DEF IsMemory
    <2> HIDE DEF e
    <2>3. o = RemoveAt(m, e)
      BY <1>2 DEF Others, e
    <2> HIDE DEF o
    <2>4. /\ o \in Seq(Pairs) /\ Len(o) = Len(m) - 1
          /\ \A i \in 1..Len(o) : o[i] = IF i < e THEN m[i] ELSE m[i + 1]
      <3>1. m \in Seq(Pairs) /\ e \in 1..Len(m)
        BY <2>1 DEF IsMemory
      <3>2. Len(m) \in Nat
        BY <3>1
      <3> QED BY <2>3, <3>1, <3>2, WithoutOne
    <2>5. \A i \in DOMAIN o : (IF i < e THEN i ELSE i + 1) \in DOMAIN m \ {e}
      BY <2>1, <2>4 DEF IsMemory
    <2>6. \A i, j \in DOMAIN o : o[i][1] = o[j][1] => i = j
      <3> SUFFICES ASSUME NEW i \in DOMAIN o, NEW j \in DOMAIN o, o[i][1] = o[j][1]
                   PROVE  i = j
        OBVIOUS
      <3> DEFINE a == IF i < e THEN i ELSE i + 1
                 b == IF j < e THEN j ELSE j + 1
      <3>1. a \in DOMAIN m /\ b \in DOMAIN m
        BY <2>5
      <3>2. m[a][1] = m[b][1]
        BY <2>4
      <3>3. a = b
        BY <3>1, <3>2 DEF IsMemory
      <3> QED BY <2>1, <2>4, <3>3 DEF IsMemory
    <2>7. \A i \in DOMAIN o : o[i][1] # f
      BY <2>2, <2>4, <2>5
    <2>8. m # <<>> /\ m[1][1] # f => o # <<>> /\ o[1] = m[1]
      BY <2>1, <2>4 DEF IsMemory
    <2> QED BY <2>4, <2>6, <2>7, <2>8 DEF IsMemory, o
  <1> QED BY <1>1, <1>2

(* What is put in front of them is found again. *)
LEMMA InFront ==
    ASSUME NEW m, IsMemory(m), NEW pair \in Pairs, \A i \in DOMAIN m : m[i][1] # pair[1]
    PROVE  /\ IsMemory(<<pair>> \o m)
           /\ (<<pair>> \o m)[1] = pair
           /\ m # <<>> => (<<pair>> \o m)[2] = m[1]
           /\ Len(<<pair>> \o m) = Len(m) + 1
  <1> DEFINE n == <<pair>> \o m
  <1>1. /\ n \in Seq(Pairs) /\ Len(n) = Len(m) + 1 /\ n[1] = pair
        /\ \A i \in 2..Len(n) : n[i] = m[i - 1] /\ i - 1 \in DOMAIN m
    BY DEF IsMemory
  <1> HIDE DEF n
  <1>2. ASSUME NEW i \in DOMAIN n, NEW j \in DOMAIN n, n[i][1] = n[j][1]
        PROVE  i = j
    <2>1. CASE i = 1 \/ j = 1
      BY <1>1, <1>2, <2>1
    <2>2. CASE i # 1 /\ j # 1
      <3>1. i \in 2..Len(n) /\ j \in 2..Len(n)
        BY <1>1, <2>2
      <3>2. i - 1 = j - 1
        BY <1>1, <1>2, <3>1 DEF IsMemory
      <3> QED BY <3>1, <3>2
    <2> QED BY <2>1, <2>2
  <1>3. m # <<>> => n[2] = m[1]
    BY <1>1 DEF IsMemory
  <1> QED BY <1>1, <1>2, <1>3 DEF IsMemory, n

(* Remembering a folder's entry puts it in front, and what was in front of   *)
(* the memory comes next.                                                    *)
LEMMA RememberInFront ==
    ASSUME Tree, NEW m, IsMemory(m), NEW f \in Folders, NEW name \in Entries \cup {NoName}
    PROVE  /\ IsMemory(Remember(m, f, name))
           /\ name # NoName => /\ Remember(m, f, name) # <<>>
                               /\ Remember(m, f, name)[1] = <<f, name>>
           /\ m # <<>> /\ m[1][1] # f => \E i \in DOMAIN Remember(m, f, name) : Remember(m, f, name)[i] = m[1]
  <1>1. CASE name = NoName
    BY <1>1 DEF Remember, IsMemory
  <1>2. CASE name # NoName
    <2> DEFINE o == Others(m, f)
               grown == <<<<f, name>>>> \o o
               size == IF Len(grown) > Capacity THEN Capacity ELSE Len(grown)
               r == Remember(m, f, name)
    <2>1. <<f, name>> \in Pairs
      BY <1>2 DEF Pairs
    <2>2. /\ IsMemory(o)
          /\ \A i \in DOMAIN o : o[i][1] # f
          /\ m # <<>> /\ m[1][1] # f => o # <<>> /\ o[1] = m[1]
      BY OthersAre
    <2> HIDE DEF o
    <2>3. /\ IsMemory(grown)
          /\ grown[1] = <<f, name>>
          /\ o # <<>> => grown[2] = o[1]
          /\ Len(grown) = Len(o) + 1
      BY <2>1, <2>2, InFront
    <2>4. r = SubSeq(grown, 1, size)
      BY <1>2 DEF Remember, o
    <2> HIDE DEF grown
    <2>5. Len(o) \in Nat /\ Len(grown) \in Nat
      BY <2>2, <2>3 DEF IsMemory
    <2>6. /\ size \in Nat /\ size >= 1 /\ size <= Len(grown)
          /\ o # <<>> => size >= 2
      BY <2>2, <2>3, <2>5 DEF Tree, IsMemory
    <2> HIDE DEF size
    <2>7. /\ r \in Seq(Pairs) /\ DOMAIN r = 1..size
          /\ \A i \in 1..size : r[i] = grown[i]
      BY <2>3, <2>4, <2>5, <2>6 DEF IsMemory
    <2> HIDE DEF r
    <2>8. IsMemory(r)
      BY <2>3, <2>5, <2>6, <2>7 DEF IsMemory
    <2>9. r # <<>> /\ r[1] = <<f, name>>
      BY <2>3, <2>6, <2>7
    <2>10. m # <<>> /\ m[1][1] # f => 2 \in DOMAIN r /\ r[2] = m[1]
      BY <2>2, <2>3, <2>6, <2>7
    <2> QED BY <2>8, <2>9, <2>10 DEF r
  <1> QED BY <1>1, <1>2

(* A recall is a use: the memory stays one, with the same entries. *)
LEMMA RecallKeeps ==
    ASSUME NEW m, IsMemory(m), NEW f \in Folders
    PROVE  /\ IsMemory(RecalledMemory(m, f))
           /\ Recalled(m, f) \in Entries \cup {NoName}
           /\ \A i \in DOMAIN m : m[i][1] = f => Recalled(m, f) = m[i][2]
  <1>1. CASE ~Known(m, f)
    BY <1>1 DEF RecalledMemory, Recalled, Known
  <1>2. CASE Known(m, f)
    <2> DEFINE e == EntryFor(m, f)
               o == Others(m, f)
    <2>1. e \in DOMAIN m /\ m[e][1] = f
      BY <1>2 DEF Known, EntryFor
    <2>2. \A i \in DOMAIN m : m[i][1] = f => i = e
      BY <2>1 DEF IsMemory
    <2>3. m[e] \in Pairs
      BY <2>1 DEF IsMemory
    <2>4. RecalledMemory(m, f) = <<m[e]>> \o o /\ Recalled(m, f) = m[e][2]
      BY <1>2 DEF RecalledMemory, Recalled
    <2>5. IsMemory(o) /\ \A i \in DOMAIN o : o[i][1] # f
      BY OthersAre
    <2> HIDE DEF e, o
    <2>6. IsMemory(<<m[e]>> \o o)
      BY <2>1, <2>3, <2>5, InFront
    <2>7. m[e][2] \in Entries
      BY <2>3 DEF Pairs
    <2> QED BY <2>2, <2>4, <2>6, <2>7
  <1> QED BY <1>1, <1>2

(* A new panel is at the root, with no history and nothing remembered. *)
LEMMA InitTypes ==
    ASSUME Tree, Init
    PROVE  TypeOK
  <1>1. <<>> \in Seq(Pairs) /\ DOMAIN <<>> = {}
    OBVIOUS
  <1>2. IsMemory(memory)
    BY <1>1 DEF Init, IsMemory
  <1>3. backStack \in Seq(Folders) /\ forwardStack \in Seq(Folders)
    BY DEF Init
  <1>4. /\ there \subseteq Folders \cup Files /\ path \in Folders /\ rows \subseteq Entries
        /\ vanishings \in Nat /\ scanning \in BOOLEAN /\ filtered \in BOOLEAN
    BY DEF Init, Tree
  <1>5. cursor = NoName /\ pendingCursor = NoName /\ meant = NoName
    BY DEF Init
  <1> QED BY <1>2, <1>3, <1>4, <1>5 DEF TypeOK

(* Arriving in a folder, with memory m. *)
LEMMA TravelTypes ==
    ASSUME TypeOK, NEW folder \in Folders, NEW m, IsMemory(m),
           NEW promise \in Entries \cup {NoName}, Travels(folder, m, promise),
           backStack' \in Seq(Folders), forwardStack' \in Seq(Folders)
    PROVE  TypeOK'
  <1>1. IsMemory(memory') /\ pendingCursor' \in Entries \cup {NoName}
    BY RecallKeeps DEF Travels, Arrives
  <1>2. /\ there' = there /\ path' = folder /\ rows' = {} /\ cursor' = NoName
        /\ scanning' = TRUE /\ filtered' = FALSE /\ meant' = promise /\ vanishings' = vanishings
    BY DEF Travels, Arrives
  <1>3. IsMemory(memory)'
    BY <1>1 DEF IsMemory
  <1> QED BY <1>1, <1>2, <1>3 DEF TypeOK

(* A visit is such an arrival. *)
LEMMA VisitTypes ==
    ASSUME Tree, TypeOK, NEW folder \in Folders, NEW m, IsMemory(m),
           NEW promise \in Entries \cup {NoName}, SetPathInternal(folder, m, promise)
    PROVE  TypeOK'
  <1>1. backStack' \in Seq(Folders) /\ forwardStack' \in Seq(Folders)
    BY DEF SetPathInternal, TypeOK
  <1>2. IsMemory(CursorRemembered(m))
    BY RememberInFront DEF CursorRemembered, TypeOK
  <1> QED BY <1>1, <1>2, TravelTypes DEF SetPathInternal

(* The folder left on the way up goes into the memory of its parent. *)
LEMMA WayUp ==
    ASSUME Tree, TypeOK, GoToParent
    PROVE  /\ ParentOf[path] \in Folders
           /\ path \in Entries
           /\ IsMemory(Remember(memory, ParentOf[path], path))
  BY RememberInFront DEF GoToParent, TypeOK, Tree, Entries

(* Every step keeps the types. *)
LEMMA TypeStep ==
    ASSUME Tree, TypeOK, [Next]_vars
    PROVE  TypeOK'
  <1>0. path \in Folders /\ IsMemory(memory) /\ NoName \in Entries \cup {NoName}
    BY DEF TypeOK
  <1>1. CASE NavigateTo
    BY <1>0, <1>1, VisitTypes DEF NavigateTo
  <1>2. CASE ActivateCursorItem
    BY <1>0, <1>2, VisitTypes DEF ActivateCursorItem
  <1>3. CASE GoToParent
    <2>1. path \in Entries \cup {NoName}
      BY <1>3, WayUp
    <2> QED BY <1>3, <2>1, WayUp, VisitTypes DEF GoToParent
  <1>4. IsMemory(CursorRemembered(memory))
    BY <1>0, RememberInFront DEF CursorRemembered, TypeOK
  <1>5. CASE GoBack
    <2>1. Front(backStack) \in Seq(Folders) /\ Last(backStack) \in Folders
      BY <1>5, FrontIs DEF GoBack, TypeOK
    <2>2. backStack' \in Seq(Folders) /\ forwardStack' \in Seq(Folders)
      BY <1>5, <2>1 DEF GoBack, TypeOK
    <2> QED BY <1>0, <1>4, <1>5, <2>1, <2>2, TravelTypes DEF GoBack
  <1>6. CASE GoForward
    <2>1. Front(forwardStack) \in Seq(Folders) /\ Last(forwardStack) \in Folders
      BY <1>6, FrontIs DEF GoForward, TypeOK
    <2>2. backStack' \in Seq(Folders) /\ forwardStack' \in Seq(Folders)
      BY <1>6, <2>1 DEF GoForward, TypeOK
    <2> QED BY <1>0, <1>4, <1>6, <2>1, <2>2, TravelTypes DEF GoForward
  <1>7. CASE WalkUpToExistingAncestor
    <2>1. backStack' \in Seq(Folders) /\ forwardStack' \in Seq(Folders)
      BY <1>7 DEF WalkUpToExistingAncestor, TypeOK
    <2> QED BY <1>0, <1>7, <2>1, TravelTypes DEF WalkUpToExistingAncestor
  <1>8. ASSUME UNCHANGED memory, 
               /\ there' \subseteq Folders \cup Files
               /\ path' \in Folders
               /\ backStack' \in Seq(Folders)
               /\ forwardStack' \in Seq(Folders)
               /\ rows' \subseteq Entries
               /\ cursor' \in Entries \cup {NoName}
               /\ pendingCursor' \in Entries \cup {NoName}
               /\ scanning' \in BOOLEAN
               /\ filtered' \in BOOLEAN
               /\ meant' \in Entries \cup {NoName}
               /\ vanishings' \in Nat
        PROVE  TypeOK'
    <2>1. IsMemory(memory)'
      BY <1>0, <1>8 DEF IsMemory
    <2> QED BY <1>8, <2>1 DEF TypeOK
  <1>9. Inside(path) \subseteq Entries /\ Shown(Inside(path)) \subseteq Entries
    BY DEF Inside, Shown
  <1>10. CASE RowsArrive
    BY <1>8, <1>9, <1>10 DEF RowsArrive, Stays, TypeOK
  <1>11. CASE ScanEnds
    BY <1>8, <1>9, <1>11 DEF ScanEnds, Stays, RestoreCursor, PutCursor, TypeOK
  <1>12. CASE MoveCursor
    BY <1>8, <1>12 DEF MoveCursor, Stays, TypeOK
  <1>13. CASE SetFilterText
    <2>1. rows' \subseteq Entries
      BY <1>9, <1>13 DEF SetFilterText, TypeOK
    <2>2. cursor' \in Entries \cup {NoName} /\ pendingCursor' \in Entries \cup {NoName}
      BY <1>13, <2>1 DEF SetFilterText, RestoreCursor, PutCursor, TypeOK
    <2> QED BY <1>8, <1>13, <2>1, <2>2 DEF SetFilterText, Stays, TypeOK
  <1>14. CASE Vanishes
    <2>1. there' \subseteq there /\ rows' \subseteq rows
      BY <1>14 DEF Vanishes
    <2>2. cursor' \in Entries \cup {NoName}
      BY <1>14, <2>1 DEF Vanishes, TypeOK
    <2> QED BY <1>8, <1>14, <2>1, <2>2 DEF Vanishes, TypeOK
  <1>15. CASE UNCHANGED vars
    BY <1>8, <1>15 DEF vars, TypeOK
  <1> QED BY <1>1, <1>2, <1>3, <1>5, <1>6, <1>7, <1>10, <1>11, <1>12, <1>13, <1>14, <1>15 DEF Next

(* What each step makes of the places, in this module's terms. *)
LEMMA PlacesMove ==
    ASSUME NEW back \in Seq(Folders), NEW here \in Folders, NEW ahead \in Seq(Folders)
    PROVE  /\ Len(Places(back, here, ahead)) = Len(back) + 1 + Len(ahead)
           /\ \A folder \in Folders :
                  /\ Places(Append(back, here), folder, <<>>)
                         = Append(SubSeq(Places(back, here, ahead), 1, Len(back) + 1), folder)
                  /\ Places(back, folder, ahead)
                         = [Places(back, here, ahead) EXCEPT ![Len(back) + 1] = folder]
           /\ back # <<>> =>
                  /\ Len(Front(back)) = Len(back) - 1
                  /\ Places(Front(back), Last(back), Append(ahead, here)) = Places(back, here, ahead)
           /\ ahead # <<>> =>
                  Places(Append(back, here), Last(ahead), Front(ahead)) = Places(back, here, ahead)
  <1>1. Len(Places(back, here, ahead)) = Len(back) + 1 + Len(ahead)
    BY PlacesAt DEF IsTrail
  <1>2. \A folder \in Folders :
            /\ Places(Append(back, here), folder, <<>>)
                   = Append(SubSeq(Places(back, here, ahead), 1, Len(back) + 1), folder)
            /\ Places(back, folder, ahead)
                   = [Places(back, here, ahead) EXCEPT ![Len(back) + 1] = folder]
    BY Visited, WalkedUp
  <1>3. back # <<>> =>
            /\ Len(Front(back)) = Len(back) - 1
            /\ Places(Front(back), Last(back), Append(ahead, here)) = Places(back, here, ahead)
    BY SteppedBack
  <1>4. ahead # <<>> =>
            Places(Append(back, here), Last(ahead), Front(ahead)) = Places(back, here, ahead)
    BY SteppedForward
  <1> QED BY <1>1, <1>2, <1>3, <1>4

(* Every variable of a panel's history keeps its type. *)
THEOREM TypesHold ==
    ASSUME Tree
    PROVE  Spec => []TypeOK
  <1>1. Init => TypeOK
    BY InitTypes
  <1>2. TypeOK /\ [Next]_vars => TypeOK'
    BY TypeStep
  <1> QED BY <1>1, <1>2, PTL DEF Spec

(* Each step moves along the trail, or cuts it, or replaces a place of it. *)
LEMMA TrailStep ==
    ASSUME Tree, TypeOK, [Next]_vars
    PROVE  [Trail!Next]_(Trail!history)
  <1>0. path \in Folders /\ backStack \in Seq(Folders) /\ forwardStack \in Seq(Folders)
        /\ Len(backStack) \in Nat /\ Len(forwardStack) \in Nat
    BY DEF TypeOK
  <1>1. ASSUME NEW f \in Folders, NEW m, NEW promise, SetPathInternal(f, m, promise)
        PROVE  Trail!Visit(f)
    <2>1. backStack' = Append(backStack, path) /\ forwardStack' = <<>> /\ path' = f
      BY <1>1 DEF SetPathInternal, Travels, Arrives
    <2>2. Places(backStack, path, forwardStack)' = Places(Append(backStack, path), f, <<>>)
      BY <2>1 DEF Places
    <2>3. Places(Append(backStack, path), f, <<>>)
              = Append(SubSeq(Places(backStack, path, forwardStack), 1, Len(backStack) + 1), f)
      BY <1>0, PlacesMove
    <2>4. Len(backStack') + 1 = Len(backStack) + 1 + 1
      BY <1>0, <2>1
    <2> QED BY <2>2, <2>3, <2>4 DEF Trail!Visit
  <1>2. CASE NavigateTo \/ ActivateCursorItem \/ GoToParent
    BY <1>1, <1>2, WayUp DEF NavigateTo, ActivateCursorItem, GoToParent, Trail!Next
  <1>3. CASE GoBack
    <2>1. /\ backStack # <<>> /\ backStack' = Front(backStack)
          /\ forwardStack' = Append(forwardStack, path) /\ path' = Last(backStack)
      BY <1>3 DEF GoBack, Travels, Arrives
    <2>2. /\ Len(Front(backStack)) = Len(backStack) - 1
          /\ Places(Front(backStack), Last(backStack), Append(forwardStack, path))
                 = Places(backStack, path, forwardStack)
      BY <1>0, <2>1, PlacesMove
    <2>3. Places(backStack, path, forwardStack)' = Places(backStack, path, forwardStack)
      BY <2>1, <2>2 DEF Places
    <2>4. Len(backStack) + 1 > 1 /\ Len(backStack') + 1 = Len(backStack) + 1 - 1
      BY <1>0, <2>1, <2>2
    <2> QED BY <2>3, <2>4 DEF Trail!Next, Trail!Back
  <1>4. CASE GoForward
    <2>1. /\ forwardStack # <<>> /\ forwardStack' = Front(forwardStack)
          /\ backStack' = Append(backStack, path) /\ path' = Last(forwardStack)
      BY <1>4 DEF GoForward, Travels, Arrives
    <2>2. Places(Append(backStack, path), Last(forwardStack), Front(forwardStack))
              = Places(backStack, path, forwardStack)
      BY <1>0, <2>1, PlacesMove
    <2>3. Places(backStack, path, forwardStack)' = Places(backStack, path, forwardStack)
      BY <2>1, <2>2 DEF Places
    <2>4. Len(Places(backStack, path, forwardStack)) = Len(backStack) + 1 + Len(forwardStack)
      BY <1>0, PlacesMove
    <2>5. Len(forwardStack) >= 1
      BY <1>0, <2>1
    <2>6. /\ Len(backStack) + 1 < Len(Places(backStack, path, forwardStack))
          /\ Len(backStack') + 1 = Len(backStack) + 1 + 1
      BY <1>0, <2>1, <2>4, <2>5
    <2> QED BY <2>3, <2>6 DEF Trail!Next, Trail!Forward
  <1>5. CASE WalkUpToExistingAncestor
    <2>1. PICK f \in Folders : Travels(f, memory, NoName)
      BY <1>5 DEF WalkUpToExistingAncestor
    <2>2. path' = f /\ backStack' = backStack /\ forwardStack' = forwardStack
      BY <1>5, <2>1 DEF WalkUpToExistingAncestor, Travels, Arrives
    <2>3. Places(backStack, path, forwardStack)' = Places(backStack, f, forwardStack)
      BY <2>2 DEF Places
    <2>4. Places(backStack, f, forwardStack)
              = [Places(backStack, path, forwardStack) EXCEPT ![Len(backStack) + 1] = f]
      BY <1>0, PlacesMove
    <2>5. Trail!Replace(f)
      BY <2>2, <2>3, <2>4 DEF Trail!Replace
    <2> QED BY <2>5 DEF Trail!Next
  <1>6. CASE UNCHANGED <<path, backStack, forwardStack>>
    BY <1>6 DEF Trail!history, Places
  <1>7. RowsArrive \/ ScanEnds \/ MoveCursor \/ SetFilterText \/ Vanishes \/ UNCHANGED vars
            => UNCHANGED <<path, backStack, forwardStack>>
    BY DEF RowsArrive, ScanEnds, MoveCursor, SetFilterText, Vanishes, Stays, vars
  <1> QED BY <1>2, <1>3, <1>4, <1>5, <1>6, <1>7 DEF Next

(* The panel's stacks implement the trail of BrowserHistory, for any tree,   *)
(* any number of visits and whatever disappears.                             *)
THEOREM OneTrail ==
    ASSUME Tree
    PROVE  Spec => WalksOneTrail
  <1>3. Init => Trail!Init
    <2> SUFFICES ASSUME Init PROVE Trail!Init
      OBVIOUS
    <2>1. backStack = <<>> /\ forwardStack = <<>> /\ path = Root /\ Root \in Folders
      BY DEF Init, Tree
    <2>2. Places(<<>>, Root, <<>>) = <<Root>>
      BY DEF Places, Reverse
    <2> QED BY <2>1, <2>2 DEF Trail!Init
  <1>4. TypeOK /\ [Next]_vars => [Trail!Next]_(Trail!history)
    BY TrailStep
  <1> QED BY <1>3, <1>4, TypesHold, PTL DEF Spec, WalksOneTrail, Trail!Spec

-----------------------------------------------------------------------------
(* What is under a folder goes with it ... *)
ThereInv == \A e \in there \ {Root} : ParentOf[e] \in there

(* ... the rows are entries of the panel's folder that exist ... *)
RowsInv == rows \subseteq Inside(path)

(* ... and the folder that was left is pending until the listing ends. *)
PendingInv ==
    meant # NoName => IF scanning THEN pendingCursor = meant ELSE meant \in rows => cursor = meant

CursorInv == ThereInv /\ RowsInv /\ PendingInv

(* Every step keeps the three. *)
LEMMA CursorStep ==
    ASSUME Tree, TypeOK, CursorInv, [Next]_vars
    PROVE  CursorInv'
  <1>1. ASSUME NEW f, NEW m, Travels(f, m, NoName)
        PROVE  CursorInv'
    BY <1>1 DEF Travels, Arrives, CursorInv, ThereInv, RowsInv, PendingInv
  <1>2. CASE NavigateTo \/ ActivateCursorItem \/ GoBack \/ GoForward \/ WalkUpToExistingAncestor
    BY <1>1, <1>2 DEF NavigateTo, ActivateCursorItem, GoBack, GoForward, WalkUpToExistingAncestor,
                      SetPathInternal
  <1>3. CASE GoToParent
    <2> DEFINE up == ParentOf[path]
               r == Remember(memory, up, path)
               q == CursorRemembered(r)
    <2>1. up \in Folders /\ path \in Entries /\ path # NoName /\ IsMemory(r) /\ IsMemory(memory)
      BY <1>3, WayUp DEF Tree, Entries, TypeOK
    <2>2. up # path /\ Travels(up, q, path)
      BY <1>3 DEF GoToParent, SetPathInternal
    <2>3. r # <<>> /\ r[1] = <<up, path>>
      BY <2>1, RememberInFront
    <2> HIDE DEF up, r
    <2>4. IsMemory(q) /\ \E i \in DOMAIN q : q[i] = <<up, path>>
      <3>1. q = Remember(r, path, cursor)
        BY DEF CursorRemembered
      <3>2. path \in Folders /\ cursor \in Entries \cup {NoName} /\ r[1][1] # path
        BY <2>2, <2>3 DEF TypeOK
      <3> HIDE DEF q
      <3>3. /\ IsMemory(Remember(r, path, cursor))
            /\ r # <<>> /\ r[1][1] # path =>
                   \E i \in DOMAIN Remember(r, path, cursor) : Remember(r, path, cursor)[i] = r[1]
        BY <2>1, <3>2, RememberInFront
      <3> QED BY <2>3, <3>1, <3>2, <3>3
    <2> HIDE DEF q
    <2>5. Recalled(q, up) = path
      BY <2>1, <2>4, RecallKeeps
    <2>6. scanning' = TRUE /\ pendingCursor' = path /\ meant' = path /\ rows' = {} /\ there' = there
      BY <2>2, <2>5 DEF Travels, Arrives
    <2> QED BY <2>6 DEF CursorInv, ThereInv, RowsInv, PendingInv
  <1>4. CASE RowsArrive
    BY <1>4 DEF RowsArrive, Stays, CursorInv, ThereInv, RowsInv, PendingInv, Inside, Shown
  <1>5. CASE ScanEnds
    <2>1. CASE path \in there
      <3>1. rows' = Shown(Inside(path)) /\ RestoreCursor(rows') /\ scanning /\ ~scanning'
            /\ UNCHANGED <<there, path, meant>>
        BY <1>5, <2>1 DEF ScanEnds, Stays
      <3>2. ThereInv' /\ RowsInv'
        BY <3>1 DEF CursorInv, ThereInv, RowsInv, Inside, Shown
      <3>3. PendingInv'
        BY <3>1 DEF CursorInv, PendingInv, RestoreCursor, PutCursor
      <3> QED BY <3>2, <3>3 DEF CursorInv
    <2>2. CASE path \notin there
      <3>1. Inside(path) = {}
        BY <2>2 DEF Inside, CursorInv, ThereInv, Entries
      <3>2. rows = {} /\ rows' = {} /\ UNCHANGED <<there, path, meant>> /\ ~scanning'
        BY <1>5, <2>2, <3>1 DEF ScanEnds, Stays, CursorInv, RowsInv
      <3> QED BY <3>2 DEF CursorInv, ThereInv, RowsInv, PendingInv
    <2> QED BY <2>1, <2>2
  <1>6. CASE MoveCursor
    BY <1>6 DEF MoveCursor, Stays, CursorInv, ThereInv, RowsInv, PendingInv, Inside
  <1>7. CASE SetFilterText
    BY <1>7 DEF SetFilterText, Stays, CursorInv, ThereInv, RowsInv, PendingInv, Inside
  <1>8. CASE Vanishes
    <2>1. PICK e \in there \ {Root}, gone \in SUBSET (there \ {Root}) :
              /\ e \in gone
              /\ \A x \in there \ {e, Root} : x \in gone <=> ParentOf[x] \in gone
              /\ there' = there \ gone
              /\ rows' = rows \ gone
              /\ cursor \in gone \/ cursor' = cursor
      BY <1>8 DEF Vanishes
    <2>2. UNCHANGED <<path, pendingCursor, scanning, meant>>
      BY <1>8 DEF Vanishes
    <2>3. ThereInv'
      BY <2>1 DEF CursorInv, ThereInv
    <2>4. RowsInv'
      BY <2>1, <2>2 DEF CursorInv, RowsInv, Inside
    <2>5. PendingInv'
      BY <2>1, <2>2 DEF CursorInv, PendingInv
    <2> QED BY <2>3, <2>4, <2>5 DEF CursorInv
  <1>9. CASE UNCHANGED vars
    BY <1>9 DEF vars, CursorInv, ThereInv, RowsInv, PendingInv, Inside
  <1> QED BY <1>2, <1>3, <1>4, <1>5, <1>6, <1>7, <1>8, <1>9 DEF Next

(* The three hold throughout, for any tree. *)
THEOREM CursorInvHolds ==
    ASSUME Tree
    PROVE  Spec => []CursorInv
  <1>1. Init => CursorInv
    BY DEF Init, Tree, CursorInv, ThereInv, RowsInv, PendingInv
  <1>2. TypeOK /\ CursorInv /\ [Next]_vars => CursorInv'
    BY CursorStep
  <1> QED BY <1>1, <1>2, TypesHold, PTL DEF Spec

(* After going up the cursor is on the folder that was left once the listing *)
(* ends, for any tree, memory and order of the rows.                         *)
THEOREM CursorComesUp ==
    ASSUME Tree
    PROVE  Spec => []CursorOnTheWayUp
  <1>1. CursorInv => CursorOnTheWayUp
    BY DEF CursorInv, PendingInv, CursorOnTheWayUp
  <1> QED BY <1>1, CursorInvHolds, PTL

=============================================================================
