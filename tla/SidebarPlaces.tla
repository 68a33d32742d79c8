--------------------------- MODULE SidebarPlaces ----------------------------
(* The places of the sidebar: named sections of entries the user arranges by *)
(* dragging, by menu and by key, kept in a file of their own                 *)
(* (ui/SidebarLayout.cpp, ui/Sidebar.cpp).                                   *)
(*                                                                           *)
(* An entry is a built-in, whose folder the desktop's settings say, or a     *)
(* path.  A drag carries a section's id, an index and a path; the layout it  *)
(* is dropped on may not be the one it was taken from, which may even be     *)
(* another window's, so any payload can arrive.                              *)
EXTENDS Integers, Sequences, SequencesExt, FiniteSets

CONSTANTS
    Builtins,       \* the built-in places, a sequence in their fixed order
    Paths,          \* the paths an entry may name
    Locations,      \* [key -> set of the folders it may have]
    NoFolder,       \* a built-in that is not configured
    Ids,            \* the ids sections may get
    Titles,         \* the titles the user types
    Favourites, Pinned,
    MaxSections,    \* bound on the sections
    MaxEntries,     \* bound on the entries of a section
    MaxEdits        \* how often the file is edited by hand

VARIABLES
    layout,         \* sections: [id, title, entries], top to bottom
    folderOf,       \* [built-in -> its folder]
    file,           \* what sidebar.ini holds, or NoFile
    asking,         \* the section whose removal is being confirmed, or NoSection
    kept,           \* history: the entries the user has put and not taken off
    landed,         \* history: every drop so far landed where it was shown to
    edits

vars == <<layout, folderOf, file, asking, kept, landed, edits>>

Keys == Range(Builtins)

NoSection == "none"
NoFile == <<[id |-> NoSection, title |-> NoSection, entries |-> <<>>]>>

(* The folder of an entry, or the built-in's own name while it has none. *)
PlaceOf(folders, e) ==
    IF e \in Keys /\ folders[e] # NoFolder THEN folders[e] ELSE e

Resolved(e) == PlaceOf(folderOf, e)

(* entryFor(): a path that is a built-in's folder is the built-in. *)
EntryFor(path) ==
    IF \E k \in Keys : folderOf[k] = path
    THEN Builtins[CHOOSE i \in DOMAIN Builtins :
                    /\ folderOf[Builtins[i]] = path
                    /\ \A j \in 1..(i - 1) : folderOf[Builtins[j]] # path]
    ELSE path

SlotsOf(l, Test(_)) ==
    {at \in (1..Len(l)) \X (1..MaxEntries + 2) :
        at[2] \in DOMAIN l[at[1]].entries /\ Test(l[at[1]].entries[at[2]])}

(* find(): the first entry that resolves to the path. *)
Find(l, path) ==
    LET slots == SlotsOf(l, LAMBDA e : Resolved(e) = path)
    IN  IF slots = {} THEN <<0, 0>>
        ELSE CHOOSE x \in slots :
               \A y \in slots : x[1] < y[1] \/ (x[1] = y[1] /\ x[2] <= y[2])

Found(l, path) == Find(l, path) # <<0, 0>>

SectionIndex(l, id) ==
    IF \E i \in DOMAIN l : l[i].id = id THEN CHOOSE i \in DOMAIN l : l[i].id = id ELSE 0

Clamp(i, high) == IF i < 0 THEN 0 ELSE IF i > high THEN high ELSE i

(* A gap g is between the entries g and g + 1. *)
InGap(s, g, e) == LET at == Clamp(g, Len(s)) IN SubSeq(s, 1, at) \o <<e>> \o SubSeq(s, at + 1, Len(s))

WithoutEntry(l, slot) == [l EXCEPT ![slot[1]].entries = RemoveAt(@, slot[2])]

(* insertEntry() *)
InsertEntry(l, s, g, e) ==
    LET old == Find(l, Resolved(e))
        there == old # <<0, 0>>
        gap == IF there /\ old[1] = s /\ old[2] <= g THEN g - 1 ELSE g
        base == IF there THEN WithoutEntry(l, old) ELSE l
    IN  IF s \notin DOMAIN l THEN l
        ELSE [base EXCEPT ![s].entries = InGap(@, gap, e)]

(* The gap is not adjusted for the entry taken out above it. *)
MoveEntrySlip(l, from, s, g) ==
    [WithoutEntry(l, from) EXCEPT ![s].entries = InGap(@, g, l[from[1]].entries[from[2]])]

(* moveEntry() *)
MoveEntry(l, from, s, g) ==
    LET e == l[from[1]].entries[from[2]]
        gap == IF from[1] = s /\ g >= from[2] THEN g - 1 ELSE g
    IN  [WithoutEntry(l, from) EXCEPT ![s].entries = InGap(@, gap, e)]

(* moveSection() *)
MoveSection(l, from, gap) ==
    LET to == IF gap >= from THEN gap - 1 ELSE gap
    IN  InGap(RemoveAt(l, from), to, l[from])

(* addSection() *)
AddSection(l, id, title) == Append(l, [id |-> id, title |-> title, entries |-> <<>>])

(* newId(): one that nothing has. *)
FreshId(l) == CHOOSE id \in Ids \ {asking} : SectionIndex(l, id) = 0

-----------------------------------------------------------------------------
(* commitLayout(), and the save its signal is connected to: toIni() keeps    *)
(* sections, titles and entries, and escapePath() sees to line ends in them. *)
CommitLayout(l) ==
    /\ layout' = l
    /\ file' = l
    /\ UNCHANGED <<folderOf, edits>>

(* A drop that leaves everything where it was commits nothing. *)
CommitDrop(l) == IF l = layout THEN UNCHANGED <<layout, file, folderOf, edits>> ELSE CommitLayout(l)

(* The at-most-once rule of fromIni(): the first entry of a place stays. *)
Deduped(folders, l) ==
    [s \in DOMAIN l |->
       [l[s] EXCEPT !.entries =
          LET first(e) ==
                 ~\E t \in 1..s : \E f \in DOMAIN l[t].entries :
                     /\ t < s \/ f < e
                     /\ PlaceOf(folders, l[t].entries[f]) = PlaceOf(folders, l[s].entries[e])
              indices == SelectSeq([i \in DOMAIN l[s].entries |-> i], first)
          IN  [i \in DOMAIN indices |-> l[s].entries[indices[i]]]]]

(* defaults() *)
Defaults(id) == <<[id |-> id, title |-> Favourites, entries |-> Builtins]>>

(* The built-ins an old session showed. *)
Listed(removed) == {k \in Keys : folderOf[k] \notin removed \cup {NoFolder}}

(* migratedFrom(): the pins and the removed places of an old session. *)
Migrated(pinned, removed) ==
    LET first == CHOOSE id \in Ids : TRUE
        second == CHOOSE id \in Ids : id # first
        favourites == <<[id |-> first, title |-> Favourites,
                         entries |-> SelectSeq(Builtins, LAMBDA k : k \in Listed(removed))]>>
    IN  IF pinned = <<>> THEN favourites
        ELSE FoldLeft(LAMBDA l, p : InsertEntry(l, 2, Len(l[2].entries), EntryFor(p)),
                      AddSection(favourites, second, Pinned), pinned)

Entries(l) == UNION {Range(l[s].entries) : s \in DOMAIN l}

Init ==
    /\ folderOf \in {f \in [Keys -> Paths \cup {NoFolder}] : \A k \in Keys : f[k] \in Locations[k]}
    /\ asking = NoSection
    /\ \/ /\ layout = Defaults(CHOOSE id \in Ids : TRUE)
          /\ file = NoFile
          /\ kept = Keys
       \/ \E pinned \in SeqOf(Paths, 1), removed \in SUBSET Paths :
             /\ layout = Migrated(pinned, removed)
             /\ file = layout
             /\ kept = Listed(removed) \cup {EntryFor(p) : p \in Range(pinned)}
    /\ landed = TRUE
    /\ edits = 0

(* Where the rows let a drop land: a gap of a section. *)
Gaps == {at \in (1..MaxSections) \X (0..MaxEntries) :
            at[1] \in DOMAIN layout /\ at[2] <= Len(layout[at[1]].entries)}

(* What was dropped on the gap g of section s is in it now, in its order:    *)
(* below all that was above the line, above all that was below it.           *)
LandedIn(s, g, dropped) ==
    LET old == layout[s].entries
        others == {i \in DOMAIN old : \A d \in Range(dropped) : Resolved(d) # Resolved(old[i])}
        place(e) == Find(layout', Resolved(e))
    IN  \A i \in DOMAIN dropped :
          LET here == place(dropped[i])
          IN  /\ here[1] = s
              /\ \A j \in others : /\ place(old[j])[1] = s
                                   /\ (j <= g) = (place(old[j])[2] < here[2])
              /\ \A j \in DOMAIN dropped :
                    i < j /\ dropped[i] # dropped[j] => here[2] < place(dropped[j])[2]

(* Drop of a row: the payload counts only if the path still is at its index. *)
DropEntry(id, index, path) ==
    LET from == <<SectionIndex(layout, id), index>>
    IN  /\ from[1] # 0
        /\ index \in DOMAIN layout[from[1]].entries
        /\ Resolved(layout[from[1]].entries[index]) = path
        /\ \E slot \in Gaps :
              /\ Len(layout[slot[1]].entries) < MaxEntries \/ slot[1] = from[1]
              /\ UNCHANGED <<asking, kept>>
              /\ CommitDrop(MoveEntry(layout, from, slot[1], slot[2]))
              /\ landed' = (landed /\ LandedIn(slot[1], slot[2], <<layout[from[1]].entries[index]>>))

DropSection(id) ==
    /\ SectionIndex(layout, id) # 0
    /\ \E gap \in 0..Len(layout) :
          /\ UNCHANGED <<asking, kept>>
          /\ UNCHANGED landed
          /\ CommitDrop(MoveSection(layout, SectionIndex(layout, id), gap))

(* Drop of files, each after where the last one landed. *)
DropFiles(urls) ==
    \E slot \in IF layout = <<>> THEN {<<1, 0>>} ELSE Gaps :
       LET base == IF layout = <<>> THEN AddSection(layout, FreshId(layout), Pinned) ELSE layout
           after[i \in 0..Len(urls)] ==
              IF i = 0 THEN [l |-> base, gap |-> slot[2]]
              ELSE LET l == InsertEntry(after[i - 1].l, slot[1], after[i - 1].gap, EntryFor(urls[i]))
                   IN  [l |-> l, gap |-> Find(l, urls[i])[2]]
           result == after[Len(urls)].l
       IN  /\ Len(result[slot[1]].entries) <= MaxEntries
           /\ kept' = {e \in kept : Resolved(e) \notin Range(urls)}
                      \cup {EntryFor(urls[i]) : i \in DOMAIN urls}
           /\ UNCHANGED asking
           /\ CommitDrop(result)
           /\ landed' = (landed /\ (layout # <<>> =>
                 LandedIn(slot[1], slot[2], [i \in DOMAIN urls |-> EntryFor(urls[i])])))

(* removePlace(): dragged out, or by the menu. *)
RemovePlace(path) ==
    /\ Found(layout, path)
    /\ kept' = {e \in kept : Resolved(e) # path}
    /\ UNCHANGED landed
    /\ UNCHANGED asking
    /\ CommitLayout(WithoutEntry(layout, Find(layout, path)))

(* moveEntryByPath(): past the end of a section into the next one. *)
MoveEntryByPath(path, delta) ==
    LET at == Find(layout, path)
        s == at[1]
        to == IF delta < 0
              THEN IF at[2] > 1 THEN <<s, at[2] - 2>>
                   ELSE <<s - 1, IF s > 1 THEN Len(layout[s - 1].entries) ELSE 0>>
              ELSE IF at[2] < Len(layout[s].entries) THEN <<s, at[2] + 1>> ELSE <<s + 1, 0>>
    IN  /\ Found(layout, path)
        /\ to[1] \in DOMAIN layout
        /\ to[1] = s \/ Len(layout[to[1]].entries) < MaxEntries
        /\ UNCHANGED landed
        /\ UNCHANGED <<asking, kept>>
        /\ CommitLayout(MoveEntry(layout, at, to[1], to[2]))

(* Move to Section, in the menu. *)
MoveToSection(path, id) ==
    LET to == SectionIndex(layout, id)
    IN  /\ Found(layout, path) /\ to # 0 /\ to # Find(layout, path)[1]
        /\ Len(layout[to].entries) < MaxEntries
        /\ UNCHANGED landed
        /\ UNCHANGED <<asking, kept>>
        /\ CommitLayout(MoveEntry(layout, Find(layout, path), to, Len(layout[to].entries)))

(* addSection() and addSectionWith(): a new section, with the entry it was   *)
(* asked for, if that is still there.                                        *)
NewSection(title, path) ==
    /\ Len(layout) < MaxSections
    /\ UNCHANGED landed
    /\ UNCHANGED <<asking, kept>>
    /\ LET l == AddSection(layout, FreshId(layout), title)
       IN  CommitLayout(IF Found(layout, path) THEN MoveEntry(l, Find(l, path), Len(l), 0) ELSE l)

MoveSectionBy(id, delta) ==
    LET i == SectionIndex(layout, id)
    IN  /\ i # 0 /\ i + delta \in DOMAIN layout
        /\ UNCHANGED landed
        /\ UNCHANGED <<asking, kept>>
        /\ CommitLayout(MoveSection(layout, i, IF delta > 0 THEN i + 1 ELSE i - 2))

WithoutSection(id) ==
    /\ kept' = {e \in kept : \A f \in Range(layout[SectionIndex(layout, id)].entries) :
                                Resolved(f) # Resolved(e)}
    /\ UNCHANGED landed
    /\ CommitLayout(RemoveAt(layout, SectionIndex(layout, id)))

(* requestSectionRemoval(): an empty section goes at once. *)
RequestSectionRemoval(id) ==
    /\ SectionIndex(layout, id) # 0
    /\ IF layout[SectionIndex(layout, id)].entries = <<>>
       THEN WithoutSection(id) /\ UNCHANGED asking
       ELSE /\ asking' = id
            /\ UNCHANGED <<layout, folderOf, file, kept, landed, edits>>

(* removeSection(), once confirmed. *)
ConfirmRemoval ==
    /\ asking # NoSection
    /\ asking' = NoSection
    /\ IF SectionIndex(layout, asking) = 0
       THEN UNCHANGED <<layout, folderOf, file, kept, landed, edits>>
       ELSE WithoutSection(asking)

(* togglePin() *)
TogglePin(path) ==
    \/ RemovePlace(path)
    \/ /\ ~Found(layout, path)
       /\ Len(layout) < MaxSections \/ \E i \in DOMAIN layout : layout[i].title = Pinned
       /\ LET pins == {i \in DOMAIN layout : layout[i].title = Pinned}
              l == IF pins = {} THEN AddSection(layout, FreshId(layout), Pinned) ELSE layout
              s == IF pins = {} THEN Len(l) ELSE CHOOSE i \in pins : \A j \in pins : i <= j
          IN  /\ Len(l[s].entries) < MaxEntries
              /\ kept' = kept \cup {EntryFor(path)}
              /\ UNCHANGED landed
              /\ UNCHANGED asking
              /\ CommitLayout(InsertEntry(l, s, Len(l[s].entries), EntryFor(path)))

(* restoreDefaultPlaces(), offered while one is missing. *)
RestoreDefaults ==
    LET missing == SelectSeq(Builtins, LAMBDA k : /\ folderOf[k] # NoFolder
                                                  /\ ~Found(layout, folderOf[k]))
    IN  /\ missing # <<>>
        /\ LET l == IF layout = <<>> THEN AddSection(layout, FreshId(layout), Favourites) ELSE layout
           IN  /\ Len(l[1].entries) + Len(missing) <= MaxEntries
               /\ kept' = kept \cup Range(missing)
               /\ UNCHANGED landed
               /\ UNCHANGED asking
               /\ CommitLayout([l EXCEPT ![1].entries = @ \o missing])

(* load(): the next run, after the folders may have moved and the file may   *)
(* have been edited by hand.                                                 *)
Relaunch ==
    \E folders \in {f \in [Keys -> Paths \cup {NoFolder}] : \A k \in Keys : f[k] \in Locations[k]},
       added \in {<<>>} \cup {<<e>> : e \in Keys \cup Paths} :
       /\ added # <<>> => /\ edits < MaxEdits
                          /\ file # NoFile /\ file # <<>>
                          /\ Len(Last(file).entries) < MaxEntries
       /\ edits' = edits + Len(added)
       /\ folderOf' = folders
       /\ IF added = <<>> THEN UNCHANGED file
          ELSE file' = [file EXCEPT ![Len(file)].entries = @ \o added]
       /\ layout' = IF file = NoFile THEN Defaults(CHOOSE id \in Ids : TRUE)
                    ELSE Deduped(folders, file')
       /\ kept' = {e \in kept \cup Range(added) :
                     \/ e \in Entries(layout')
                     \/ \A f \in Entries(layout') : PlaceOf(folders, f) # PlaceOf(folders, e)}
       /\ asking' = NoSection
       /\ UNCHANGED landed

Next ==
    \/ \E id \in Ids, index \in 1..MaxEntries, path \in Paths : DropEntry(id, index, path)
    \/ \E id \in Ids : \/ DropSection(id) \/ RequestSectionRemoval(id)
                       \/ \E delta \in {-1, 1} : MoveSectionBy(id, delta)
                       \/ \E path \in Paths : MoveToSection(path, id)
    \/ \E urls \in {u \in UNION {[1..n -> Paths] : n \in 1..2} : IsInjective(u)} : DropFiles(urls)
    \/ \E path \in Paths : \/ RemovePlace(path) \/ TogglePin(path)
                           \/ \E delta \in {-1, 1} : MoveEntryByPath(path, delta)
    \/ \E title \in Titles, path \in Paths \cup {NoFolder} : NewSection(title, path)
    \/ ConfirmRemoval
    \/ RestoreDefaults
    \/ Relaunch

Spec == Init /\ [][Next]_vars

-----------------------------------------------------------------------------
(* A place is in the sidebar at most once, and an id names one section: what *)
(* drags, menus and confirmations rely on, whatever was moved, dropped,      *)
(* edited by hand or restored.                                               *)
EachPlaceOnce ==
    /\ \A x, y \in SlotsOf(layout, LAMBDA e : TRUE) :
          Resolved(layout[x[1]].entries[x[2]]) = Resolved(layout[y[1]].entries[y[2]]) => x = y
    /\ \A i, j \in DOMAIN layout : layout[i].id = layout[j].id => i = j

(* The sidebar holds every place the user has put there and not taken off:   *)
(* arranging, dropping what is there already and restarting lose none.       *)
PlacesAreKept == \A e \in kept : \E f \in Entries(layout) : Resolved(f) = Resolved(e)

(* What is dropped lands, in its order, in the gap the line showed: below    *)
(* everything that was above the line and above everything below it.         *)
DropsLandInTheGap == landed
=============================================================================
