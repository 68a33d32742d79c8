--------------------------- MODULE TransferProof ----------------------------
(***************************************************************************)
(* Proofs about Transfer for any directories, names, jobs and bounds: its  *)
(* type invariant; that a file under a final name is whole; that nothing   *)
(* is lost; that no partial file is left behind; and that what is pushed   *)
(* on the undo stack is what was moved.                                    *)
(***************************************************************************)
EXTENDS Transfer, FiniteSetTheorems, SequenceTheorems, WellFoundedInduction, TLAPS

(* An item in hand has a destination under a final name, and what a copy   *)
(* reads and writes is open.                                               *)
InHand(j) ==
    /\ pc[j] \notin {"Submitted", "Next", "Done"} =>
        ~dest[j].partial /\ at[j] <= Len(work[j].sources)
    /\ pc[j] = "Link" => IsLink(j) /\ fd[j].in # None
    /\ pc[j] = "Write" => ~IsLink(j) /\ fd[j].in # None /\ fd[j].out # None

LocalInv == \A j \in Jobs : InHand(j)

(* What a job that moves has recorded: a destination for each source it    *)
(* removed, in the same order, and one more while it removes the next.     *)
LogOK(j) ==
    /\ Len(created[j]) = Len(removed[j]) + (IF pc[j] = "Unlink" THEN 1 ELSE 0)
    /\ pc[j] = "Unlink" => created[j][Len(created[j])] = dest[j]
    /\ moved[j] = {<<removed[j][i], created[j][i]>> : i \in 1..Len(removed[j])}

UndoInv == \A j \in Jobs \ ragged : work[j].mode = "Move" => LogOK(j)

(* The inodes that jobs make, and of those the ones job j has yet to make. *)
Made == Jobs \X (1..MaxItems)

Unused(j) == {<<j, n>> : n \in {m \in 1..MaxItems :
                  m > at[j] \/ (m = at[j] /\ pc[j] \notin {"Write", "Unlink"})}}

(* No inode has two names; the open files and the partial ones are regular *)
(* files that jobs made; and those yet to be made are seen nowhere.        *)
OneName == \A p, q \in Path : fs[p] # None /\ fs[p] = fs[q] => p = q

PartialsMade ==
    \A p \in Path : p.partial /\ fs[p] # None => fs[p] \in Made /\ nodes[fs[p]].kind = "file"

OutsMade ==
    \A j \in Jobs : fd[j].out # None => fd[j].out \in Made /\ nodes[fd[j].out].kind = "file"

Unseen(i) ==
    /\ \A p \in Path : fs[p] # i
    /\ \A k \in Jobs : fd[k].in # i /\ fd[k].out # i
    /\ i \notin shared

InodeInv ==
    /\ OneName
    /\ PartialsMade
    /\ OutsMade
    /\ \A j \in Jobs : \A i \in Unused(j) : Unseen(i)

(* The inodes of the beginning are as they were; links are whole, and have *)
(* the kind of what they were made from.                                   *)
Intact == \A o \in Source : nodes[<<o, 0>>].data = [c \in Chunks |-> o]

LinksWhole ==
    \A i \in Inode : nodes[i].kind \notin {"none", "file"} =>
        \E o \in Source : /\ nodes[i].data = [c \in Chunks |-> o]
                          /\ nodes[i].kind = nodes[<<o, 0>>].kind

PathsOccupied == \A p \in Path : fs[p] # None => nodes[fs[p]].kind # "none"

LinksRead == \A j \in Jobs : pc[j] = "Link" => nodes[fd[j].in].kind \notin {"none", "file"}

LinkInv == Intact /\ LinksWhole /\ PathsOccupied /\ LinksRead

Writes(j, i) == pc[j] = "Write" /\ fd[j].out = i

(* Whole, and nobody is writing into it.                                   *)
Settled(i) == WholeFile(i) /\ \A j \in Jobs : ~Writes(j, i)

(* What is under a final name or being read is whole and at rest; what is  *)
(* being written is written by one job, and all it has so far is from one  *)
(* source.                                                                 *)
FinalsSettled ==
    \A p \in Path : ~p.partial /\ fs[p] \notin {None} \cup shared => Settled(fs[p])

ReadsSettled ==
    \A j \in Jobs : pc[j] = "Write" /\ fd[j].in \notin shared => Settled(fd[j].in)

FromOne(j) ==
    \E o \in Source :
        /\ \A c \in 1..chunk[j] : nodes[fd[j].out].data[c] = o
        /\ fd[j].in \notin shared => nodes[fd[j].in].data = [c \in Chunks |-> o]

WritesAlone ==
    \A j \in Jobs : pc[j] = "Write" /\ fd[j].out \notin shared =>
        /\ \A k \in Jobs : Writes(k, fd[j].out) => k = j
        /\ FromOne(j)

WholeInv == FinalsSettled /\ ReadsSettled /\ WritesAlone

(* Of a job alone on its paths, whose user was not asked: nothing but a    *)
(* link without a target is where the item goes ...                        *)
FreeDest(j) == pc[j] \in {"Rename", "Copy", "Write"} => ~Exists(dest[j])

(* ... the link to be made anew is the one at the item, if the item is not *)
(* the link that was replaced ...                                          *)
LinkInHand(j) == pc[j] = "Link" /\ dest[j] = Natural(j) =>
    IF Item(j) = Natural(j) THEN nodes[fd[j].in].kind = "dangling" ELSE fs[Item(j)] = fd[j].in

(* ... and a source is removed when a copy of it is elsewhere.             *)
CopyMade(j) == pc[j] = "Unlink" /\ ~KeepsBothOfLink(j) /\ Exists(Item(j)) =>
    /\ dest[j] # Item(j) /\ fs[dest[j]] # None
    /\ nodes[fs[dest[j]]].data = nodes[fs[Item(j)]].data

(* Of a job alone on its paths: it reads the item and writes into its own  *)
(* partial file, which has what was read so far.                           *)
CopyInHand(j) == pc[j] = "Write" =>
    /\ Exists(Item(j)) /\ fs[Item(j)] = fd[j].in
    /\ fs[Partial(dest[j])] = fd[j].out
    /\ \A c \in 1..chunk[j] : nodes[fd[j].out].data[c] = nodes[fd[j].in].data[c]

Clean(j) == CopyInHand(j) /\ (j \notin told => FreeDest(j) /\ LinkInHand(j) /\ CopyMade(j))

CleanInv == \A j \in Jobs \ contested : Clean(j)

-----------------------------------------------------------------------------
(* Paths and inodes *)

(* A set of numbers has a least one. *)
LEMMA LeastNumber ==
    ASSUME NEW S \in SUBSET Nat, S # {}
    PROVE  \E c \in S : \A e \in S : c <= e
  <1>1. \E x \in S : \A y \in S : ~(<<y, x>> \in OpToRel(<, Nat))
    BY WFMin, NatLessThanWellFounded
  <1>2. PICK x \in S : \A y \in S : ~(<<y, x>> \in OpToRel(<, Nat))
    BY <1>1
  <1>3. \A y \in S : y \in Nat /\ ~(y < x)
    BY <1>2 DEF OpToRel
  <1> QED BY <1>3

(* A partial name is a path of its own, and two names never share their    *)
(* partial.                                                                *)
LEMMA PathFacts ==
    /\ Source \subseteq Path
    /\ \A p \in Source : ~p.partial
    /\ \A p \in Path : Partial(p) \in Path /\ Partial(p).partial
    /\ \A p, q \in Path : ~p.partial /\ ~q.partial /\ Partial(p) = Partial(q) => p = q
  <1>1. Source \subseteq Path
    <2>1. ASSUME NEW d \in Dirs, NEW n \in Names PROVE Place(d, n, 1) \in Path
      <3>1. 1 \in 1..MaxCopies
        BY TransferAssumption
      <3> QED BY <3>1 DEF Place, Path
    <2> QED BY <2>1 DEF Source
  <1>2. \A p \in Source : ~p.partial
    BY DEF Source, Place
  <1>3. \A p \in Path : Partial(p) \in Path /\ Partial(p).partial
    BY DEF Path, Partial
  <1>4. ASSUME NEW p \in Path, NEW q \in Path, ~p.partial, ~q.partial, Partial(p) = Partial(q)
        PROVE  p = q
    <2>1. /\ p = [dir |-> p.dir, name |-> p.name, copy |-> p.copy, partial |-> FALSE]
          /\ q = [dir |-> q.dir, name |-> q.name, copy |-> q.copy, partial |-> FALSE]
      BY <1>4 DEF Path
    <2>2. p.dir = q.dir /\ p.name = q.name /\ p.copy = q.copy
      BY <1>4 DEF Path, Partial
    <2> QED BY <2>1, <2>2
  <1> QED BY <1>1, <1>2, <1>3, <1>4

(* The item in hand is one of the sources, and its natural destination is  *)
(* a final name.                                                           *)
LEMMA ItemFacts ==
    ASSUME TypeOK, NEW j \in Jobs, at[j] <= Len(work[j].sources)
    PROVE  /\ Item(j) \in Source
           /\ Natural(j) \in Path /\ ~Natural(j).partial
           /\ <<j, at[j]>> \in Inode /\ <<j, at[j]>> # None
  <1>1. work[j].sources \in Seq(Source) /\ work[j].target \in Dirs
    BY TransferAssumption DEF TypeOK, Work
  <1>2. at[j] \in 1..Len(work[j].sources)
    BY <1>1 DEF TypeOK
  <1>3. Item(j) \in Source
    BY <1>1, <1>2, ElementOfSeq DEF Item
  <1>4. Natural(j) \in Path /\ ~Natural(j).partial
    BY <1>1, <1>3, PathFacts DEF Natural, Path
  <1>5. <<j, at[j]>> \in Inode
    BY <1>1, <1>2, TransferAssumption DEF TypeOK, Inode
  <1> QED BY <1>3, <1>4, <1>5 DEF None

(* uniqueDestination finds a free name that is partial just when the old   *)
(* one is.                                                                 *)
LEMMA UniqueFacts ==
    ASSUME NEW p \in Path, FreeCopies(p) # {}
    PROVE  /\ Unique(p) \in Path
           /\ Unique(p).partial = p.partial
           /\ fs[Unique(p)] = None
  <1> DEFINE c == CHOOSE n \in FreeCopies(p) : \A e \in FreeCopies(p) : n <= e
  <1>1. FreeCopies(p) \in SUBSET Nat
    BY TransferAssumption DEF FreeCopies
  <1>2. c \in FreeCopies(p)
    BY <1>1, LeastNumber
  <1>3. c \in 1..MaxCopies /\ fs[[p EXCEPT !.copy = c]] = None
    BY <1>2, TransferAssumption DEF FreeCopies
  <1>4. Unique(p) = [p EXCEPT !.copy = c]
    BY DEF Unique
  <1> HIDE DEF c
  <1> QED BY <1>3, <1>4 DEF Path

(* A file is written in two chunks. *)
LEMMA ChunkCount == Cardinality(Chunks) = 2
  <1>1. IsFiniteSet({1}) /\ Cardinality({1}) = 1
    BY FS_Singleton
  <1>2. Cardinality({1} \cup {2}) = 1 + 1
    BY <1>1, FS_AddElement
  <1>3. Chunks = {1} \cup {2}
    BY DEF Chunks
  <1> QED BY <1>2, <1>3

-----------------------------------------------------------------------------
(* Types *)

(* The first state has the types. *)
LEMMA InitType ==
    ASSUME Init
    PROVE  TypeOK
  <1>1. PICK kind \in [Source -> Kinds] :
            /\ nodes = [i \in Inode |->
                   IF i[2] = 0 THEN [kind |-> kind[i[1]], data |-> [c \in Chunks |-> i[1]]]
                   ELSE NoNode]
            /\ fs = [p \in Path |-> IF p \in Source /\ kind[p] # "none" THEN <<p, 0>> ELSE None]
    BY DEF Init
  <1>2. nodes \in [Inode -> Node]
    <2>1. NoNode \in Node
      BY DEF NoNode, Node
    <2>2. ASSUME NEW i \in Inode, i[2] = 0 PROVE i[1] \in Source
      BY <2>2 DEF Inode
    <2>3. ASSUME NEW o \in Source
          PROVE  [kind |-> kind[o], data |-> [c \in Chunks |-> o]] \in Node
      BY DEF Node
    <2> QED BY <1>1, <2>1, <2>2, <2>3
  <1>3. fs \in [Path -> Inode \cup {None}]
    BY <1>1 DEF Inode
  <1>4. ASSUME NEW j \in Jobs
        PROVE  /\ work[j] \in Work
               /\ Len(work[j].sources) \in Nat /\ Len(work[j].sources) <= MaxItems
    <2>1. /\ work[j].mode \in {"Copy", "Move"} /\ work[j].target \in Targets
          /\ work[j] = [mode |-> work[j].mode, target |-> work[j].target, sources |-> work[j].sources]
          /\ work[j].sources \in UNION {[1..n -> Source] : n \in 0..MaxItems}
      BY DEF Init
    <2>2. PICK n \in 0..MaxItems : work[j].sources \in [1..n -> Source]
      BY <2>1
    <2>3. work[j].sources \in Seq(Source) /\ Len(work[j].sources) = n
      BY <2>2, SeqDef, TransferAssumption
    <2> QED BY <2>1, <2>3, TransferAssumption DEF Work
  <1>5. ASSUME NEW j \in Jobs PROVE AnyPath \in Path
    <2>1. PICK d \in Dirs, n \in Names : TRUE
      BY <1>4, TransferAssumption DEF Work
    <2>2. Place(d, n, 1) \in Path
      BY PathFacts DEF Source
    <2> QED BY <2>2 DEF AnyPath
  <1>6. /\ work \in [Jobs -> Work] /\ \A j \in Jobs : Len(work[j].sources) <= MaxItems
        /\ at \in [Jobs -> Nat] /\ \A j \in Jobs : at[j] \in 1..(Len(work[j].sources) + 1)
    <2>1. at = [j \in Jobs |-> 1]
      BY DEF Init
    <2>2. work = [j \in Jobs |-> work[j]]
      BY DEF Init
    <2> QED BY <1>4, <2>1, <2>2
  <1>7. /\ faults \in 0..MaxFaults
        /\ pc \in [Jobs -> PC] /\ cancelled \subseteq Jobs
        /\ links \in [Jobs -> SUBSET Source]
        /\ dest \in [Jobs -> Path]
        /\ fd \in [Jobs -> [in : Inode \cup {None}, out : Inode \cup {None}]]
    <2>1. /\ faults = 0 /\ pc = [j \in Jobs |-> "Submitted"] /\ cancelled = {}
          /\ links = [j \in Jobs |-> {}] /\ dest = [j \in Jobs |-> AnyPath]
          /\ fd = [j \in Jobs |-> [in |-> None, out |-> None]]
      BY DEF Init
    <2> QED BY <2>1, <1>5, TransferAssumption DEF PC
  <1>8. chunk \in [Jobs -> 0..Cardinality(Chunks)]
    <2>1. chunk = [j \in Jobs |-> 0]
      BY DEF Init
    <2> QED BY <2>1, ChunkCount
  <1>9. /\ created \in [Jobs -> Seq(Path)] /\ removed \in [Jobs -> Seq(Source)]
        /\ told \subseteq Jobs /\ contested \subseteq Jobs
        /\ shared \subseteq Inode /\ given \subseteq Source
        /\ moved \in [Jobs -> SUBSET (Source \X Path)] /\ ragged \subseteq Jobs
    <2>1. /\ created = [j \in Jobs |-> <<>>] /\ removed = [j \in Jobs |-> <<>>]
          /\ told = {} /\ contested = {} /\ shared = {} /\ given = {}
          /\ moved = [j \in Jobs |-> {}] /\ ragged = {}
      BY DEF Init
    <2> QED BY <2>1
  <1> QED BY <1>2, <1>3, <1>6, <1>7, <1>8, <1>9 DEF TypeOK

(* A step leaves the others where they are. *)
LEMMA OthersKept ==
    ASSUME TypeOK, NEW j \in Jobs, Step(j) \/ Cancel(j), NEW k \in Jobs \ {j}
    PROVE  /\ pc'[k] = pc[k] /\ at'[k] = at[k] /\ dest'[k] = dest[k]
           /\ fd'[k] = fd[k] /\ chunk'[k] = chunk[k] /\ links'[k] = links[k]
           /\ created'[k] = created[k] /\ removed'[k] = removed[k] /\ moved'[k] = moved[k]
           /\ k \in told' <=> k \in told
           /\ k \in ragged' <=> k \in ragged
  <1> USE DEF NextItem, Goto, TouchesNothing, Touches, Settle, AfterCopy, AddCreated, AddRemoved,
              Closed, RenamesPartial, itemVars, logVars, fsVars, history, TypeOK
  <1>1. CASE Enumerate(j) BY <1>1 DEF Enumerate
  <1>2. CASE Begin(j) BY <1>2 DEF Begin
  <1>3. CASE AnswerOverwrite(j) BY <1>3 DEF AnswerOverwrite
  <1>4. CASE AnswerRename(j) BY <1>4 DEF AnswerRename
  <1>5. CASE AnswerSkip(j) BY <1>5 DEF AnswerSkip
  <1>6. CASE RenameItem(j) BY <1>6 DEF RenameItem
  <1>7. CASE RenameFails(j) BY <1>7 DEF RenameFails
  <1>8. CASE UnlinkForLink(j) BY <1>8 DEF UnlinkForLink
  <1>9. CASE ReadLinkFails(j) BY <1>9 DEF ReadLinkFails
  <1>10. CASE MakeLink(j)
    <2>1. CASE work[j].mode = "Move" BY <1>10, <2>1 DEF MakeLink
    <2>2. CASE work[j].mode # "Move" BY <1>10, <2>2 DEF MakeLink
    <2> QED BY <2>1, <2>2
  <1>11. CASE LinkFails(j) BY <1>11 DEF LinkFails
  <1>12. CASE OpenFiles(j) BY <1>12 DEF OpenFiles
  <1>13. CASE OpenFails(j) BY <1>13 DEF OpenFails
  <1>14. CASE WriteChunk(j) BY <1>14 DEF WriteChunk
  <1>15. CASE FallBack(j) BY <1>15 DEF FallBack
  <1>16. CASE AbandonCopy(j) BY <1>16 DEF AbandonCopy
  <1>17. CASE RenamePartial(j)
    <2>1. CASE work[j].mode = "Move" BY <1>17, <2>1 DEF RenamePartial
    <2>2. CASE work[j].mode # "Move" BY <1>17, <2>2 DEF RenamePartial
    <2> QED BY <2>1, <2>2
  <1>18. CASE UnlinkSource(j) BY <1>18 DEF UnlinkSource
  <1>19. CASE UnlinkFails(j) BY <1>19 DEF UnlinkFails
  <1>20. CASE Finish(j) BY <1>20 DEF Finish
  <1>21. CASE Cancel(j)
    <2>1. CASE pc[j] = "Asking" BY <1>21, <2>1 DEF Cancel
    <2>2. CASE pc[j] # "Asking" BY <1>21, <2>2 DEF Cancel
    <2> QED BY <2>1, <2>2
  <1> QED
    BY <1>1, <1>2, <1>3, <1>4, <1>5, <1>6, <1>7, <1>8, <1>9, <1>10, <1>11, <1>12, <1>13, <1>14,
       <1>15, <1>16, <1>17, <1>18, <1>19, <1>20, <1>21 DEF Step

(* What a job does at the end of an item, whatever the item was. *)
LEMMA NextItemType ==
    ASSUME TypeOK, NEW j \in Jobs, at[j] <= Len(work[j].sources), NextItem(j), work' = work
    PROVE  /\ pc' \in [Jobs -> PC] /\ dest' \in [Jobs -> Path] /\ told' \subseteq Jobs
           /\ at' \in [Jobs -> Nat] /\ \A k \in Jobs : at'[k] \in 1..(Len(work'[k].sources) + 1)
  <1>1. AnyPath \in Path
    BY ItemFacts, PathFacts DEF AnyPath
  <1>2. \A k \in Jobs : Len(work[k].sources) \in Nat
    BY DEF TypeOK, Work
  <1> QED BY <1>1, <1>2 DEF NextItem, Goto, TypeOK, PC

(* The file systems' types are of what is created, removed and written. *)
LEMMA FsType ==
    ASSUME TypeOK, LocalInv, NEW j \in Jobs, Step(j) \/ Cancel(j)
    PROVE  /\ nodes' \in [Inode -> Node]
           /\ fs' \in [Path -> Inode \cup {None}]
           /\ faults' \in 0..MaxFaults
           /\ shared' \subseteq Inode
  <1> USE DEF TypeOK, TouchesNothing, Fault, fsVars, history, itemVars, Working
  <1>1. CASE RenameItem(j)
    BY <1>1, ItemFacts, PathFacts DEF LocalInv, InHand, RenameItem, Renamed, Touches
  <1>2. CASE UnlinkForLink(j)
    BY <1>2, ItemFacts, PathFacts DEF LocalInv, InHand, UnlinkForLink, Touches
  <1>3. CASE MakeLink(j)
    BY <1>3, ItemFacts, PathFacts DEF LocalInv, InHand, MakeLink, Touches
  <1>4. CASE OpenFiles(j)
    <2>1. Empty \in Node
      BY DEF Empty, Node
    <2>2. /\ <<j, at[j]>> \in Inode /\ Partial(dest[j]) \in Path
      BY <1>4, ItemFacts, PathFacts DEF LocalInv, InHand, OpenFiles
    <2>3. PICK out \in Inode :
              /\ fs' = [fs EXCEPT ![Partial(dest[j])] = out]
              /\ nodes' = [nodes EXCEPT ![out] = Empty]
              /\ shared' \subseteq shared \cup {out}
      BY <1>4, <2>2 DEF OpenFiles
    <2> QED BY <1>4, <2>1, <2>2, <2>3 DEF OpenFiles
  <1>5. CASE WriteChunk(j)
    <2>1. fd[j].in \in Inode /\ fd[j].out \in Inode
      BY <1>5 DEF LocalInv, InHand, WriteChunk
    <2> DEFINE c == chunk[j] + 1
               new == [nodes[fd[j].out].data EXCEPT ![c] = nodes[fd[j].in].data[c]]
    <2>2. c \in Chunks
      BY <1>5, ChunkCount DEF WriteChunk, Chunks
    <2>3. nodes[fd[j].out] \in Node /\ nodes[fd[j].in] \in Node
      BY <2>1
    <2>4. new \in [Chunks -> Source \cup {None}]
      BY <2>2, <2>3 DEF Node
    <2>5. nodes' = [nodes EXCEPT ![fd[j].out] = [@ EXCEPT !.data = new]]
      BY <1>5 DEF WriteChunk
    <2> HIDE DEF new
    <2>6. [nodes[fd[j].out] EXCEPT !.data = new] \in Node
      BY <2>3, <2>4 DEF Node
    <2> QED BY <1>5, <2>1, <2>5, <2>6 DEF WriteChunk, Touches
  <1>6. CASE FallBack(j)
    <2>1. Empty \in Node
      BY DEF Empty, Node
    <2>2. fd[j].out \in Inode
      BY <1>6 DEF LocalInv, InHand, FallBack
    <2> QED BY <1>6, <2>1, <2>2, TransferAssumption DEF FallBack, Touches
  <1>7. CASE AbandonCopy(j)
    <2>1. fs' = [fs EXCEPT ![Partial(dest[j])] = None] /\ nodes' = nodes /\ shared' = shared
      BY <1>7 DEF AbandonCopy
    <2>2. faults' = faults \/ (faults < MaxFaults /\ faults' = faults + 1)
      BY <1>7 DEF AbandonCopy
    <2>3. fs' \in [Path -> Inode \cup {None}]
      BY <2>1
    <2>4. faults' \in 0..MaxFaults
      BY <2>2, TransferAssumption
    <2> QED BY <2>1, <2>3, <2>4
  <1>8. CASE RenamePartial(j)
    BY <1>8, PathFacts DEF LocalInv, InHand, RenamePartial, RenamesPartial, Renamed, Touches
  <1>9. CASE UnlinkSource(j)
    BY <1>9, ItemFacts, PathFacts DEF LocalInv, InHand, UnlinkSource, Touches
  <1>10. CASE \/ Enumerate(j) \/ Begin(j) \/ AnswerOverwrite(j) \/ AnswerRename(j)
              \/ AnswerSkip(j) \/ RenameFails(j) \/ ReadLinkFails(j) \/ LinkFails(j)
              \/ OpenFails(j) \/ UnlinkFails(j) \/ Finish(j) \/ Cancel(j)
    BY <1>10, TransferAssumption
       DEF Enumerate, Begin, AnswerOverwrite, AnswerRename, AnswerSkip, RenameFails,
           ReadLinkFails, LinkFails, OpenFails, UnlinkFails, Finish, Cancel
  <1> QED
    BY <1>1, <1>2, <1>3, <1>4, <1>5, <1>6, <1>7, <1>8, <1>9, <1>10 DEF Step

(* So are the types of what is recorded for the properties.                *)
LEMMA HistoryType ==
    ASSUME TypeOK, NEW j \in Jobs, Step(j) \/ Cancel(j)
    PROVE  given' \subseteq Source /\ contested' \subseteq Jobs
  <1> USE DEF TypeOK
  <1>1. CASE \/ RenameItem(j) \/ UnlinkForLink(j) \/ MakeLink(j) \/ OpenFiles(j) \/ WriteChunk(j)
             \/ FallBack(j) \/ AbandonCopy(j) \/ RenamePartial(j) \/ UnlinkSource(j)
    <2>1. ASSUME NEW paths, Touches(j, paths)
          PROVE  given' \subseteq Source /\ contested' \subseteq Jobs
      BY <2>1 DEF Touches, Working
    <2>2. CASE RenameItem(j) BY <2>1, <2>2 DEF RenameItem
    <2>3. CASE UnlinkForLink(j) BY <2>1, <2>3 DEF UnlinkForLink
    <2>4. CASE MakeLink(j) BY <2>1, <2>4 DEF MakeLink
    <2>5. CASE OpenFiles(j) BY <2>1, <2>5 DEF OpenFiles
    <2>6. CASE WriteChunk(j) BY <2>1, <2>6 DEF WriteChunk
    <2>7. CASE FallBack(j) BY <2>1, <2>7 DEF FallBack
    <2>8. CASE AbandonCopy(j) BY <2>1, <2>8 DEF AbandonCopy
    <2>9. CASE RenamePartial(j) BY <2>1, <2>9 DEF RenamePartial
    <2>10. CASE UnlinkSource(j) BY <2>1, <2>10 DEF UnlinkSource
    <2> QED BY <1>1, <2>2, <2>3, <2>4, <2>5, <2>6, <2>7, <2>8, <2>9, <2>10
  <1>2. CASE \/ Enumerate(j) \/ Begin(j) \/ AnswerOverwrite(j) \/ AnswerRename(j)
             \/ AnswerSkip(j) \/ RenameFails(j) \/ ReadLinkFails(j) \/ LinkFails(j)
             \/ OpenFails(j) \/ UnlinkFails(j) \/ Finish(j) \/ Cancel(j)
    BY <1>2 DEF Enumerate, Begin, AnswerOverwrite, AnswerRename, AnswerSkip, RenameFails,
           ReadLinkFails, LinkFails, OpenFails, UnlinkFails, Finish, Cancel, TouchesNothing,
           fsVars, history
  <1> QED BY <1>1, <1>2 DEF Step

(* Whatever a job settles on, it goes on with a path of its own. *)
LEMMA SettleType ==
    ASSUME TypeOK, NEW j \in Jobs, NEW p \in Path, Settle(j, p)
    PROVE  dest' \in [Jobs -> Path] /\ pc' \in [Jobs -> PC]
  BY DEF Settle, Goto, TypeOK, PC

(* A step keeps the types of where the jobs are, *)
LEMMA LocalType ==
    ASSUME TypeOK, LocalInv, NEW j \in Jobs, Step(j) \/ Cancel(j)
    PROVE  /\ work' = work
           /\ pc' \in [Jobs -> PC] /\ dest' \in [Jobs -> Path] /\ told' \subseteq Jobs
           /\ at' \in [Jobs -> Nat] /\ \A k \in Jobs : at'[k] \in 1..(Len(work'[k].sources) + 1)
           /\ cancelled' \subseteq Jobs
           /\ links' \in [Jobs -> SUBSET Source]
           /\ ragged' \subseteq Jobs
  <1> USE DEF TypeOK, Goto, TouchesNothing, Touches, itemVars, fsVars, history, LocalInv, InHand,
              Working, PC
  <1>0. work' = work
    BY DEF Step, Enumerate, Begin, AnswerOverwrite, AnswerRename, AnswerSkip, RenameItem,
           RenameFails, UnlinkForLink, ReadLinkFails, MakeLink, LinkFails, OpenFiles, OpenFails,
           WriteChunk, FallBack, AbandonCopy, RenamePartial, UnlinkSource, UnlinkFails, Finish,
           Cancel
  <1>1. CASE Enumerate(j)
    <2>1. {p \in Range(work[j].sources) : HoldsLink(p)} \subseteq Source
      BY ElementOfSeq DEF Range, Work
    <2> QED BY <1>1, <2>1 DEF Enumerate
  <1>2. CASE Begin(j)
    <2>1. Natural(j) \in Path
      BY <1>2, ItemFacts DEF Begin
    <2>2. CASE Settle(j, Natural(j))
      BY <1>2, <2>1, <2>2, SettleType DEF Begin
    <2>3. CASE Goto(j, "Asking") /\ dest' = [dest EXCEPT ![j] = Natural(j)]
      BY <1>2, <2>1, <2>3 DEF Begin
    <2> QED BY <1>2, <2>2, <2>3 DEF Begin
  <1>3. CASE AnswerOverwrite(j)
    BY <1>3, ItemFacts, SettleType DEF AnswerOverwrite
  <1>4. CASE AnswerRename(j)
    BY <1>4, ItemFacts, UniqueFacts, SettleType DEF AnswerRename
  <1>5. CASE AnswerSkip(j)
    BY <1>5, <1>0, NextItemType DEF AnswerSkip
  <1>6. CASE RenameItem(j)
    BY <1>6, <1>0, NextItemType DEF RenameItem
  <1>7. CASE RenameFails(j)
    BY <1>7 DEF RenameFails
  <1>8. CASE UnlinkForLink(j)
    BY <1>8 DEF UnlinkForLink
  <1>9. CASE ReadLinkFails(j)
    BY <1>9, <1>0, NextItemType DEF ReadLinkFails
  <1>10. CASE MakeLink(j)
    <2>1. CASE work[j].mode = "Move"
      BY <1>10, <2>1 DEF MakeLink, AfterCopy
    <2>2. CASE work[j].mode # "Move"
      BY <1>10, <2>2, <1>0, NextItemType DEF MakeLink, AfterCopy
    <2> QED BY <2>1, <2>2
  <1>11. CASE LinkFails(j)
    BY <1>11, <1>0, NextItemType DEF LinkFails
  <1>12. CASE OpenFiles(j)
    BY <1>12 DEF OpenFiles
  <1>13. CASE OpenFails(j)
    BY <1>13, <1>0, NextItemType DEF OpenFails
  <1>14. CASE WriteChunk(j)
    BY <1>14 DEF WriteChunk
  <1>15. CASE FallBack(j)
    BY <1>15 DEF FallBack
  <1>16. CASE AbandonCopy(j)
    BY <1>16, <1>0, NextItemType DEF AbandonCopy
  <1>17. CASE RenamePartial(j)
    <2>1. CASE work[j].mode = "Move"
      BY <1>17, <2>1 DEF RenamePartial, AfterCopy
    <2>2. CASE work[j].mode # "Move"
      BY <1>17, <2>2, <1>0, NextItemType DEF RenamePartial, AfterCopy
    <2> QED BY <2>1, <2>2
  <1>18. CASE UnlinkSource(j)
    BY <1>18, <1>0, NextItemType DEF UnlinkSource
  <1>19. CASE UnlinkFails(j)
    BY <1>19, <1>0, NextItemType DEF UnlinkFails
  <1>20. CASE Finish(j)
    BY <1>20 DEF Finish
  <1>21. CASE Cancel(j)
    <2>1. CASE pc[j] = "Asking"
      BY <1>21, <2>1, <1>0, NextItemType DEF Cancel
    <2>2. CASE pc[j] # "Asking"
      BY <1>21, <2>2, <1>0 DEF Cancel
    <2> QED BY <2>1, <2>2
  <1> QED
    BY <1>1, <1>2, <1>3, <1>4, <1>5, <1>6, <1>7, <1>8, <1>9, <1>10, <1>11, <1>12, <1>13, <1>14,
       <1>15, <1>16, <1>17, <1>18, <1>19, <1>20, <1>21 DEF Step

(* of the files they have open and how far they have copied, *)
LEMMA OpenType ==
    ASSUME TypeOK, LocalInv, NEW j \in Jobs, Step(j) \/ Cancel(j)
    PROVE  /\ fd' \in [Jobs -> [in : Inode \cup {None}, out : Inode \cup {None}]]
           /\ chunk' \in [Jobs -> 0..Cardinality(Chunks)]
  <1> USE DEF TypeOK, LocalInv, InHand, Working
  <1>0. ASSUME NEW i \in Inode \cup {None}, fd' = [fd EXCEPT ![j].in = i]
        PROVE  fd' \in [Jobs -> [in : Inode \cup {None}, out : Inode \cup {None}]]
    BY <1>0
  <1>1. CASE UnlinkForLink(j)
    <2>1. fs[Item(j)] \in Inode \cup {None}
      BY <1>1, ItemFacts, PathFacts DEF UnlinkForLink
    <2> QED BY <1>1, <1>0, <2>1 DEF UnlinkForLink
  <1>2. CASE MakeLink(j)
    BY <1>2 DEF MakeLink
  <1>3. CASE LinkFails(j)
    BY <1>3 DEF LinkFails
  <1>4. CASE OpenFiles(j)
    <2>1. /\ fs[Item(j)] \in Inode \cup {None} /\ fs[Partial(dest[j])] \in Inode \cup {None}
          /\ <<j, at[j]>> \in Inode
      BY <1>4, ItemFacts, PathFacts DEF OpenFiles
    <2> QED BY <1>4, <2>1, ChunkCount DEF OpenFiles
  <1>5. CASE WriteChunk(j)
    <2>1. /\ chunk[j] \in 0..2 /\ chunk[j] < 2
          /\ chunk' = [chunk EXCEPT ![j] = chunk[j] + 1]
      BY <1>5, ChunkCount DEF WriteChunk
    <2>2. chunk[j] + 1 \in 0..2 /\ Cardinality(Chunks) = 2
      BY <2>1, ChunkCount
    <2>3. chunk' \in [Jobs -> 0..Cardinality(Chunks)]
      BY <2>1, <2>2
    <2> QED BY <1>5, <2>3 DEF WriteChunk
  <1>6. CASE FallBack(j)
    BY <1>6, ChunkCount DEF FallBack
  <1>7. CASE AbandonCopy(j)
    BY <1>7, ChunkCount DEF AbandonCopy, Closed
  <1>8. CASE RenamePartial(j)
    BY <1>8, ChunkCount DEF RenamePartial, Closed
  <1>9. CASE \/ Enumerate(j) \/ Begin(j) \/ AnswerOverwrite(j) \/ AnswerRename(j) \/ AnswerSkip(j)
             \/ RenameItem(j) \/ RenameFails(j) \/ ReadLinkFails(j) \/ OpenFails(j)
             \/ UnlinkSource(j) \/ UnlinkFails(j) \/ Finish(j) \/ Cancel(j)
    <2>1. UNCHANGED <<fd, chunk>>
      BY <1>9 DEF Enumerate, Begin, AnswerOverwrite, AnswerRename, AnswerSkip, RenameItem,
                  RenameFails, ReadLinkFails, OpenFails, UnlinkSource, UnlinkFails, Finish,
                  Cancel, itemVars
    <2> QED BY <2>1
  <1> QED BY <1>1, <1>2, <1>3, <1>4, <1>5, <1>6, <1>7, <1>8, <1>9 DEF Step

(* and of what they note for undo. *)
LEMMA LogType ==
    ASSUME TypeOK, LocalInv, NEW j \in Jobs, Step(j) \/ Cancel(j)
    PROVE  /\ created' \in [Jobs -> Seq(Path)] /\ removed' \in [Jobs -> Seq(Source)]
           /\ moved' \in [Jobs -> SUBSET (Source \X Path)]
  <1> USE DEF TypeOK, logVars, AddCreated, AddRemoved, LocalInv, InHand, Working
  <1>1. Append(created[j], dest[j]) \in Seq(Path)
    BY AppendProperties
  <1>2. ASSUME at[j] <= Len(work[j].sources)
        PROVE  /\ Append(removed[j], Item(j)) \in Seq(Source)
               /\ moved[j] \cup {<<Item(j), dest[j]>>} \in SUBSET (Source \X Path)
    <2>1. Item(j) \in Source
      BY <1>2, ItemFacts
    <2>2. Append(removed[j], Item(j)) \in Seq(Source)
      BY <2>1, AppendProperties
    <2> QED BY <2>1, <2>2
  <1>3. CASE RenameItem(j)
    BY <1>1, <1>2, <1>3 DEF RenameItem
  <1>4. CASE MakeLink(j)
    BY <1>1, <1>4 DEF MakeLink
  <1>5. CASE RenamePartial(j)
    BY <1>1, <1>5 DEF RenamePartial
  <1>6. CASE UnlinkSource(j)
    BY <1>2, <1>6 DEF UnlinkSource
  <1>7. CASE \/ Enumerate(j) \/ Begin(j) \/ AnswerOverwrite(j) \/ AnswerRename(j) \/ AnswerSkip(j)
             \/ RenameFails(j) \/ UnlinkForLink(j) \/ ReadLinkFails(j) \/ LinkFails(j)
             \/ OpenFiles(j) \/ OpenFails(j) \/ WriteChunk(j) \/ FallBack(j) \/ AbandonCopy(j)
             \/ UnlinkFails(j) \/ Finish(j) \/ Cancel(j)
    <2>1. UNCHANGED logVars
      BY <1>7 DEF Enumerate, Begin, AnswerOverwrite, AnswerRename, AnswerSkip, RenameFails,
                  UnlinkForLink, ReadLinkFails, LinkFails, OpenFiles, OpenFails, WriteChunk,
                  FallBack, AbandonCopy, UnlinkFails, Finish, Cancel
    <2> QED BY <2>1
  <1> QED BY <1>3, <1>4, <1>5, <1>6, <1>7 DEF Step

(* So a step keeps all types, *)
LEMMA TypeStep ==
    ASSUME TypeOK, LocalInv, NEW j \in Jobs, Step(j) \/ Cancel(j)
    PROVE  TypeOK'
  BY FsType, HistoryType, LocalType, OpenType, LogType DEF TypeOK

-----------------------------------------------------------------------------
(* The item in hand *)

(* and leaves every job with the item its place in the code calls for. *)
LEMMA LocalStep ==
    ASSUME TypeOK, LocalInv, NEW j \in Jobs, Step(j) \/ Cancel(j)
    PROVE  LocalInv'
  <1>1. ASSUME NEW k \in Jobs \ {j} PROVE InHand(k)'
    BY OthersKept, LocalType DEF LocalInv, InHand, IsLink, Item
  <1>2. InHand(j)'
    <2> USE DEF TypeOK, Goto, NextItem, LocalInv, InHand, IsLink, Item, itemVars
    <2>1. CASE Enumerate(j) BY <2>1 DEF Enumerate
    <2>2. CASE Begin(j)
      <3>1. ~Natural(j).partial /\ Natural(j) \in Path
        BY <2>2, ItemFacts DEF Begin
      <3>2. dest' = [dest EXCEPT ![j] = Natural(j)]
        BY <2>2 DEF Begin, Settle
      <3>3. pc'[j] \in {"Asking", "Rename", "Copy"}
        BY <2>2 DEF Begin, Settle
      <3> QED BY <2>2, <3>1, <3>2, <3>3 DEF Begin
    <2>3. CASE AnswerOverwrite(j)
      <3>1. ~Natural(j).partial /\ Natural(j) \in Path
        BY <2>3, ItemFacts DEF AnswerOverwrite
      <3>2. dest' = [dest EXCEPT ![j] = Natural(j)] /\ pc'[j] \in {"Rename", "Copy"}
        BY <2>3 DEF AnswerOverwrite, Settle
      <3> QED BY <2>3, <3>1, <3>2 DEF AnswerOverwrite
    <2>4. CASE AnswerRename(j)
      <3>1. ~Unique(Natural(j)).partial
        BY <2>4, ItemFacts, UniqueFacts DEF AnswerRename
      <3>2. dest' = [dest EXCEPT ![j] = Unique(Natural(j))] /\ pc'[j] \in {"Rename", "Copy"}
        BY <2>4 DEF AnswerRename, Settle
      <3> QED BY <2>4, <3>1, <3>2 DEF AnswerRename
    <2>5. CASE \/ AnswerSkip(j) \/ RenameItem(j) \/ ReadLinkFails(j) \/ LinkFails(j)
               \/ OpenFails(j) \/ AbandonCopy(j) \/ UnlinkSource(j) \/ UnlinkFails(j)
      BY <2>5 DEF AnswerSkip, RenameItem, ReadLinkFails, LinkFails, OpenFails, AbandonCopy,
                  UnlinkSource, UnlinkFails
    <2>6. CASE RenameFails(j) BY <2>6 DEF RenameFails
    <2>7. CASE UnlinkForLink(j) BY <2>7 DEF UnlinkForLink, HoldsLink
    <2>8. CASE MakeLink(j) BY <2>8 DEF MakeLink, AfterCopy
    <2>9. CASE OpenFiles(j)
      BY <2>9, ItemFacts DEF OpenFiles, Exists
    <2>10. CASE WriteChunk(j) BY <2>10 DEF WriteChunk
    <2>11. CASE FallBack(j) BY <2>11 DEF FallBack
    <2>12. CASE RenamePartial(j) BY <2>12 DEF RenamePartial, AfterCopy
    <2>13. CASE Finish(j) BY <2>13 DEF Finish
    <2>14. CASE Cancel(j) BY <2>14 DEF Cancel
    <2> QED BY <2>1, <2>2, <2>3, <2>4, <2>5, <2>6, <2>7, <2>8, <2>9, <2>10, <2>11, <2>12, <2>13,
               <2>14 DEF Step
  <1> QED BY <1>1, <1>2 DEF LocalInv

(* No job has an item in hand in the beginning. *)
LEMMA LocalInit ==
    ASSUME Init
    PROVE  LocalInv
  <1>1. pc = [j \in Jobs |-> "Submitted"]
    BY DEF Init
  <1> QED BY <1>1 DEF LocalInv, InHand

(* What changes the state is a job's step or its cancellation. *)
LEMMA NextIsStep ==
    ASSUME [Next]_vars
    PROVE  (\E j \in Jobs : Step(j) \/ Cancel(j)) \/ vars' = vars
  BY DEF Next

(* The types stay when nothing happens. *)
LEMMA TypeStutter ==
    ASSUME TypeOK, LocalInv, UNCHANGED vars
    PROVE  TypeOK' /\ LocalInv'
  BY DEF vars, fsVars, itemVars, history, logVars, TypeOK, LocalInv, InHand, IsLink, Item

(* Every variable has its type, and every job in the middle of an item has *)
(* one in hand, in every state of every number of jobs and sources.        *)
THEOREM TypesHold == Spec => [](TypeOK /\ LocalInv)
  <1>1. Init => TypeOK /\ LocalInv
    BY InitType, LocalInit
  <1>2. TypeOK /\ LocalInv /\ [Next]_vars => TypeOK' /\ LocalInv'
    BY NextIsStep, TypeStep, LocalStep, TypeStutter
  <1> QED BY <1>1, <1>2, PTL DEF Spec

-----------------------------------------------------------------------------
(* Partial files *)

(* Only opening one makes a partial file, and who leaves it behind removes *)
(* or renames it.                                                          *)
LEMMA PartialsStep ==
    ASSUME TypeOK, LocalInv, PartialsAreInUse, NEW j \in Jobs, Step(j) \/ Cancel(j)
    PROVE  PartialsAreInUse'
  <1> SUFFICES ASSUME NEW p \in Path, p.partial, fs'[p] # None
               PROVE  \E k \in Jobs : pc'[k] = "Write" /\ Partial(dest'[k]) = p
    BY DEF PartialsAreInUse, Partial
  <1>0. \A k \in Jobs \ {j} : pc'[k] = pc[k] /\ dest'[k] = dest[k]
    BY OthersKept
  <1> USE DEF TypeOK, LocalInv, InHand
  <1>1. CASE OpenFiles(j)
    <2>1. pc'[j] = "Write" /\ dest' = dest /\ pc' = [pc EXCEPT ![j] = "Write"]
      BY <1>1 DEF OpenFiles, Goto
    <2>2. CASE p = Partial(dest[j])
      BY <2>1, <2>2
    <2>3. CASE p # Partial(dest[j])
      <3>1. fs[p] # None
        BY <1>1, <2>3 DEF OpenFiles
      <3>2. PICK k \in Jobs : pc[k] = "Write" /\ Partial(dest[k]) = p
        BY <3>1 DEF PartialsAreInUse
      <3> QED BY <2>1, <3>2
    <2> QED BY <2>2, <2>3
  <1>2. CASE AbandonCopy(j) \/ RenamePartial(j)
    <2>1. pc[j] = "Write" /\ ~dest[j].partial /\ dest[j] \in Path
      BY <1>2 DEF AbandonCopy, RenamePartial
    <2>2. fs[p] # None /\ p # Partial(dest[j])
      BY <1>2, <2>1, PathFacts DEF AbandonCopy, RenamePartial, RenamesPartial, Renamed
    <2>3. PICK k \in Jobs : pc[k] = "Write" /\ Partial(dest[k]) = p
      BY <2>2 DEF PartialsAreInUse
    <2>4. k # j
      BY <2>2, <2>3
    <2> QED BY <2>3, <2>4, <1>0
  <1>3. CASE \/ RenameItem(j) \/ UnlinkForLink(j) \/ MakeLink(j) \/ UnlinkSource(j)
    <2>1. /\ pc[j] \in {"Rename", "Copy", "Link", "Unlink"}
          /\ ~dest[j].partial /\ ~Item(j).partial /\ ~Natural(j).partial
      BY <1>3, ItemFacts, PathFacts DEF RenameItem, UnlinkForLink, MakeLink, UnlinkSource
    <2>2. fs[p] # None
      BY <1>3, <2>1 DEF RenameItem, UnlinkForLink, MakeLink, UnlinkSource, Renamed
    <2>3. PICK k \in Jobs : pc[k] = "Write" /\ Partial(dest[k]) = p
      BY <2>2 DEF PartialsAreInUse
    <2>4. k # j
      BY <2>1, <2>3
    <2> QED BY <2>3, <2>4, <1>0
  <1>4. CASE \/ Enumerate(j) \/ Begin(j) \/ AnswerOverwrite(j) \/ AnswerRename(j) \/ AnswerSkip(j)
             \/ RenameFails(j) \/ ReadLinkFails(j) \/ LinkFails(j) \/ OpenFails(j)
             \/ UnlinkFails(j) \/ Finish(j)
    <2>1. fs' = fs /\ pc[j] # "Write"
      BY <1>4 DEF Enumerate, Begin, AnswerOverwrite, AnswerRename, AnswerSkip, RenameFails,
                  ReadLinkFails, LinkFails, OpenFails, UnlinkFails, Finish, TouchesNothing, fsVars
    <2>2. PICK k \in Jobs : pc[k] = "Write" /\ Partial(dest[k]) = p
      BY <2>1 DEF PartialsAreInUse
    <2>3. k # j
      BY <2>1, <2>2
    <2> QED BY <2>2, <2>3, <1>0
  <1>5. CASE WriteChunk(j) \/ FallBack(j) \/ Cancel(j)
    <2>1. /\ fs' = fs
          /\ pc[j] = "Write" => pc' = pc /\ dest' = dest
      BY <1>5 DEF WriteChunk, FallBack, Cancel, TouchesNothing
    <2>2. PICK k \in Jobs : pc[k] = "Write" /\ Partial(dest[k]) = p
      BY <2>1 DEF PartialsAreInUse
    <2>3. CASE k = j BY <2>1, <2>2, <2>3
    <2>4. CASE k # j BY <2>2, <2>4, <1>0
    <2> QED BY <2>3, <2>4
  <1> QED BY <1>1, <1>2, <1>3, <1>4, <1>5 DEF Step

(* No partial file is left by a job that is not writing it, whatever fails *)
(* and whoever cancels.                                                    *)
THEOREM PartialsAlwaysInUse == Spec => []PartialsAreInUse
  <1>1. Init => PartialsAreInUse
    <2>1. ASSUME Init, NEW p \in Path, p.partial PROVE fs[p] = None
      <3>1. p \notin Source
        BY <2>1, PathFacts
      <3> QED BY <2>1, <3>1 DEF Init
    <2> QED BY <2>1 DEF PartialsAreInUse
  <1>2. TypeOK /\ LocalInv /\ PartialsAreInUse /\ [Next]_vars => PartialsAreInUse'
    <2>1. ASSUME PartialsAreInUse, UNCHANGED vars PROVE PartialsAreInUse'
      BY <2>1 DEF PartialsAreInUse, vars, fsVars, itemVars
    <2> QED BY <2>1, NextIsStep, PartialsStep
  <1> QED BY <1>1, <1>2, TypesHold, PTL DEF Spec

-----------------------------------------------------------------------------
(* The entry on the undo stack *)

(* One more pair of what was removed and where it went. *)
LEMMA LogGrows ==
    ASSUME NEW c \in Seq(Path), NEW r \in Seq(Source), NEW p \in Path, NEW o \in Source,
           Len(c) = Len(r)
    PROVE  /\ Append(c, p) \in Seq(Path) /\ Append(r, o) \in Seq(Source)
           /\ Len(Append(c, p)) = Len(Append(r, o))
           /\ {<<Append(r, o)[i], Append(c, p)[i]>> : i \in 1..Len(Append(r, o))} =
                  {<<r[i], c[i]>> : i \in 1..Len(r)} \cup {<<o, p>>}
  <1>1. /\ Append(c, p) \in Seq(Path) /\ Append(r, o) \in Seq(Source)
        /\ Len(r) \in Nat /\ Len(Append(c, p)) = Len(r) + 1 /\ Len(Append(r, o)) = Len(r) + 1
        /\ \A i \in 1..Len(r) : Append(c, p)[i] = c[i] /\ Append(r, o)[i] = r[i]
        /\ Append(c, p)[Len(r) + 1] = p /\ Append(r, o)[Len(r) + 1] = o
    BY AppendProperties, LenProperties
  <1>2. 1..(Len(r) + 1) = (1..Len(r)) \cup {Len(r) + 1}
    BY <1>1
  <1> QED BY <1>1, <1>2

(* What a moving job has noted stays a destination for each source that is *)
(* gone.                                                                   *)
LEMMA UndoStep ==
    ASSUME TypeOK, LocalInv, UndoInv, NEW j \in Jobs, Step(j) \/ Cancel(j)
    PROVE  UndoInv'
  <1> SUFFICES ASSUME NEW k \in Jobs, k \notin ragged', work'[k].mode = "Move"
               PROVE  LogOK(k)'
    BY DEF UndoInv
  <1>1. CASE k # j
    <2>1. k \notin ragged /\ work[k].mode = "Move"
      BY <1>1, OthersKept, LocalType
    <2>2. LogOK(k)
      BY <2>1 DEF UndoInv
    <2>3. /\ pc'[k] = pc[k] /\ dest'[k] = dest[k] /\ created'[k] = created[k]
          /\ removed'[k] = removed[k] /\ moved'[k] = moved[k]
      BY <1>1, OthersKept
    <2> QED BY <2>2, <2>3 DEF LogOK
  <1>2. CASE k = j
    <2> USE DEF TypeOK, LocalInv, InHand, AddCreated, AddRemoved, Goto, NextItem, AfterCopy
    <2>0. work[j].mode = "Move"
      BY <1>2, LocalType
    <2>1. ASSUME j \notin ragged
          PROVE  LogOK(j) /\ Len(created[j]) \in Nat /\ Len(removed[j]) \in Nat
      BY <2>0, <2>1, LenProperties DEF UndoInv
    <2>2. CASE RenameItem(j)
      <3>1. j \notin ragged /\ pc[j] = "Rename" /\ pc'[j] = "Next" /\ Item(j) \in Source
        BY <1>2, <2>2, ItemFacts DEF RenameItem, Touches
      <3>2. /\ created'[j] = Append(created[j], dest[j])
            /\ removed'[j] = Append(removed[j], Item(j))
            /\ moved'[j] = moved[j] \cup {<<Item(j), dest[j]>>}
        BY <2>2 DEF RenameItem
      <3> QED BY <1>2, <2>1, <3>1, <3>2, LogGrows DEF LogOK
    <2>3. CASE MakeLink(j) \/ RenamePartial(j)
      <3>1. j \notin ragged /\ pc[j] \in {"Link", "Write"} /\ pc'[j] = "Unlink"
        BY <1>2, <2>0, <2>3 DEF MakeLink, RenamePartial, Touches
      <3>2. /\ created'[j] = Append(created[j], dest[j]) /\ dest' = dest
            /\ removed' = removed /\ moved' = moved
        BY <2>0, <2>3 DEF MakeLink, RenamePartial
      <3> QED BY <1>2, <2>1, <3>1, <3>2, AppendProperties DEF LogOK
    <2>4. CASE UnlinkSource(j)
      <3>1. j \notin ragged /\ pc[j] = "Unlink" /\ pc'[j] = "Next" /\ Item(j) \in Source
        BY <1>2, <2>4, ItemFacts DEF UnlinkSource, Touches
      <3>2. /\ removed'[j] = Append(removed[j], Item(j)) /\ created' = created
            /\ moved'[j] = moved[j] \cup {<<Item(j), dest[j]>>}
        BY <2>4 DEF UnlinkSource
      <3> QED BY <1>2, <2>1, <3>1, <3>2, AppendProperties DEF LogOK
    <2>5. CASE UnlinkFails(j)
      BY <1>2, <2>5 DEF UnlinkFails
    <2>6. CASE \/ Enumerate(j) \/ Begin(j) \/ AnswerOverwrite(j) \/ AnswerRename(j)
               \/ AnswerSkip(j) \/ RenameFails(j) \/ UnlinkForLink(j) \/ ReadLinkFails(j)
               \/ LinkFails(j) \/ OpenFiles(j) \/ OpenFails(j) \/ WriteChunk(j) \/ FallBack(j)
               \/ AbandonCopy(j) \/ Finish(j)
      <3>1. UNCHANGED <<logVars, ragged>>
        BY <2>6 DEF Enumerate, Begin, AnswerOverwrite, AnswerRename, AnswerSkip, RenameFails,
                    UnlinkForLink, ReadLinkFails, LinkFails, OpenFiles, OpenFails, WriteChunk,
                    FallBack, AbandonCopy, Finish, Touches, TouchesNothing, history, logVars,
                    fsVars, itemVars
      <3>2. pc[j] # "Unlink" /\ pc'[j] # "Unlink"
        BY <2>6 DEF Enumerate, Begin, AnswerOverwrite, AnswerRename, AnswerSkip, RenameFails,
                    UnlinkForLink, ReadLinkFails, LinkFails, OpenFiles, OpenFails, WriteChunk,
                    FallBack, AbandonCopy, Finish, Settle
      <3> QED BY <1>2, <2>1, <3>1, <3>2 DEF LogOK, logVars
    <2>7. CASE Cancel(j)
      <3>1. UNCHANGED <<logVars, ragged>>
        BY <2>7 DEF Cancel, TouchesNothing, history
      <3>2. (pc'[j] = pc[j] /\ dest'[j] = dest[j]) \/ (pc[j] # "Unlink" /\ pc'[j] # "Unlink")
        BY <2>7 DEF Cancel
      <3> QED BY <1>2, <2>1, <3>1, <3>2 DEF LogOK, logVars
    <2> QED BY <2>2, <2>3, <2>4, <2>5, <2>6, <2>7 DEF Step
  <1> QED BY <1>1, <1>2

(* What is pushed on the undo stack pairs each source with the place it    *)
(* was moved to, and leaves none out.                                      *)
THEOREM UndoAlwaysExact == Spec => []UndoIsExact
  <1>1. Init => UndoInv
    <2>1. ASSUME Init, NEW j \in Jobs PROVE LogOK(j)
      <3>1. /\ created[j] = <<>> /\ removed[j] = <<>> /\ moved[j] = {} /\ pc[j] = "Submitted"
        BY <2>1 DEF Init
      <3> QED BY <3>1 DEF LogOK
    <2> QED BY <2>1 DEF UndoInv
  <1>2. TypeOK /\ LocalInv /\ UndoInv /\ [Next]_vars => UndoInv'
    <2>1. ASSUME UndoInv, UNCHANGED vars PROVE UndoInv'
      BY <2>1 DEF UndoInv, LogOK, vars, itemVars, logVars, history
    <2> QED BY <2>1, NextIsStep, UndoStep
  <1>3. TypeOK /\ UndoInv => UndoIsExact
    <2> SUFFICES ASSUME TypeOK, UndoInv, NEW j \in Jobs \ ragged, pc[j] = "Done",
                        work[j].mode = "Move", j \notin cancelled
                 PROVE  Range(Undo(j)) = moved[j]
      BY DEF UndoIsExact
    <2>1. /\ created[j] \in Seq(Path) /\ removed[j] \in Seq(Source)
          /\ Len(created[j]) \in Nat /\ Len(removed[j]) \in Nat
      BY LenProperties DEF TypeOK
    <2>2. /\ Len(created[j]) = Len(removed[j])
          /\ moved[j] = {<<removed[j][i], created[j][i]>> : i \in 1..Len(removed[j])}
      <3>1. LogOK(j) /\ pc[j] # "Unlink"
        BY DEF UndoInv
      <3> QED BY <3>1, <2>1 DEF LogOK
    <2>3. Undo(j) = [i \in 1..Len(removed[j]) |-> <<removed[j][i], created[j][i]>>]
      BY <2>1, <2>2 DEF Undo
    <2> QED BY <2>2, <2>3 DEF Range
  <1> QED BY <1>1, <1>2, <1>3, TypesHold, PTL DEF Spec

-----------------------------------------------------------------------------
(* Inodes *)

(* Inodes come into use and stay in use. *)
LEMMA UnusedShrinks ==
    ASSUME TypeOK, LocalInv, NEW j \in Jobs, Step(j) \/ Cancel(j)
    PROVE  /\ \A k \in Jobs : Unused(k)' \subseteq Unused(k)
           /\ MakeLink(j) \/ OpenFiles(j) => <<j, at[j]>> \in Unused(j) \ Unused(j)'
  <1>1. ASSUME NEW k \in Jobs \ {j} PROVE Unused(k)' = Unused(k)
    BY OthersKept DEF Unused
  <1>2. /\ at[j] \in Nat
        /\ \/ at'[j] = at[j] /\ (pc[j] \in {"Write", "Unlink"} => pc'[j] \in {"Write", "Unlink"})
           \/ at'[j] = at[j] + 1
    BY DEF Step, Enumerate, Begin, AnswerOverwrite, AnswerRename, AnswerSkip, RenameItem,
           RenameFails, UnlinkForLink, ReadLinkFails, MakeLink, LinkFails, OpenFiles, OpenFails,
           WriteChunk, FallBack, AbandonCopy, RenamePartial, UnlinkSource, UnlinkFails, Finish,
           Cancel, Settle, NextItem, Goto, AfterCopy, itemVars, TypeOK
  <1>3. Unused(j)' \subseteq Unused(j)
    BY <1>2, TransferAssumption DEF Unused
  <1>4. ASSUME MakeLink(j) \/ OpenFiles(j)
        PROVE  <<j, at[j]>> \in Unused(j) \ Unused(j)'
    <2>1. at[j] \in 1..MaxItems /\ pc[j] \in {"Copy", "Link"}
      <3>1. pc[j] \in {"Copy", "Link"}
        BY <1>4 DEF MakeLink, OpenFiles
      <3>2. at[j] \in 1..(Len(work[j].sources) + 1) /\ at[j] <= Len(work[j].sources)
        BY <3>1 DEF TypeOK, LocalInv, InHand
      <3>3. Len(work[j].sources) \in Nat /\ Len(work[j].sources) <= MaxItems
        BY DEF TypeOK, Work
      <3> QED BY <3>1, <3>2, <3>3, TransferAssumption
    <2>2. (at'[j] = at[j] /\ pc'[j] \in {"Write", "Unlink"}) \/ at'[j] = at[j] + 1
      BY <1>4 DEF MakeLink, OpenFiles, AfterCopy, NextItem, Goto, TypeOK
    <2> QED BY <1>2, <2>1, <2>2 DEF Unused
  <1> QED BY <1>1, <1>3, <1>4

(* The files that are made are never those of the beginning. *)
LEMMA MadeFacts ==
    /\ Made \subseteq Inode
    /\ \A i \in Made, o \in Source : i # <<o, 0>>
    /\ \A o \in Source : <<o, 0>> \in Inode
    /\ None \notin Inode
    /\ \A j \in Jobs : Unused(j) \subseteq Made
  BY TransferAssumption DEF Made, Inode, None, Unused

(* The inode a step brings into use, if it does. *)
Opens(j) == OpenFiles(j) /\ fs[Partial(dest[j])] = None

New(j) == IF MakeLink(j) \/ Opens(j) THEN {<<j, at[j]>>} ELSE {}

Seen(i) == i # None /\ \E q \in Path : fs[q] = i

(* What a step does to the file systems: paths get the inodes of others or *)
(* a new one, and a partial path only a new one; only regular files that   *)
(* jobs made are written to.                                               *)
PathsFrom(j) ==
    \A p \in Path : \/ fs'[p] = None
                    \/ fs'[p] \in New(j)
                    \/ fs'[p] = fs[p]
                    \/ ~p.partial /\ Seen(fs'[p])

OpenFrom(j) ==
    /\ fd'[j].in = None \/ fd'[j].in = fd[j].in \/ Seen(fd'[j].in)
    /\ \/ fd'[j].out = None \/ fd'[j].out = fd[j].out \/ fd'[j].out \in New(j)
       \/ \E q \in Path : q.partial /\ fs[q] # None /\ fs[q] = fd'[j].out

Rewritten(j, i) ==
    /\ nodes[i].kind = "file" /\ nodes'[i].kind = "file" /\ i \in Made
    /\ i = fd[j].out \/ \E q \in Path : q.partial /\ fs[q] = i

NodesFrom(j) == \A i \in Inode : nodes'[i] = nodes[i] \/ i \in New(j) \/ Rewritten(j, i)

SharedFrom(j) == \A i \in shared' : i \in shared \/ i = fd[j].out \/ Seen(i)

Effects(j) == PathsFrom(j) /\ OpenFrom(j) /\ NodesFrom(j) /\ SharedFrom(j)

(* What each step may do to names, open files, contents and what is        *)
(* shared.                                                                 *)
LEMMA StepEffects ==
    ASSUME TypeOK, LocalInv, PartialsMade, OutsMade, NEW j \in Jobs, Step(j) \/ Cancel(j)
    PROVE  Effects(j)
  <1> USE DEF TypeOK, PathsFrom, OpenFrom, SharedFrom, Seen
  <1>1. CASE RenameItem(j)
    <2>1. ~dest[j].partial /\ Item(j) \in Path /\ fs[Item(j)] # None
      BY <1>1, ItemFacts, PathFacts DEF RenameItem, LocalInv, InHand
    <2>2. fs' = Renamed(Item(j), dest[j]) /\ nodes' = nodes /\ fd' = fd /\ shared' = shared
      BY <1>1 DEF RenameItem
    <2> QED BY <2>1, <2>2 DEF Effects, NodesFrom, Renamed
  <1>2. CASE UnlinkForLink(j)
    <2>1. Item(j) \in Path /\ fs[Item(j)] # None
      BY <1>2, ItemFacts, PathFacts DEF UnlinkForLink, LocalInv, InHand, HoldsLink
    <2>2. /\ fs' = [fs EXCEPT ![Natural(j)] = None] /\ nodes' = nodes /\ shared' = shared
          /\ fd' = [fd EXCEPT ![j].in = fs[Item(j)]]
      BY <1>2 DEF UnlinkForLink
    <2> QED BY <2>1, <2>2 DEF Effects, NodesFrom
  <1>3. CASE MakeLink(j)
    <2>1. New(j) = {<<j, at[j]>>}
      BY <1>3 DEF New
    <2>2. /\ nodes' = [nodes EXCEPT ![<<j, at[j]>>] = nodes[fd[j].in]]
          /\ fs' = [fs EXCEPT ![Natural(j)] = <<j, at[j]>>]
          /\ fd' = [fd EXCEPT ![j].in = None] /\ shared' = shared
      BY <1>3 DEF MakeLink
    <2> QED BY <2>1, <2>2 DEF Effects, NodesFrom
  <1>4. CASE OpenFiles(j)
    <2> DEFINE p == Partial(dest[j])
               out == IF fs[p] = None THEN <<j, at[j]>> ELSE fs[p]
    <2>1. /\ fs[p] = None => New(j) = {<<j, at[j]>>}
          /\ p \in Path /\ p.partial
      BY <1>4, PathFacts DEF New, Opens
    <2>2. /\ fs' = [fs EXCEPT ![p] = out] /\ nodes' = [nodes EXCEPT ![out] = Empty]
          /\ fd' = [fd EXCEPT ![j] = [in |-> fs[Item(j)], out |-> out]]
          /\ shared' = IF fs[p] = None THEN shared ELSE shared \cup {out}
      BY <1>4 DEF OpenFiles
    <2>3. Item(j) \in Path /\ fs[Item(j)] # None
      BY <1>4, ItemFacts, PathFacts DEF OpenFiles, LocalInv, InHand, Exists
    <2>4. fs[p] # None => fs[p] \in Made /\ nodes[fs[p]].kind = "file"
      BY <2>1 DEF PartialsMade
    <2>5. /\ out \in New(j) \/ (out = fs[p] /\ fs[p] # None)
          /\ fs[p] # None => out = fs[p]
      BY <2>1
    <2> HIDE DEF p, out
    <2>6. PathsFrom(j)
      BY <2>1, <2>2, <2>5
    <2>7. OpenFrom(j)
      BY <2>1, <2>2, <2>3, <2>5
    <2>8. NodesFrom(j)
      <3>1. nodes'[out].kind = "file" \/ out \notin Inode
        BY <2>2 DEF Empty
      <3> QED BY <2>1, <2>2, <2>4, <2>5, <3>1 DEF NodesFrom, Rewritten
    <2>9. SharedFrom(j)
      <3>1. CASE fs[p] = None BY <2>2, <3>1
      <3>2. CASE fs[p] # None BY <2>1, <2>2, <2>5, <3>2
      <3> QED BY <3>1, <3>2
    <2> QED BY <2>6, <2>7, <2>8, <2>9 DEF Effects
  <1>5. CASE WriteChunk(j)
    <2> DEFINE c == chunk[j] + 1
    <2>1. /\ nodes' = [nodes EXCEPT ![fd[j].out].data[c] = nodes[fd[j].in].data[c]]
          /\ fs' = fs /\ fd' = fd /\ shared' \subseteq shared \cup {fd[j].out}
      BY <1>5 DEF WriteChunk
    <2>2. fd[j].out \in Made /\ nodes[fd[j].out].kind = "file"
      BY <1>5 DEF WriteChunk, LocalInv, InHand, OutsMade
    <2> HIDE DEF c
    <2>3. nodes[fd[j].out] \in Node
      BY <2>2, MadeFacts
    <2>4. nodes'[fd[j].out].kind = "file"
      BY <2>1, <2>2, <2>3, MadeFacts DEF Node
    <2>5. NodesFrom(j)
      BY <2>1, <2>2, <2>4 DEF NodesFrom, Rewritten
    <2> QED BY <2>1, <2>5 DEF Effects
  <1>6. CASE FallBack(j)
    <2>1. /\ nodes' = [nodes EXCEPT ![fd[j].out] = Empty]
          /\ fs' = fs /\ fd' = fd /\ shared' = shared
      BY <1>6 DEF FallBack
    <2>2. fd[j].out \in Made /\ nodes[fd[j].out].kind = "file"
      BY <1>6 DEF FallBack, LocalInv, InHand, OutsMade
    <2>3. NodesFrom(j)
      BY <2>1, <2>2, MadeFacts DEF NodesFrom, Rewritten, Empty
    <2> QED BY <2>1, <2>3 DEF Effects
  <1>7. CASE AbandonCopy(j)
    <2>1. /\ fs' = [fs EXCEPT ![Partial(dest[j])] = None] /\ nodes' = nodes /\ shared' = shared
          /\ fd' = [fd EXCEPT ![j] = [in |-> None, out |-> None]]
      BY <1>7 DEF AbandonCopy, Closed
    <2> QED BY <2>1 DEF Effects, NodesFrom
  <1>8. CASE RenamePartial(j)
    <2> DEFINE p == Partial(dest[j])
    <2>1. p \in Path /\ fs[p] # None /\ ~dest[j].partial /\ dest[j] \in Path
      BY <1>8, PathFacts DEF RenamePartial, LocalInv, InHand
    <2>2. /\ fs' = Renamed(p, dest[j]) /\ nodes' = nodes
          /\ shared' = shared \cup ({fs[p]} \ {fd[j].out})
          /\ fd' = [fd EXCEPT ![j] = [in |-> None, out |-> None]]
      BY <1>8 DEF RenamePartial, RenamesPartial, Closed
    <2> HIDE DEF p
    <2> QED BY <2>1, <2>2 DEF Effects, NodesFrom, Renamed
  <1>9. CASE UnlinkSource(j)
    <2>1. /\ fs' = [fs EXCEPT ![Item(j)] = None] /\ nodes' = nodes /\ shared' = shared
          /\ fd' = fd
      BY <1>9 DEF UnlinkSource
    <2> QED BY <2>1 DEF Effects, NodesFrom
  <1>10. CASE \/ Enumerate(j) \/ Begin(j) \/ AnswerOverwrite(j) \/ AnswerRename(j) \/ AnswerSkip(j)
              \/ RenameFails(j) \/ ReadLinkFails(j) \/ LinkFails(j) \/ OpenFails(j)
              \/ UnlinkFails(j) \/ Finish(j) \/ Cancel(j)
    <2>1. fs' = fs /\ nodes' = nodes /\ shared' = shared
      BY <1>10 DEF Enumerate, Begin, AnswerOverwrite, AnswerRename, AnswerSkip, RenameFails,
                   ReadLinkFails, LinkFails, OpenFails, UnlinkFails, Finish, Cancel,
                   TouchesNothing, fsVars, history
    <2>2. fd' = fd \/ fd' = [fd EXCEPT ![j].in = None]
      BY <1>10 DEF Enumerate, Begin, AnswerOverwrite, AnswerRename, AnswerSkip, RenameFails,
                   ReadLinkFails, LinkFails, OpenFails, UnlinkFails, Finish, Cancel, itemVars
    <2>3. OpenFrom(j)
      BY <2>2
    <2> QED BY <2>1, <2>3 DEF Effects, NodesFrom
  <1> QED BY <1>1, <1>2, <1>3, <1>4, <1>5, <1>6, <1>7, <1>8, <1>9, <1>10 DEF Step

(* No step gives a file a second name, *)
LEMMA OneNameStep ==
    ASSUME TypeOK, LocalInv, InodeInv, NEW j \in Jobs, Step(j) \/ Cancel(j)
    PROVE  OneName'
  <1> USE DEF TypeOK
  <1>0. OneName
    BY DEF InodeInv
  <1>1. CASE RenameItem(j) \/ RenamePartial(j)
    <2>1. PICK from, to \in Path : fs' = Renamed(from, to)
      BY <1>1, ItemFacts, PathFacts
         DEF RenameItem, RenamePartial, RenamesPartial, LocalInv, InHand
    <2>2. \A p \in Path : fs'[p] = IF p = to THEN fs[from] ELSE IF p = from THEN None ELSE fs[p]
      BY <2>1 DEF Renamed
    <2> QED BY <1>0, <2>2 DEF OneName
  <1>2. CASE UnlinkForLink(j) \/ AbandonCopy(j) \/ UnlinkSource(j)
    <2>1. PICK q : fs' = [fs EXCEPT ![q] = None]
      <3>1. CASE UnlinkForLink(j) BY <3>1 DEF UnlinkForLink
      <3>2. CASE AbandonCopy(j) BY <3>2 DEF AbandonCopy
      <3>3. CASE UnlinkSource(j) BY <3>3 DEF UnlinkSource
      <3> QED BY <1>2, <3>1, <3>2, <3>3
    <2> QED BY <1>0, <2>1 DEF OneName
  <1>3. CASE MakeLink(j) \/ OpenFiles(j)
    <2>1. \A p \in Path : fs[p] # <<j, at[j]>>
      BY <1>3, UnusedShrinks DEF InodeInv, Unseen
    <2>2. PICK q \in Path : \/ fs' = [fs EXCEPT ![q] = <<j, at[j]>>]
                            \/ fs' = [fs EXCEPT ![q] = fs[q]]
      BY <1>3, ItemFacts, PathFacts DEF MakeLink, OpenFiles, LocalInv, InHand
    <2>3. CASE fs' = [fs EXCEPT ![q] = <<j, at[j]>>]
      BY <1>0, <2>1, <2>3 DEF OneName
    <2>4. CASE fs' = [fs EXCEPT ![q] = fs[q]]
      BY <1>0, <2>4 DEF OneName
    <2> QED BY <2>2, <2>3, <2>4
  <1>4. CASE \/ Enumerate(j) \/ Begin(j) \/ AnswerOverwrite(j) \/ AnswerRename(j) \/ AnswerSkip(j)
             \/ RenameFails(j) \/ ReadLinkFails(j) \/ LinkFails(j) \/ OpenFails(j)
             \/ UnlinkFails(j) \/ Finish(j) \/ Cancel(j) \/ WriteChunk(j) \/ FallBack(j)
    <2>1. fs' = fs
      BY <1>4 DEF Enumerate, Begin, AnswerOverwrite, AnswerRename, AnswerSkip, RenameFails,
                  ReadLinkFails, LinkFails, OpenFails, UnlinkFails, Finish, Cancel, WriteChunk,
                  FallBack, TouchesNothing, fsVars
    <2> QED BY <1>0, <2>1 DEF OneName
  <1> QED BY <1>1, <1>2, <1>3, <1>4 DEF Step

(* and the inodes that are yet to be made are seen nowhere. *)
LEMMA InodeStep ==
    ASSUME TypeOK, LocalInv, InodeInv, NEW j \in Jobs, Step(j) \/ Cancel(j)
    PROVE  InodeInv'
  <1>1. Effects(j)
    BY StepEffects DEF InodeInv
  <1>2. \A k \in Jobs \ {j} : fd'[k] = fd[k]
    BY OthersKept
  <1>3. /\ New(j) \subseteq Made
        /\ \A i \in New(j) : Unseen(i) /\ \A k \in Jobs : i \notin Unused(k)'
    <2>1. ASSUME MakeLink(j) \/ OpenFiles(j)
          PROVE  <<j, at[j]>> \in Unused(j) /\ \A k \in Jobs : <<j, at[j]>> \notin Unused(k)'
      <3>1. <<j, at[j]>> \in Unused(j) \ Unused(j)'
        BY <2>1, UnusedShrinks
      <3>2. \A k \in Jobs \ {j} : <<j, at[j]>> \notin Unused(k)'
        BY DEF Unused
      <3> QED BY <3>1, <3>2
    <2> QED BY <2>1, MadeFacts DEF New, Opens, InodeInv
  <1>4. ASSUME NEW i \in Made, nodes[i].kind = "file", i \notin New(j)
        PROVE  nodes'[i].kind = "file"
    BY <1>1, <1>4, MadeFacts DEF Effects, NodesFrom, Rewritten
  <1>5. Opens(j) => \A i \in New(j) : nodes'[i].kind = "file"
    <2> SUFFICES ASSUME Opens(j) PROVE nodes'[<<j, at[j]>>].kind = "file"
      BY DEF New
    <2>1. <<j, at[j]>> \in Inode
      BY UnusedShrinks, MadeFacts DEF Opens
    <2> QED BY <2>1 DEF Opens, OpenFiles, TypeOK, Empty
  <1>6. PartialsMade'
    <2> SUFFICES ASSUME NEW p \in Path, p.partial, fs'[p] # None
                 PROVE  fs'[p] \in Made /\ nodes'[fs'[p]].kind = "file"
      BY DEF PartialsMade
    <2>1. CASE fs'[p] \in New(j)
      <3>1. Opens(j)
        <4>1. ASSUME MakeLink(j) PROVE FALSE
          <5>1. ~Natural(j).partial /\ Natural(j) # p
            BY <4>1, ItemFacts DEF MakeLink, LocalInv, InHand
          <5>2. fs'[p] = fs[p]
            BY <4>1, <5>1 DEF MakeLink, TypeOK
          <5> QED BY <2>1, <5>2, <1>3 DEF Unseen
        <4> QED BY <2>1, <4>1 DEF New
      <3> QED BY <2>1, <3>1, <1>3, <1>5
    <2>2. CASE fs'[p] \notin New(j)
      <3>1. fs'[p] = fs[p]
        BY <2>2, <1>1 DEF Effects, PathsFrom
      <3> QED BY <2>2, <3>1, <1>4 DEF InodeInv, PartialsMade
    <2> QED BY <2>1, <2>2
  <1>7. OutsMade'
    <2> SUFFICES ASSUME NEW k \in Jobs, fd'[k].out # None
                 PROVE  fd'[k].out \in Made /\ nodes'[fd'[k].out].kind = "file"
      BY DEF OutsMade
    <2>1. CASE fd'[k].out \in New(j)
      <3>1. Opens(j)
        <4>1. ASSUME MakeLink(j) PROVE FALSE
          <5>1. fd'[k].out = fd[k].out
            BY <4>1 DEF MakeLink, TypeOK
          <5> QED BY <2>1, <5>1, <1>3 DEF Unseen
        <4> QED BY <2>1, <4>1 DEF New
      <3> QED BY <2>1, <3>1, <1>3, <1>5
    <2>2. CASE fd'[k].out \notin New(j)
      <3>1. fd'[k].out = fd[k].out \/ (\E q \in Path : q.partial /\ fs[q] # None /\ fs[q] = fd'[k].out)
        BY <2>2, <1>1, <1>2 DEF Effects, OpenFrom
      <3> QED BY <2>2, <3>1, <1>4 DEF InodeInv, PartialsMade, OutsMade
    <2> QED BY <2>1, <2>2
  <1>8. ASSUME NEW k \in Jobs, NEW i \in Unused(k)'
        PROVE  Unseen(i)'
    <2>1. i \notin New(j) /\ Unseen(i) /\ i # None
      BY <1>3, UnusedShrinks, MadeFacts DEF InodeInv
    <2>2. \A p \in Path : fs'[p] # i
      BY <2>1, <1>1 DEF Effects, PathsFrom, Seen, Unseen
    <2>3. \A m \in Jobs : fd'[m].in # i /\ fd'[m].out # i
      BY <2>1, <1>1, <1>2 DEF Effects, OpenFrom, Seen, Unseen
    <2>4. i \notin shared'
      BY <2>1, <1>1 DEF Effects, SharedFrom, Seen, Unseen
    <2> QED BY <2>2, <2>3, <2>4 DEF Unseen
  <1> QED BY <1>6, <1>7, <1>8, OneNameStep DEF InodeInv

(* An inode that is a link or is of the beginning, and is in use, stays as *)
(* it is.                                                                  *)
LEMMA NodeStays ==
    ASSUME TypeOK, LocalInv, InodeInv, NEW j \in Jobs, Step(j) \/ Cancel(j)
    PROVE  /\ \A i \in Inode : nodes[i].kind # "file" /\ i \notin New(j) => nodes'[i] = nodes[i]
           /\ \A o \in Source : nodes'[<<o, 0>>] = nodes[<<o, 0>>]
           /\ \A i \in New(j) : Unseen(i) /\ i \in Made
  <1>1. NodesFrom(j)
    BY StepEffects DEF InodeInv, Effects
  <1>2. \A i \in New(j) : Unseen(i) /\ i \in Made
    BY UnusedShrinks, MadeFacts DEF New, Opens, InodeInv
  <1> QED BY <1>1, <1>2, MadeFacts DEF NodesFrom, Rewritten

(* Nobody writes to a link or to a file of the beginning. *)
LEMMA LinkStep ==
    ASSUME TypeOK, LocalInv, InodeInv, LinkInv, NEW j \in Jobs, Step(j) \/ Cancel(j)
    PROVE  LinkInv'
  <1>1. Effects(j)
    BY StepEffects DEF InodeInv
  <1>2. TypeOK' /\ LocalInv'
    BY TypeStep, LocalStep
  <1>3. Intact'
    BY NodeStays DEF LinkInv, Intact
  <1>4. MakeLink(j) => /\ nodes'[<<j, at[j]>>] = nodes[fd[j].in]
                       /\ nodes[fd[j].in].kind \notin {"none", "file"}
                       /\ fd[j].in \in Inode
    <2> SUFFICES ASSUME MakeLink(j)
                 PROVE  /\ nodes'[<<j, at[j]>>] = nodes[fd[j].in]
                        /\ nodes[fd[j].in].kind \notin {"none", "file"}
                        /\ fd[j].in \in Inode
      OBVIOUS
    <2>1. <<j, at[j]>> \in Inode
      BY ItemFacts DEF MakeLink, LocalInv, InHand
    <2> QED BY <2>1 DEF MakeLink, TypeOK, LinkInv, LinksRead, LocalInv, InHand
  <1>5. Opens(j) => nodes'[<<j, at[j]>>].kind = "file"
    <2>1. Opens(j) => <<j, at[j]>> \in Inode
      BY UnusedShrinks, MadeFacts DEF Opens
    <2> QED BY <2>1 DEF Opens, OpenFiles, TypeOK, Empty
  <1>6. LinksWhole'
    <2> SUFFICES ASSUME NEW i \in Inode, nodes'[i].kind \notin {"none", "file"}
                 PROVE  \E o \in Source : /\ nodes'[i].data = [c \in Chunks |-> o]
                                          /\ nodes'[i].kind = nodes'[<<o, 0>>].kind
      BY DEF LinksWhole
    <2>1. PICK q \in Inode : nodes'[i] = nodes[q]
      <3>1. CASE i \in New(j)
        <4>1. i = <<j, at[j]>> /\ MakeLink(j)
          BY <3>1, <1>5 DEF New
        <4> QED BY <4>1, <1>4
      <3>2. CASE i \notin New(j)
        BY <1>1, <3>2 DEF Effects, NodesFrom, Rewritten
      <3> QED BY <3>1, <3>2
    <2>2. PICK o \in Source : nodes[q].data = [c \in Chunks |-> o] /\ nodes[q].kind = nodes[<<o, 0>>].kind
      BY <2>1 DEF LinkInv, LinksWhole
    <2> QED BY <2>1, <2>2, NodeStays
  <1>7. ASSUME NEW i \in Inode, nodes[i].kind # "none", i \notin New(j)
        PROVE  nodes'[i].kind # "none"
    BY <1>1, <1>7 DEF Effects, NodesFrom, Rewritten
  <1>8. PathsOccupied'
    <2> SUFFICES ASSUME NEW p \in Path, fs'[p] # None
                 PROVE  nodes'[fs'[p]].kind # "none"
      BY DEF PathsOccupied
    <2>1. CASE fs'[p] \in New(j)
      BY <2>1, <1>4, <1>5 DEF New
    <2>2. CASE fs'[p] \notin New(j)
      <3>1. fs'[p] = fs[p] \/ Seen(fs'[p])
        BY <2>2, <1>1 DEF Effects, PathsFrom
      <3>2. PICK q \in Path : fs[q] = fs'[p]
        BY <3>1 DEF Seen
      <3>3. fs'[p] \in Inode
        BY <1>2 DEF TypeOK
      <3>4. nodes[fs'[p]].kind # "none"
        BY <3>2 DEF LinkInv, PathsOccupied
      <3> QED BY <2>2, <3>3, <3>4, <1>7
    <2> QED BY <2>1, <2>2
  <1>9. LinksRead'
    <2> SUFFICES ASSUME NEW k \in Jobs, pc'[k] = "Link"
                 PROVE  nodes'[fd'[k].in].kind \notin {"none", "file"}
      BY DEF LinksRead
    <2>1. nodes[fd'[k].in].kind \notin {"none", "file"} /\ (Seen(fd'[k].in) \/ fd'[k].in = fd[k].in)
      <3>1. CASE k # j \/ Cancel(j)
        <4>1. pc[k] = "Link" /\ fd'[k].in = fd[k].in
          BY <3>1, OthersKept DEF Cancel, NextItem, Goto, TypeOK
        <4> QED BY <4>1 DEF LinkInv, LinksRead
      <3>2. CASE k = j /\ Step(j)
        <4>1. UnlinkForLink(j)
          BY <3>2 DEF Step, Enumerate, Begin, AnswerOverwrite, AnswerRename, AnswerSkip, RenameItem,
               RenameFails, ReadLinkFails, MakeLink, LinkFails, OpenFiles, OpenFails,
               WriteChunk, FallBack, AbandonCopy, RenamePartial, UnlinkSource, UnlinkFails, Finish,
               Settle, NextItem, Goto, AfterCopy, TypeOK
        <4>2. Item(j) \in Path
          BY <4>1, ItemFacts, PathFacts DEF UnlinkForLink, LocalInv, InHand
        <4>3. HoldsLink(Item(j)) /\ fd'[j].in = fs[Item(j)]
          BY <4>1 DEF UnlinkForLink, TypeOK
        <4> QED BY <3>2, <4>2, <4>3 DEF HoldsLink, Seen, LinkInv, PathsOccupied
      <3> QED BY <3>1, <3>2
    <2>2. fd'[k].in \in Inode
      BY <1>2 DEF TypeOK, LocalInv, InHand
    <2>3. fd'[k].in \notin New(j)
      BY <2>1, NodeStays DEF Unseen, Seen
    <2> QED BY <2>1, <2>2, <2>3, NodeStays
  <1> QED BY <1>3, <1>6, <1>8, <1>9 DEF LinkInv

-----------------------------------------------------------------------------
(* What is under a final name is whole *)

(* Files that were shared once count as shared from then on. *)
LEMMA SharedGrows ==
    ASSUME NEW j \in Jobs, Step(j) \/ Cancel(j)
    PROVE  shared \subseteq shared'
  BY DEF Step, Enumerate, Begin, AnswerOverwrite, AnswerRename, AnswerSkip, RenameItem,
         RenameFails, UnlinkForLink, ReadLinkFails, MakeLink, LinkFails, OpenFiles, OpenFails,
         WriteChunk, FallBack, AbandonCopy, RenamePartial, UnlinkSource, UnlinkFails, Finish,
         Cancel, RenamesPartial, TouchesNothing, history

(* Who writes after a step did so before, or has just opened a file. *)
LEMMA WritersAfter ==
    ASSUME TypeOK, NEW j \in Jobs, Step(j) \/ Cancel(j), NEW k \in Jobs, pc'[k] = "Write"
    PROVE  \/ k = j /\ OpenFiles(j)
           \/ /\ pc[k] = "Write" /\ fd'[k] = fd[k] /\ dest'[k] = dest[k]
              /\ k = j => WriteChunk(j) \/ FallBack(j) \/ (Cancel(j) /\ chunk' = chunk)
  <1>1. CASE k # j
    BY <1>1, OthersKept
  <1>2. CASE k = j
    BY <1>2 DEF Step, Enumerate, Begin, AnswerOverwrite, AnswerRename, AnswerSkip, RenameItem,
           RenameFails, UnlinkForLink, ReadLinkFails, MakeLink, LinkFails, OpenFails,
           WriteChunk, FallBack, AbandonCopy, RenamePartial, UnlinkSource, UnlinkFails, Finish,
           Cancel, Settle, NextItem, Goto, AfterCopy, TypeOK
  <1> QED BY <1>1, <1>2

(* An inode at rest stays as it is, unless another job takes it to write   *)
(* to, which is remembered.                                                *)
LEMMA SettledStays ==
    ASSUME TypeOK, LocalInv, InodeInv, NEW j \in Jobs, Step(j) \/ Cancel(j),
           NEW i \in Inode, Settled(i), i \notin New(j), i \notin shared'
    PROVE  nodes'[i] = nodes[i] /\ Settled(i)'
  <1>1. nodes'[i] = nodes[i]
    <2>1. CASE MakeLink(j)
      BY <2>1 DEF MakeLink, New, TypeOK
    <2>2. CASE OpenFiles(j)
      BY <2>2 DEF OpenFiles, New, Opens, TypeOK
    <2>3. CASE WriteChunk(j) \/ FallBack(j)
      <3>1. i # fd[j].out
        BY <2>3 DEF WriteChunk, FallBack, Settled, Writes
      <3> QED BY <2>3, <3>1 DEF WriteChunk, FallBack, TypeOK
    <2>4. CASE ~(MakeLink(j) \/ OpenFiles(j) \/ WriteChunk(j) \/ FallBack(j))
      <3>1. nodes' = nodes
        BY <2>4 DEF Step, Enumerate, Begin, AnswerOverwrite, AnswerRename, AnswerSkip, RenameItem,
             RenameFails, UnlinkForLink, ReadLinkFails, LinkFails, OpenFails, AbandonCopy,
             RenamePartial, UnlinkSource, UnlinkFails, Finish, Cancel, TouchesNothing, fsVars
      <3> QED BY <3>1
    <2> QED BY <2>1, <2>2, <2>3, <2>4
  <1>2. ASSUME NEW k \in Jobs, pc'[k] = "Write" PROVE fd'[k].out # i
    <2>1. CASE k = j /\ OpenFiles(j)
      BY <2>1 DEF OpenFiles, New, Opens, TypeOK
    <2>2. CASE pc[k] = "Write" /\ fd'[k] = fd[k]
      BY <2>2 DEF Settled, Writes
    <2> QED BY <1>2, <2>1, <2>2, WritersAfter
  <1> QED BY <1>1, <1>2 DEF Settled, WholeFile, Writes

(* What gets a final name is whole, *)
LEMMA FinalsStep ==
    ASSUME TypeOK, LocalInv, InodeInv, LinkInv, WholeInv, NEW j \in Jobs, Step(j) \/ Cancel(j)
    PROVE  FinalsSettled'
  <1>0. SUFFICES ASSUME NEW p \in Path, ~p.partial, NEW i, fs'[p] = i,
                        i \notin {None} \cup shared'
                 PROVE  Settled(i)'
    BY DEF FinalsSettled, Settled, WholeFile, Writes
  <1>1. TypeOK' /\ LinkInv' /\ i \in Inode
    BY <1>0, TypeStep, LinkStep DEF TypeOK
  <1>2. CASE i \in New(j)
    <2>1. MakeLink(j) /\ i = <<j, at[j]>>
      <3>1. ASSUME Opens(j) PROVE FALSE
        <4>1. i = fs[p]
          BY <1>0, <3>1, PathFacts DEF Opens, OpenFiles, TypeOK
        <4> QED BY <1>2, <4>1, NodeStays DEF Unseen
      <3> QED BY <1>2, <3>1 DEF New
    <2>2. nodes'[i].kind \notin {"none", "file"}
      BY <2>1, <1>1 DEF MakeLink, TypeOK, LinkInv, LinksRead
    <2>3. \A k \in Jobs : fd'[k].out # i
      <3>1. \A k \in Jobs : fd'[k].out = fd[k].out
        BY <2>1 DEF MakeLink, TypeOK
      <3> QED BY <3>1, <1>2, NodeStays DEF Unseen
    <2> QED BY <1>0, <1>1, <2>2, <2>3 DEF Settled, WholeFile, Writes, LinkInv, LinksWhole
  <1>3. CASE RenamePartial(j) /\ p = dest[j]
    <2>1. /\ i = fs[Partial(dest[j])] /\ i \notin shared /\ i = fd[j].out /\ pc[j] = "Write"
          /\ nodes' = nodes /\ chunk[j] = 2
      BY <1>0, <1>1, <1>3, ChunkCount
         DEF RenamePartial, RenamesPartial, Renamed, TypeOK, LocalInv, InHand
    <2>2. PICK o \in Source : \A c \in 1..chunk[j] : nodes[i].data[c] = o
      <3>1. FromOne(j)
        BY <2>1 DEF WholeInv, WritesAlone
      <3> QED BY <2>1, <3>1 DEF FromOne
    <2>3. i \in Inode /\ nodes[i].data \in [Chunks -> Source \cup {None}]
      BY <1>0, <1>1, <2>1 DEF TypeOK, Node
    <2>4. nodes[i].data = [c \in Chunks |-> o]
      BY <2>1, <2>2, <2>3 DEF Chunks
    <2>5. ASSUME NEW k \in Jobs, pc'[k] = "Write" PROVE fd'[k].out # i
      <3>1. k # j
        BY <1>3, <2>5 DEF RenamePartial, AfterCopy, NextItem, Goto, TypeOK
      <3> QED BY <2>1, <2>5, <3>1, OthersKept DEF WholeInv, WritesAlone, Writes
    <2> QED BY <2>1, <2>4, <2>5 DEF Settled, WholeFile, Writes
  <1>4. CASE ~(RenamePartial(j) /\ p = dest[j]) /\ i \notin New(j)
    <2>1. PICK q \in Path : ~q.partial /\ i = fs[q]
      <3>1. CASE RenameItem(j) /\ p = dest[j]
        BY <1>0, <3>1, ItemFacts, PathFacts DEF RenameItem, Renamed, TypeOK, LocalInv, InHand
      <3>2. CASE RenameItem(j) /\ p # dest[j]
        BY <1>0, <1>1, <3>2 DEF RenameItem, Renamed, TypeOK, None, Inode
      <3>3. CASE RenamePartial(j)
        BY <1>0, <1>1, <1>4, <3>3 DEF RenamePartial, RenamesPartial, Renamed, TypeOK
      <3>4. CASE ~RenameItem(j) /\ ~RenamePartial(j)
        <4>1. CASE UnlinkForLink(j) \/ MakeLink(j) \/ OpenFiles(j) \/ AbandonCopy(j) \/ UnlinkSource(j)
          <5>1. i # None /\ Partial(dest[j]) # p
            BY <1>0, PathFacts DEF TypeOK
          <5>2. CASE UnlinkForLink(j) BY <1>0, <5>1, <5>2 DEF UnlinkForLink, TypeOK
          <5>3. CASE OpenFiles(j) BY <1>0, <5>1, <5>3 DEF OpenFiles, TypeOK
          <5>4. CASE AbandonCopy(j) BY <1>0, <5>1, <5>4 DEF AbandonCopy, TypeOK
          <5>5. CASE UnlinkSource(j) BY <1>0, <5>1, <5>5 DEF UnlinkSource, TypeOK
          <5>6. CASE MakeLink(j) BY <1>0, <5>6, <1>4 DEF MakeLink, New, TypeOK
          <5> QED BY <4>1, <5>2, <5>3, <5>4, <5>5, <5>6
        <4>2. CASE ~(UnlinkForLink(j) \/ MakeLink(j) \/ OpenFiles(j) \/ AbandonCopy(j) \/ UnlinkSource(j))
          BY <1>0, <3>4, <4>2 DEF Step, Enumerate, Begin, AnswerOverwrite, AnswerRename, AnswerSkip,
             RenameFails, ReadLinkFails, LinkFails, OpenFails, WriteChunk, FallBack, UnlinkFails,
             Finish, Cancel, TouchesNothing, fsVars
        <4> QED BY <4>1, <4>2
      <3> QED BY <3>1, <3>2, <3>3, <3>4
    <2>2. Settled(i)
      BY <1>0, <2>1, SharedGrows DEF WholeInv, FinalsSettled
    <2> QED BY <1>0, <1>1, <1>4, <2>2, SettledStays
  <1> QED BY <1>2, <1>3, <1>4

(* what is being copied stays whole while it is read, *)
LEMMA ReadsStep ==
    ASSUME TypeOK, LocalInv, InodeInv, LinkInv, WholeInv, NEW j \in Jobs, Step(j) \/ Cancel(j)
    PROVE  ReadsSettled'
  <1>0. SUFFICES ASSUME NEW k \in Jobs, pc'[k] = "Write", NEW i, fd'[k].in = i, i \notin shared'
                 PROVE  Settled(i)'
    BY DEF ReadsSettled, Settled, WholeFile, Writes
  <1>1. i \in Inode
    BY <1>0, TypeStep, LocalStep DEF TypeOK, LocalInv, InHand
  <1>2. Settled(i) /\ i \notin New(j)
    <2>1. CASE OpenFiles(j) /\ k = j
      <3>1. Item(j) \in Path /\ ~Item(j).partial /\ i = fs[Item(j)] /\ i # None
        BY <1>0, <2>1, ItemFacts, PathFacts DEF OpenFiles, TypeOK, LocalInv, InHand, Exists
      <3> QED BY <1>0, <3>1, SharedGrows, NodeStays DEF WholeInv, FinalsSettled, Unseen
    <2>2. CASE pc[k] = "Write" /\ fd'[k] = fd[k]
      BY <1>0, <2>2, SharedGrows, NodeStays DEF WholeInv, ReadsSettled, Unseen
    <2> QED BY <1>0, <2>1, <2>2, WritersAfter
  <1> QED BY <1>0, <1>1, <1>2, SettledStays

(* and what is written is written by one job, from one file. *)
LEMMA WritesStep ==
    ASSUME TypeOK, LocalInv, InodeInv, LinkInv, WholeInv, NEW j \in Jobs, Step(j) \/ Cancel(j)
    PROVE  WritesAlone'
  <1>0. SUFFICES ASSUME NEW k \in Jobs, pc'[k] = "Write", NEW i, fd'[k].out = i, i \notin shared'
                 PROVE  (\A m \in Jobs : Writes(m, i)' => m = k) /\ FromOne(k)'
    BY DEF WritesAlone, Writes
  <1>1. /\ i \in Inode /\ fd'[k].in \in Inode
        /\ \A m \in Jobs \ {j} : fd'[m] = fd[m] /\ pc'[m] = pc[m] /\ chunk'[m] = chunk[m]
        /\ shared \subseteq shared' /\ fd[j].out \in Inode \cup {None}
    <2>1. TypeOK' /\ LocalInv'
      BY TypeStep, LocalStep
    <2>2. i \in Inode /\ fd'[k].in \in Inode
      BY <1>0, <2>1 DEF TypeOK, LocalInv, InHand
    <2>3. \A m \in Jobs \ {j} : fd'[m] = fd[m] /\ pc'[m] = pc[m] /\ chunk'[m] = chunk[m]
      BY OthersKept
    <2>4. fd[j].out \in Inode \cup {None}
      BY DEF TypeOK
    <2> QED BY <2>2, <2>3, <2>4, SharedGrows
  <1>2. CASE k = j /\ OpenFiles(j)
    <2>1. /\ fs[Partial(dest[j])] = None /\ i = <<j, at[j]>> /\ i \in New(j)
          /\ chunk'[j] = 0 /\ fd'[j].in = fs[Item(j)] /\ Item(j) \in Source /\ Item(j) \in Path
          /\ fs[Item(j)] # None
      <3>1. Item(j) \in Source /\ Item(j) \in Path /\ fs[Item(j)] # None
        BY <1>2, ItemFacts, PathFacts DEF OpenFiles, LocalInv, InHand, Exists
      <3>2. fs[Partial(dest[j])] = None
        BY <1>0, <1>2 DEF OpenFiles, TypeOK
      <3> QED BY <1>0, <1>2, <3>1, <3>2 DEF OpenFiles, TypeOK, New, Opens
    <2>2. \A m \in Jobs : Writes(m, i)' => m = k
      BY <1>1, <1>2, <2>1, NodeStays DEF Writes, Unseen
    <2>3. fd'[j].in # i
      BY <2>1, NodeStays DEF Unseen
    <2>4. fd'[j].in \notin shared' => \E o \in Source : nodes'[fd'[j].in].data = [c \in Chunks |-> o]
      <3>1. SUFFICES ASSUME fd'[j].in \notin shared'
                     PROVE  \E o \in Source : nodes'[fd'[j].in].data = [c \in Chunks |-> o]
        OBVIOUS
      <3>2. ReadsSettled'
        BY ReadsStep
      <3> QED BY <1>0, <1>2, <3>1, <3>2 DEF ReadsSettled, Settled, WholeFile
    <2>5. PICK o \in Source :
              fd'[j].in \notin shared' => nodes'[fd'[j].in].data = [c \in Chunks |-> o]
      BY <2>1, <2>4
    <2>6. FromOne(j)'
      <3>1. \A c \in 1..chunk'[j] : nodes'[fd'[j].out].data[c] = o
        BY <2>1
      <3> QED BY <2>5, <3>1 DEF FromOne
    <2> QED BY <1>2, <2>2, <2>6
  <1>3. CASE pc[k] = "Write" /\ fd'[k] = fd[k] /\ ~(k = j /\ OpenFiles(j))
    <2>1. /\ i \notin shared /\ i = fd[k].out /\ i \notin New(j)
          /\ \A m \in Jobs : Writes(m, i) => m = k
          /\ FromOne(k)
      BY <1>0, <1>1, <1>3, NodeStays DEF WholeInv, WritesAlone, Unseen
    <2>2. \A m \in Jobs : Writes(m, i)' => m = k
      <3> SUFFICES ASSUME NEW m \in Jobs, pc'[m] = "Write", fd'[m].out = i PROVE m = k
        BY DEF Writes
      <3>1. CASE m = j /\ OpenFiles(j)
        BY <1>0, <2>1, <3>1 DEF OpenFiles, New, Opens, TypeOK
      <3>2. CASE pc[m] = "Write" /\ fd'[m] = fd[m]
        BY <2>1, <3>2 DEF Writes
      <3> QED BY <3>1, <3>2, WritersAfter
    <2>3. PICK o \in Source :
              /\ \A c \in 1..chunk[k] : nodes[i].data[c] = o
              /\ fd[k].in \notin shared => nodes[fd[k].in].data = [c \in Chunks |-> o]
      BY <2>1 DEF FromOne
    <2>4. fd'[k].in \notin shared' => nodes'[fd'[k].in].data = [c \in Chunks |-> o]
      <3> SUFFICES ASSUME fd'[k].in \notin shared'
                   PROVE  nodes'[fd'[k].in].data = [c \in Chunks |-> o]
        OBVIOUS
      <3>1. fd[k].in \notin shared /\ fd[k].in = fd'[k].in
        BY <1>1, <1>3
      <3>2. Settled(fd[k].in) /\ fd[k].in \notin New(j)
        BY <1>3, <3>1, NodeStays DEF WholeInv, ReadsSettled, Unseen
      <3>3. nodes'[fd[k].in] = nodes[fd[k].in]
        BY <1>1, <3>1, <3>2, SettledStays
      <3> QED BY <2>3, <3>1, <3>3
    <2>5. \A c \in 1..chunk'[k] : nodes'[i].data[c] = o
      <3>1. CASE k = j /\ WriteChunk(j)
        <4>1. /\ chunk'[j] = chunk[j] + 1 /\ chunk[j] \in Nat /\ chunk[j] + 1 \in Chunks
              /\ nodes' = [nodes EXCEPT ![i].data[chunk[j] + 1] =
                              nodes[fd[j].in].data[chunk[j] + 1]]
              /\ fd[j].in \notin shared
          BY <1>0, <2>1, <3>1, ChunkCount DEF WriteChunk, TypeOK, Chunks
        <4>2. nodes[fd[j].in].data[chunk[j] + 1] = o
          BY <2>3, <3>1, <4>1
        <4>3. nodes[i].data \in [Chunks -> Source \cup {None}] /\ nodes[i] \in Node
          BY <1>1 DEF TypeOK, Node
        <4>4. nodes'[i].data = [nodes[i].data EXCEPT ![chunk[j] + 1] = o]
          BY <1>1, <4>1, <4>2, <4>3 DEF TypeOK, Node
        <4> QED BY <2>3, <3>1, <4>1, <4>3, <4>4 DEF Chunks
      <3>2. CASE k = j /\ FallBack(j)
        BY <3>2 DEF FallBack, TypeOK
      <3>3. CASE k = j /\ Cancel(j)
        BY <1>0, <2>3, <3>3 DEF Cancel, TouchesNothing
      <3>4. CASE k # j
        <4>1. nodes'[i] = nodes[i]
          <5>1. CASE MakeLink(j)
            BY <1>1, <2>1, <5>1 DEF MakeLink, New, TypeOK
          <5>2. CASE OpenFiles(j)
            <6>1. fs[Partial(dest[j])] = None => i # <<j, at[j]>>
              BY <2>1, <5>2 DEF New, Opens
            <6>2. fs[Partial(dest[j])] # i
              BY <1>0, <1>1, <5>2 DEF OpenFiles, None, Inode
            <6> QED BY <1>1, <6>1, <6>2, <5>2 DEF OpenFiles, TypeOK
          <5>3. CASE WriteChunk(j) \/ FallBack(j)
            <6>1. i # fd[j].out
              BY <2>1, <3>4, <5>3 DEF WriteChunk, FallBack, Writes
            <6> QED BY <1>1, <5>3, <6>1 DEF WriteChunk, FallBack, TypeOK
          <5>4. CASE ~(MakeLink(j) \/ OpenFiles(j) \/ WriteChunk(j) \/ FallBack(j))
            BY <5>4 DEF Step, Enumerate, Begin, AnswerOverwrite, AnswerRename, AnswerSkip,
                 RenameItem, RenameFails, UnlinkForLink, ReadLinkFails, LinkFails, OpenFails,
                 AbandonCopy, RenamePartial, UnlinkSource, UnlinkFails, Finish, Cancel,
                 TouchesNothing, fsVars
          <5> QED BY <5>1, <5>2, <5>3, <5>4
        <4> QED BY <1>1, <2>3, <3>4, <4>1
      <3> QED BY <1>0, <1>3, <3>1, <3>2, <3>3, <3>4, WritersAfter
    <2> QED BY <1>0, <2>2, <2>4, <2>5 DEF FromOne
  <1> QED BY <1>0, <1>2, <1>3, WritersAfter

FilesInv == InodeInv /\ LinkInv /\ WholeInv

(* The invariants of the files hold in the beginning, *)
LEMMA FilesInit ==
    ASSUME Init
    PROVE  FilesInv
  <1>1. PICK kind \in [Source -> Kinds] :
            /\ nodes = [i \in Inode |->
                   IF i[2] = 0 THEN [kind |-> kind[i[1]], data |-> [c \in Chunks |-> i[1]]]
                   ELSE NoNode]
            /\ fs = [p \in Path |-> IF p \in Source /\ kind[p] # "none" THEN <<p, 0>> ELSE None]
    BY DEF Init
  <1>2. /\ pc = [j \in Jobs |-> "Submitted"] /\ shared = {}
        /\ fd = [j \in Jobs |-> [in |-> None, out |-> None]]
    BY DEF Init
  <1>3. TypeOK
    BY InitType
  <1>4. \A p \in Path : fs[p] # None => p \in Source /\ fs[p] = <<p, 0>> /\ kind[p] # "none"
    BY <1>1
  <1>5. ASSUME NEW o \in Source
        PROVE  nodes[<<o, 0>>].kind = kind[o] /\ nodes[<<o, 0>>].data = [c \in Chunks |-> o]
    <2>1. nodes[<<o, 0>>] = [kind |-> kind[o], data |-> [c \in Chunks |-> o]]
      BY <1>1, MadeFacts
    <2> QED BY <2>1
  <1>6. ASSUME NEW i \in Inode, nodes[i].kind # "none"
        PROVE  \E o \in Source : i = <<o, 0>>
    <2>1. CASE i[2] = 0
      BY <2>1, TransferAssumption DEF Inode
    <2>2. CASE i[2] # 0
      BY <1>1, <1>6, <2>2 DEF NoNode
    <2> QED BY <2>1, <2>2
  <1>7. InodeInv
    <2>1. OneName
      BY <1>4 DEF OneName
    <2>2. PartialsMade
      BY <1>4, PathFacts DEF PartialsMade
    <2>3. OutsMade
      BY <1>2 DEF OutsMade
    <2>4. ASSUME NEW j \in Jobs, NEW i \in Unused(j) PROVE Unseen(i)
      BY <1>2, <1>4, MadeFacts DEF Unseen
    <2> QED BY <2>1, <2>2, <2>3, <2>4 DEF InodeInv
  <1>8. LinkInv
    <2>1. Intact
      BY <1>5 DEF Intact
    <2>2. LinksWhole
      BY <1>5, <1>6 DEF LinksWhole
    <2>3. PathsOccupied
      BY <1>4, <1>5 DEF PathsOccupied
    <2>4. LinksRead
      BY <1>2 DEF LinksRead
    <2> QED BY <2>1, <2>2, <2>3, <2>4 DEF LinkInv
  <1>9. WholeInv
    <2>1. FinalsSettled
      <3>1. ASSUME NEW p \in Path, fs[p] # None PROVE WholeFile(fs[p])
        <4>1. p \in Source /\ fs[p] = <<p, 0>>
          BY <3>1, <1>4
        <4>2. nodes[fs[p]].data = [c \in Chunks |-> p]
          BY <4>1, <1>5
        <4> QED BY <4>1, <4>2, Zenon DEF WholeFile
      <3>2. \A j \in Jobs : pc[j] # "Write"
        BY <1>2
      <3> QED BY <3>1, <3>2 DEF FinalsSettled, Settled, Writes
    <2> QED BY <1>2, <2>1 DEF WholeInv, ReadsSettled, WritesAlone
  <1> QED BY <1>7, <1>8, <1>9 DEF FilesInv

(* after every step, *)
LEMMA FilesStep ==
    ASSUME TypeOK, LocalInv, FilesInv, NEW j \in Jobs, Step(j) \/ Cancel(j)
    PROVE  FilesInv'
  BY InodeStep, LinkStep, FinalsStep, ReadsStep, WritesStep DEF FilesInv, WholeInv

(* and when nothing happens, *)
LEMMA FilesStutter ==
    ASSUME FilesInv, UNCHANGED vars
    PROVE  FilesInv'
  <1>1. /\ fs' = fs /\ nodes' = nodes /\ pc' = pc /\ at' = at /\ fd' = fd /\ chunk' = chunk
        /\ shared' = shared
    BY DEF vars, fsVars, itemVars, history
  <1>2. InodeInv' = InodeInv
    BY <1>1 DEF InodeInv, OneName, PartialsMade, OutsMade, Unused, Unseen
  <1>3. LinkInv' = LinkInv
    BY <1>1 DEF LinkInv, Intact, LinksWhole, PathsOccupied, LinksRead
  <1>4. WholeInv' = WholeInv
    BY <1>1 DEF WholeInv, FinalsSettled, ReadsSettled, WritesAlone, FromOne, Settled, WholeFile,
                Writes
  <1> QED BY <1>2, <1>3, <1>4 DEF FilesInv

(* so they always do. *)
LEMMA FilesHold == Spec => []FilesInv
  <1>1. Init => FilesInv
    BY FilesInit
  <1>2. TypeOK /\ LocalInv /\ FilesInv /\ [Next]_vars => FilesInv'
    BY NextIsStep, FilesStep, FilesStutter
  <1> QED BY <1>1, <1>2, TypesHold, PTL DEF Spec

(* Whatever is copied, cancelled, failed or replaced, what is under a final *)
(* name is whole, all of it from one source.                                *)
THEOREM DestinationsAlwaysWhole == Spec => []DestinationsAreWhole
  <1>1. FilesInv => DestinationsAreWhole
    BY DEF FilesInv, WholeInv, FinalsSettled, Settled, DestinationsAreWhole
  <1> QED BY <1>1, FilesHold, PTL

-----------------------------------------------------------------------------
(* A job that is alone on its paths *)

(* A job that is not in a contest after another's step finds its paths as  *)
(* they were, and the files at them.                                       *)
LEMMA Untouched ==
    ASSUME TypeOK, LocalInv, FilesInv, NEW j \in Jobs, Step(j) \/ Cancel(j),
           NEW k \in Working \ {j}, k \notin contested', NEW p \in Uses(k) \cap Path
    PROVE  /\ k \notin contested
           /\ fs'[p] = fs[p]
           /\ fs[p] # None => nodes'[fs[p]] = nodes[fs[p]]
  <1>1. ASSUME NEW paths, Touches(j, paths)
        PROVE  k \notin contested /\ p \notin paths
    BY <1>1 DEF Touches
  <1>2. OneName
    BY DEF FilesInv, InodeInv
  <1> USE DEF TypeOK
  <1>3. CASE RenameItem(j)
    BY <1>1, <1>3 DEF RenameItem, Renamed
  <1>4. CASE UnlinkForLink(j)
    BY <1>1, <1>4 DEF UnlinkForLink
  <1>5. CASE MakeLink(j)
    <2>1. k \notin contested /\ p # Natural(j)
      BY <1>1, <1>5 DEF MakeLink
    <2>2. fs[p] # <<j, at[j]>>
      BY <1>5, NodeStays DEF New, Unseen, FilesInv
    <2> QED BY <1>5, <2>1, <2>2 DEF MakeLink
  <1>6. CASE OpenFiles(j)
    <2>1. k \notin contested /\ p # Partial(dest[j])
      BY <1>1, <1>6 DEF OpenFiles
    <2>2. fs[Partial(dest[j])] = None => fs[p] # <<j, at[j]>>
      BY <1>6, NodeStays DEF New, Opens, Unseen, FilesInv
    <2>3. fs[p] # None => fs[p] # fs[Partial(dest[j])]
      BY <1>2, <2>1, PathFacts DEF OneName
    <2> QED BY <1>6, <2>1, <2>2, <2>3 DEF OpenFiles
  <1>7. CASE WriteChunk(j) \/ FallBack(j)
    <2>1. k \notin contested /\ fs[p] # fd[j].out /\ fs' = fs
      BY <1>1, <1>7 DEF WriteChunk, FallBack, NamesOf
    <2> QED BY <1>7, <2>1 DEF WriteChunk, FallBack
  <1>8. CASE AbandonCopy(j)
    BY <1>1, <1>8 DEF AbandonCopy
  <1>9. CASE RenamePartial(j)
    BY <1>1, <1>9 DEF RenamePartial, RenamesPartial, Renamed
  <1>10. CASE UnlinkSource(j)
    BY <1>1, <1>10 DEF UnlinkSource
  <1>11. CASE \/ Enumerate(j) \/ Begin(j) \/ AnswerOverwrite(j) \/ AnswerRename(j) \/ AnswerSkip(j)
              \/ RenameFails(j) \/ ReadLinkFails(j) \/ LinkFails(j) \/ OpenFails(j)
              \/ UnlinkFails(j) \/ Finish(j) \/ Cancel(j)
    <2>1. fs' = fs /\ nodes' = nodes /\ (contested' = contested \/ contested' = contested \ {j})
      BY <1>11 DEF Enumerate, Begin, AnswerOverwrite, AnswerRename, AnswerSkip, RenameFails,
                   ReadLinkFails, LinkFails, OpenFails, UnlinkFails, Finish, Cancel,
                   TouchesNothing, fsVars, history
    <2> QED BY <2>1
  <1> QED BY <1>3, <1>4, <1>5, <1>6, <1>7, <1>8, <1>9, <1>10, <1>11 DEF Step

(* So what holds of it while it is alone holds after the others' steps.    *)
LEMMA OthersClean ==
    ASSUME TypeOK, LocalInv, FilesInv, CleanInv, NEW j \in Jobs, Step(j) \/ Cancel(j),
           NEW k \in Jobs \ {j}, k \notin contested'
    PROVE  Clean(k)'
  <1>1. /\ pc'[k] = pc[k] /\ at'[k] = at[k] /\ dest'[k] = dest[k] /\ fd'[k] = fd[k]
        /\ chunk'[k] = chunk[k] /\ links'[k] = links[k] /\ (k \in told' <=> k \in told)
        /\ work' = work
    BY OthersKept, LocalType
  <1>2. /\ Item(k)' = Item(k) /\ Natural(k)' = Natural(k) /\ IsLink(k)' = IsLink(k)
        /\ KeepsBothOfLink(k)' = KeepsBothOfLink(k)
    BY <1>1 DEF Item, Natural, IsLink, KeepsBothOfLink
  <1>3. CASE k \notin Working
    <2>1. pc[k] \in {"Submitted", "Next", "Done"}
      BY <1>3 DEF Working
    <2> QED BY <1>1, <2>1 DEF Clean, CopyInHand, FreeDest, LinkInHand, CopyMade
  <1>4. CASE k \in Working
    <2>1. /\ Item(k) \in Path /\ Natural(k) \in Path /\ dest[k] \in Path /\ Partial(dest[k]) \in Path
          /\ ~dest[k].partial
      <3>1. at[k] <= Len(work[k].sources) /\ ~dest[k].partial
        BY <1>4 DEF Working, LocalInv, InHand
      <3>2. dest[k] \in Path
        BY DEF TypeOK
      <3> QED BY <3>1, <3>2, ItemFacts, PathFacts
    <2>2. /\ k \notin contested
          /\ \A p \in {Item(k), Natural(k), dest[k], Partial(dest[k])} :
                 fs'[p] = fs[p] /\ (fs[p] # None => nodes'[fs[p]] = nodes[fs[p]])
      BY <1>4, <2>1, Untouched DEF Uses
    <2>3. Clean(k)
      BY <2>2 DEF CleanInv
    <2>4. Exists(Item(k))' = Exists(Item(k)) /\ Exists(dest[k])' = Exists(dest[k])
      BY <1>1, <1>2, <2>2 DEF Exists
    <2>5. CopyInHand(k)'
      <3> SUFFICES ASSUME pc[k] = "Write" PROVE CopyInHand(k)'
        BY <1>1 DEF CopyInHand
      <3>1. CopyInHand(k)
        BY <2>3 DEF Clean
      <3>2. fd[k].in # None /\ fd[k].out # None
        BY DEF LocalInv, InHand
      <3>3. /\ Exists(Item(k))' /\ fs'[Item(k)] = fd[k].in /\ fs'[Partial(dest[k])] = fd[k].out
            /\ nodes'[fd[k].in] = nodes[fd[k].in] /\ nodes'[fd[k].out] = nodes[fd[k].out]
        BY <2>2, <2>4, <3>1, <3>2 DEF CopyInHand
      <3> QED BY <1>1, <1>2, <3>1, <3>3 DEF CopyInHand, Partial
    <2>6. k \notin told => FreeDest(k)'
      BY <1>1, <2>3, <2>4 DEF Clean, FreeDest, Exists
    <2>7. k \notin told => LinkInHand(k)'
      <3> SUFFICES ASSUME k \notin told, pc[k] = "Link", dest[k] = Natural(k)
                   PROVE  IF Item(k) = Natural(k) THEN nodes'[fd[k].in].kind = "dangling"
                          ELSE fs'[Item(k)] = fd[k].in
        BY <1>1, <1>2 DEF LinkInHand
      <3>1. LinkInHand(k) /\ fd[k].in \in Inode
        BY <2>3 DEF Clean, TypeOK, LocalInv, InHand
      <3>2. CASE Item(k) = Natural(k)
        <4>1. nodes[fd[k].in].kind = "dangling" /\ fd[k].in \notin New(j)
          BY <3>1, <3>2, NodeStays DEF LinkInHand, Unseen, FilesInv
        <4> QED BY <3>1, <3>2, <4>1, NodeStays DEF FilesInv
      <3>3. CASE Item(k) # Natural(k)
        BY <2>2, <3>1, <3>3 DEF LinkInHand
      <3> QED BY <3>2, <3>3
    <2>8. k \notin told => CopyMade(k)'
      <3> SUFFICES ASSUME k \notin told, pc[k] = "Unlink", ~KeepsBothOfLink(k), Exists(Item(k))
                   PROVE  /\ dest[k] # Item(k) /\ fs'[dest[k]] # None
                          /\ nodes'[fs'[dest[k]]].data = nodes'[fs'[Item(k)]].data
        BY <1>1, <1>2, <2>4 DEF CopyMade
      <3>1. CopyMade(k)
        BY <2>3 DEF Clean
      <3> QED BY <2>2, <3>1 DEF CopyMade, Exists
    <2> QED BY <1>1, <2>5, <2>6, <2>7, <2>8 DEF Clean
  <1> QED BY <1>3, <1>4

(* And after its own.                                                      *)
LEMMA OwnClean ==
    ASSUME TypeOK, LocalInv, FilesInv, CleanInv, NEW j \in Jobs, Step(j) \/ Cancel(j),
           j \notin contested'
    PROVE  Clean(j)'
  <1>1. OneName
    BY DEF FilesInv, InodeInv
  <1>2. ~Begin(j) => Clean(j)
    <2>1. ~Begin(j) => j \notin contested
      BY DEF Step, Enumerate, AnswerOverwrite, AnswerRename, AnswerSkip, RenameItem,
           RenameFails, UnlinkForLink, ReadLinkFails, MakeLink, LinkFails, OpenFiles, OpenFails,
           WriteChunk, FallBack, AbandonCopy, RenamePartial, UnlinkSource, UnlinkFails, Finish,
           Cancel, TouchesNothing, Touches, history
    <2> QED BY <2>1 DEF CleanInv
  <1>3. ASSUME pc'[j] \notin {"Rename", "Copy", "Link", "Write", "Unlink"}
        PROVE  Clean(j)'
    BY <1>3 DEF Clean, CopyInHand, FreeDest, LinkInHand, CopyMade
  <1>4. ASSUME at[j] <= Len(work[j].sources)
        PROVE  /\ Item(j) \in Path /\ ~Item(j).partial /\ Natural(j) \in Path
               /\ <<j, at[j]>> \in Inode /\ <<j, at[j]>> # None
    BY <1>4, ItemFacts, PathFacts
  <1>5. work' = work
    BY LocalType
  <1>6. CASE Begin(j)
    <2>1. CASE Exists(Natural(j))
      BY <1>3, <1>6, <2>1 DEF Begin, Goto, TypeOK
    <2>2. CASE ~Exists(Natural(j))
      <3>1. /\ pc'[j] \in {"Rename", "Copy"} /\ dest'[j] = Natural(j)
            /\ fs' = fs /\ nodes' = nodes
        BY <1>6, <2>2 DEF Begin, Settle, Goto, TypeOK, fsVars
      <3>2. ~Exists(dest[j])'
        BY <2>2, <3>1 DEF Exists
      <3> QED BY <3>1, <3>2 DEF Clean, CopyInHand, FreeDest, LinkInHand, CopyMade
    <2> QED BY <2>1, <2>2
  <1>7. CASE AnswerOverwrite(j)
    <2>1. pc'[j] \in {"Rename", "Copy"} /\ j \in told'
      BY <1>7 DEF AnswerOverwrite, Settle, Goto, TypeOK
    <2> QED BY <2>1 DEF Clean, CopyInHand
  <1>8. CASE AnswerRename(j)
    <2>1. Natural(j) \in Path /\ FreeCopies(Natural(j)) # {}
      BY <1>4, <1>8 DEF AnswerRename, LocalInv, InHand
    <2>2. /\ pc'[j] \in {"Rename", "Copy"} /\ dest'[j] = Unique(Natural(j))
          /\ fs' = fs /\ nodes' = nodes
      BY <1>8 DEF AnswerRename, Settle, Goto, TouchesNothing, TypeOK
    <2>3. ~Exists(dest[j])'
      BY <2>1, <2>2, UniqueFacts DEF Exists
    <2> QED BY <2>2, <2>3 DEF Clean, CopyInHand, FreeDest, LinkInHand, CopyMade
  <1>9. CASE RenameFails(j)
    <2>1. /\ pc[j] = "Rename" /\ pc'[j] = "Copy" /\ dest' = dest /\ fs' = fs /\ nodes' = nodes
          /\ told' = told /\ Clean(j)
      BY <1>2, <1>9 DEF RenameFails, Begin, Goto, TouchesNothing, TypeOK, itemVars
    <2> QED BY <2>1 DEF Clean, CopyInHand, FreeDest, LinkInHand, CopyMade, Exists
  <1>10. CASE Cancel(j) /\ pc[j] # "Asking"
    <2>1. /\ pc' = pc /\ dest' = dest /\ fs' = fs /\ nodes' = nodes /\ fd' = fd /\ at' = at
          /\ chunk' = chunk /\ links' = links /\ told' = told
      BY <1>10 DEF Cancel, TouchesNothing
    <2>2. Clean(j)
      <3>1. j \notin contested
        BY <1>10 DEF Cancel, TouchesNothing, history
      <3> QED BY <3>1 DEF CleanInv
    <2> QED BY <1>5, <2>1, <2>2 DEF Clean, CopyInHand, FreeDest, LinkInHand, CopyMade, Exists, Item,
                Natural, IsLink, KeepsBothOfLink
  <1>11. CASE UnlinkForLink(j)
    <2>1. /\ pc[j] = "Copy" /\ pc'[j] = "Link" /\ at' = at /\ dest' = dest /\ told' = told
          /\ nodes' = nodes /\ links' = links /\ fd'[j].in = fs[Item(j)] /\ fs[Item(j)] # None
          /\ fs' = [fs EXCEPT ![Natural(j)] = None]
          /\ Clean(j)
      BY <1>2, <1>11 DEF UnlinkForLink, Begin, Goto, TypeOK, HoldsLink
    <2>2. Item(j)' = Item(j) /\ Natural(j)' = Natural(j)
      BY <1>5, <2>1 DEF Item, Natural
    <2>3. Item(j) \in Path /\ Natural(j) \in Path
      BY <1>4, <2>1 DEF LocalInv, InHand
    <2>4. j \notin told => LinkInHand(j)'
      <3> SUFFICES ASSUME j \notin told, dest[j] = Natural(j)
                   PROVE  IF Item(j) = Natural(j) THEN nodes[fs[Item(j)]].kind = "dangling"
                          ELSE fs'[Item(j)] = fs[Item(j)]
        BY <2>1, <2>2 DEF LinkInHand
      <3>1. ~Exists(Natural(j))
        BY <2>1 DEF Clean, FreeDest
      <3> QED BY <2>1, <2>3, <3>1 DEF Exists, TypeOK
    <2> QED BY <2>1, <2>4 DEF Clean, CopyInHand, FreeDest, CopyMade
  <1>12. CASE MakeLink(j) /\ work[j].mode = "Move"
    <2>1. /\ pc[j] = "Link" /\ pc'[j] = "Unlink" /\ at' = at /\ dest' = dest /\ told' = told
          /\ links' = links /\ Clean(j)
          /\ nodes' = [nodes EXCEPT ![<<j, at[j]>>] = nodes[fd[j].in]]
          /\ fs' = [fs EXCEPT ![Natural(j)] = <<j, at[j]>>]
      BY <1>2, <1>12 DEF MakeLink, Begin, AfterCopy, Goto, TypeOK
    <2>2. /\ Item(j)' = Item(j) /\ Natural(j)' = Natural(j) /\ IsLink(j)' = IsLink(j)
          /\ KeepsBothOfLink(j)' = KeepsBothOfLink(j)
      BY <1>5, <2>1 DEF Item, Natural, IsLink, KeepsBothOfLink
    <2>3. /\ Item(j) \in Path /\ Natural(j) \in Path /\ <<j, at[j]>> \in Inode
          /\ <<j, at[j]>> # None /\ IsLink(j) /\ fd[j].in \in Inode
      BY <1>4, <2>1 DEF LocalInv, InHand, TypeOK
    <2>4. fd[j].in # <<j, at[j]>>
      BY <1>12, NodeStays DEF New, Unseen, FilesInv
    <2>5. j \notin told => CopyMade(j)'
      <3> SUFFICES ASSUME j \notin told, ~KeepsBothOfLink(j), Exists(Item(j))'
                   PROVE  /\ dest[j] # Item(j) /\ fs'[dest[j]] # None
                          /\ nodes'[fs'[dest[j]]].data = nodes'[fs'[Item(j)]].data
        BY <2>1, <2>2 DEF CopyMade
      <3>1. dest[j] = Natural(j) /\ LinkInHand(j)
        BY <2>1, <2>3 DEF KeepsBothOfLink, Clean
      <3>2. Item(j) # Natural(j)
        BY <2>1, <2>2, <2>3, <3>1 DEF Exists, LinkInHand, TypeOK
      <3>3. fs'[Item(j)] = fd[j].in
        BY <2>1, <2>3, <3>1, <3>2 DEF LinkInHand, TypeOK
      <3> QED BY <2>1, <2>3, <2>4, <3>1, <3>2, <3>3 DEF TypeOK
    <2> QED BY <2>1, <2>5 DEF Clean, CopyInHand, FreeDest, LinkInHand
  <1>13. CASE OpenFiles(j)
    <2> DEFINE p == Partial(dest[j])
               out == IF fs[p] = None THEN <<j, at[j]>> ELSE fs[p]
    <2>1. /\ pc[j] = "Copy" /\ pc'[j] = "Write" /\ at' = at /\ dest' = dest /\ told' = told
          /\ Clean(j) /\ Exists(Item(j)) /\ chunk'[j] = 0
          /\ fs' = [fs EXCEPT ![p] = out] /\ nodes' = [nodes EXCEPT ![out] = Empty]
          /\ fd'[j] = [in |-> fs[Item(j)], out |-> out]
      BY <1>2, <1>13 DEF OpenFiles, Begin, Goto, TypeOK
    <2>2. /\ Item(j)' = Item(j) /\ Partial(dest[j])' = p
      BY <1>5, <2>1 DEF Item, Partial
    <2>3. /\ Item(j) \in Path /\ ~Item(j).partial /\ dest[j] \in Path /\ ~dest[j].partial
          /\ p \in Path /\ p.partial
      BY <1>4, <2>1, PathFacts DEF LocalInv, InHand, TypeOK
    <2>4. ASSUME NEW q \in Path, ~q.partial, fs[q] # None
          PROVE  fs'[q] = fs[q] /\ nodes'[fs[q]] = nodes[fs[q]]
      <3>1. fs[p] = None => out \in New(j)
        BY <1>13 DEF New, Opens
      <3>2. out # fs[q]
        BY <1>1, <2>3, <2>4, <3>1, NodeStays DEF OneName, Unseen, FilesInv
      <3> HIDE DEF out, p
      <3> QED BY <2>1, <2>3, <2>4, <3>2 DEF TypeOK
    <2>5. CopyInHand(j)'
      <3>1. Exists(Item(j))' /\ fs'[Item(j)] = fs[Item(j)]
        BY <2>1, <2>2, <2>3, <2>4 DEF Exists
      <3> HIDE DEF out, p
      <3> QED BY <2>1, <2>2, <2>3, <3>1 DEF CopyInHand, TypeOK
    <2>6. FreeDest(j) => ~Exists(dest[j])'
      <3>1. fs[dest[j]] = None => fs'[dest[j]] = None
        BY <2>1, <2>3 DEF TypeOK
      <3> QED BY <2>1, <2>3, <2>4, <3>1 DEF FreeDest, Exists
    <2> HIDE DEF out, p
    <2> QED BY <2>1, <2>5, <2>6 DEF Clean, FreeDest, LinkInHand, CopyMade
  <1>14. CASE WriteChunk(j) \/ FallBack(j)
    <2>1. /\ pc[j] = "Write" /\ pc' = pc /\ at' = at /\ dest' = dest /\ told' = told /\ fs' = fs
          /\ fd' = fd /\ Clean(j)
      BY <1>2, <1>14 DEF WriteChunk, FallBack, Begin
    <2>2. /\ Item(j)' = Item(j) /\ Partial(dest[j])' = Partial(dest[j])
      BY <1>5, <2>1 DEF Item, Partial
    <2>3. /\ Item(j) \in Path /\ ~Item(j).partial /\ dest[j] \in Path /\ ~dest[j].partial
          /\ Partial(dest[j]) \in Path /\ Partial(dest[j]).partial
      BY <1>4, <2>1, PathFacts DEF LocalInv, InHand, TypeOK
    <2>4. CopyInHand(j) /\ fd[j].in # None /\ fd[j].out # None /\ fd[j].in \in Inode /\ fd[j].out \in Inode
      BY <2>1 DEF Clean, LocalInv, InHand, TypeOK
    <2>5. ASSUME NEW q \in Path, ~q.partial, fs[q] # None
          PROVE  fs[q] # fd[j].out /\ nodes'[fs[q]] = nodes[fs[q]]
      <3>1. fs[q] # fd[j].out
        BY <1>1, <2>1, <2>3, <2>4, <2>5 DEF OneName, CopyInHand
      <3> QED BY <1>14, <2>5, <3>1 DEF WriteChunk, FallBack, TypeOK
    <2>6. /\ fs[Item(j)] = fd[j].in /\ fd[j].in # fd[j].out
          /\ nodes'[fd[j].in] = nodes[fd[j].in] /\ Exists(Item(j))'
      BY <2>1, <2>2, <2>3, <2>4, <2>5 DEF CopyInHand, Exists
    <2>7. \A c \in 1..chunk'[j] : nodes'[fd[j].out].data[c] = nodes[fd[j].in].data[c]
      <3>1. CASE WriteChunk(j)
        <4>1. /\ chunk'[j] = chunk[j] + 1 /\ chunk[j] \in Nat /\ chunk[j] + 1 \in Chunks
              /\ nodes' = [nodes EXCEPT ![fd[j].out].data[chunk[j] + 1] =
                              nodes[fd[j].in].data[chunk[j] + 1]]
          BY <3>1, ChunkCount DEF WriteChunk, TypeOK, Chunks
        <4>2. /\ nodes[fd[j].out].data \in [Chunks -> Source \cup {None}]
              /\ nodes[fd[j].out] \in Node
          BY <2>4 DEF TypeOK, Node
        <4>3. nodes'[fd[j].out].data =
                 [nodes[fd[j].out].data EXCEPT ![chunk[j] + 1] = nodes[fd[j].in].data[chunk[j] + 1]]
          BY <2>4, <4>1, <4>2 DEF TypeOK, Node
        <4> QED BY <2>1, <2>4, <4>1, <4>2, <4>3 DEF CopyInHand, Chunks
      <3>2. CASE FallBack(j)
        BY <3>2 DEF FallBack, TypeOK
      <3> QED BY <1>14, <3>1, <3>2
    <2>8. CopyInHand(j)'
      BY <2>1, <2>2, <2>4, <2>6, <2>7 DEF CopyInHand
    <2>9. FreeDest(j) => ~Exists(dest[j])'
      BY <2>1, <2>3, <2>5 DEF FreeDest, Exists
    <2> QED BY <2>1, <2>8, <2>9 DEF Clean, FreeDest, LinkInHand, CopyMade
  <1>15. CASE RenamePartial(j) /\ work[j].mode = "Move"
    <2>1. /\ pc[j] = "Write" /\ pc'[j] = "Unlink" /\ at' = at /\ dest' = dest /\ told' = told
          /\ nodes' = nodes /\ fs' = Renamed(Partial(dest[j]), dest[j]) /\ chunk[j] = 2 /\ Clean(j)
      BY <1>2, <1>15, ChunkCount DEF RenamePartial, RenamesPartial, Begin, AfterCopy, Goto, TypeOK
    <2>2. Item(j)' = Item(j)
      BY <1>5, <2>1 DEF Item
    <2>3. /\ Item(j) \in Path /\ ~Item(j).partial /\ dest[j] \in Path /\ ~dest[j].partial
          /\ Partial(dest[j]) \in Path /\ Partial(dest[j]).partial
      BY <1>4, <2>1, PathFacts DEF LocalInv, InHand, TypeOK
    <2>4. CopyInHand(j) /\ fd[j].in \in Inode /\ fd[j].out \in Inode /\ fd[j].out # None
      BY <2>1 DEF Clean, LocalInv, InHand, TypeOK
    <2>5. j \notin told => CopyMade(j)'
      <3> SUFFICES ASSUME j \notin told
                   PROVE  /\ dest[j] # Item(j) /\ fs'[dest[j]] # None
                          /\ nodes[fs'[dest[j]]].data = nodes[fs'[Item(j)]].data
        BY <2>1, <2>2 DEF CopyMade
      <3>1. dest[j] # Item(j)
        BY <2>1, <2>4 DEF Clean, FreeDest, CopyInHand
      <3>2. fs'[dest[j]] = fd[j].out /\ fs'[Item(j)] = fd[j].in
        BY <2>1, <2>3, <2>4, <3>1 DEF Renamed, CopyInHand, TypeOK
      <3>3. /\ nodes[fd[j].out].data \in [Chunks -> Source \cup {None}]
            /\ nodes[fd[j].in].data \in [Chunks -> Source \cup {None}]
        BY <2>4 DEF TypeOK, Node
      <3>4. \A c \in Chunks : nodes[fd[j].out].data[c] = nodes[fd[j].in].data[c]
        BY <2>1, <2>4 DEF CopyInHand, Chunks
      <3>5. nodes[fd[j].out].data = nodes[fd[j].in].data
        BY <3>3, <3>4
      <3> QED BY <2>4, <3>1, <3>2, <3>5
    <2> QED BY <2>1, <2>5 DEF Clean, CopyInHand, FreeDest, LinkInHand
  <1>16. CASE \/ Enumerate(j) \/ AnswerSkip(j) \/ RenameItem(j) \/ ReadLinkFails(j) \/ LinkFails(j)
              \/ OpenFails(j) \/ AbandonCopy(j) \/ UnlinkSource(j) \/ UnlinkFails(j) \/ Finish(j)
              \/ (MakeLink(j) /\ work[j].mode # "Move") \/ (RenamePartial(j) /\ work[j].mode # "Move")
              \/ (Cancel(j) /\ pc[j] = "Asking")
    <2>1. pc'[j] \in {"Next", "Done"}
      BY <1>16 DEF Enumerate, AnswerSkip, RenameItem, ReadLinkFails, LinkFails, OpenFails, AbandonCopy,
           UnlinkSource, UnlinkFails, Finish, MakeLink, RenamePartial, AfterCopy, Cancel, NextItem,
           Goto, TypeOK
    <2> QED BY <1>3, <2>1
  <1> QED BY <1>6, <1>7, <1>8, <1>9, <1>10, <1>11, <1>12, <1>13, <1>14, <1>15, <1>16 DEF Step

(* Whoever is alone on its paths has its copy in hand, and where that goes *)
(* is free.                                                                *)
LEMMA CleanHolds == Spec => []CleanInv
  <1>1. Init => CleanInv
    BY DEF Init, CleanInv, Clean, CopyInHand, FreeDest, LinkInHand, CopyMade
  <1>2. ASSUME TypeOK, LocalInv, FilesInv, CleanInv, Next PROVE CleanInv'
    <2>1. PICK j \in Jobs : Step(j) \/ Cancel(j)
      BY <1>2 DEF Next
    <2> QED BY <1>2, <2>1, OwnClean, OthersClean DEF CleanInv
  <1>3. ASSUME CleanInv, UNCHANGED vars PROVE CleanInv'
    <2>1. /\ fs' = fs /\ nodes' = nodes /\ work' = work /\ pc' = pc /\ links' = links /\ at' = at
          /\ dest' = dest /\ fd' = fd /\ chunk' = chunk /\ told' = told /\ contested' = contested
      BY <1>3 DEF vars, fsVars, itemVars, history
    <2>2. ASSUME NEW j \in Jobs
          PROVE  /\ Item(j)' = Item(j) /\ Natural(j)' = Natural(j)
                 /\ KeepsBothOfLink(j)' = KeepsBothOfLink(j)
      BY <2>1 DEF Item, Natural, IsLink, KeepsBothOfLink
    <2>3. ASSUME NEW j \in Jobs, Clean(j) PROVE Clean(j)'
      BY <2>1, <2>2, <2>3 DEF Clean, CopyInHand, FreeDest, LinkInHand, CopyMade, Exists
    <2> QED BY <1>3, <2>1, <2>3 DEF CleanInv
  <1> QED BY <1>1, <1>2, <1>3, TypesHold, FilesHold, PTL DEF Spec

(* What is whole somewhere and had a file behind it is not a dangling link. *)
LEMMA WholeExists ==
    ASSUME LinkInv, TypeOK, NEW o \in Source, nodes[<<o, 0>>].kind \notin {"none", "dangling"},
           NEW p \in Path, fs[p] # None, nodes[fs[p]].data = [c \in Chunks |-> o]
    PROVE  Exists(p)
  <1> SUFFICES ASSUME nodes[fs[p]].kind = "dangling" PROVE FALSE
    BY DEF Exists
  <1>1. PICK s \in Source : /\ nodes[fs[p]].data = [c \in Chunks |-> s]
                            /\ nodes[fs[p]].kind = nodes[<<s, 0>>].kind
    BY DEF LinkInv, LinksWhole, TypeOK
  <1>2. s = o
    <2>1. [c \in Chunks |-> s][1] = [c \in Chunks |-> o][1]
      BY <1>1
    <2> QED BY <2>1 DEF Chunks
  <1> QED BY <1>1, <1>2

(* What a step would destroy is given up.                                  *)
LEMMA NothingLostStep ==
    ASSUME TypeOK, LocalInv, FilesInv, CleanInv, NothingLost, NEW j \in Jobs, Step(j) \/ Cancel(j)
    PROVE  NothingLost'
  <1>1. SUFFICES ASSUME NEW o \in Source, nodes'[<<o, 0>>].kind \notin {"none", "dangling"},
                        o \notin given'
                 PROVE  WholeIn(fs', nodes', o)
    BY DEF NothingLost
  <1>2. nodes[<<o, 0>>].kind \notin {"none", "dangling"}
    BY <1>1, NodeStays DEF FilesInv
  <1>3. WholeIn(fs, nodes, o)
    <2>1. o \notin given
      BY <1>1 DEF Step, Enumerate, Begin, AnswerOverwrite, AnswerRename, AnswerSkip, RenameItem,
           RenameFails, UnlinkForLink, ReadLinkFails, MakeLink, LinkFails, OpenFiles, OpenFails,
           WriteChunk, FallBack, AbandonCopy, RenamePartial, UnlinkSource, UnlinkFails, Finish,
           Cancel, TouchesNothing, Touches, history
    <2> QED BY <1>2, <2>1 DEF NothingLost
  <1>4. PICK p \in Path : ~p.partial /\ fs[p] # None /\ nodes[fs[p]].data = [c \in Chunks |-> o]
    BY <1>3 DEF WholeIn, TypeOK
  <1>5. Exists(p) /\ OneName
    BY <1>2, <1>4, WholeExists DEF FilesInv, InodeInv
  <1>6. ASSUME NEW q \in Path, ~q.partial, fs'[q] # None, nodes'[fs'[q]].data = [c \in Chunks |-> o]
        PROVE  WholeIn(fs', nodes', o)
    <2>1. DOMAIN fs' = Path
      BY TypeStep DEF TypeOK
    <2> QED BY <1>6, <2>1 DEF WholeIn
  <1>7. ASSUME NEW paths, Touches(j, paths), ~WholeIn(fs', nodes', o)
        PROVE  Clean(j) /\ j \notin told /\ ~KeepsBothOfLink(j)
    BY <1>1, <1>3, <1>7 DEF Touches, CleanInv
  <1>8. ASSUME at[j] <= Len(work[j].sources)
        PROVE  /\ Item(j) \in Path /\ ~Item(j).partial /\ Natural(j) \in Path
               /\ dest[j] \in Path /\ Partial(dest[j]) \in Path /\ Partial(dest[j]).partial
    BY <1>8, ItemFacts, PathFacts DEF TypeOK
  <1> SUFFICES ASSUME ~WholeIn(fs', nodes', o) PROVE FALSE
    OBVIOUS
  <1>9. ASSUME fs'[p] = fs[p], nodes'[fs[p]] = nodes[fs[p]] PROVE FALSE
    BY <1>4, <1>6, <1>9
  <1> USE DEF TypeOK
  <1>10. CASE RenameItem(j)
    <2>1. /\ pc[j] = "Rename" /\ Clean(j) /\ j \notin told /\ nodes' = nodes
          /\ fs' = Renamed(Item(j), dest[j])
      BY <1>7, <1>10 DEF RenameItem
    <2>2. ~dest[j].partial /\ Item(j) \in Path /\ dest[j] \in Path
      BY <1>8, <2>1 DEF LocalInv, InHand
    <2>3. p # dest[j]
      BY <1>5, <2>1 DEF Clean, FreeDest
    <2>4. CASE p = Item(j)
      <3>1. fs'[dest[j]] = fs[p]
        BY <2>1, <2>2, <2>4 DEF Renamed
      <3> QED BY <1>4, <1>6, <2>1, <2>2, <3>1
    <2>5. CASE p # Item(j)
      BY <1>9, <2>1, <2>3, <2>5 DEF Renamed
    <2> QED BY <2>4, <2>5
  <1>11. CASE UnlinkForLink(j)
    <2>1. /\ pc[j] = "Copy" /\ IsLink(j) /\ Clean(j) /\ j \notin told /\ nodes' = nodes
          /\ ~KeepsBothOfLink(j) /\ fs' = [fs EXCEPT ![Natural(j)] = None]
      BY <1>7, <1>11 DEF UnlinkForLink
    <2>2. p # Natural(j)
      BY <1>5, <2>1 DEF Clean, FreeDest, KeepsBothOfLink
    <2> QED BY <1>9, <2>1, <2>2
  <1>12. CASE MakeLink(j)
    <2>1. fs[p] # <<j, at[j]>> /\ p # Natural(j)
      BY <1>4, <1>12, NodeStays DEF New, Unseen, FilesInv, MakeLink
    <2> QED BY <1>9, <1>12, <2>1 DEF MakeLink
  <1>13. CASE OpenFiles(j)
    <2>1. Partial(dest[j]) \in Path /\ Partial(dest[j]).partial
      BY <1>8, <1>13 DEF OpenFiles, LocalInv, InHand
    <2>2. fs[Partial(dest[j])] = None => fs[p] # <<j, at[j]>>
      BY <1>13, NodeStays DEF New, Opens, Unseen, FilesInv
    <2>3. fs[p] # fs[Partial(dest[j])]
      BY <1>4, <1>5, <2>1 DEF OneName
    <2> QED BY <1>4, <1>9, <1>13, <2>1, <2>2, <2>3 DEF OpenFiles
  <1>14. CASE WriteChunk(j) \/ FallBack(j)
    <2>1. pc[j] = "Write" /\ Clean(j) /\ fs' = fs
      BY <1>7, <1>14 DEF WriteChunk, FallBack
    <2>2. Partial(dest[j]) \in Path /\ Partial(dest[j]).partial
      BY <1>8, <2>1 DEF LocalInv, InHand
    <2>3. fs[p] # fd[j].out
      BY <1>4, <1>5, <2>1, <2>2 DEF OneName, Clean, CopyInHand
    <2>4. fs[p] \in Inode
      BY <1>4
    <2>5. nodes'[fs[p]] = nodes[fs[p]]
      BY <1>14, <2>3, <2>4 DEF WriteChunk, FallBack
    <2> QED BY <1>9, <2>1, <2>5
  <1>15. CASE AbandonCopy(j)
    <2>1. Partial(dest[j]).partial /\ fs' = [fs EXCEPT ![Partial(dest[j])] = None] /\ nodes' = nodes
      BY <1>8, <1>15 DEF AbandonCopy, LocalInv, InHand
    <2> QED BY <1>4, <1>9, <2>1
  <1>16. CASE RenamePartial(j)
    <2>1. /\ pc[j] = "Write" /\ Clean(j) /\ j \notin told /\ nodes' = nodes
          /\ fs' = Renamed(Partial(dest[j]), dest[j])
      BY <1>7, <1>16 DEF RenamePartial, RenamesPartial
    <2>2. p # dest[j] /\ Partial(dest[j]).partial
      BY <1>5, <1>8, <2>1 DEF Clean, FreeDest, LocalInv, InHand
    <2> QED BY <1>4, <1>9, <2>1, <2>2 DEF Renamed
  <1>17. CASE UnlinkSource(j)
    <2>1. /\ pc[j] = "Unlink" /\ Clean(j) /\ j \notin told /\ nodes' = nodes
          /\ ~KeepsBothOfLink(j) /\ fs' = [fs EXCEPT ![Item(j)] = None]
      BY <1>7, <1>17 DEF UnlinkSource
    <2>2. ~dest[j].partial /\ Item(j) \in Path /\ dest[j] \in Path
      BY <1>8, <2>1 DEF LocalInv, InHand
    <2>3. CASE p = Item(j)
      <3>1. /\ dest[j] # Item(j) /\ fs[dest[j]] # None
            /\ nodes[fs[dest[j]]].data = nodes[fs[p]].data
        BY <1>5, <2>1, <2>3 DEF Clean, CopyMade
      <3>2. fs'[dest[j]] = fs[dest[j]]
        BY <2>1, <2>2, <3>1
      <3> QED BY <1>4, <1>6, <2>1, <2>2, <3>1, <3>2
    <2>4. CASE p # Item(j)
      BY <1>9, <2>1, <2>4
    <2> QED BY <2>3, <2>4
  <1>18. CASE \/ Enumerate(j) \/ Begin(j) \/ AnswerOverwrite(j) \/ AnswerRename(j) \/ AnswerSkip(j)
              \/ RenameFails(j) \/ ReadLinkFails(j) \/ LinkFails(j) \/ OpenFails(j)
              \/ UnlinkFails(j) \/ Finish(j) \/ Cancel(j)
    <2>1. fs' = fs /\ nodes' = nodes
      BY <1>18 DEF Enumerate, Begin, AnswerOverwrite, AnswerRename, AnswerSkip, RenameFails,
                   ReadLinkFails, LinkFails, OpenFails, UnlinkFails, Finish, Cancel,
                   TouchesNothing, fsVars
    <2> QED BY <1>9, <2>1
  <1> QED BY <1>10, <1>11, <1>12, <1>13, <1>14, <1>15, <1>16, <1>17, <1>18 DEF Step

(* At every moment all that was there at first is still somewhere, unless  *)
(* the user chose to overwrite it or two jobs worked on the same paths.    *)
THEOREM NothingEverLost == Spec => []NothingLost
  <1>1. ASSUME Init PROVE NothingLost
    <2>1. PICK kind \in [Source -> Kinds] :
            /\ nodes = [i \in Inode |->
                   IF i[2] = 0 THEN [kind |-> kind[i[1]], data |-> [c \in Chunks |-> i[1]]]
                   ELSE NoNode]
            /\ fs = [p \in Path |-> IF p \in Source /\ kind[p] # "none" THEN <<p, 0>> ELSE None]
      BY <1>1 DEF Init
    <2>2. ASSUME NEW o \in Source, nodes[<<o, 0>>].kind # "none"
          PROVE  WholeIn(fs, nodes, o)
      <3>1. nodes[<<o, 0>>] = [kind |-> kind[o], data |-> [c \in Chunks |-> o]]
        BY <2>1, MadeFacts
      <3>2. o \in Path /\ ~o.partial /\ kind[o] # "none"
        BY <2>2, <3>1, PathFacts
      <3>3. fs[o] = <<o, 0>> /\ <<o, 0>> # None /\ o \in DOMAIN fs
        BY <2>1, <3>2 DEF None
      <3>4. nodes[fs[o]].data = [c \in Chunks |-> o]
        BY <3>1, <3>3
      <3> QED BY <3>2, <3>3, <3>4, Zenon DEF WholeIn
    <2> QED BY <2>2 DEF NothingLost
  <1>2. ASSUME TypeOK, LocalInv, FilesInv, CleanInv, NothingLost, Next PROVE NothingLost'
    <2>1. PICK j \in Jobs : Step(j) \/ Cancel(j)
      BY <1>2 DEF Next
    <2> QED BY <1>2, <2>1, NothingLostStep
  <1>3. ASSUME NothingLost, UNCHANGED vars PROVE NothingLost'
    BY <1>3 DEF NothingLost, WholeIn, vars, fsVars, history
  <1> QED BY <1>1, <1>2, <1>3, TypesHold, FilesHold, CleanHolds, PTL DEF Spec

=============================================================================
