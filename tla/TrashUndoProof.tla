--------------------------- MODULE TrashUndoProof ---------------------------
(***************************************************************************)
(* Proofs about TrashUndo for any paths, workers and bounds: its type      *)
(* invariant; that no file is lost; that what is in the trash has a        *)
(* record; that the entries of the undo stack name what they could bring   *)
(* back; and that undoing everything undoes everything.                    *)
(***************************************************************************)
EXTENDS TrashUndo, FunctionTheorems, FiniteSetTheorems, SequenceTheorems, WellFoundedInduction,
        TLAPS

Moving == {"Info", "Rename", "RemoveInfo", "Qt"}

Holding == {"Commit", "Restore", "RestoreInfo"}

(* What each actor does fits its task, and it has in hand what it needs.   *)
ActorOK(a) ==
    /\ a = Gui =>
           /\ mode[a] \in {"Idle", "Undo", "UndoReplace"} /\ pc[a] # "Commit"
           /\ pc[a] \in Moving => mode[a] = "UndoReplace"
           /\ pc[a] # "Next" => got[a] # <<>>
           /\ pc[a] \in Holding => item[a] = Head(got[a])
    /\ a # Gui =>
           /\ mode[a] \notin {"Undo", "UndoReplace"}
           /\ pc[a] \in Moving => mode[a] \in {"Trash", "Edit"}
           /\ pc[a] \in Holding => mode[a] = "Edit" /\ item[a].origin = path[a]
    /\ pc[a] \in Holding => item[a] \in Item
    /\ Idle(a) => pc[a] = "Next" /\ got[a] = <<>>

ActorInv == \A a \in Actors : ActorOK(a)

(* Who uses slot s of this trash: at most one actor, unless two clashed.   *)
(* While one has it in hand the slot is empty, and so it is once a file    *)
(* was restored from it.                                                   *)
Users(s) == InHand(s) \cup {a \in Restoring(s) : ~item[a].far}

SlotOK(s) ==
    /\ trash[s] # None => info[s] # None
    /\ \A a, b \in Users(s) : a = b
    /\ Users(s) # {} => trash[s] = None
    /\ \A a \in InHand(s) : pc[a] = "Rename" => info[s] = path[a]

SlotInv == \A s \in Slots \ clashed : SlotOK(s)

(* The items an actor could still restore, and those an entry could.       *)
Owned(a) ==
    IF a # Gui /\ pc[a] \in {"Commit", "Restore"} THEN Append(got[a], item[a])
    ELSE IF a = Gui /\ pc[a] = "RestoreInfo" THEN Tail(got[a]) ELSE got[a]

Load(k) == IF stack[k].kind = "Move" THEN <<>> ELSE stack[k].items

Has(i) ==
    \/ \E a \in Actors : \E n \in 1..Len(Owned(a)) : Owned(a)[n] = i
    \/ \E k \in 1..Len(stack) : \E n \in 1..Len(Load(k)) : Load(k)[n] = i

(* An item is where it says, and its record says where it goes back to.    *)
Good(i) == /\ i \in Item /\ Held(i) = i.file
           /\ i.far \/ i.slot \in clashed \/ info[i.slot] = i.origin

Same(i, e) == i.far = e.far /\ i.slot = e.slot

Distinct(s) == \A m, n \in 1..Len(s) : Same(s[m], s[n]) => m = n

Apart(s, t) == \A m \in 1..Len(s), n \in 1..Len(t) : ~Same(s[m], t[n])

(* No place in a trash is claimed twice.                                   *)
OwnersApart ==
    /\ \A a \in Actors : Distinct(Owned(a))
    /\ \A k \in 1..Len(stack) : Distinct(Load(k))
    /\ \A a, b \in Actors : a # b => Apart(Owned(a), Owned(b))
    /\ \A k, l \in 1..Len(stack) : k # l => Apart(Load(k), Load(l))
    /\ \A a \in Actors, k \in 1..Len(stack) : Apart(Owned(a), Load(k))

ItemsGood == \A i \in Item : Has(i) => Good(i)

OwnInv == OwnersApart /\ ItemsGood

(* g is what f becomes when the items of s are put back.                   *)
Origins(s) == {s[n].origin : n \in 1..Len(s)}

Back(s, f, g) ==
    /\ \A n \in 1..Len(s) : g[s[n].origin] = s[n].file
    /\ \A p \in Paths \ Origins(s) : g[p] = f[p]

OneEach(s) == \A m, n \in 1..Len(s) : s[m].origin = s[n].origin => m = n

Vacant(s, f) == \A p \in Origins(s) : f[p] = None

(* Undoing entry e leads from f to g.                                      *)
Undoes(e, f, g) ==
    IF e.kind = "Move"
    THEN /\ f[e.from] = None /\ f[e.to] # None
         /\ g = [f EXCEPT ![e.to] = None, ![e.from] = f[e.to]]
    ELSE /\ OneEach(e.items) /\ Back(e.items, f, g)
         /\ IF e.kind = "Trash" THEN Vacant(e.items, f) ELSE Origins(e.items) \cap Far = {}

(* While nothing has disturbed it: one actor at a time is at work, no two  *)
(* of its items are of one path ...                                        *)
AloneTask(a) ==
    /\ mode[a] # "Permanent"
    /\ OneEach(Owned(a))
    /\ mode[a] \in {"Trash", "Undo"} => Vacant(Owned(a), at)
    /\ mode[a] \in {"Edit", "UndoReplace"} => Origins(Owned(a)) \cap Far = {}
    /\ a # Gui => /\ todo[a] \cap Origins(Owned(a)) = {}
                  /\ mode[a] = "Edit" => todo[a] \cap Far = {}

(* ... the path it has in hand is another, and that of the next item to be *)
(* put back is vacant, or is made so.                                      *)
AloneHand(a) ==
    /\ a # Gui /\ pc[a] \in Moving =>
           /\ path[a] \notin Origins(Owned(a)) \cup todo[a]
           /\ mode[a] = "Edit" => path[a] \notin Far
    /\ a = Gui /\ pc[a] \in Moving =>
           /\ pc[a] \in {"Info", "Rename"}
           /\ path[a] = Head(got[a]).origin /\ at[path[a]] # None /\ trash[slot[a]] = None
    /\ pc[a] \in {"Commit", "Restore"} => at[item[a].origin] = None

AloneInv ==
    /\ cancelled = {}
    /\ \A a, b \in Actors : ~Idle(a) /\ ~Idle(b) => a = b
    /\ \A a \in Actors : AloneTask(a) /\ AloneHand(a)

(* Entry by entry the stack leads from g back to the beginning ...         *)
Disk == [Paths -> Files \cup {None}]

Reaches(g) ==
    \E h \in [0..Len(stack) -> Disk] :
        /\ h[0] = Numbering
        /\ \A k \in 1..Len(stack) : Undoes(stack[k], h[k], h[k - 1])
        /\ h[Len(stack)] = g

(* ... from where the files are now, or will be when what the one actor at *)
(* work could put back is back.                                            *)
LeadsBack ==
    \E g \in Disk :
        /\ Reaches(g)
        /\ (\A a \in Actors : Idle(a)) => at = g
        /\ \A a \in Actors : ~Idle(a) => Back(Owned(a), at, g)

UndoInv == ~disturbed => AloneInv /\ LeadsBack

-----------------------------------------------------------------------------
(* Helpers *)

(* A set of numbers has a least one. *)
LEMMA LeastNumber ==
    ASSUME NEW S \in SUBSET Nat, S # {}
    PROVE  \E c \in S : \A e \in S : c <= e
  <1>1. \E x \in S : \A y \in S : ~(<<y, x>> \in OpToRel(<, Nat))
    BY WFMin, NatLessThanWellFounded
  <1>2. PICK x \in S : \A y \in S : ~(<<y, x>> \in OpToRel(<, Nat))
    BY <1>1
  <1>3. \A y \in S : y \in Nat /\ ~(y < x)
    BY <1>2 DEF OpToRel
  <1> QED BY <1>3

(* The name that is chosen in a trash is one of the free ones. *)
LEMMA LeastFacts ==
    ASSUME NEW S \in SUBSET Slots, S # {}
    PROVE  LeastOf(S) \in S
  <1>1. S \in SUBSET Nat
    BY TrashAssumption DEF Slots
  <1> QED BY <1>1, LeastNumber DEF LeastOf

(* The files of the beginning are numbered without gaps. *)
LEMMA NumberingFacts ==
    /\ Cardinality(Paths) \in 0..MaxFiles
    /\ Numbering \in [Paths -> 1..Cardinality(Paths)]
    /\ \A p, q \in Paths : Numbering[p] = Numbering[q] => p = q
    /\ \A f \in 1..Cardinality(Paths) : \E p \in Paths : Numbering[p] = f
  <1> DEFINE N == Cardinality(Paths)
  <1>1. N \in Nat /\ ExistsBijection(1..N, Paths)
    BY TrashAssumption, FS_CardinalityType
  <1>2. ExistsBijection(Paths, 1..N)
    BY <1>1, Fun_ExistsBijSymmetric
  <1>3. \E f \in [Paths -> 1..N] : \A p, q \in Paths : f[p] = f[q] => p = q
    BY <1>2 DEF ExistsBijection, Bijection, Injection, IsInjective
  <1>4. Numbering \in [Paths -> 1..N] /\ \A p, q \in Paths : Numbering[p] = Numbering[q] => p = q
    BY <1>3 DEF Numbering
  <1>5. Numbering \in Injection(Paths, 1..N)
    BY <1>4 DEF Injection, IsInjective
  <1>6. IsFiniteSet(1..N) /\ Cardinality(1..N) = N
    BY <1>1, FS_Interval
  <1>7. Numbering \in Surjection(Paths, 1..N)
    BY <1>5, <1>6, FS_Injection
  <1> QED BY <1>1, <1>4, <1>7, TrashAssumption DEF Surjection

(* Head and tail of a sequence. *)
LEMMA TailFacts ==
    ASSUME NEW S, NEW s \in Seq(S), s # <<>>
    PROVE  /\ Tail(s) \in Seq(S) /\ Len(Tail(s)) = Len(s) - 1 /\ Len(s) \in Nat \ {0}
           /\ \A n \in 1..Len(Tail(s)) : Tail(s)[n] = s[n + 1] /\ n + 1 \in 1..Len(s)
           /\ Head(s) = s[1] /\ 1 \in 1..Len(s) /\ Head(s) \in S
  <1>1. Len(s) \in Nat \ {0}
    BY EmptySeq
  <1>2. Head(s) = s[1]
    OBVIOUS
  <1> QED BY <1>1, <1>2, HeadTailProperties

-----------------------------------------------------------------------------
(* Types *)

(* The first state has the types. *)
LEMMA InitType ==
    ASSUME Init
    PROVE  TypeOK /\ ActorInv
  <1>1. NoItem.origin \in Paths /\ 0 \in Slots
    BY TrashAssumption DEF NoItem, Slots
  <1>2. TypeOK
    <2>1. at \in [Paths -> Files \cup {None}] /\ fresh \in 0..MaxFiles
      BY NumberingFacts, TrashAssumption DEF Init, Files
    <2>2. /\ path \in [Actors -> Paths] /\ slot \in [Actors -> Slots]
          /\ stack \in Seq(Entry) /\ Len(stack) <= Capacity
      BY <1>1, TrashAssumption DEF Init
    <2>3. /\ trash \in [Slots -> Files \cup {None}] /\ farTrash \in [Slots -> Files \cup {None}]
          /\ info \in [Slots -> Paths \cup {None}] /\ gone \subseteq Files
      BY DEF Init
    <2>4. /\ mode \in [Actors -> {"Idle", "Trash", "Permanent", "Edit", "Undo", "UndoReplace"}]
          /\ pc \in [Actors -> {"Next", "Info", "Rename", "RemoveInfo", "Qt", "Commit", "Restore",
                                "RestoreInfo"}]
          /\ todo \in [Actors -> SUBSET Paths] /\ item \in [Actors -> Item \cup {NoItem}]
          /\ got \in [Actors -> Seq(Item)]
      BY DEF Init
    <2>5. /\ cancelled \subseteq Jobs /\ ops \in 0..MaxOps /\ faults \in 0..MaxFaults
          /\ clashed \subseteq Slots
      BY TrashAssumption DEF Init
    <2>6. disturbed \in BOOLEAN
      BY Zenon DEF Init
    <2> QED BY <2>1, <2>2, <2>3, <2>4, <2>5, <2>6 DEF TypeOK
  <1>3. ActorInv
    BY TrashAssumption DEF Init, ActorInv, ActorOK, Actors, Moving, Holding, Idle
  <1> QED BY <1>2, <1>3

(* What a step of actor a may be. *)
JobStep(j) ==
    \/ \E paths \in SUBSET {p \in Paths : at[p] # None} \ {{}} :
           \E m \in {"Trash", "Permanent", "Edit"} : Start(j, m, paths)
    \/ Cancel(j) \/ Worker(j)

By(a) ==
    \/ MoveToTrash(a) \/ RestoreSteps(a)
    \/ a \in Jobs /\ JobStep(a)
    \/ a = Gui /\ Undo

(* A step is an actor's, or the user moves or makes a file. *)
LEMMA NextIsBy ==
    Next <=> \/ \E a \in Actors : By(a)
             \/ \E p, q \in Paths : Move(p, q)
             \/ \E p \in Paths : Create(p)
  BY DEF Next, User, By, JobStep, Actors

(* How an item that has just been trashed is passed on. *)
LEMMA TrashedCases ==
    ASSUME NEW a, NEW i, Trashed(a, i), mode[a] \in {"Trash", "Edit", "UndoReplace"}
    PROVE  \/ /\ mode[a] = "Trash" /\ Goto(a, "Next") /\ Drop(a)
              /\ got' = [got EXCEPT ![a] = Append(@, i)]
           \/ /\ mode[a] = "Edit" /\ Goto(a, "Commit") /\ Keep(a, path[a], 0, i) /\ got' = got
           \/ /\ mode[a] = "UndoReplace" /\ Goto(a, "Restore")
              /\ Keep(a, NoItem.origin, 0, Head(got[a])) /\ got' = got
  BY DEF Trashed

(* A step leaves the other actors where they are. *)
LEMMA OthersKept ==
    ASSUME TypeOK, ActorInv, NEW a \in Actors, By(a), NEW b \in Actors \ {a}
    PROVE  /\ mode'[b] = mode[b] /\ pc'[b] = pc[b] /\ todo'[b] = todo[b] /\ path'[b] = path[b]
           /\ slot'[b] = slot[b] /\ item'[b] = item[b] /\ got'[b] = got[b]
  <1> USE DEF TypeOK, Goto, Keep, Drop, GoOn, actorVars, ChooseName, EndJob
  <1>1. CASE RenameToTrash(a) \/ QtTrash(a)
    <2>1. mode[a] \in {"Trash", "Edit", "UndoReplace"}
      BY <1>1 DEF RenameToTrash, QtTrash, ActorInv, ActorOK, Moving
    <2>2. PICK i : Trashed(a, i)
      BY <1>1 DEF RenameToTrash, QtTrash
    <2>3. mode' = mode /\ todo' = todo
      BY <1>1 DEF RenameToTrash, QtTrash
    <2> QED BY <2>1, <2>2, <2>3, TrashedCases
  <1>2. CASE MoveToTrash(a) /\ ~RenameToTrash(a) /\ ~QtTrash(a)
    BY <1>2 DEF MoveToTrash, WriteInfo, WriteInfoFails, RenameToTrashFails, RemoveInfo, QtTrashFails
  <1>3. CASE RestoreSteps(a)
    BY <1>3 DEF RestoreSteps, Restore, RestoreFails, RestoreRemovesInfo
  <1>4. CASE a \in Jobs /\ JobStep(a)
    BY <1>4 DEF JobStep, Start, Cancel, Worker, NextPath, Unlink, Commit, CommitFails, Finish
  <1>5. CASE a = Gui /\ Undo
    BY <1>5 DEF Undo, UndoTrashOrReplace, UndoNext, UndoEnds, UndoMove
  <1> QED BY <1>1, <1>2, <1>3, <1>4, <1>5 DEF By

(* What the two ways to trash a file have in common: it lands at a place   *)
(* that was empty.                                                         *)
Lands(a, i) ==
    /\ Trashed(a, i) /\ mode[a] \in {"Trash", "Edit", "UndoReplace"}
    /\ i.origin = path[a] /\ i.file = at[path[a]] /\ at[path[a]] # None
    /\ Held(i) = None
    /\ at' = [at EXCEPT ![path[a]] = None]
    /\ IF i.far THEN farTrash' = [farTrash EXCEPT ![i.slot] = i.file] /\ trash' = trash
       ELSE trash' = [trash EXCEPT ![i.slot] = i.file] /\ farTrash' = farTrash
    /\ UNCHANGED <<gone, fresh, mode, todo, cancelled, stack, ops, faults, disturbed>>

(* An item that is trashed is one: where it is, from where, and which      *)
(* file.                                                                   *)
LEMMA TrashLands ==
    ASSUME TypeOK, ActorInv, NEW a \in Actors, RenameToTrash(a) \/ QtTrash(a)
    PROVE  \E i \in Item :
               /\ Lands(a, i)
               /\ \/ RenameToTrash(a) /\ ~i.far /\ i.slot = slot[a] /\ info' = info /\ clashed' = clashed
                  \/ QtTrash(a) /\ i.far /\ info' = info /\ clashed' = clashed
                  \/ /\ QtTrash(a) /\ ~i.far
                     /\ info' = [info EXCEPT ![i.slot] = path[a]] /\ Claims(a, i.slot)
  <1>1. mode[a] \in {"Trash", "Edit", "UndoReplace"}
    BY DEF RenameToTrash, QtTrash, ActorInv, ActorOK, Moving
  <1>2. path[a] \in Paths /\ slot[a] \in Slots /\ at[path[a]] \in Files /\ at[path[a]] # None
    BY DEF RenameToTrash, QtTrash, TypeOK
  <1>3. CASE RenameToTrash(a)
    <2> DEFINE i == [far |-> FALSE, slot |-> slot[a], origin |-> path[a], file |-> at[path[a]]]
    <2>1. i \in Item /\ i.origin = path[a] /\ i.file = at[path[a]] /\ i.slot = slot[a] /\ ~i.far
      BY <1>2 DEF Item
    <2>2. /\ Trashed(a, i) /\ at' = [at EXCEPT ![path[a]] = None]
          /\ trash' = [trash EXCEPT ![slot[a]] = at[path[a]]] /\ trash[slot[a]] = None
          /\ UNCHANGED <<info, farTrash, gone, fresh, mode, todo, cancelled, stack>>
          /\ UNCHANGED <<ops, faults, clashed, disturbed>>
      BY <1>3 DEF RenameToTrash, Quiet
    <2> HIDE DEF i
    <2>3. Lands(a, i)
      BY <1>1, <1>2, <2>1, <2>2 DEF Lands, Held
    <2> QED BY <1>3, <2>1, <2>2, <2>3
  <1>4. CASE QtTrash(a)
    <2> DEFINE p == path[a]
               s == LeastOf(QtFreeSlots(p))
               i == [far |-> p \in Far, slot |-> s, origin |-> p, file |-> at[p]]
    <2>1. s \in QtFreeSlots(p) /\ s \in Slots
      <3>1. QtFreeSlots(p) \in SUBSET Slots /\ QtFreeSlots(p) # {}
        BY <1>4 DEF QtTrash, QtFreeSlots
      <3> QED BY <3>1, LeastFacts
    <2>2. /\ Trashed(a, i) /\ at' = [at EXCEPT ![p] = None]
          /\ IF p \in Far
             THEN farTrash' = [farTrash EXCEPT ![s] = at[p]] /\ UNCHANGED <<trash, info, clashed>>
             ELSE /\ trash' = [trash EXCEPT ![s] = at[p]]
                  /\ info' = [info EXCEPT ![s] = p]
                  /\ farTrash' = farTrash
                  /\ Claims(a, s)
          /\ UNCHANGED <<gone, fresh, mode, todo, cancelled, stack, ops, faults, disturbed>>
      BY <1>4 DEF QtTrash
    <2>3. IF p \in Far THEN farTrash[s] = None ELSE trash[s] = None
      BY <2>1 DEF QtFreeSlots
    <2> HIDE DEF s
    <2>4. i.origin = p /\ i.file = at[p] /\ i.slot = s /\ (i.far <=> p \in Far)
      OBVIOUS
    <2>5. i \in Item
      <3>1. (p \in Far) \in BOOLEAN
        OBVIOUS
      <3> QED BY <1>2, <2>1, <3>1 DEF Item
    <2> HIDE DEF i, p
    <2>6. p = path[a]
      BY DEF p
    <2>7. Lands(a, i)
      BY <1>1, <1>2, <2>2, <2>3, <2>4, <2>6 DEF Lands, Held
    <2> QED BY <1>4, <2>2, <2>4, <2>5, <2>6, <2>7
  <1> QED BY <1>3, <1>4

(* Its name there, and its record. *)
Filed(a, i) ==
    \/ RenameToTrash(a) /\ ~i.far /\ i.slot = slot[a] /\ info' = info /\ clashed' = clashed
    \/ QtTrash(a) /\ i.far /\ info' = info /\ clashed' = clashed
    \/ QtTrash(a) /\ ~i.far /\ info' = [info EXCEPT ![i.slot] = path[a]] /\ Claims(a, i.slot)

(* A file that is trashed lands in an empty place and is filed there. *)
LEMMA TrashFiled ==
    ASSUME TypeOK, ActorInv, NEW a \in Actors, RenameToTrash(a) \/ QtTrash(a)
    PROVE  \E i \in Item : Lands(a, i) /\ Filed(a, i)
  BY TrashLands DEF Filed

(* A disturbance is not forgotten. *)
LEMMA DisturbedStays ==
    ASSUME disturbed \in BOOLEAN,
           (\E a \in Actors : By(a)) \/ (\E p, q \in Paths : Move(p, q)) \/ (\E p \in Paths : Create(p)),
           TypeOK, ActorInv
    PROVE  disturbed' \in BOOLEAN /\ (disturbed => disturbed')
  <1>1. ASSUME NEW a \in Actors, By(a)
        PROVE  disturbed' \in BOOLEAN /\ (disturbed => disturbed')
    <2>1. CASE RenameToTrash(a) \/ QtTrash(a)
      <3>1. disturbed' = disturbed
        BY <2>1, TrashLands DEF Lands
      <3> QED BY <3>1, Zenon
    <2>2. CASE MoveToTrash(a) /\ ~RenameToTrash(a) /\ ~QtTrash(a)
      BY <2>2, Zenon DEF MoveToTrash, WriteInfo, WriteInfoFails, RenameToTrashFails, RemoveInfo,
           QtTrashFails, Fault, Quiet
    <2>3. CASE RestoreSteps(a)
      BY <2>3, Zenon DEF RestoreSteps, Restore, RestoreFails, RestoreRemovesInfo, Fault, Quiet
    <2>4. CASE JobStep(a)
      BY <2>4, Zenon DEF JobStep, Start, Cancel, Worker, NextPath, ChooseName, Unlink, Commit,
           CommitFails, Finish, Fault, Quiet
    <2>5. CASE Undo
      BY <2>5, Zenon DEF Undo, UndoTrashOrReplace, UndoNext, ChooseName, UndoEnds, UndoMove, Quiet
    <2> QED BY <1>1, <2>1, <2>2, <2>3, <2>4, <2>5 DEF By
  <1>2. ASSUME NEW p \in Paths, NEW q \in Paths, Move(p, q) \/ Create(p)
        PROVE  disturbed' \in BOOLEAN /\ (disturbed => disturbed')
    BY <1>2, Zenon DEF Move, Create
  <1> QED BY <1>1, <1>2

(* The disk has files in it after a step too. *)
LEMMA DiskType ==
    ASSUME TypeOK, ActorInv, NEW a \in Actors, By(a)
    PROVE  /\ at' \in [Paths -> Files \cup {None}]
           /\ trash' \in [Slots -> Files \cup {None}] /\ farTrash' \in [Slots -> Files \cup {None}]
           /\ info' \in [Slots -> Paths \cup {None}]
           /\ gone' \subseteq Files /\ fresh' \in 0..MaxFiles
  <1> USE DEF TypeOK, diskVars, Quiet
  <1>1. CASE RenameToTrash(a) \/ QtTrash(a)
    <2>1. PICK i \in Item : /\ Lands(a, i)
                            /\ info' = info \/ info' = [info EXCEPT ![i.slot] = path[a]]
      BY <1>1, TrashLands
    <2> QED BY <2>1 DEF Lands, Item
  <1>2. CASE MoveToTrash(a) /\ ~RenameToTrash(a) /\ ~QtTrash(a)
    BY <1>2 DEF MoveToTrash, WriteInfo, WriteInfoFails, RenameToTrashFails, RemoveInfo, QtTrashFails
  <1>3. CASE Restore(a)
    <2>1. item[a] \in Item
      BY <1>3 DEF Restore, ActorInv, ActorOK, Holding
    <2>2. Held(item[a]) \in Files
      BY <1>3, <2>1 DEF Restore, Held, Item
    <2> QED BY <1>3, <2>1, <2>2 DEF Restore, Item
  <1>4. CASE RestoreFails(a) \/ RestoreRemovesInfo(a)
    BY <1>4 DEF RestoreFails, RestoreRemovesInfo
  <1>5. CASE a \in Jobs /\ JobStep(a)
    <2>1. CASE \E p \in Paths : Unlink(a, p)
      BY <2>1 DEF Unlink
    <2>2. CASE Commit(a)
      <3>1. fresh' = fresh + 1 /\ fresh' \in Files /\ fresh' \in 0..MaxFiles
        BY <2>2, TrashAssumption DEF Commit, Files
      <3>2. at' = [at EXCEPT ![path[a]] = fresh'] /\ gone' = gone \cup ({at[path[a]]} \ {None})
            /\ UNCHANGED <<trash, info, farTrash>>
        BY <2>2 DEF Commit
      <3> QED BY <3>1, <3>2
    <2>3. CASE ~(\E p \in Paths : Unlink(a, p)) /\ ~Commit(a)
      BY <1>5, <2>3 DEF JobStep, Start, Cancel, Worker, NextPath, CommitFails, Finish
    <2> QED BY <2>1, <2>2, <2>3
  <1>6. CASE a = Gui /\ Undo
    <2>1. CASE UndoMove
      <3>1. stack # <<>> /\ Top.kind = "Move"
        BY <2>1 DEF UndoMove
      <3>2. Top \in Entry
        BY <3>1, EmptySeq, ElementOfSeq DEF Top
      <3>3. Top.from \in Paths /\ Top.to \in Paths
        BY <3>1, <3>2 DEF Entry
      <3> QED BY <2>1, <3>3 DEF UndoMove
    <2>2. CASE ~UndoMove
      BY <1>6, <2>2 DEF Undo, UndoTrashOrReplace, UndoNext, UndoEnds
    <2> QED BY <2>1, <2>2
  <1> QED BY <1>1, <1>2, <1>3, <1>4, <1>5, <1>6 DEF By, RestoreSteps

(* An actor that holds an item holds a real one. *)
LEMMA ItemTyped ==
    ASSUME TypeOK, ActorInv, NEW a \in Actors
    PROVE  /\ NoItem.origin \in Paths /\ 0 \in Slots
           /\ pc[a] \in Holding => item[a] \in Item
           /\ got[a] \in Seq(Item)
           /\ got[a] # <<>> => Head(got[a]) \in Item /\ Tail(got[a]) \in Seq(Item)
  BY TrashAssumption, TailFacts DEF ActorInv, ActorOK, NoItem, Slots, TypeOK

(* What an actor has in hand when it goes on. *)
LEMMA GoOnType ==
    ASSUME TypeOK, ActorInv, NEW a \in Actors, GoOn(a), a = Gui => got[a] # <<>>
    PROVE  /\ path' \in [Actors -> Paths] /\ slot' \in [Actors -> Slots]
           /\ item' \in [Actors -> Item \cup {NoItem}] /\ got' \in [Actors -> Seq(Item)]
           /\ pc' = [pc EXCEPT ![a] = "Next"]
           /\ a # Gui => got'[a] = got[a]
  BY ItemTyped DEF GoOn, Drop, Keep, Goto, TypeOK

(* Choosing a name keeps the types: the actor goes on, or has the path and *)
(* its name in hand.                                                       *)
LEMMA ChooseType ==
    ASSUME TypeOK, ActorInv, NEW a \in Actors, NEW p \in Paths, ChooseName(a, p),
           a = Gui => got[a] # <<>>
    PROVE  /\ path' \in [Actors -> Paths] /\ slot' \in [Actors -> Slots]
           /\ item' \in [Actors -> Item \cup {NoItem}] /\ got' \in [Actors -> Seq(Item)]
           /\ \/ pc' = [pc EXCEPT ![a] = "Next"] /\ GoOn(a) /\ disturbed' = TRUE /\ clashed' = clashed
              \/ /\ pc' = [pc EXCEPT ![a] = "Info"] /\ got' = got
                 /\ path'[a] = p /\ trash[slot'[a]] = None /\ slot'[a] \in Slots /\ at[p] # None
                 /\ Claims(a, slot'[a]) /\ disturbed' = disturbed
           /\ clashed' \subseteq Slots
           /\ a # Gui => got'[a] = got[a]
  <1>1. CASE at[p] = None \/ FreeSlots = {}
    BY <1>1, GoOnType DEF ChooseName, TypeOK, GoOn, Goto
  <1>2. CASE at[p] # None /\ FreeSlots # {}
    <2>1. LeastOf(FreeSlots) \in FreeSlots /\ LeastOf(FreeSlots) \in Slots
      <3>1. FreeSlots \in SUBSET Slots
        BY DEF FreeSlots
      <3> QED BY <1>2, <3>1, LeastFacts
    <2> DEFINE s == LeastOf(FreeSlots)
    <2>2. /\ Goto(a, "Info") /\ Keep(a, p, s, NoItem) /\ Claims(a, s) /\ got' = got
          /\ disturbed' = disturbed
      BY <1>2 DEF ChooseName
    <2>3. trash[s] = None
      BY <2>1 DEF FreeSlots
    <2> HIDE DEF s
    <2>4. s \in Slots
      BY <2>1 DEF s
    <2>5. clashed' \subseteq Slots
      BY <2>2, <2>4 DEF Claims, TypeOK
    <2> QED BY <1>2, <2>2, <2>3, <2>4, <2>5 DEF Goto, Keep, TypeOK
  <1> QED BY <1>1, <1>2

(* The top of the stack is an entry of one of the three kinds. *)
LEMMA TopFacts ==
    ASSUME TypeOK, stack # <<>>
    PROVE  /\ Len(stack) \in Nat \ {0} /\ Top = stack[Len(stack)]
           /\ Top.kind = "Move" => Top.from \in Paths /\ Top.to \in Paths
           /\ Top.kind # "Move" => Top.kind \in {"Trash", "Replace"} /\ Top.items \in Seq(Item)
  <1>1. Len(stack) \in Nat \ {0}
    BY EmptySeq DEF TypeOK
  <1>2. Top \in Entry
    BY <1>1, ElementOfSeq DEF Top, TypeOK
  <1> QED BY <1>1, <1>2 DEF Entry, Top

(* What an actor has in hand after its step fits what it does. *)
LEMMA ActorStep ==
    ASSUME TypeOK, ActorInv, NEW a \in Actors, By(a)
    PROVE  /\ mode' \in [Actors -> {"Idle", "Trash", "Permanent", "Edit", "Undo", "UndoReplace"}]
           /\ pc' \in [Actors -> {"Next", "Info", "Rename", "RemoveInfo", "Qt", "Commit", "Restore",
                                  "RestoreInfo"}]
           /\ todo' \in [Actors -> SUBSET Paths]
           /\ path' \in [Actors -> Paths] /\ slot' \in [Actors -> Slots]
           /\ item' \in [Actors -> Item \cup {NoItem}]
           /\ got' \in [Actors -> Seq(Item)]
           /\ ActorOK(a)'
  <1>0. /\ ActorOK(a) /\ Gui \notin Jobs /\ Actors = Jobs \cup {Gui}
        /\ NoItem.origin \in Paths /\ 0 \in Slots
    BY ItemTyped, TrashAssumption DEF ActorInv, Actors
  <1> USE DEF TypeOK, ActorOK, Moving, Holding, Idle
  <1>1. CASE RenameToTrash(a) \/ QtTrash(a)
    <2>1. PICK i \in Item : Lands(a, i)
      BY <1>1, TrashLands
    <2>2. Append(got[a], i) \in Seq(Item)
      BY AppendProperties
    <2>3. /\ mode' = mode /\ todo' = todo /\ pc[a] \in Moving /\ i.origin = path[a]
          /\ got[a] # <<>> => Head(got[a]) \in Item
      BY <1>1, <2>1, ItemTyped DEF Lands, RenameToTrash, QtTrash
    <2>4. CASE mode[a] = "Trash"
      <3>1. Goto(a, "Next") /\ Drop(a) /\ got' = [got EXCEPT ![a] = Append(@, i)]
        BY <2>1, <2>4, TrashedCases DEF Lands
      <3> QED BY <1>0, <2>2, <2>3, <2>4, <3>1 DEF Goto, Drop, Keep
    <2>5. CASE mode[a] = "Edit"
      <3>1. Goto(a, "Commit") /\ Keep(a, path[a], 0, i) /\ got' = got
        BY <2>1, <2>5, TrashedCases DEF Lands
      <3> QED BY <1>0, <2>3, <2>5, <3>1 DEF Goto, Keep
    <2>6. CASE mode[a] = "UndoReplace"
      <3>1. Goto(a, "Restore") /\ Keep(a, NoItem.origin, 0, Head(got[a])) /\ got' = got
        BY <2>1, <2>6, TrashedCases DEF Lands
      <3> QED BY <1>0, <2>3, <2>6, <3>1 DEF Goto, Keep
    <2> QED BY <2>1, <2>4, <2>5, <2>6 DEF Lands
  <1>2. CASE WriteInfo(a) \/ RenameToTrashFails(a) \/ RemoveInfo(a)
    BY <1>0, <1>2 DEF WriteInfo, RenameToTrashFails, RemoveInfo, Goto, actorVars
  <1>3. CASE WriteInfoFails(a) \/ QtTrashFails(a) \/ RestoreFails(a) \/ RestoreRemovesInfo(a)
    <2>1. GoOn(a) /\ mode' = mode /\ todo' = todo /\ (a = Gui => got[a] # <<>>) /\ ~Idle(a)
      BY <1>0, <1>3 DEF WriteInfoFails, QtTrashFails, RestoreFails, RestoreRemovesInfo
    <2>2. /\ path' \in [Actors -> Paths] /\ slot' \in [Actors -> Slots]
          /\ item' \in [Actors -> Item \cup {NoItem}] /\ got' \in [Actors -> Seq(Item)]
          /\ pc' = [pc EXCEPT ![a] = "Next"]
      BY <2>1, GoOnType
    <2>3. pc'[a] = "Next" /\ mode'[a] = mode[a]
      BY <2>1, <2>2
    <2> QED BY <1>0, <2>1, <2>2, <2>3
  <1>4. CASE Restore(a)
    BY <1>0, <1>4 DEF Restore, Goto, actorVars
  <1>5. CASE a \in Jobs /\ JobStep(a)
    <2>1. CASE \E p \in Paths : NextPath(a, p)
      <3>1. PICK p \in Paths : NextPath(a, p)
        BY <2>1
      <3>2. ChooseName(a, p) /\ a # Gui
        BY <1>0, <1>5, <3>1 DEF NextPath
      <3>3. /\ path' \in [Actors -> Paths] /\ slot' \in [Actors -> Slots]
            /\ item' \in [Actors -> Item \cup {NoItem}] /\ got' \in [Actors -> Seq(Item)]
            /\ pc' = [pc EXCEPT ![a] = "Next"] \/ pc' = [pc EXCEPT ![a] = "Info"]
        BY <3>2, ChooseType
      <3>4. mode' = mode /\ mode[a] \in {"Trash", "Edit"} /\ todo' = [todo EXCEPT ![a] = @ \ {p}]
        BY <3>1 DEF NextPath
      <3> QED BY <1>0, <3>2, <3>3, <3>4
    <2>2. CASE Commit(a)
      <3>1. Append(got[a], item[a]) \in Seq(Item)
        BY <1>0, <2>2, AppendProperties DEF Commit
      <3> QED BY <1>0, <1>5, <2>2, <3>1 DEF Commit, Goto, Drop, Keep
    <2>3. CASE \E paths \in SUBSET Paths : \E m \in {"Trash", "Permanent", "Edit"} : Start(a, m, paths)
      BY <1>0, <1>5, <2>3 DEF Start
    <2>4. CASE \E p \in Paths : Unlink(a, p)
      BY <1>0, <1>5, <2>4 DEF Unlink
    <2>5. CASE Cancel(a) \/ CommitFails(a)
      BY <1>0, <1>5, <2>5 DEF Cancel, CommitFails, Goto, actorVars
    <2>6. CASE Finish(a)
      BY <1>0, <1>5, <2>6, EmptySeq DEF Finish, EndJob
    <2> QED BY <1>5, <2>1, <2>2, <2>3, <2>4, <2>5, <2>6 DEF JobStep, Worker
  <1>6. CASE a = Gui /\ Undo
    <2>1. CASE UndoTrashOrReplace
      BY <1>0, <1>6, <2>1, TopFacts DEF UndoTrashOrReplace, Goto
    <2>2. CASE UndoNext
      <3>1. /\ mode' = mode /\ todo' = todo /\ got[a] # <<>> /\ Head(got[a]) \in Item /\ ~Idle(a)
        BY <1>6, <2>2, ItemTyped DEF UndoNext
      <3>2. CASE mode[Gui] = "UndoReplace" /\ at[Head(got[a]).origin] # None
        <4>1. ChooseName(a, Head(got[a]).origin) /\ Head(got[a]).origin \in Paths
          BY <1>6, <2>2, <3>1, <3>2 DEF UndoNext, Item
        <4>2. /\ path' \in [Actors -> Paths] /\ slot' \in [Actors -> Slots]
              /\ item' \in [Actors -> Item \cup {NoItem}] /\ got' \in [Actors -> Seq(Item)]
              /\ \/ pc' = [pc EXCEPT ![a] = "Next"]
                 \/ pc' = [pc EXCEPT ![a] = "Info"] /\ got' = got
          BY <3>1, <4>1, ChooseType
        <4> QED BY <1>0, <1>6, <3>1, <3>2, <4>2
      <3>3. CASE ~(mode[Gui] = "UndoReplace" /\ at[Head(got[a]).origin] # None)
        <4>1. Goto(Gui, "Restore") /\ Keep(Gui, NoItem.origin, 0, Head(got[a])) /\ got' = got
          BY <1>6, <2>2, <3>3 DEF UndoNext
        <4> QED BY <1>0, <1>6, <3>1, <4>1 DEF Goto, Keep
      <3> QED BY <3>2, <3>3
    <2>3. CASE UndoEnds
      BY <1>0, <1>6, <2>3 DEF UndoEnds
    <2>4. CASE UndoMove
      BY <1>0, <1>6, <2>4 DEF UndoMove, actorVars
    <2> QED BY <1>6, <2>1, <2>2, <2>3, <2>4 DEF Undo
  <1> QED BY <1>1, <1>2, <1>3, <1>4, <1>5, <1>6 DEF By, MoveToTrash, RestoreSteps

-----------------------------------------------------------------------------
(* The stack *)

(* An entry comes on top, and the oldest goes if there is no room. *)
LEMMA PushFacts ==
    ASSUME TypeOK, NEW e \in Entry, Push(e)
    PROVE  /\ stack' \in Seq(Entry) /\ Len(stack') <= Capacity
           /\ \E d \in {0, 1} :
                  /\ Len(stack') = Len(stack) + 1 - d /\ Len(stack') \in Nat \ {0} /\ Len(stack) \in Nat
                  /\ \A k \in 1..(Len(stack') - 1) :
                         k + d \in 1..Len(stack) /\ stack'[k] = stack[k + d]
                  /\ stack'[Len(stack')] = e
                  /\ d = 1 => Evicts
  <1> DEFINE all == Append(stack, e)
  <1>1. /\ all \in Seq(Entry) /\ Len(all) = Len(stack) + 1 /\ all # <<>> /\ Len(stack) \in Nat
        /\ \A k \in 1..Len(stack) : all[k] = stack[k]
        /\ all[Len(stack) + 1] = e
    BY AppendProperties, LenProperties DEF TypeOK
  <1>2. stack' = IF Len(all) > Capacity THEN Tail(all) ELSE all
    BY DEF Push
  <1>3. /\ Tail(all) \in Seq(Entry) /\ Len(Tail(all)) = Len(all) - 1
        /\ \A k \in 1..Len(Tail(all)) : Tail(all)[k] = all[k + 1]
    BY <1>1, HeadTailProperties
  <1>4. Capacity \in Nat \ {0} /\ Len(stack) <= Capacity
    BY TrashAssumption DEF TypeOK
  <1> HIDE DEF all
  <1>5. CASE Len(all) > Capacity
    <2>1. stack' = Tail(all) /\ Len(stack) = Capacity
      BY <1>1, <1>2, <1>4, <1>5
    <2>2. /\ Len(stack') = Len(stack) + 1 - 1 /\ Len(stack') \in Nat \ {0}
          /\ \A k \in 1..(Len(stack') - 1) : k + 1 \in 1..Len(stack) /\ stack'[k] = stack[k + 1]
          /\ stack'[Len(stack')] = e
      BY <1>1, <1>3, <1>4, <2>1
    <2>3. stack' \in Seq(Entry) /\ Len(stack') <= Capacity
      BY <1>1, <1>3, <1>4, <2>1
    <2> QED BY <1>1, <2>1, <2>2, <2>3 DEF Evicts
  <1>6. CASE ~(Len(all) > Capacity)
    <2>1. stack' = all
      BY <1>2, <1>6
    <2>2. /\ Len(stack') = Len(stack) + 1 - 0 /\ Len(stack') \in Nat \ {0}
          /\ \A k \in 1..(Len(stack') - 1) : k + 0 \in 1..Len(stack) /\ stack'[k] = stack[k + 0]
          /\ stack'[Len(stack')] = e
      BY <1>1, <2>1
    <2>3. stack' \in Seq(Entry) /\ Len(stack') <= Capacity
      BY <1>1, <1>4, <1>6, <2>1
    <2> QED BY <1>1, <2>2, <2>3
  <1> QED BY <1>5, <1>6

(* Popping leaves the entries below as they are. *)
LEMMA PopFacts ==
    ASSUME TypeOK, stack # <<>>, Pop
    PROVE  /\ stack' \in Seq(Entry) /\ Len(stack') <= Capacity
           /\ Len(stack') = Len(stack) - 1 /\ Len(stack') \in Nat
           /\ \A k \in 1..Len(stack') : stack'[k] = stack[k]
  <1>1. Len(stack) \in Nat \ {0} /\ stack \in Seq(Entry) /\ Capacity \in Nat /\ Len(stack) <= Capacity
    BY EmptySeq, TrashAssumption DEF TypeOK
  <1>2. \A k \in 1..(Len(stack) - 1) : stack[k] \in Entry
    BY <1>1, ElementOfSeq
  <1>3. stack' = SubSeq(stack, 1, Len(stack) - 1)
    BY DEF Pop
  <1> DEFINE n == Len(stack) - 1
  <1>4. /\ SubSeq(stack, 1, n) \in Seq(Entry)
        /\ Len(SubSeq(stack, 1, n)) = IF 1 <= n THEN n - 1 + 1 ELSE 0
        /\ \A i \in 1..(n - 1 + 1) : SubSeq(stack, 1, n)[i] = stack[1 + i - 1]
    <2>1. n \in Int
      BY <1>1
    <2>2. \A i \in 1..n : stack[i] \in Entry
      BY <1>2
    <2> HIDE DEF n
    <2> QED BY <2>1, <2>2, SubSeqProperties
  <1>5. n \in Nat /\ n <= Len(stack)
    BY <1>1
  <1> HIDE DEF n
  <1>6. /\ Len(SubSeq(stack, 1, n)) = n
        /\ \A k \in 1..n : SubSeq(stack, 1, n)[k] = stack[k]
    <2>1. \A k \in 1..n : 1 + k - 1 = k /\ k \in 1..(n - 1 + 1)
      BY <1>5
    <2>2. \A k \in 1..n : SubSeq(stack, 1, n)[k] = stack[k]
      BY <1>4, <2>1
    <2> QED BY <1>4, <1>5, <2>2
  <1>7. stack' = SubSeq(stack, 1, n)
    BY <1>3 DEF n
  <1> QED BY <1>1, <1>4, <1>5, <1>6, <1>7 DEF n

(* What a finished job leaves on the stack. *)
LEMMA FinishCases ==
    ASSUME TypeOK, ActorInv, NEW j \in Jobs, Finish(j)
    PROVE  \/ stack' = stack /\ disturbed' = disturbed /\ (got[j] = <<>> \/ j \in cancelled)
           \/ /\ \E e \in Entry :
                     /\ Push(e) /\ e.items = got[j]
                     /\ e.kind = IF mode[j] = "Trash" THEN "Trash" ELSE "Replace"
              /\ disturbed' = (disturbed \/ Evicts)
  <1>1. CASE got[j] = <<>> \/ (mode[j] = "Trash" /\ j \in cancelled)
    BY <1>1 DEF Finish
  <1>2. CASE ~(got[j] = <<>> \/ (mode[j] = "Trash" /\ j \in cancelled))
    <2> DEFINE e == [kind |-> IF mode[j] = "Trash" THEN "Trash" ELSE "Replace", items |-> got[j]]
    <2>1. e \in Entry
      BY DEF Entry, TypeOK, Actors
    <2>2. Push(e) /\ disturbed' = (disturbed \/ Evicts)
      BY <1>2 DEF Finish
    <2>3. e.items = got[j] /\ e.kind = IF mode[j] = "Trash" THEN "Trash" ELSE "Replace"
      OBVIOUS
    <2> HIDE DEF e
    <2> QED BY <2>1, <2>2, <2>3
  <1> QED BY <1>1, <1>2

-----------------------------------------------------------------------------
(* What an actor does keeps the types of the stack, the cancellations and  *)
(* the history.                                                            *)
LEMMA RestType ==
    ASSUME TypeOK, ActorInv, NEW a \in Actors, By(a)
    PROVE  /\ stack' \in Seq(Entry) /\ Len(stack') <= Capacity
           /\ cancelled' \subseteq Jobs
           /\ ops' \in 0..MaxOps /\ faults' \in 0..MaxFaults
           /\ clashed' \subseteq Slots
  <1> USE DEF TypeOK, Quiet, Fault, Claims
  <1>1. CASE RenameToTrash(a) \/ QtTrash(a)
    <2>1. PICK i \in Item : Lands(a, i) /\ (clashed' = clashed \/ Claims(a, i.slot))
      BY <1>1, TrashLands
    <2> QED BY <2>1 DEF Lands, Item
  <1>2. CASE MoveToTrash(a) /\ ~RenameToTrash(a) /\ ~QtTrash(a)
    BY <1>2, TrashAssumption
       DEF MoveToTrash, WriteInfo, WriteInfoFails, RenameToTrashFails, RemoveInfo, QtTrashFails
  <1>3. CASE RestoreSteps(a)
    <2>1. RestoreRemovesInfo(a) => item[a].slot \in Slots
      BY DEF RestoreRemovesInfo, ActorInv, ActorOK, Holding, Item
    <2> QED BY <1>3, <2>1, TrashAssumption DEF RestoreSteps, Restore, RestoreFails, RestoreRemovesInfo
  <1>4. CASE a \in Jobs /\ JobStep(a)
    <2>1. CASE \E p \in Paths : NextPath(a, p)
      <3>1. PICK p \in Paths : NextPath(a, p)
        BY <2>1
      <3>2. clashed' \subseteq Slots
        BY <3>1, <1>4, ChooseType, TrashAssumption DEF NextPath
      <3> QED BY <3>1, <3>2 DEF NextPath
    <2>2. CASE Finish(a)
      <3>1. stack' \in Seq(Entry) /\ Len(stack') <= Capacity
        BY <1>4, <2>2, FinishCases, PushFacts
      <3> QED BY <2>2, <3>1 DEF Finish, EndJob
    <2>3. CASE ~(\E p \in Paths : NextPath(a, p)) /\ ~Finish(a)
      BY <1>4, <2>3, TrashAssumption DEF JobStep, Worker, Start, Cancel, Unlink, Commit, CommitFails
    <2> QED BY <2>1, <2>2, <2>3
  <1>5. CASE a = Gui /\ Undo
    <2>1. CASE UndoTrashOrReplace \/ UndoMove
      BY <2>1, PopFacts DEF UndoTrashOrReplace, UndoMove
    <2>2. CASE UndoNext
      <3>1. CASE mode[Gui] = "UndoReplace" /\ at[Head(got[Gui]).origin] # None
        <4>1. /\ ChooseName(Gui, Head(got[Gui]).origin) /\ got[Gui] # <<>>
              /\ UNCHANGED <<cancelled, stack, ops, faults>>
          BY <2>2, <3>1 DEF UndoNext
        <4>2. Head(got[Gui]).origin \in Paths
          BY <1>5, <4>1, ItemTyped DEF Item
        <4>3. clashed' \subseteq Slots
          BY <1>5, <4>1, <4>2, ChooseType
        <4> QED BY <4>1, <4>3
      <3>2. CASE ~(mode[Gui] = "UndoReplace" /\ at[Head(got[Gui]).origin] # None)
        BY <2>2, <3>2 DEF UndoNext
      <3> QED BY <3>1, <3>2
    <2>3. CASE UndoEnds
      BY <2>3 DEF UndoEnds
    <2> QED BY <1>5, <2>1, <2>2, <2>3 DEF Undo
  <1> QED BY <1>1, <1>2, <1>3, <1>4, <1>5 DEF By

(* The user's own files. *)
LEMMA UserType ==
    ASSUME TypeOK, ActorInv, NEW p \in Paths, NEW q \in Paths, Move(p, q) \/ Create(p)
    PROVE  TypeOK' /\ ActorInv'
  <1>1. ActorInv'
    BY DEF Move, Create, actorVars, ActorInv, ActorOK, Idle
  <1>2. disturbed' \in BOOLEAN
    BY DisturbedStays DEF TypeOK
  <1>3. CASE Move(p, q)
    <2> DEFINE e == [kind |-> "Move", from |-> p, to |-> q]
    <2>1. e \in Entry /\ Push(e)
      BY <1>3 DEF Move, Entry
    <2> HIDE DEF e
    <2>2. stack' \in Seq(Entry) /\ Len(stack') <= Capacity
      BY <2>1, PushFacts
    <2>3. /\ at' = [at EXCEPT ![p] = None, ![q] = at[p]] /\ ops < MaxOps /\ ops' = ops + 1
          /\ UNCHANGED <<trash, info, farTrash, gone, fresh, actorVars, pc, cancelled, faults, clashed>>
      BY <1>3 DEF Move
    <2>4. at' \in [Paths -> Files \cup {None}] /\ ops' \in 0..MaxOps
      BY <2>3, TrashAssumption DEF TypeOK
    <2> QED BY <1>1, <1>2, <2>2, <2>3, <2>4 DEF TypeOK, actorVars
  <1>4. CASE Create(p)
    <2>1. fresh' = fresh + 1 /\ fresh' \in Files /\ fresh' \in 0..MaxFiles
      BY <1>4, TrashAssumption DEF Create, Files, TypeOK
    <2>2. /\ at' = [at EXCEPT ![p] = fresh']
          /\ UNCHANGED <<trash, info, farTrash, gone, actorVars, pc, cancelled, stack, ops, faults,
                         clashed>>
      BY <1>4 DEF Create
    <2> QED BY <1>1, <1>2, <2>1, <2>2 DEF TypeOK, actorVars
  <1> QED BY <1>3, <1>4

(* No step, of an actor or of the user, leaves the types. *)
LEMMA TypeStep ==
    ASSUME TypeOK, ActorInv, Next
    PROVE  TypeOK' /\ ActorInv'
  <1>1. ASSUME NEW a \in Actors, By(a)
        PROVE  TypeOK' /\ ActorInv'
    <2>1. disturbed' \in BOOLEAN
      BY <1>1, DisturbedStays DEF TypeOK
    <2>2. TypeOK'
      BY <1>1, <2>1, ActorStep, DiskType, RestType DEF TypeOK
    <2>3. ASSUME NEW b \in Actors
          PROVE  ActorOK(b)'
      <3>1. CASE b = a
        BY <1>1, <3>1, ActorStep
      <3>2. CASE b # a
        BY <1>1, <3>2, OthersKept DEF ActorInv, ActorOK, Idle
      <3> QED BY <3>1, <3>2
    <2> QED BY <2>2, <2>3 DEF ActorInv
  <1>2. ASSUME NEW p \in Paths, NEW q \in Paths, Move(p, q) \/ Create(p)
        PROVE  TypeOK' /\ ActorInv'
    BY <1>2, UserType
  <1> QED BY <1>1, <1>2, NextIsBy

(* A step that changes nothing keeps the types. *)
LEMMA TypeStutter ==
    ASSUME TypeOK, ActorInv, UNCHANGED vars
    PROVE  TypeOK' /\ ActorInv'
  <1>1. UNCHANGED <<at, trash, info, farTrash, gone, fresh, mode, todo, path, slot, item, got,
                    pc, cancelled, stack, ops, faults, clashed, disturbed>>
    BY DEF vars, diskVars, actorVars
  <1>2. disturbed' \in BOOLEAN
    BY <1>1 DEF TypeOK
  <1> QED BY <1>1, <1>2 DEF TypeOK, ActorInv, ActorOK, Idle

(* Every variable has its type, and what each actor has in hand fits what  *)
(* it is doing: a worker trashes or edits, the GUI thread undoes.          *)
THEOREM TypesHold == Spec => [](TypeOK /\ ActorInv)
  <1>1. Init => TypeOK /\ ActorInv
    BY InitType
  <1>2. TypeOK /\ ActorInv /\ [Next]_vars => (TypeOK /\ ActorInv)'
    BY TypeStep, TypeStutter
  <1> QED BY <1>1, <1>2, PTL DEF Spec

-----------------------------------------------------------------------------
(* No file is lost *)

(* What is at a path, in a trash or gone. *)
Kept(f) == \/ f \in gone
           \/ \E p \in Paths : at[p] = f
           \/ \E s \in Slots : trash[s] = f \/ farTrash[s] = f

(* A file that is moved to a place where there was none leaves no other    *)
(* file without its place.                                                 *)
LEMMA KeptStep ==
    ASSUME TypeOK, ActorInv, NEW a \in Actors, By(a), NEW f \in Files, Kept(f)
    PROVE  Kept(f)'
  <1>0. f # None
    BY DEF Files, None
  <1>1. CASE RenameToTrash(a) \/ QtTrash(a)
    <2>1. PICK i \in Item : Lands(a, i)
      BY <1>1, TrashLands
    <2>2. path[a] \in Paths /\ i.slot \in Slots
      BY DEF TypeOK, Item
    <2> QED BY <1>0, <2>1, <2>2 DEF Lands, Kept, Held, TypeOK
  <1>2. CASE MoveToTrash(a) /\ ~RenameToTrash(a) /\ ~QtTrash(a)
    BY <1>2 DEF Kept, MoveToTrash, WriteInfo, WriteInfoFails, RenameToTrashFails, RemoveInfo,
                QtTrashFails, diskVars
  <1>3. CASE Restore(a)
    <2>1. item[a] \in Item
      BY <1>3 DEF Restore, ActorInv, ActorOK, Holding
    <2>2. item[a].origin \in Paths /\ item[a].slot \in Slots /\ at[item[a].origin] = None
      BY <1>3, <2>1 DEF Restore, Item
    <2> QED BY <1>0, <1>3, <2>2 DEF Restore, Kept, Held, TypeOK
  <1>4. CASE RestoreFails(a) \/ RestoreRemovesInfo(a)
    BY <1>4 DEF Kept, RestoreFails, RestoreRemovesInfo, diskVars
  <1>5. CASE a \in Jobs /\ JobStep(a)
    <2>1. ASSUME NEW p \in Paths, Unlink(a, p)
          PROVE  Kept(f)'
      BY <1>0, <2>1 DEF Unlink, Kept, TypeOK
    <2>2. CASE Commit(a)
      <3>1. path[a] \in Paths
        BY DEF TypeOK
      <3> QED BY <1>0, <2>2, <3>1 DEF Commit, Kept, TypeOK
    <2>3. CASE ~(\E p \in Paths : Unlink(a, p)) /\ ~Commit(a)
      BY <1>5, <2>3 DEF Kept, JobStep, Start, Cancel, Worker, NextPath, CommitFails, Finish, diskVars
    <2> QED BY <2>1, <2>2, <2>3
  <1>6. CASE a = Gui /\ Undo
    <2>1. CASE UndoMove
      <3>1. Top.from \in Paths /\ Top.to \in Paths
        BY <2>1, TopFacts DEF UndoMove
      <3> QED BY <1>0, <2>1, <3>1 DEF UndoMove, Kept, TypeOK
    <2>2. CASE ~UndoMove
      BY <1>6, <2>2 DEF Kept, Undo, UndoTrashOrReplace, UndoNext, UndoEnds, diskVars
    <2> QED BY <2>1, <2>2
  <1> QED BY <1>1, <1>2, <1>3, <1>4, <1>5, <1>6 DEF By, RestoreSteps

(* A file is new only at the path where it is made. *)
LEMMA FreshStep ==
    ASSUME TypeOK, ActorInv, NEW a \in Actors, By(a)
    PROVE  \/ fresh' = fresh
           \/ fresh' = fresh + 1 /\ \E p \in Paths : at'[p] = fresh'
  <1>1. CASE RenameToTrash(a) \/ QtTrash(a)
    BY <1>1, TrashLands DEF Lands
  <1>2. CASE Commit(a)
    BY <1>2 DEF Commit, TypeOK
  <1>3. CASE ~RenameToTrash(a) /\ ~QtTrash(a) /\ ~Commit(a)
    BY <1>3 DEF By, MoveToTrash, WriteInfo, WriteInfoFails, RenameToTrashFails, RemoveInfo,
                QtTrashFails, RestoreSteps, Restore, RestoreFails, RestoreRemovesInfo, JobStep,
                Start, Cancel, Worker, NextPath, Unlink, CommitFails, Finish, Undo,
                UndoTrashOrReplace, UndoNext, UndoEnds, UndoMove, diskVars
  <1> QED BY <1>1, <1>2, <1>3

(* No step loses a file. *)
LEMMA NoFileLostStep ==
    ASSUME TypeOK, ActorInv, NoFileLost, [Next]_vars
    PROVE  NoFileLost'
  <1>0. fresh \in 0..MaxFiles /\ MaxFiles \in Nat /\ \A f \in 1..fresh : f \in Files /\ Kept(f)
    <2>1. fresh \in 0..MaxFiles /\ MaxFiles \in Nat
      BY TrashAssumption DEF TypeOK
    <2>2. \A f \in 1..fresh : f \in 1..MaxFiles
      BY <2>1
    <2> QED BY <2>1, <2>2 DEF NoFileLost, Kept, Files
  <1>1. ASSUME NEW a \in Actors, By(a)
        PROVE  NoFileLost'
    <2>1. \A f \in 1..fresh : Kept(f)'
      BY <1>0, <1>1, KeptStep
    <2>2. fresh' = fresh \/ (fresh' = fresh + 1 /\ \E p \in Paths : at'[p] = fresh')
      BY <1>1, FreshStep
    <2>3. \A f \in 1..fresh' : f \in 1..fresh \/ (f = fresh' /\ \E p \in Paths : at'[p] = fresh')
      BY <1>0, <2>2
    <2> QED BY <2>1, <2>3 DEF NoFileLost, Kept
  <1>2. ASSUME NEW p \in Paths, NEW q \in Paths, Move(p, q)
        PROVE  NoFileLost'
    <2>1. \A f \in 1..fresh : Kept(f)'
      <3>1. ASSUME NEW f \in Files, Kept(f)
            PROVE  Kept(f)'
        <4>1. /\ f # None /\ at[p] # None /\ at[q] = None /\ UNCHANGED <<gone, trash, farTrash>>
              /\ at' = [at EXCEPT ![p] = None, ![q] = at[p]]
          BY <1>2, TrashAssumption DEF Move, Files, None
        <4> QED BY <3>1, <4>1 DEF Kept, TypeOK
      <3> QED BY <1>0, <3>1
    <2>2. fresh' = fresh
      BY <1>2 DEF Move
    <2> QED BY <2>1, <2>2 DEF NoFileLost, Kept
  <1>3. ASSUME NEW p \in Paths, Create(p)
        PROVE  NoFileLost'
    <2>1. \A f \in 1..fresh : Kept(f)'
      <3>1. ASSUME NEW f \in Files, Kept(f)
            PROVE  Kept(f)'
        BY <1>3, <3>1 DEF Create, Kept, Files, None, TypeOK
      <3> QED BY <1>0, <3>1
    <2>2. fresh' = fresh + 1 /\ at'[p] = fresh'
      BY <1>3 DEF Create, TypeOK
    <2>3. \A f \in 1..fresh' : f \in 1..fresh \/ f = fresh'
      BY <1>0, <2>2
    <2> QED BY <2>1, <2>2, <2>3 DEF NoFileLost, Kept
  <1>4. CASE UNCHANGED vars
    BY <1>4 DEF vars, diskVars, NoFileLost
  <1> QED BY <1>1, <1>2, <1>3, <1>4, NextIsBy

(* Whatever workers, undo and the user do at the same time, every file     *)
(* there has been is at a path, in a trash, or was deleted for good.       *)
THEOREM NoFileEverLost == Spec => []NoFileLost
  <1>1. Init => NoFileLost
    BY NumberingFacts DEF Init, NoFileLost
  <1>2. TypeOK /\ ActorInv /\ NoFileLost /\ [Next]_vars => NoFileLost'
    BY NoFileLostStep
  <1> QED BY <1>1, <1>2, TypesHold, PTL DEF Spec

-----------------------------------------------------------------------------
(* Names in the trash *)

(* Whether actor a uses slot s of this trash. *)
Uses(a, s) == \/ slot[a] = s /\ pc[a] \in {"Info", "Rename", "RemoveInfo"}
              \/ pc[a] = "RestoreInfo" /\ item[a].slot = s /\ ~item[a].far

(* The users of a name, said of each actor. *)
LEMMA UsersAre == \A s : Users(s) = {a \in Actors : Uses(a, s)}
  BY DEF Users, InHand, Restoring, Uses

(* A name stays in order when only its user gives it up, or goes on with   *)
(* it and the file and the record there stay.                              *)
LEMMA SlotKept ==
    ASSUME TypeOK, ActorInv, NEW a \in Actors, By(a), NEW s \in Slots, SlotOK(s),
           trash'[s] = trash[s], info'[s] = info[s],
           Uses(a, s)' => Uses(a, s) /\ (pc'[a] = "Rename" => info'[s] = path'[a])
    PROVE  SlotOK(s)'
  <1>1. \A b \in Actors : Uses(b, s)' => Uses(b, s)
    BY OthersKept DEF Uses
  <1>2. \A b \in Actors \ {a} : /\ slot'[b] = slot[b] /\ pc'[b] = pc[b] /\ path'[b] = path[b]
    BY OthersKept
  <1>3. \A b \in Actors : Uses(b, s) => trash[s] = None /\ \A c \in Actors : Uses(c, s) => b = c
    BY UsersAre DEF SlotOK
  <1>4. \A b \in Actors : slot[b] = s /\ pc[b] = "Rename" => info[s] = path[b]
    BY DEF SlotOK, InHand
  <1>5. \A b \in Actors : Uses(b, s)' => trash'[s] = None /\ \A c \in Actors : Uses(c, s)' => b = c
    BY <1>1, <1>3
  <1>6. Users(s)' = {b \in Actors : Uses(b, s)'}
    BY DEF Users, InHand, Restoring, Uses
  <1>7. ASSUME NEW b \in InHand(s)', pc'[b] = "Rename"
        PROVE  info'[s] = path'[b]
    <2>1. b \in Actors /\ slot'[b] = s /\ Uses(b, s)'
      BY <1>7 DEF InHand, Uses
    <2> QED BY <1>2, <1>4, <1>7, <2>1
  <1> QED BY <1>5, <1>6, <1>7 DEF SlotOK

(* A name is in order when nobody uses it and what is there has a record. *)
LEMMA SlotFree ==
    ASSUME NEW s \in Slots, \A a \in Actors : ~Uses(a, s)', trash'[s] # None => info'[s] # None
    PROVE  SlotOK(s)'
  <1>1. Users(s)' = {} /\ InHand(s)' = {}
    BY DEF Users, InHand, Restoring, Uses
  <1> QED BY <1>1 DEF SlotOK

(* A name is in order when one actor uses it, and nothing is there yet. *)
LEMMA SlotTaken ==
    ASSUME NEW s \in Slots, NEW a \in Actors, \A b \in Actors \ {a} : ~Uses(b, s)',
           trash'[s] = None, pc'[a] = "Rename" => info'[s] = path'[a]
    PROVE  SlotOK(s)'
  <1>1. \A b \in Users(s)' : b = a
    BY DEF Users, InHand, Restoring, Uses
  <1>2. \A b \in InHand(s)' : b = a
    BY <1>1 DEF Users
  <1> QED BY <1>1, <1>2 DEF SlotOK

(* Where no step has clashed, none did before. *)
LEMMA ClashedGrows ==
    ASSUME TypeOK, ActorInv, NEW a \in Actors, By(a)
    PROVE  clashed \subseteq clashed'
  <1> USE DEF Quiet, Claims
  <1>1. CASE RenameToTrash(a) \/ QtTrash(a)
    BY <1>1, TrashLands
  <1>2. CASE MoveToTrash(a) /\ ~RenameToTrash(a) /\ ~QtTrash(a)
    BY <1>2 DEF MoveToTrash, WriteInfo, WriteInfoFails, RenameToTrashFails, RemoveInfo, QtTrashFails
  <1>3. CASE RestoreSteps(a)
    BY <1>3 DEF RestoreSteps, Restore, RestoreFails, RestoreRemovesInfo
  <1>4. CASE a \in Jobs /\ JobStep(a)
    BY <1>4 DEF JobStep, Worker, Start, Cancel, NextPath, ChooseName, Unlink, Commit, CommitFails,
                Finish
  <1>5. CASE a = Gui /\ Undo
    BY <1>5 DEF Undo, UndoTrashOrReplace, UndoNext, ChooseName, UndoEnds, UndoMove
  <1> QED BY <1>1, <1>2, <1>3, <1>4, <1>5 DEF By

(* An actor that takes up a name in the trash is its only user, or clashes. *)
LEMMA SlotChosen ==
    ASSUME TypeOK, ActorInv, SlotInv, NEW a \in Actors, By(a), NEW p \in Paths, ChooseName(a, p),
           a = Gui => got[a] # <<>>, trash' = trash, info' = info,
           NEW s \in Slots \ clashed'
    PROVE  SlotOK(s)'
  <1>1. SlotOK(s)
    BY ClashedGrows DEF SlotInv
  <1>2. CASE pc' = [pc EXCEPT ![a] = "Next"]
    <2>1. pc'[a] = "Next"
      BY <1>2 DEF TypeOK
    <2> QED BY <1>1, <2>1, SlotKept DEF Uses
  <1>3. CASE /\ pc' = [pc EXCEPT ![a] = "Info"] /\ trash[slot'[a]] = None
             /\ Claims(a, slot'[a])
    <2>1. pc'[a] = "Info"
      BY <1>3 DEF TypeOK
    <2>2. CASE slot'[a] # s
      BY <1>1, <2>1, <2>2, SlotKept DEF Uses
    <2>3. CASE slot'[a] = s
      <3>1. \A b \in Actors \ {a} : ~Uses(b, s)
        BY <1>3, <2>3 DEF Claims, InHand, Restoring, Uses
      <3>2. \A b \in Actors \ {a} : ~Uses(b, s)'
        BY <3>1, OthersKept DEF Uses
      <3> QED BY <1>3, <2>1, <2>3, <3>2, SlotTaken
    <2> QED BY <2>2, <2>3
  <1> QED BY <1>2, <1>3, ChooseType

(* A file that is moved to the trash goes under a name that nobody else    *)
(* uses, or clashes, and has its record there.                             *)
LEMMA SlotTrashed ==
    ASSUME TypeOK, ActorInv, SlotInv, NEW a \in Actors, RenameToTrash(a) \/ QtTrash(a),
           NEW s \in Slots \ clashed'
    PROVE  SlotOK(s)'
  <1>0. By(a) /\ path[a] \in Paths /\ path[a] # None
    BY TrashAssumption DEF By, MoveToTrash, TypeOK
  <1>1. SlotOK(s)
    BY <1>0, ClashedGrows DEF SlotInv
  <1>2. PICK i \in Item :
            /\ Lands(a, i)
            /\ \/ RenameToTrash(a) /\ ~i.far /\ i.slot = slot[a] /\ info' = info /\ clashed' = clashed
               \/ QtTrash(a) /\ i.far /\ info' = info /\ clashed' = clashed
               \/ /\ QtTrash(a) /\ ~i.far
                  /\ info' = [info EXCEPT ![i.slot] = path[a]] /\ Claims(a, i.slot)
    BY TrashLands
  <1>3. pc'[a] \in {"Next", "Commit", "Restore"}
    <2>1. \/ Goto(a, "Next") \/ Goto(a, "Commit") \/ Goto(a, "Restore")
      BY <1>2, TrashedCases DEF Lands
    <2> QED BY <2>1 DEF Goto, TypeOK
  <1>4. ~Uses(a, s)'
    BY <1>3 DEF Uses
  <1>5. i.slot \in Slots
    BY DEF Item
  <1>6. CASE i.far \/ i.slot # s
    <2>1. trash'[s] = trash[s] /\ info'[s] = info[s]
      BY <1>2, <1>5, <1>6 DEF Lands, TypeOK
    <2> QED BY <1>0, <1>1, <1>4, <2>1, SlotKept
  <1>7. CASE ~i.far /\ i.slot = s
    <2>1. \A b \in Actors \ {a} : ~Uses(b, s)
      <3>1. CASE RenameToTrash(a) /\ i.slot = slot[a]
        <4>1. Uses(a, s)
          BY <1>7, <3>1 DEF RenameToTrash, Uses
        <4> QED BY <1>1, <4>1, UsersAre DEF SlotOK
      <3>2. CASE QtTrash(a) /\ Claims(a, i.slot)
        BY <1>7, <3>2 DEF Claims, InHand, Restoring, Uses
      <3> QED BY <1>2, <1>7, <3>1, <3>2
    <2>2. \A b \in Actors : ~Uses(b, s)'
      BY <1>0, <1>4, <2>1, OthersKept DEF Uses
    <2>3. info'[s] # None
      <3>1. CASE RenameToTrash(a) /\ i.slot = slot[a] /\ info' = info
        <4>1. a \in InHand(s) /\ pc[a] = "Rename"
          BY <1>7, <3>1 DEF RenameToTrash, InHand
        <4> QED BY <1>0, <1>1, <3>1, <4>1 DEF SlotOK
      <3>2. CASE info' = [info EXCEPT ![i.slot] = path[a]]
        BY <1>0, <1>5, <1>7, <3>2 DEF TypeOK
      <3> QED BY <1>2, <1>7, <3>1, <3>2
    <2> QED BY <2>2, <2>3, SlotFree
  <1> QED BY <1>6, <1>7

(* Records come and go only under the name of the actor that has it.       *)
LEMMA SlotRecorded ==
    ASSUME TypeOK, ActorInv, SlotInv, NEW a \in Actors,
           WriteInfo(a) \/ RemoveInfo(a) \/ RestoreRemovesInfo(a),
           NEW s \in Slots \ clashed'
    PROVE  SlotOK(s)'
  <1>0. By(a) /\ slot[a] \in Slots
    BY DEF By, MoveToTrash, RestoreSteps, TypeOK
  <1>1. SlotOK(s)
    BY <1>0, ClashedGrows DEF SlotInv
  <1>2. CASE WriteInfo(a)
    <2>1. /\ pc'[a] = "Rename" /\ path' = path /\ slot' = slot /\ trash' = trash
          /\ info' = [info EXCEPT ![slot[a]] = path[a]] /\ pc[a] = "Info"
      BY <1>2 DEF WriteInfo, Goto, actorVars, TypeOK
    <2>2. CASE slot[a] # s
      BY <1>0, <1>1, <2>1, <2>2, SlotKept DEF Uses, TypeOK
    <2>3. CASE slot[a] = s
      <3>1. Uses(a, s) /\ trash[s] = None /\ \A b \in Actors \ {a} : ~Uses(b, s)
        BY <1>1, <2>1, <2>3, UsersAre DEF SlotOK, Uses
      <3>2. \A b \in Actors \ {a} : ~Uses(b, s)'
        BY <1>0, <3>1, OthersKept DEF Uses
      <3>3. info'[s] = path'[a]
        BY <2>1, <2>3 DEF TypeOK
      <3> QED BY <2>1, <3>1, <3>2, <3>3, SlotTaken
    <2> QED BY <2>2, <2>3
  <1>3. CASE RemoveInfo(a)
    <2>1. /\ pc'[a] = "Qt" /\ trash' = trash /\ pc[a] = "RemoveInfo"
          /\ info' = [info EXCEPT ![slot[a]] = None]
      BY <1>3 DEF RemoveInfo, Goto, TypeOK
    <2>2. CASE slot[a] # s
      BY <1>0, <1>1, <2>1, <2>2, SlotKept DEF Uses, TypeOK
    <2>3. CASE slot[a] = s
      <3>1. trash[s] = None /\ \A b \in Actors \ {a} : ~Uses(b, s)
        BY <1>1, <2>1, <2>3, UsersAre DEF SlotOK, Uses
      <3>2. \A b \in Actors : ~Uses(b, s)'
        BY <1>0, <2>1, <3>1, OthersKept DEF Uses
      <3> QED BY <2>1, <3>1, <3>2, SlotFree
    <2> QED BY <2>2, <2>3
  <1>4. CASE RestoreRemovesInfo(a)
    <2>1. /\ item[a].slot \in Slots /\ trash' = trash /\ pc[a] = "RestoreInfo"
          /\ info' = [info EXCEPT ![item[a].slot] = None]
      BY <1>4 DEF RestoreRemovesInfo, ActorInv, ActorOK, Holding, Item
    <2>2. pc'[a] = "Next"
      BY <1>4 DEF RestoreRemovesInfo, GoOn, Goto, TypeOK
    <2>3. CASE item[a].slot # s
      BY <1>0, <1>1, <2>1, <2>2, <2>3, SlotKept DEF Uses, TypeOK
    <2>4. CASE item[a].slot = s
      <3>1. ~item[a].far
        BY <1>4, <2>4 DEF RestoreRemovesInfo
      <3>2. Uses(a, s)
        BY <2>1, <2>4, <3>1 DEF Uses
      <3>3. trash[s] = None /\ \A b \in Actors \ {a} : ~Uses(b, s)
        BY <1>1, <3>2, UsersAre DEF SlotOK
      <3>4. \A b \in Actors : ~Uses(b, s)'
        BY <1>0, <2>2, <3>3, OthersKept DEF Uses
      <3> QED BY <2>1, <3>3, <3>4, SlotFree
    <2> QED BY <2>3, <2>4
  <1> QED BY <1>2, <1>3, <1>4

(* No step of an actor puts a name out of order. *)
LEMMA SlotStep ==
    ASSUME TypeOK, ActorInv, SlotInv, NEW a \in Actors, By(a), NEW s \in Slots \ clashed'
    PROVE  SlotOK(s)'
  <1>0. SlotOK(s)
    BY ClashedGrows DEF SlotInv
  <1>1. CASE RenameToTrash(a) \/ QtTrash(a)
    BY <1>1, SlotTrashed
  <1>2. CASE WriteInfo(a) \/ RemoveInfo(a) \/ RestoreRemovesInfo(a)
    BY <1>2, SlotRecorded
  <1>3. CASE WriteInfoFails(a) \/ RenameToTrashFails(a) \/ QtTrashFails(a) \/ RestoreFails(a)
    <2>1. trash' = trash /\ info' = info
      BY <1>3 DEF WriteInfoFails, RenameToTrashFails, QtTrashFails, RestoreFails, diskVars
    <2>2. Uses(a, s)' => Uses(a, s) /\ pc'[a] # "Rename"
      <3>1. CASE RenameToTrashFails(a)
        BY <3>1 DEF RenameToTrashFails, Goto, actorVars, Uses, TypeOK
      <3>2. CASE WriteInfoFails(a) \/ QtTrashFails(a) \/ RestoreFails(a)
        <4>1. Goto(a, "Next")
          BY <3>2 DEF WriteInfoFails, QtTrashFails, RestoreFails, GoOn
        <4>2. pc'[a] = "Next"
          BY <4>1 DEF Goto, TypeOK
        <4> QED BY <4>2 DEF Uses
      <3> QED BY <1>3, <3>1, <3>2
    <2> QED BY <1>0, <2>1, <2>2, SlotKept
  <1>4. CASE Restore(a)
    <2>1. /\ item[a] \in Item /\ item' = item /\ slot' = slot /\ pc'[a] = "RestoreInfo"
          /\ info' = info /\ Held(item[a]) # None
          /\ IF item[a].far THEN trash' = trash ELSE trash' = [trash EXCEPT ![item[a].slot] = None]
      BY <1>4 DEF Restore, ActorInv, ActorOK, Holding, Goto, actorVars, TypeOK
    <2>2. item[a].slot \in Slots
      BY <2>1 DEF Item
    <2>3. CASE item[a].far \/ item[a].slot # s
      <3>1. trash'[s] = trash[s] /\ ~Uses(a, s)'
        BY <2>1, <2>2, <2>3 DEF Uses, TypeOK
      <3> QED BY <1>0, <2>1, <3>1, SlotKept
    <2>4. CASE ~item[a].far /\ item[a].slot = s
      <3>1. trash[s] # None /\ trash'[s] = None
        BY <2>1, <2>4 DEF Held, TypeOK
      <3>2. \A b \in Actors : ~Uses(b, s)
        BY <1>0, <3>1, UsersAre DEF SlotOK
      <3>3. \A b \in Actors \ {a} : ~Uses(b, s)'
        BY <3>2, OthersKept DEF Uses
      <3> QED BY <2>1, <3>1, <3>3, SlotTaken
    <2> QED BY <2>3, <2>4
  <1>5. CASE a \in Jobs /\ JobStep(a)
    <2>1. ASSUME NEW p \in Paths, NextPath(a, p)
          PROVE  SlotOK(s)'
      <3>1. ChooseName(a, p) /\ trash' = trash /\ info' = info /\ a # Gui
        BY <1>5, <2>1, TrashAssumption DEF NextPath, diskVars
      <3> QED BY <3>1, SlotChosen
    <2>2. CASE Commit(a) \/ CommitFails(a)
      <3>1. trash' = trash /\ info' = info /\ pc'[a] \in {"Next", "Restore"}
        BY <2>2 DEF Commit, CommitFails, Goto, diskVars, TypeOK
      <3> QED BY <1>0, <3>1, SlotKept DEF Uses
    <2>3. CASE ~(\E p \in Paths : NextPath(a, p)) /\ ~Commit(a) /\ ~CommitFails(a)
      <3>1. UNCHANGED <<trash, info, pc, path, slot, item>>
        BY <1>5, <2>3 DEF JobStep, Worker, Start, Cancel, Unlink, Finish, diskVars, actorVars
      <3>2. pc[a] = "Rename" /\ Uses(a, s) => info[s] = path[a]
        BY <1>0 DEF SlotOK, InHand, Uses
      <3> QED BY <1>0, <3>1, <3>2, SlotKept DEF Uses
    <2> QED BY <2>1, <2>2, <2>3
  <1>6. CASE a = Gui /\ Undo
    <2>1. CASE UndoNext /\ mode[Gui] = "UndoReplace" /\ at[Head(got[Gui]).origin] # None
      <3>1. /\ ChooseName(a, Head(got[a]).origin) /\ trash' = trash /\ info' = info /\ got[a] # <<>>
        BY <1>6, <2>1 DEF UndoNext, diskVars
      <3>2. Head(got[a]).origin \in Paths
        BY <3>1, ItemTyped DEF Item
      <3> QED BY <3>1, <3>2, SlotChosen
    <2>2. CASE UndoNext /\ ~(mode[Gui] = "UndoReplace" /\ at[Head(got[Gui]).origin] # None)
      <3>1. trash' = trash /\ info' = info /\ Goto(Gui, "Restore")
        BY <2>2 DEF UndoNext, diskVars
      <3>2. pc'[a] = "Restore"
        BY <1>6, <3>1 DEF Goto, TypeOK
      <3> QED BY <1>0, <3>1, <3>2, SlotKept DEF Uses
    <2>3. CASE UndoTrashOrReplace
      <3>1. trash' = trash /\ info' = info /\ Goto(Gui, "Next")
        BY <2>3 DEF UndoTrashOrReplace, diskVars
      <3>2. pc'[a] = "Next"
        BY <1>6, <3>1 DEF Goto, TypeOK
      <3> QED BY <1>0, <3>1, <3>2, SlotKept DEF Uses
    <2>4. CASE UndoEnds \/ UndoMove
      <3>1. UNCHANGED <<trash, info, pc, path, slot, item>>
        BY <2>4 DEF UndoEnds, UndoMove, diskVars, actorVars
      <3>2. pc[a] = "Rename" /\ Uses(a, s) => info[s] = path[a]
        BY <1>0 DEF SlotOK, InHand, Uses
      <3> QED BY <1>0, <3>1, <3>2, SlotKept DEF Uses
    <2> QED BY <1>6, <2>1, <2>2, <2>3, <2>4 DEF Undo
  <1> QED BY <1>1, <1>2, <1>3, <1>4, <1>5, <1>6 DEF By, MoveToTrash, RestoreSteps

(* The names in the trash stay in order. *)
LEMMA SlotInvStep ==
    ASSUME TypeOK, ActorInv, SlotInv, [Next]_vars
    PROVE  SlotInv'
  <1>1. ASSUME NEW a \in Actors, By(a)
        PROVE  SlotInv'
    BY <1>1, SlotStep DEF SlotInv
  <1>2. ASSUME UNCHANGED <<trash, info, pc, path, slot, item, clashed>>
        PROVE  SlotInv'
    BY <1>2 DEF SlotInv, SlotOK, Users, InHand, Restoring
  <1>3. ASSUME NEW p \in Paths, NEW q \in Paths, Move(p, q) \/ Create(p)
        PROVE  SlotInv'
    BY <1>2, <1>3 DEF Move, Create, actorVars
  <1>4. CASE UNCHANGED vars
    BY <1>2, <1>4 DEF vars, diskVars, actorVars
  <1> QED BY <1>1, <1>3, <1>4, NextIsBy

(* A name in the trash has one user at a time, and its file a record,      *)
(* except where two actors took up the same name.                          *)
THEOREM NamesInOrder == Spec => []SlotInv
  <1>1. Init => SlotInv
    BY DEF Init, SlotInv, SlotOK, Users, InHand, Restoring
  <1>2. TypeOK /\ ActorInv /\ SlotInv /\ [Next]_vars => SlotInv'
    BY SlotInvStep
  <1> QED BY <1>1, <1>2, TypesHold, PTL DEF Spec

-----------------------------------------------------------------------------
(* What could still be restored *)

(* s is a stretch of t. *)
Sub(s, t) == \E d \in Nat : \A n \in 1..Len(s) : n + d \in 1..Len(t) /\ s[n] = t[n + d]

(* A sequence is a stretch of itself. *)
LEMMA SubSelf ==
    ASSUME NEW S, NEW s \in Seq(S)
    PROVE  Sub(s, s) /\ Sub(<<>>, s)
  <1>1. \A n \in 1..Len(s) : n + 0 \in 1..Len(s) /\ s[n] = s[n + 0]
    OBVIOUS
  <1>2. \A n \in 1..Len(<<>>) : n + 0 \in 1..Len(s) /\ (<<>>)[n] = s[n + 0]
    OBVIOUS
  <1> QED BY <1>1, <1>2 DEF Sub

(* What is left of a sequence without its last, or its first, is a stretch. *)
LEMMA SubFront ==
    ASSUME NEW S, NEW s \in Seq(S), NEW e \in S
    PROVE  Sub(s, Append(s, e))
  <1>1. Len(Append(s, e)) = Len(s) + 1 /\ \A n \in 1..Len(s) : Append(s, e)[n] = s[n]
    BY AppendProperties
  <1>2. \A n \in 1..Len(s) : n + 0 \in 1..Len(Append(s, e)) /\ s[n] = Append(s, e)[n + 0]
    BY <1>1
  <1> QED BY <1>2 DEF Sub

(* A tail is a stretch of the sequence. *)
LEMMA SubTail ==
    ASSUME NEW S, NEW s \in Seq(S), s # <<>>
    PROVE  Sub(Tail(s), s)
  BY TailFacts DEF Sub

(* Stretches of what is apart are apart. *)
LEMMA SubApart ==
    ASSUME NEW s, NEW t, NEW u, NEW v, Sub(s, u), Sub(t, v)
    PROVE  /\ Apart(u, v) => Apart(s, t)
           /\ Distinct(u) => Distinct(s)
  <1>1. PICK d \in Nat : \A n \in 1..Len(s) : n + d \in 1..Len(u) /\ s[n] = u[n + d]
    BY DEF Sub
  <1>2. PICK c \in Nat : \A n \in 1..Len(t) : n + c \in 1..Len(v) /\ t[n] = v[n + c]
    BY DEF Sub
  <1>3. Apart(u, v) => Apart(s, t)
    BY <1>1, <1>2 DEF Apart
  <1>4. ASSUME Distinct(u), NEW m \in 1..Len(s), NEW n \in 1..Len(s), Same(s[m], s[n])
        PROVE  m = n
    <2>1. m + d = n + d
      BY <1>1, <1>4 DEF Distinct
    <2> QED BY <2>1
  <1> QED BY <1>3, <1>4 DEF Distinct

(* What an actor or an entry could restore are items. *)
LEMMA OwnedType ==
    ASSUME TypeOK, ActorInv
    PROVE  /\ \A a \in Actors : Owned(a) \in Seq(Item)
           /\ \A k \in 1..Len(stack) : Load(k) \in Seq(Item)
  <1>1. ASSUME NEW a \in Actors
        PROVE  Owned(a) \in Seq(Item)
    <2>1. got[a] \in Seq(Item)
      BY DEF TypeOK
    <2>2. CASE a # Gui /\ pc[a] \in {"Commit", "Restore"}
      <3>1. item[a] \in Item
        BY <2>2 DEF ActorInv, ActorOK, Holding
      <3> QED BY <2>1, <2>2, <3>1, AppendProperties DEF Owned
    <2>3. CASE a = Gui /\ pc[a] = "RestoreInfo"
      <3>1. got[a] # <<>>
        BY <2>3 DEF ActorInv, ActorOK
      <3> QED BY <2>1, <2>3, <3>1, TailFacts DEF Owned
    <2> QED BY <2>1, <2>2, <2>3 DEF Owned
  <1>2. ASSUME NEW k \in 1..Len(stack)
        PROVE  Load(k) \in Seq(Item)
    <2>1. stack[k] \in Entry
      BY ElementOfSeq DEF TypeOK
    <2> QED BY <2>1 DEF Load, Entry
  <1> QED BY <1>1, <1>2

(* Going on to the next item gives up the one in hand. *)
LEMMA GoOnOwned ==
    ASSUME TypeOK, ActorInv, NEW a \in Actors, GoOn(a), a = Gui => got[a] # <<>>
    PROVE  Sub(Owned(a)', Owned(a))
  <1>1. /\ pc'[a] = "Next" /\ got[a] \in Seq(Item)
        /\ got'[a] = IF a = Gui THEN Tail(got[a]) ELSE got[a]
    BY DEF GoOn, Goto, TypeOK
  <1>2. Owned(a)' = IF a = Gui THEN Tail(got[a]) ELSE got[a]
    BY <1>1 DEF Owned
  <1>3. pc[a] \in Holding => item[a] \in Item
    BY DEF ActorInv, ActorOK
  <1>5. CASE a = Gui
    <2>1. Tail(got[a]) \in Seq(Item)
      BY <1>1, <1>5, TailFacts
    <2>2. Owned(a) = got[a] \/ Owned(a) = Tail(got[a])
      BY <1>5 DEF Owned
    <2> QED BY <1>1, <1>2, <1>5, <2>1, <2>2, SubSelf, SubTail
  <1>6. CASE a # Gui
    <2>1. Owned(a) = got[a] \/ (pc[a] \in Holding /\ Owned(a) = Append(got[a], item[a]))
      BY <1>6 DEF Owned, Holding
    <2> QED BY <1>1, <1>2, <1>3, <1>6, <2>1, SubSelf, SubFront
  <1> QED BY <1>5, <1>6

(* What an actor could restore after its step: what it could before or     *)
(* less, and what it has just trashed; or it is passed to an entry of the  *)
(* stack, or from one.                                                     *)
LEMMA OwnedStep ==
    ASSUME TypeOK, ActorInv, NEW a \in Actors, By(a)
    PROVE  \/ stack' = stack /\ Sub(Owned(a)', Owned(a)) /\ ~Restore(a)
           \/ Restore(a)
           \/ \E i \in Item : /\ RenameToTrash(a) \/ QtTrash(a)
                              /\ Lands(a, i) /\ Filed(a, i) /\ Owned(a)' = Append(Owned(a), i)
           \/ \E e \in Entry : /\ Push(e) /\ e.kind # "Move" /\ e.items = Owned(a)
                               /\ Owned(a)' = <<>> /\ Finish(a)
           \/ /\ UndoTrashOrReplace /\ a = Gui
              /\ Owned(a) = <<>> /\ Owned(a)' = Load(Len(stack))
           \/ UndoMove /\ Owned(a)' = Owned(a) /\ Load(Len(stack)) = <<>>
  <1>0. /\ ActorOK(a) /\ Owned(a) \in Seq(Item) /\ Gui \notin Jobs /\ Actors = Jobs \cup {Gui}
        /\ got[a] \in Seq(Item)
    BY OwnedType, TrashAssumption DEF ActorInv, Actors, TypeOK
  <1>1. ASSUME Owned(a)' = Owned(a)
        PROVE  Sub(Owned(a)', Owned(a))
    BY <1>0, <1>1, SubSelf
  <1>2. CASE RenameToTrash(a) \/ QtTrash(a)
    <2>1. PICK i \in Item : Lands(a, i) /\ Filed(a, i)
      BY <1>2, TrashFiled
    <2>2. /\ pc[a] \in {"Rename", "Qt"} /\ mode[a] \in {"Trash", "Edit", "UndoReplace"}
          /\ Owned(a) = got[a] /\ (a = Gui <=> mode[a] = "UndoReplace") /\ ~Restore(a)
      BY <1>0, <1>2 DEF RenameToTrash, QtTrash, Restore, ActorOK, Owned, Moving
    <2>3. CASE mode[a] = "Trash"
      <3>1. Goto(a, "Next") /\ got' = [got EXCEPT ![a] = Append(@, i)]
        BY <2>1, <2>3, TrashedCases DEF Lands
      <3>2. Owned(a)' = Append(got[a], i)
        BY <2>2, <2>3, <3>1 DEF Owned, Goto, TypeOK
      <3> QED BY <1>2, <2>1, <2>2, <3>2
    <2>4. CASE mode[a] = "Edit"
      <3>1. Goto(a, "Commit") /\ Keep(a, path[a], 0, i) /\ got' = got
        BY <2>1, <2>4, TrashedCases DEF Lands
      <3>2. Owned(a)' = Append(got[a], i)
        BY <2>2, <2>4, <3>1 DEF Owned, Goto, Keep, TypeOK
      <3> QED BY <1>2, <2>1, <2>2, <3>2
    <2>5. CASE mode[a] = "UndoReplace"
      <3>1. Goto(a, "Restore") /\ got' = got /\ stack' = stack
        BY <2>1, <2>5, TrashedCases DEF Lands
      <3>2. Owned(a)' = Owned(a)
        BY <2>2, <2>5, <3>1 DEF Owned, Goto, TypeOK
      <3> QED BY <1>1, <2>2, <3>1, <3>2
    <2> QED BY <2>2, <2>3, <2>4, <2>5
  <1>3. CASE WriteInfo(a) \/ RenameToTrashFails(a) \/ RemoveInfo(a)
    <2>1. /\ pc[a] \in Moving /\ pc'[a] \in Moving /\ got' = got /\ stack' = stack /\ ~Restore(a)
      BY <1>3 DEF WriteInfo, RenameToTrashFails, RemoveInfo, Goto, actorVars, Moving, TypeOK, Restore
    <2>2. Owned(a)' = Owned(a)
      BY <2>1 DEF Owned, Moving
    <2> QED BY <1>1, <2>1, <2>2
  <1>4. CASE WriteInfoFails(a) \/ QtTrashFails(a) \/ (RestoreFails(a) /\ ~Restore(a)) \/ RestoreRemovesInfo(a)
    <2>1. GoOn(a) /\ stack' = stack /\ (a = Gui => got[a] # <<>>) /\ ~Restore(a)
      BY <1>0, <1>4 DEF WriteInfoFails, QtTrashFails, RestoreFails, RestoreRemovesInfo, ActorOK, Restore
    <2> QED BY <2>1, GoOnOwned
  <1>5. CASE a \in Jobs /\ JobStep(a)
    <2>0. a # Gui
      BY <1>0, <1>5
    <2>1. ASSUME NEW p \in Paths, NextPath(a, p)
          PROVE  stack' = stack /\ Sub(Owned(a)', Owned(a)) /\ ~Restore(a)
      <3>1. ChooseName(a, p) /\ stack' = stack /\ pc[a] = "Next" /\ ~Restore(a)
        BY <2>1 DEF NextPath, Restore
      <3>2. got'[a] = got[a] /\ pc'[a] \in {"Next", "Info"}
        BY <2>0, <3>1, ChooseType DEF TypeOK
      <3>3. Owned(a)' = Owned(a)
        BY <2>0, <3>1, <3>2 DEF Owned
      <3> QED BY <1>1, <3>1, <3>3
    <2>2. CASE Commit(a)
      <3>1. /\ pc[a] = "Commit" /\ pc'[a] = "Next" /\ got'[a] = Append(got[a], item[a])
            /\ stack' = stack /\ ~Restore(a)
        BY <2>2 DEF Commit, Goto, TypeOK, Restore
      <3>2. Owned(a)' = Owned(a)
        BY <2>0, <3>1 DEF Owned
      <3> QED BY <1>1, <3>1, <3>2
    <2>3. CASE CommitFails(a)
      <3>1. /\ pc[a] = "Commit" /\ pc'[a] = "Restore" /\ got' = got /\ item' = item
            /\ stack' = stack /\ ~Restore(a)
        BY <2>3 DEF CommitFails, Goto, TypeOK, Restore, actorVars
      <3>2. Owned(a)' = Owned(a)
        BY <2>0, <3>1 DEF Owned
      <3> QED BY <1>1, <3>1, <3>2
    <2>4. CASE Finish(a)
      <3>1. pc' = pc /\ pc[a] = "Next" /\ got'[a] = <<>> /\ ~Restore(a)
        BY <2>4 DEF Finish, EndJob, TypeOK, Restore
      <3>2. Owned(a) = got[a] /\ Owned(a)' = <<>>
        BY <2>0, <3>1 DEF Owned
      <3>3. CASE stack' = stack
        BY <1>0, <3>1, <3>2, <3>3, SubSelf
      <3>4. ASSUME NEW e \in Entry, Push(e), e.items = got[a],
                   e.kind = IF mode[a] = "Trash" THEN "Trash" ELSE "Replace"
            PROVE  /\ Push(e) /\ e.kind # "Move" /\ e.items = Owned(a)
                   /\ Owned(a)' = <<>> /\ Finish(a)
        BY <2>4, <3>2, <3>4
      <3> QED BY <1>5, <2>4, <3>3, <3>4, FinishCases
    <2>5. CASE /\ ~(\E p \in Paths : NextPath(a, p)) /\ ~Commit(a) /\ ~CommitFails(a) /\ ~Finish(a)
               /\ ~Restore(a)
      <3>1. UNCHANGED <<pc, item, got, stack>>
        BY <1>5, <2>5 DEF JobStep, Worker, Start, Cancel, Unlink, actorVars
      <3>2. Owned(a)' = Owned(a)
        BY <3>1 DEF Owned
      <3> QED BY <1>1, <2>5, <3>1, <3>2
    <2> QED BY <2>1, <2>2, <2>3, <2>4, <2>5
  <1>6. CASE a = Gui /\ Undo
    <2>1. CASE UndoTrashOrReplace
      <3>1. /\ Idle(a) /\ stack # <<>> /\ Top.kind # "Move" /\ got'[a] = Top.items /\ pc'[a] = "Next"
        BY <1>6, <2>1 DEF UndoTrashOrReplace, Goto, TypeOK
      <3>2. Owned(a) = <<>>
        BY <1>0, <3>1 DEF ActorOK, Owned
      <3>3. Owned(a)' = Top.items
        BY <1>6, <3>1 DEF Owned
      <3>4. Load(Len(stack)) = Top.items
        BY <3>1, TopFacts DEF Load
      <3> QED BY <1>6, <2>1, <3>2, <3>3, <3>4
    <2>2. CASE UndoMove
      <3>1. stack # <<>> /\ Top.kind = "Move" /\ UNCHANGED <<pc, item, got>>
        BY <2>2 DEF UndoMove, actorVars
      <3>2. Load(Len(stack)) = <<>>
        BY <3>1, TopFacts DEF Load
      <3>3. Owned(a)' = Owned(a)
        BY <3>1 DEF Owned
      <3> QED BY <2>2, <3>2, <3>3
    <2>3. CASE UndoNext
      <3>1. /\ pc[a] = "Next" /\ got[a] # <<>> /\ stack' = stack /\ Head(got[a]) \in Item /\ ~Restore(a)
        BY <1>6, <2>3, ItemTyped DEF UndoNext, Restore
      <3>2. CASE mode[Gui] = "UndoReplace" /\ at[Head(got[a]).origin] # None
        <4>1. ChooseName(a, Head(got[a]).origin) /\ Head(got[a]).origin \in Paths
          BY <1>6, <2>3, <3>1, <3>2 DEF UndoNext, Item
        <4>2. GoOn(a) \/ (pc' = [pc EXCEPT ![a] = "Info"] /\ got' = got)
          BY <3>1, <4>1, ChooseType
        <4>3. CASE GoOn(a)
          BY <3>1, <4>3, GoOnOwned
        <4>4. CASE pc' = [pc EXCEPT ![a] = "Info"] /\ got' = got
          <5>1. Owned(a)' = Owned(a)
            BY <1>6, <3>1, <4>4 DEF Owned, TypeOK
          <5> QED BY <1>1, <3>1, <5>1
        <4> QED BY <4>2, <4>3, <4>4
      <3>3. CASE ~(mode[Gui] = "UndoReplace" /\ at[Head(got[a]).origin] # None)
        <4>1. Goto(Gui, "Restore") /\ got' = got
          BY <1>6, <2>3, <3>3 DEF UndoNext
        <4>2. Owned(a)' = Owned(a)
          BY <1>6, <3>1, <4>1 DEF Owned, Goto, TypeOK
        <4> QED BY <1>1, <3>1, <4>2
      <3> QED BY <3>2, <3>3
    <2>4. CASE UndoEnds
      <3>1. UNCHANGED <<pc, item, got, stack>> /\ ~Restore(a)
        BY <1>6, <2>4 DEF UndoEnds, Restore
      <3>2. Owned(a)' = Owned(a)
        BY <3>1 DEF Owned
      <3> QED BY <1>1, <3>1, <3>2
    <2> QED BY <1>6, <2>1, <2>2, <2>3, <2>4 DEF Undo
  <1> QED BY <1>2, <1>3, <1>4, <1>5, <1>6 DEF By, MoveToTrash, RestoreSteps

(* The file that is restored is the one in hand, which its actor gives up. *)
LEMMA RestoreOwned ==
    ASSUME TypeOK, ActorInv, NEW a \in Actors, Restore(a)
    PROVE  /\ stack' = stack /\ item[a] \in Item /\ item'[a] = item[a]
           /\ \E r \in 1..Len(Owned(a)) :
                  /\ Owned(a)[r] = item[a]
                  /\ \E d \in Nat :
                         /\ \A n \in 1..Len(Owned(a)') :
                                /\ n + d \in 1..Len(Owned(a)) /\ n + d # r
                                /\ Owned(a)'[n] = Owned(a)[n + d]
                         /\ \A m \in 1..Len(Owned(a)) : m # r =>
                                \E n \in 1..Len(Owned(a)') : Owned(a)'[n] = Owned(a)[m]
  <1>1. /\ pc[a] = "Restore" /\ pc'[a] = "RestoreInfo" /\ got' = got /\ item' = item /\ stack' = stack
        /\ got[a] \in Seq(Item) /\ item[a] \in Item
        /\ a = Gui => got[a] # <<>> /\ item[a] = Head(got[a])
    BY DEF Restore, Goto, actorVars, ActorInv, ActorOK, Holding, TypeOK
  <1>2. CASE a = Gui
    <2>1. Owned(a) = got[a] /\ Owned(a)' = Tail(got[a])
      BY <1>1, <1>2 DEF Owned
    <2>2. 1 \in 1..Len(got[a]) /\ got[a][1] = item[a]
      BY <1>1, <1>2, TailFacts
    <2>3. \A n \in 1..Len(Tail(got[a])) :
              n + 1 \in 1..Len(got[a]) /\ n + 1 # 1 /\ Tail(got[a])[n] = got[a][n + 1]
      BY <1>1, <1>2, TailFacts
    <2>4. \A m \in 1..Len(got[a]) : m # 1 =>
              \E n \in 1..Len(Tail(got[a])) : Tail(got[a])[n] = got[a][m]
      <3>1. Len(Tail(got[a])) = Len(got[a]) - 1 /\ Len(got[a]) \in Nat
        BY <1>1, <1>2, TailFacts
      <3>2. \A m \in 1..Len(got[a]) : m # 1 => m - 1 \in 1..Len(Tail(got[a])) /\ (m - 1) + 1 = m
        BY <3>1
      <3> QED BY <2>3, <3>2
    <2>5. \E d \in Nat :
              /\ \A n \in 1..Len(Owned(a)') :
                     n + d \in 1..Len(Owned(a)) /\ n + d # 1 /\ Owned(a)'[n] = Owned(a)[n + d]
              /\ \A m \in 1..Len(Owned(a)) : m # 1 =>
                     \E n \in 1..Len(Owned(a)') : Owned(a)'[n] = Owned(a)[m]
      BY <2>1, <2>3, <2>4
    <2>6. 1 \in 1..Len(Owned(a)) /\ Owned(a)[1] = item[a]
      BY <2>1, <2>2
    <2> QED BY <1>1, <2>5, <2>6
  <1>3. CASE a # Gui
    <2>1. Owned(a) = Append(got[a], item[a]) /\ Owned(a)' = got[a]
      BY <1>1, <1>3 DEF Owned
    <2>2. /\ Len(Append(got[a], item[a])) = Len(got[a]) + 1 /\ Len(got[a]) \in Nat
          /\ \A n \in 1..Len(got[a]) : Append(got[a], item[a])[n] = got[a][n]
          /\ Append(got[a], item[a])[Len(got[a]) + 1] = item[a]
      BY <1>1, AppendProperties
    <2>3. Len(got[a]) + 1 \in 1..Len(Append(got[a], item[a]))
      BY <2>2
    <2>4. \A n \in 1..Len(got[a]) :
              /\ n + 0 \in 1..Len(Append(got[a], item[a])) /\ n + 0 # Len(got[a]) + 1
              /\ got[a][n] = Append(got[a], item[a])[n + 0]
      BY <2>2
    <2> DEFINE r == Len(got[a]) + 1
    <2>5. r \in 1..Len(Owned(a)) /\ Owned(a)[r] = item[a]
      BY <2>1, <2>2, <2>3
    <2>6. \A n \in 1..Len(Owned(a)') :
              n + 0 \in 1..Len(Owned(a)) /\ n + 0 # r /\ Owned(a)'[n] = Owned(a)[n + 0]
      BY <2>1, <2>4
    <2> HIDE DEF r
    <2>7. \A m \in 1..Len(Owned(a)) : m # r =>
              \E n \in 1..Len(Owned(a)') : Owned(a)'[n] = Owned(a)[m]
      <3>1. \A m \in 1..Len(Owned(a)) : m # r => m \in 1..Len(got[a])
        BY <2>1, <2>2 DEF r
      <3>2. \A m \in 1..Len(got[a]) : Owned(a)'[m] = Owned(a)[m]
        BY <2>1, <2>2
      <3> QED BY <2>1, <3>1, <3>2
    <2>8. \E d \in Nat :
              /\ \A n \in 1..Len(Owned(a)') :
                     n + d \in 1..Len(Owned(a)) /\ n + d # r /\ Owned(a)'[n] = Owned(a)[n + d]
              /\ \A m \in 1..Len(Owned(a)) : m # r =>
                     \E n \in 1..Len(Owned(a)') : Owned(a)'[n] = Owned(a)[m]
      BY <2>6, <2>7
    <2> QED BY <1>1, <2>5, <2>8
  <1> QED BY <1>2, <1>3

(* An item stays where it is, with its record, until it is restored. *)
LEMMA GoodStays ==
    ASSUME TypeOK, ActorInv, SlotInv, NEW a \in Actors, By(a), NEW i \in Item, Good(i),
           ~(Restore(a) /\ Same(i, item[a]))
    PROVE  Good(i)'
  <1>0. /\ i.slot \in Slots /\ i.origin \in Paths /\ i.file \in Files /\ i.file # None
        /\ Held(i) = i.file /\ clashed \subseteq clashed'
    BY ClashedGrows DEF Good, Item, Files, None
  <1>1. ASSUME trash'[i.slot] = trash[i.slot] \/ i.far, farTrash'[i.slot] = farTrash[i.slot] \/ ~i.far
        PROVE  Held(i)' = i.file
    BY <1>0, <1>1 DEF Held
  <1>2. ASSUME Held(i)' = i.file, info'[i.slot] = info[i.slot] \/ i.far \/ i.slot \in clashed'
        PROVE  Good(i)'
    BY <1>0, <1>2 DEF Good
  <1>3. ASSUME ~i.far, i.slot \notin clashed, NEW b \in Actors
        PROVE  ~Uses(b, i.slot)
    <2>1. trash[i.slot] # None /\ SlotOK(i.slot)
      BY <1>0, <1>3 DEF SlotInv, Held
    <2> QED BY <2>1, UsersAre DEF SlotOK
  <1>4. CASE RenameToTrash(a) \/ QtTrash(a)
    <2>1. PICK e \in Item :
              /\ Lands(a, e)
              /\ info' = info \/ (~e.far /\ info' = [info EXCEPT ![e.slot] = path[a]])
      BY <1>4, TrashLands
    <2>2. e.slot \in Slots /\ ~Same(i, e)
      BY <1>0, <2>1 DEF Lands, Item, Same, Held
    <2>6. i.far \in BOOLEAN /\ e.far \in BOOLEAN
      BY DEF Item
    <2>7. IF e.far THEN farTrash' = [farTrash EXCEPT ![e.slot] = e.file] /\ trash' = trash
          ELSE trash' = [trash EXCEPT ![e.slot] = e.file] /\ farTrash' = farTrash
      BY <2>1 DEF Lands
    <2>3. trash'[i.slot] = trash[i.slot] \/ i.far
      BY <1>0, <2>2, <2>6, <2>7 DEF Same, TypeOK
    <2>4. farTrash'[i.slot] = farTrash[i.slot] \/ ~i.far
      BY <1>0, <2>2, <2>6, <2>7 DEF Same, TypeOK
    <2>5. info'[i.slot] = info[i.slot] \/ i.far
      BY <1>0, <2>1, <2>2, <2>6 DEF Same, TypeOK
    <2> QED BY <1>1, <1>2, <2>3, <2>4, <2>5
  <1>5. CASE WriteInfo(a) \/ RemoveInfo(a)
    <2>1. /\ trash' = trash /\ farTrash' = farTrash /\ slot[a] \in Slots /\ Uses(a, slot[a])
          /\ \E p \in Paths \cup {None} : info' = [info EXCEPT ![slot[a]] = p]
      BY <1>5 DEF WriteInfo, RemoveInfo, TypeOK, Uses
    <2>2. ~i.far /\ i.slot \notin clashed => slot[a] # i.slot
      BY <1>3, <2>1
    <2>3. info'[i.slot] = info[i.slot] \/ i.far \/ i.slot \in clashed'
      BY <1>0, <2>1, <2>2 DEF TypeOK
    <2> QED BY <1>1, <1>2, <2>1, <2>3
  <1>6. CASE Restore(a)
    <2>1. /\ item[a] \in Item /\ item[a].slot \in Slots /\ info' = info
          /\ IF item[a].far THEN farTrash' = [farTrash EXCEPT ![item[a].slot] = None] /\ trash' = trash
             ELSE trash' = [trash EXCEPT ![item[a].slot] = None] /\ farTrash' = farTrash
      BY <1>6, RestoreOwned DEF Restore, Item
    <2>2. i.far # item[a].far \/ i.slot # item[a].slot
      BY <1>6 DEF Same
    <2>3. trash'[i.slot] = trash[i.slot] \/ i.far
      BY <1>0, <2>1, <2>2 DEF TypeOK, Item
    <2>4. farTrash'[i.slot] = farTrash[i.slot] \/ ~i.far
      BY <1>0, <2>1, <2>2 DEF TypeOK, Item
    <2> QED BY <1>1, <1>2, <2>1, <2>3, <2>4
  <1>7. CASE RestoreRemovesInfo(a)
    <2>1. /\ trash' = trash /\ farTrash' = farTrash /\ pc[a] = "RestoreInfo"
          /\ item[a] \in Item /\ item[a].slot \in Slots /\ info' = [info EXCEPT ![item[a].slot] = None]
          /\ item[a].far => item[a].slot \in clashed'
      BY <1>7 DEF RestoreRemovesInfo, ActorInv, ActorOK, Holding, Item
    <2>2. ~i.far /\ i.slot \notin clashed' => item[a].slot # i.slot
      BY <1>0, <1>3, <2>1 DEF Uses
    <2>3. info'[i.slot] = info[i.slot] \/ i.far \/ i.slot \in clashed'
      BY <1>0, <2>1, <2>2 DEF TypeOK
    <2> QED BY <1>1, <1>2, <2>1, <2>3
  <1>8. CASE /\ ~RenameToTrash(a) /\ ~QtTrash(a) /\ ~WriteInfo(a) /\ ~RemoveInfo(a)
             /\ ~Restore(a) /\ ~RestoreRemovesInfo(a)
    <2>1. UNCHANGED <<trash, farTrash, info>>
      BY <1>8 DEF By, MoveToTrash, WriteInfoFails, RenameToTrashFails, QtTrashFails, RestoreSteps,
                  RestoreFails, JobStep, Start, Cancel, Worker, NextPath, Unlink, Commit, CommitFails,
                  Finish, Undo, UndoTrashOrReplace, UndoNext, UndoEnds, UndoMove, diskVars
    <2> QED BY <1>1, <1>2, <2>1
  <1> QED BY <1>4, <1>5, <1>6, <1>7, <1>8

(* What has just been moved to the trash is there, with its record. *)
LEMMA GoodFresh ==
    ASSUME TypeOK, ActorInv, SlotInv, NEW a \in Actors, RenameToTrash(a) \/ QtTrash(a),
           NEW e \in Item, Lands(a, e), Filed(a, e)
    PROVE  Good(e)'
  <1>1. e.slot \in Slots /\ Held(e)' = e.file
    BY DEF Lands, Held, Item, TypeOK
  <1>2. e.origin = path[a] /\ path[a] \in Paths
    BY DEF Lands, TypeOK
  <1>3. e.far \/ e.slot \in clashed' \/ info'[e.slot] = e.origin
    <2>1. CASE RenameToTrash(a) /\ ~e.far /\ e.slot = slot[a] /\ info' = info /\ clashed' = clashed
      <3>1. a \in InHand(e.slot) /\ pc[a] = "Rename"
        BY <2>1 DEF InHand, RenameToTrash
      <3>2. e.slot \notin clashed => SlotOK(e.slot)
        BY <1>1 DEF SlotInv
      <3> QED BY <1>2, <2>1, <3>1, <3>2 DEF SlotOK
    <2>2. CASE info' = [info EXCEPT ![e.slot] = path[a]]
      BY <1>1, <1>2, <2>2 DEF TypeOK
    <2> QED BY <2>1, <2>2 DEF Filed
  <1> QED BY <1>1, <1>3 DEF Good

(* Being apart works both ways, and nothing is apart from anything. *)
LEMMA ApartFacts ==
    /\ \A s, t : Apart(s, t) => Apart(t, s)
    /\ \A s : Apart(<<>>, s) /\ Apart(s, <<>>)
    /\ Distinct(<<>>)
  <1>1. \A n : n \notin 1..Len(<<>>)
    OBVIOUS
  <1> QED BY <1>1 DEF Apart, Same, Distinct

(* While nothing comes to be owned no two owners come to own one place.    *)
LEMMA ApartStays ==
    ASSUME TypeOK, ActorInv, OwnersApart, stack' = stack,
           \A b \in Actors : Sub(Owned(b)', Owned(b))
    PROVE  OwnersApart' /\ \A i : Has(i)' => Has(i)
  <1>1. \A k \in 1..Len(stack) : Load(k)' = Load(k) /\ Sub(Load(k), Load(k))
    BY OwnedType, SubSelf DEF Load
  <1>2. /\ \A b \in Actors : Distinct(Owned(b)')
        /\ \A b, c \in Actors : b # c => Apart(Owned(b)', Owned(c)')
    BY SubApart DEF OwnersApart
  <1>3. \A b \in Actors, k \in 1..Len(stack) : Apart(Owned(b)', Load(k))
    BY <1>1, SubApart DEF OwnersApart
  <1>4. OwnersApart'
    BY <1>1, <1>2, <1>3 DEF OwnersApart
  <1>5. ASSUME NEW i, Has(i)'
        PROVE  Has(i)
    <2>1. ASSUME NEW b \in Actors, NEW n \in 1..Len(Owned(b)'), Owned(b)'[n] = i
          PROVE  Has(i)
      BY <2>1 DEF Sub, Has
    <2>2. ASSUME NEW k \in 1..Len(stack), NEW n \in 1..Len(Load(k)), Load(k)[n] = i
          PROVE  Has(i)
      BY <2>2 DEF Has
    <2> QED BY <1>1, <1>5, <2>1, <2>2 DEF Has
  <1> QED BY <1>4, <1>5

(* What is trashed goes to a place that nobody owned. *)
LEMMA ApartGrows ==
    ASSUME TypeOK, ActorInv, OwnersApart, stack' = stack, NEW a \in Actors, NEW i \in Item,
           Owned(a)' = Append(Owned(a), i), \A b \in Actors \ {a} : Owned(b)' = Owned(b),
           \A e : Has(e) => ~Same(e, i)
    PROVE  OwnersApart' /\ \A e : Has(e)' => Has(e) \/ e = i
  <1> DEFINE s == Owned(a)
             t == Append(s, i)
  <1>1. \A k \in 1..Len(stack) : Load(k)' = Load(k)
    BY DEF Load
  <1>2. /\ s \in Seq(Item) /\ Len(t) = Len(s) + 1 /\ Len(s) \in Nat
        /\ \A n \in 1..Len(s) : t[n] = s[n]
        /\ t[Len(s) + 1] = i
    BY OwnedType, AppendProperties
  <1>3. \A n \in 1..Len(s) : ~Same(s[n], i) /\ ~Same(i, s[n])
    BY DEF Has, Same
  <1>4. \A b \in Actors : \A n \in 1..Len(Owned(b)) : ~Same(Owned(b)[n], i) /\ ~Same(i, Owned(b)[n])
    BY DEF Has, Same
  <1>5. \A k \in 1..Len(stack) : \A n \in 1..Len(Load(k)) : ~Same(Load(k)[n], i) /\ ~Same(i, Load(k)[n])
    BY DEF Has, Same
  <1>6. \A n \in 1..Len(t) : n \in 1..Len(s) \/ n = Len(s) + 1
    BY <1>2
  <1>7. Distinct(s) /\ (\A b \in Actors \ {a} : Apart(s, Owned(b)) /\ Apart(Owned(b), s))
        /\ \A k \in 1..Len(stack) : Apart(s, Load(k))
    BY DEF OwnersApart
  <1>8. Owned(a)' = t
    OBVIOUS
  <1> HIDE DEF s, t
  <1>9. Distinct(t)
    BY <1>2, <1>3, <1>6, <1>7 DEF Distinct
  <1>10. \A b \in Actors \ {a} : Apart(t, Owned(b)) /\ Apart(Owned(b), t)
    BY <1>2, <1>4, <1>6, <1>7 DEF Apart
  <1>11. \A k \in 1..Len(stack) : Apart(t, Load(k))
    BY <1>2, <1>5, <1>6, <1>7 DEF Apart
  <1>12. OwnersApart'
    BY <1>1, <1>8, <1>9, <1>10, <1>11 DEF OwnersApart
  <1>13. ASSUME NEW e, Has(e)'
         PROVE  Has(e) \/ e = i
    <2>1. ASSUME NEW b \in Actors, NEW n \in 1..Len(Owned(b)'), Owned(b)'[n] = e
          PROVE  Has(e) \/ e = i
      <3>1. CASE b = a
        BY <1>2, <1>6, <1>8, <2>1, <3>1 DEF Has, s
      <3>2. CASE b # a
        BY <2>1, <3>2 DEF Has
      <3> QED BY <3>1, <3>2
    <2>2. ASSUME NEW k \in 1..Len(stack), NEW n \in 1..Len(Load(k)), Load(k)[n] = e
          PROVE  Has(e)
      BY <2>2 DEF Has
    <2> QED BY <1>1, <1>13, <2>1, <2>2 DEF Has
  <1> QED BY <1>12, <1>13

(* An entry that is pushed takes over what its job owned.                  *)
LEMMA ApartPush ==
    ASSUME TypeOK, ActorInv, OwnersApart, NEW e \in Entry, Push(e),
           \A b \in Actors : Sub(Owned(b)', Owned(b)),
           NEW s, s = IF e.kind = "Move" THEN <<>> ELSE e.items,
           s = <<>> \/ \E a \in Actors : s = Owned(a) /\ Owned(a)' = <<>>
    PROVE  OwnersApart' /\ \A i : Has(i)' => Has(i)
  <1>1. PICK d \in {0, 1} :
            /\ Len(stack') = Len(stack) + 1 - d /\ Len(stack') \in Nat \ {0} /\ Len(stack) \in Nat
            /\ \A k \in 1..(Len(stack') - 1) : k + d \in 1..Len(stack) /\ stack'[k] = stack[k + d]
            /\ stack'[Len(stack')] = e
    BY PushFacts
  <1>6. PICK m \in Nat \ {0} : m = Len(stack')
    BY <1>1
  <1>2. \A k \in 1..m : k \in 1..(m - 1) \/ k = m
    OBVIOUS
  <1>3. \A k \in 1..(m - 1) : Load(k)' = Load(k + d) /\ k + d \in 1..Len(stack)
    BY <1>1, <1>6 DEF Load
  <1>4. Load(m)' = s
    BY <1>1, <1>6 DEF Load
  <1>5. \A k, l \in 1..(m - 1) : k # l => k + d # l + d
    OBVIOUS
  <1>7. /\ \A k \in 1..Len(stack) : Sub(Load(k), Load(k))
        /\ \A b \in Actors : Sub(Owned(b), Owned(b))
    BY OwnedType, SubSelf
  <1>8. /\ \A b \in Actors : Distinct(Owned(b)')
        /\ \A b, c \in Actors : b # c => Apart(Owned(b)', Owned(c)')
    BY SubApart DEF OwnersApart
  <1>9. Distinct(s) /\ (\A k \in 1..Len(stack) : Apart(s, Load(k)) /\ Apart(Load(k), s))
        /\ \A b \in Actors : Apart(Owned(b)', s)
    <2>1. CASE s = <<>>
      BY <2>1, ApartFacts
    <2>2. ASSUME NEW a \in Actors, s = Owned(a), Owned(a)' = <<>>
          PROVE  Distinct(s) /\ (\A k \in 1..Len(stack) : Apart(s, Load(k)) /\ Apart(Load(k), s))
                 /\ \A b \in Actors : Apart(Owned(b)', s)
      <3>1. ASSUME NEW b \in Actors \ {a}
            PROVE  Apart(Owned(b)', Owned(a))
        BY <1>7, SubApart DEF OwnersApart
      <3>2. Apart(Owned(a)', Owned(a))
        BY <2>2, ApartFacts
      <3> QED BY <2>2, <3>1, <3>2, ApartFacts DEF OwnersApart
    <2> QED BY <2>1, <2>2
  <1>10. \A k \in 1..m : Distinct(Load(k)')
    BY <1>2, <1>3, <1>4, <1>9 DEF OwnersApart
  <1>11. \A k, l \in 1..m : k # l => Apart(Load(k)', Load(l)')
    <2>1. \A k, l \in 1..(m - 1) : k # l => Apart(Load(k)', Load(l)')
      BY <1>3, <1>5 DEF OwnersApart
    <2>2. \A k \in 1..(m - 1) : Apart(Load(k)', Load(m)') /\ Apart(Load(m)', Load(k)')
      BY <1>3, <1>4, <1>9
    <2> QED BY <1>2, <2>1, <2>2
  <1>12. \A b \in Actors, k \in 1..m : Apart(Owned(b)', Load(k)')
    <2>1. ASSUME NEW b \in Actors, NEW k \in 1..(m - 1)
          PROVE  Apart(Owned(b)', Load(k + d))
      BY <1>3, <1>7, SubApart DEF OwnersApart
    <2> QED BY <1>2, <1>3, <1>4, <1>9, <2>1
  <1>13. OwnersApart'
    BY <1>6, <1>8, <1>10, <1>11, <1>12 DEF OwnersApart
  <1>14. ASSUME NEW i, Has(i)'
         PROVE  Has(i)
    <2>1. ASSUME NEW b \in Actors, NEW n \in 1..Len(Owned(b)'), Owned(b)'[n] = i
          PROVE  Has(i)
      BY <2>1 DEF Sub, Has
    <2>2. ASSUME NEW k \in 1..(m - 1), NEW n \in 1..Len(Load(k)'), Load(k)'[n] = i
          PROVE  Has(i)
      BY <1>3, <2>2 DEF Has
    <2>3. ASSUME NEW n \in 1..Len(s), s[n] = i
          PROVE  Has(i)
      <3>1. s # <<>>
        BY <2>3
      <3> QED BY <2>3, <3>1 DEF Has
    <2> QED BY <1>2, <1>4, <1>6, <1>14, <2>1, <2>2, <2>3 DEF Has
  <1> QED BY <1>13, <1>14

(* An entry that is popped passes on what it had to undo. *)
LEMMA ApartPop ==
    ASSUME TypeOK, ActorInv, OwnersApart, stack # <<>>, Pop,
           \A b \in Actors \ {Gui} : Owned(b)' = Owned(b),
           \/ Owned(Gui)' = Owned(Gui)
           \/ Owned(Gui) = <<>> /\ Owned(Gui)' = Load(Len(stack))
    PROVE  OwnersApart' /\ \A i : Has(i)' => Has(i)
  <1> DEFINE m == Len(stack')
             l == Len(stack)
  <1>1. /\ m = l - 1 /\ m \in Nat /\ l \in Nat
        /\ \A k \in 1..m : stack'[k] = stack[k]
    BY PopFacts DEF TypeOK
  <1>2. /\ \A k \in 1..m : k \in 1..l /\ k # l
        /\ l \in 1..l
    BY <1>1
  <1>3. \A k \in 1..m : Load(k)' = Load(k)
    BY <1>1 DEF Load
  <1>4. m = Len(stack') /\ l = Len(stack) /\ Gui \in Actors
    BY DEF Actors
  <1> HIDE DEF m, l
  <1>5. CASE Owned(Gui)' = Owned(Gui)
    <2>1. \A b \in Actors : Owned(b)' = Owned(b)
      BY <1>5
    <2> QED BY <1>2, <1>3, <1>4, <2>1 DEF OwnersApart, Has
  <1>6. CASE Owned(Gui) = <<>> /\ Owned(Gui)' = Load(l)
    <2>1. /\ Distinct(Load(l)) /\ \A k \in 1..m : Apart(Load(l), Load(k))
          /\ \A b \in Actors \ {Gui} : Apart(Load(l), Owned(b)) /\ Apart(Owned(b), Load(l))
      BY <1>2, <1>4, ApartFacts DEF OwnersApart
    <2>2. OwnersApart'
      BY <1>2, <1>3, <1>4, <1>6, <2>1 DEF OwnersApart
    <2>3. ASSUME NEW i, Has(i)'
          PROVE  Has(i)
      <3>1. ASSUME NEW b \in Actors, NEW n \in 1..Len(Owned(b)'), Owned(b)'[n] = i
            PROVE  Has(i)
        BY <1>2, <1>4, <1>6, <3>1 DEF Has
      <3>2. ASSUME NEW k \in 1..m, NEW n \in 1..Len(Load(k)'), Load(k)'[n] = i
            PROVE  Has(i)
        BY <1>2, <1>3, <1>4, <3>2 DEF Has
      <3> QED BY <1>4, <2>3, <3>1, <3>2 DEF Has
    <2> QED BY <2>2, <2>3
  <1> QED BY <1>4, <1>5, <1>6

(* What is restored is claimed by nobody any more. *)
LEMMA OwnRestore ==
    ASSUME TypeOK, ActorInv, SlotInv, OwnInv, NEW a \in Actors, Restore(a)
    PROVE  OwnInv'
  <1>0. By(a)
    BY DEF By, RestoreSteps
  <1>1. PICK r \in 1..Len(Owned(a)) :
            /\ Owned(a)[r] = item[a]
            /\ \E d \in Nat : \A n \in 1..Len(Owned(a)') :
                   n + d \in 1..Len(Owned(a)) /\ n + d # r /\ Owned(a)'[n] = Owned(a)[n + d]
    BY RestoreOwned
  <1>2. PICK d \in Nat : \A n \in 1..Len(Owned(a)') :
            n + d \in 1..Len(Owned(a)) /\ n + d # r /\ Owned(a)'[n] = Owned(a)[n + d]
    BY <1>1
  <1>3. stack' = stack
    BY RestoreOwned
  <1>4. \A b \in Actors \ {a} : Owned(b)' = Owned(b)
    BY <1>0, OthersKept DEF Owned
  <1>5. \A b \in Actors : Sub(Owned(b)', Owned(b))
    <2>1. Sub(Owned(a)', Owned(a))
      BY <1>2 DEF Sub
    <2>2. \A b \in Actors \ {a} : Sub(Owned(b)', Owned(b))
      BY <1>4, OwnedType, SubSelf
    <2> QED BY <2>1, <2>2
  <1>6. OwnersApart' /\ \A i : Has(i)' => Has(i)
    BY <1>3, <1>5, ApartStays DEF OwnInv
  <1>7. ASSUME NEW i \in Item, Has(i)'
        PROVE  ~Same(i, item[a])
    <2>1. ASSUME NEW n \in 1..Len(Owned(a)'), Owned(a)'[n] = i
          PROVE  ~Same(i, item[a])
      <3>1. n + d \in 1..Len(Owned(a)) /\ n + d # r /\ i = Owned(a)[n + d]
        BY <1>2, <2>1
      <3>2. Distinct(Owned(a))
        BY DEF OwnInv, OwnersApart
      <3> QED BY <1>1, <3>1, <3>2 DEF Distinct
    <2>2. ASSUME NEW b \in Actors \ {a}, NEW n \in 1..Len(Owned(b)'), Owned(b)'[n] = i
          PROVE  ~Same(i, item[a])
      <3>1. n \in 1..Len(Owned(b)) /\ i = Owned(b)[n] /\ Apart(Owned(b), Owned(a))
        BY <1>4, <2>2 DEF OwnInv, OwnersApart
      <3> QED BY <1>1, <3>1 DEF Apart
    <2>3. ASSUME NEW k \in 1..Len(stack), NEW n \in 1..Len(Load(k)), Load(k)[n] = i
          PROVE  ~Same(i, item[a])
      <3>1. Apart(Load(k), Owned(a))
        BY ApartFacts DEF OwnInv, OwnersApart
      <3> QED BY <1>1, <2>3, <3>1 DEF Apart
    <2>4. \A k \in 1..Len(stack) : Load(k)' = Load(k)
      BY <1>3 DEF Load
    <2> QED BY <1>3, <1>7, <2>1, <2>2, <2>3, <2>4 DEF Has
  <1>8. ItemsGood'
    <2>1. ASSUME NEW i \in Item, Has(i)'
          PROVE  Good(i)'
      <3>1. Good(i) /\ ~Same(i, item[a])
        BY <1>6, <1>7, <2>1 DEF OwnInv, ItemsGood
      <3> QED BY <1>0, <3>1, GoodStays
    <2> QED BY <2>1 DEF ItemsGood
  <1> QED BY <1>6, <1>8 DEF OwnInv

(* What is claimed stays claimed once, and stays where it is. *)
LEMMA OwnStep ==
    ASSUME TypeOK, ActorInv, SlotInv, OwnInv, NEW a \in Actors, By(a)
    PROVE  OwnInv'
  <1>1. ASSUME OwnersApart', \A i : Has(i)' => Has(i), ~Restore(a)
        PROVE  OwnInv'
    BY <1>1, GoodStays DEF OwnInv, ItemsGood
  <1>2. \A b \in Actors \ {a} : Owned(b)' = Owned(b)
    BY OthersKept DEF Owned
  <1>3. \A b \in Actors \ {a} : Sub(Owned(b)', Owned(b))
    BY <1>2, OwnedType, SubSelf
  <1>4. CASE stack' = stack /\ Sub(Owned(a)', Owned(a)) /\ ~Restore(a)
    <2>1. OwnersApart' /\ \A i : Has(i)' => Has(i)
      BY <1>3, <1>4, ApartStays DEF OwnInv
    <2> QED BY <1>1, <1>4, <2>1
  <1>5. CASE Restore(a)
    BY <1>5, OwnRestore
  <1>6. ASSUME NEW i \in Item, RenameToTrash(a) \/ QtTrash(a),
               Lands(a, i), Filed(a, i), Owned(a)' = Append(Owned(a), i)
        PROVE  OwnInv'
    <2>1. \A e : Has(e) => ~Same(e, i)
      <3>1. ASSUME NEW e, Has(e)
            PROVE  ~Same(e, i)
        <4>1. e \in Item
          BY <3>1, OwnedType, ElementOfSeq DEF Has
        <4>2. Held(e) = e.file /\ e.file \in Files
          BY <3>1, <4>1 DEF OwnInv, ItemsGood, Good, Item
        <4> QED BY <1>6, <4>2 DEF Lands, Held, Same, Files, None
      <3> QED BY <3>1
    <2>2. stack' = stack /\ ~Restore(a)
      BY <1>6 DEF Lands, RenameToTrash, QtTrash, Restore
    <2>3. OwnersApart' /\ \A e : Has(e)' => Has(e) \/ e = i
      BY <1>2, <1>6, <2>1, <2>2, ApartGrows DEF OwnInv
    <2>4. Good(i)'
      BY <1>6, GoodFresh
    <2>5. \A e \in Item : Has(e) => Good(e)'
      BY <2>2, GoodStays DEF OwnInv, ItemsGood
    <2> QED BY <2>3, <2>4, <2>5 DEF OwnInv, ItemsGood
  <1>7. ASSUME NEW e \in Entry, Push(e), e.kind # "Move", e.items = Owned(a),
               Owned(a)' = <<>>, Finish(a)
        PROVE  OwnInv'
    <2>1. Sub(Owned(a)', Owned(a))
      BY <1>7, OwnedType, SubSelf
    <2>2. ~Restore(a)
      BY <1>7 DEF Finish, EndJob, Restore
    <2>3. \A b \in Actors : Sub(Owned(b)', Owned(b))
      BY <1>3, <2>1
    <2>4. e.items = IF e.kind = "Move" THEN <<>> ELSE e.items
      BY <1>7
    <2>5. OwnersApart' /\ \A i : Has(i)' => Has(i)
      BY <1>7, <2>3, <2>4, ApartPush DEF OwnInv
    <2> QED BY <1>1, <2>2, <2>5
  <1>8. CASE /\ UndoTrashOrReplace /\ a = Gui
             /\ Owned(a) = <<>> /\ Owned(a)' = Load(Len(stack))
    <2>1. Pop /\ stack # <<>>
      BY <1>8 DEF UndoTrashOrReplace
    <2>2. ~Restore(a)
      BY <1>8 DEF UndoTrashOrReplace, Restore, ActorInv, ActorOK
    <2>3. OwnersApart' /\ \A i : Has(i)' => Has(i)
      BY <1>2, <1>8, <2>1, ApartPop DEF OwnInv
    <2> QED BY <1>1, <2>2, <2>3
  <1>9. CASE UndoMove /\ Owned(a)' = Owned(a) /\ Load(Len(stack)) = <<>>
    <2>1. Pop /\ stack # <<>>
      BY <1>9 DEF UndoMove
    <2>2. Owned(Gui)' = Owned(Gui) /\ \A b \in Actors \ {Gui} : Owned(b)' = Owned(b)
      BY <1>9 DEF UndoMove, actorVars, Owned
    <2>3. ~Restore(a)
      BY <1>9 DEF UndoMove, Restore, Goto, actorVars, TypeOK
    <2>4. OwnersApart' /\ \A i : Has(i)' => Has(i)
      BY <2>1, <2>2, ApartPop DEF OwnInv
    <2> QED BY <1>1, <2>3, <2>4
  <1> QED BY <1>4, <1>5, <1>6, <1>7, <1>8, <1>9, OwnedStep

(* Nor does the user, who renames and makes files, touch what is claimed.  *)
LEMMA OwnInvStep ==
    ASSUME TypeOK, ActorInv, SlotInv, OwnInv, [Next]_vars
    PROVE  OwnInv'
  <1>1. ASSUME UNCHANGED <<trash, farTrash, info, clashed, pc, item, got>>,
               OwnersApart', \A i : Has(i)' => Has(i)
        PROVE  OwnInv'
    BY <1>1 DEF OwnInv, ItemsGood, Good, Held
  <1>2. ASSUME UNCHANGED <<pc, item, got>>
        PROVE  \A b \in Actors : Sub(Owned(b)', Owned(b))
    <2>1. \A b \in Actors : Owned(b)' = Owned(b)
      BY <1>2 DEF Owned
    <2> QED BY <2>1, OwnedType, SubSelf
  <1>3. ASSUME UNCHANGED <<trash, farTrash, info, clashed, pc, item, got, stack>>
        PROVE  OwnInv'
    BY <1>1, <1>2, <1>3, ApartStays DEF OwnInv
  <1>4. ASSUME NEW p \in Paths, NEW q \in Paths, Move(p, q)
        PROVE  OwnInv'
    <2> DEFINE e == [kind |-> "Move", from |-> p, to |-> q]
    <2>1. e \in Entry /\ Push(e) /\ <<>> = IF e.kind = "Move" THEN <<>> ELSE e.items
      BY <1>4 DEF Entry, Move
    <2>2. UNCHANGED <<trash, farTrash, info, clashed, pc, item, got>>
      BY <1>4 DEF Move, actorVars
    <2> HIDE DEF e
    <2>3. \A b \in Actors : Sub(Owned(b)', Owned(b))
      BY <1>2, <2>2
    <2>4. OwnersApart' /\ \A i : Has(i)' => Has(i)
      BY <2>1, <2>3, ApartPush DEF OwnInv
    <2> QED BY <1>1, <2>2, <2>4
  <1>5. ASSUME NEW p \in Paths, Create(p)
        PROVE  OwnInv'
    BY <1>3, <1>5 DEF Create, actorVars
  <1>6. CASE UNCHANGED vars
    BY <1>3, <1>6 DEF vars, diskVars, actorVars
  <1> QED BY <1>4, <1>5, <1>6, OwnStep, NextIsBy

(* At the beginning there is nothing to undo. *)
LEMMA OwnInit ==
    ASSUME Init
    PROVE  OwnInv
  <1>1. /\ \A a \in Actors : Owned(a) = <<>>
        /\ \A k : k \notin 1..Len(stack)
    BY DEF Init, Owned
  <1>2. \A k : k \notin 1..Len(<<>>)
    OBVIOUS
  <1>3. OwnersApart
    BY <1>1, ApartFacts DEF OwnersApart
  <1> QED BY <1>1, <1>2, <1>3 DEF OwnInv, ItemsGood, Has

(* No place in a trash is claimed twice, by entries or by actors, and what *)
(* is claimed is there.                                                    *)
THEOREM ClaimsHold == Spec => []OwnInv
  <1>1. Init => OwnInv
    BY OwnInit
  <1>2. TypeOK /\ ActorInv /\ SlotInv /\ OwnInv /\ [Next]_vars => OwnInv'
    BY OwnInvStep
  <1> QED BY <1>1, <1>2, TypesHold, NamesInOrder, PTL DEF Spec

(* Every item of an entry that could be undone is where the entry says and *)
(* is the file that was deleted, whatever other jobs do to the trash.      *)
THEOREM EntriesAlwaysGood == Spec => []EntriesAreGood
  <1>1. TypeOK /\ ActorInv /\ OwnInv => EntriesAreGood
    <2> SUFFICES ASSUME TypeOK, ActorInv, OwnInv, NEW k \in 1..Len(stack), stack[k].kind # "Move",
                        NEW n \in 1..Len(stack[k].items)
                 PROVE  Held(stack[k].items[n]) = stack[k].items[n].file
      BY DEF EntriesAreGood
    <2>1. Load(k) = stack[k].items /\ Load(k) \in Seq(Item)
      BY OwnedType DEF Load
    <2>2. Load(k)[n] \in Item /\ Has(Load(k)[n])
      BY <2>1, ElementOfSeq DEF Has
    <2> QED BY <2>1, <2>2 DEF OwnInv, ItemsGood, Good
  <1> QED BY <1>1, TypesHold, ClaimsHold, PTL

(* What is in the trash has a record, and the record of what an entry      *)
(* could undo names the path it came from, except where two actors used    *)
(* one name at a time.                                                     *)
THEOREM ItemsKeepRecords == Spec => []ItemsHaveRecords
  <1>1. TypeOK /\ ActorInv /\ SlotInv /\ OwnInv => ItemsHaveRecords
    <2> SUFFICES ASSUME TypeOK, ActorInv, SlotInv, OwnInv
                 PROVE  ItemsHaveRecords
      OBVIOUS
    <2>1. \A s \in Slots \ clashed : trash[s] # None => info[s] # None
      BY DEF SlotInv, SlotOK
    <2>2. ASSUME NEW k \in 1..Len(stack), stack[k].kind # "Move", NEW n \in 1..Len(stack[k].items),
                 NEW i, i = stack[k].items[n]
          PROVE  i.far \/ i.slot \in clashed \/ info[i.slot] = i.origin
      <3>1. Load(k) = stack[k].items /\ Load(k) \in Seq(Item)
        BY <2>2, OwnedType DEF Load
      <3>2. i \in Item /\ Has(i)
        BY <2>2, <3>1, ElementOfSeq DEF Has
      <3> QED BY <3>2 DEF OwnInv, ItemsGood, Good
    <2> QED BY <2>1, <2>2 DEF ItemsHaveRecords
  <1> QED BY <1>1, TypesHold, NamesInOrder, ClaimsHold, PTL

-----------------------------------------------------------------------------
(* Undoing undoes *)

(* With nothing to put back there is nothing to do. *)
LEMMA BackEmpty ==
    /\ Origins(<<>>) = {} /\ OneEach(<<>>) /\ \A f : Vacant(<<>>, f)
    /\ \A f, g \in Disk : Back(<<>>, f, g) <=> f = g
  <1>1. \A n : n \notin 1..Len(<<>>)
    OBVIOUS
  <1>2. Origins(<<>>) = {}
    BY <1>1 DEF Origins
  <1> QED BY <1>1, <1>2 DEF OneEach, Vacant, Back, Disk

(* Items come from paths. *)
LEMMA OriginsArePaths ==
    ASSUME NEW s \in Seq(Item)
    PROVE  Origins(s) \subseteq Paths
  <1>1. \A n \in 1..Len(s) : s[n] \in Item
    BY ElementOfSeq
  <1>2. \A i \in Item : i.origin \in Paths
    BY DEF Item
  <1> QED BY <1>1, <1>2 DEF Origins

(* A stretch has one item of each path if the whole has. *)
LEMMA OneEachSub ==
    ASSUME NEW s, NEW t, OneEach(s), Sub(t, s)
    PROVE  OneEach(t)
  <1>1. PICK d \in Nat : \A n \in 1..Len(t) : n + d \in 1..Len(s) /\ t[n] = s[n + d]
    BY DEF Sub
  <1>2. ASSUME NEW m \in 1..Len(t), NEW n \in 1..Len(t), t[m].origin = t[n].origin
        PROVE  m = n
    <2>1. m + d = n + d
      BY <1>1, <1>2 DEF OneEach
    <2> QED BY <2>1
  <1> QED BY <1>2 DEF OneEach

(* A file that is taken from its path is one more to put back. *)
LEMMA BackGrows ==
    ASSUME NEW s \in Seq(Item), OneEach(s), NEW i \in Item, i.origin \notin Origins(s),
           NEW f \in Disk, NEW g \in Disk, i.file = f[i.origin],
           NEW e \in Disk, e = [f EXCEPT ![i.origin] = None]
    PROVE  /\ OneEach(Append(s, i)) /\ Origins(Append(s, i)) = Origins(s) \cup {i.origin}
           /\ Vacant(s, f) => Vacant(Append(s, i), e)
           /\ Back(s, f, g) => Back(Append(s, i), e, g)
  <1> DEFINE t == Append(s, i)
  <1>1. /\ Len(t) = Len(s) + 1 /\ Len(s) \in Nat
        /\ \A n \in 1..Len(s) : t[n] = s[n]
        /\ t[Len(s) + 1] = i
    BY AppendProperties
  <1>2. /\ \A n \in 1..Len(t) : n \in 1..Len(s) \/ n = Len(s) + 1
        /\ \A n \in 1..Len(s) : n \in 1..Len(t)
        /\ Len(s) + 1 \in 1..Len(t)
    BY <1>1
  <1> HIDE DEF t
  <1>3. \A n \in 1..Len(s) : s[n].origin \in Origins(s) /\ s[n].origin # i.origin
    BY DEF Origins
  <1>4. Origins(t) = Origins(s) \cup {i.origin}
    <2>1. \A n \in 1..Len(t) : t[n].origin \in Origins(s) \cup {i.origin}
      BY <1>1, <1>2, <1>3
    <2>2. i.origin \in Origins(t) /\ \A n \in 1..Len(s) : s[n].origin \in Origins(t)
      BY <1>1, <1>2 DEF Origins
    <2> QED BY <2>1, <2>2 DEF Origins
  <1>5. OneEach(t)
    BY <1>1, <1>2, <1>3 DEF OneEach
  <1>6. i.origin \in Paths /\ e[i.origin] = None /\ \A p \in Paths : p # i.origin => e[p] = f[p]
    BY DEF Disk, Item
  <1>7. \A n \in 1..Len(s) : s[n].origin \in Paths
    BY OriginsArePaths DEF Origins
  <1>8. Vacant(s, f) => Vacant(t, e)
    BY <1>3, <1>4, <1>6, OriginsArePaths DEF Vacant
  <1>9. ASSUME Back(s, f, g)
        PROVE  Back(t, e, g)
    <2>1. g[i.origin] = i.file
      BY <1>6, <1>9 DEF Back
    <2>2. \A n \in 1..Len(t) : g[t[n].origin] = t[n].file
      BY <1>1, <1>2, <1>9, <2>1 DEF Back
    <2>3. \A p \in Paths \ Origins(t) : g[p] = e[p]
      BY <1>4, <1>6, <1>9 DEF Back
    <2> QED BY <2>2, <2>3 DEF Back
  <1> QED BY <1>4, <1>5, <1>8, <1>9 DEF t

(* t is s without the item at r. *)
LessOne(s, t, r) ==
    \E d \in Nat :
        /\ \A n \in 1..Len(t) : n + d \in 1..Len(s) /\ n + d # r /\ t[n] = s[n + d]
        /\ \A m \in 1..Len(s) : m # r => \E n \in 1..Len(t) : t[n] = s[m]

(* In e item i is put back where it was, and all else is as in f. *)
PutBack(e, f, i) == \A p \in Paths : e[p] = IF p = i.origin THEN i.file ELSE f[p]

(* A file that is put back is one less. *)
LEMMA BackShrinks ==
    ASSUME NEW s \in Seq(Item), OneEach(s), NEW t, NEW r \in 1..Len(s), LessOne(s, t, r),
           NEW f, NEW g, NEW e, PutBack(e, f, s[r])
    PROVE  /\ OneEach(t) /\ Origins(t) = Origins(s) \ {s[r].origin}
           /\ Vacant(s, f) => Vacant(t, e)
           /\ Back(s, f, g) => Back(t, e, g)
  <1>0. PICK d \in Nat :
            /\ \A n \in 1..Len(t) : n + d \in 1..Len(s) /\ n + d # r /\ t[n] = s[n + d]
            /\ \A m \in 1..Len(s) : m # r => \E n \in 1..Len(t) : t[n] = s[m]
    BY DEF LessOne
  <1>1. s[r] \in Item /\ s[r].origin \in Paths
    BY OriginsArePaths, ElementOfSeq DEF Origins
  <1>2. \A n \in 1..Len(t) : t[n].origin # s[r].origin /\ t[n].origin \in Origins(s)
    BY <1>0 DEF OneEach, Origins
  <1>3. \A m \in 1..Len(s) : m # r => s[m].origin \in Origins(t)
    BY <1>0 DEF Origins
  <1>4. Origins(t) = Origins(s) \ {s[r].origin}
    BY <1>2, <1>3 DEF Origins
  <1>5. OneEach(t)
    <2>1. Sub(t, s)
      BY <1>0 DEF Sub
    <2> QED BY <2>1, OneEachSub
  <1>6. e[s[r].origin] = s[r].file /\ \A p \in Paths : p # s[r].origin => e[p] = f[p]
    BY <1>1 DEF PutBack
  <1>7. Origins(s) \subseteq Paths
    BY OriginsArePaths
  <1>8. Vacant(s, f) => Vacant(t, e)
    BY <1>4, <1>6, <1>7 DEF Vacant
  <1>9. ASSUME Back(s, f, g)
        PROVE  Back(t, e, g)
    <2>0. \A m \in 1..Len(s) : g[s[m].origin] = s[m].file
      BY <1>9 DEF Back
    <2>1. ASSUME NEW n \in 1..Len(t)
          PROVE  g[t[n].origin] = t[n].file
      <3>1. PICK m \in 1..Len(s) : t[n] = s[m]
        BY <1>0
      <3> QED BY <2>0, <3>1
    <2>2. g[s[r].origin] = s[r].file
      BY <1>9 DEF Back
    <2>3. \A p \in Paths \ Origins(t) : g[p] = e[p]
      BY <1>4, <1>6, <1>9, <2>2 DEF Back
    <2> QED BY <2>1, <2>3 DEF Back
  <1> QED BY <1>4, <1>5, <1>8, <1>9

(* An idle actor has nothing to put back. *)
LEMMA AloneIdle ==
    ASSUME TypeOK, ActorInv, NEW a \in Actors, Idle(a)
    PROVE  Owned(a) = <<>> /\ AloneTask(a) /\ AloneHand(a)
  <1>1. mode[a] = "Idle" /\ pc[a] = "Next" /\ got[a] = <<>>
    BY DEF Idle, ActorInv, ActorOK
  <1>2. Owned(a) = <<>>
    BY <1>1 DEF Owned
  <1> QED BY <1>1, <1>2, BackEmpty DEF AloneTask, AloneHand, Moving

(* What becomes of a task in which nothing is moved. *)
LEMMA AloneSame ==
    ASSUME NEW a, AloneTask(a), at' = at, mode'[a] = mode[a], Owned(a)' = Owned(a),
           todo'[a] \subseteq todo[a]
    PROVE  AloneTask(a)'
  BY DEF AloneTask

(* What an actor at work does to what there is to put back. *)
Progress(a) ==
    /\ stack' = stack /\ mode' = mode /\ cancelled' = cancelled
    /\ AloneTask(a)' /\ AloneHand(a)'
    /\ \A g \in Disk : Back(Owned(a), at, g) => Back(Owned(a)', at', g)

(* A worker has one more item when a file is trashed, undo goes on to put  *)
(* back the original.                                                      *)
LEMMA TrashOwned ==
    ASSUME TypeOK, ActorInv, NEW a \in Actors, RenameToTrash(a) \/ QtTrash(a),
           NEW i \in Item, Lands(a, i)
    PROVE  /\ Owned(a) = got[a]
           /\ \/ /\ mode[a] \in {"Trash", "Edit"} /\ a # Gui /\ Owned(a)' = Append(Owned(a), i)
                 /\ \/ pc'[a] = "Next"
                    \/ pc'[a] = "Commit" /\ item'[a] = i
              \/ /\ mode[a] = "UndoReplace" /\ a = Gui /\ Owned(a)' = Owned(a) /\ got[a] # <<>>
                 /\ pc'[a] = "Restore" /\ item'[a] = Head(got[a])
  <1>1. /\ pc[a] \in {"Rename", "Qt"} /\ mode[a] \in {"Trash", "Edit", "UndoReplace"}
        /\ Owned(a) = got[a] /\ (a = Gui <=> mode[a] = "UndoReplace") /\ (a = Gui => got[a] # <<>>)
    BY DEF RenameToTrash, QtTrash, ActorInv, ActorOK, Owned, Moving
  <1>2. CASE mode[a] = "Trash"
    <2>1. Goto(a, "Next") /\ got' = [got EXCEPT ![a] = Append(@, i)]
      BY <1>2, TrashedCases DEF Lands
    <2>2. pc'[a] = "Next" /\ got'[a] = Append(got[a], i)
      BY <2>1 DEF Goto, TypeOK
    <2> QED BY <1>1, <1>2, <2>2 DEF Owned
  <1>3. CASE mode[a] = "Edit"
    <2>1. Goto(a, "Commit") /\ Keep(a, path[a], 0, i) /\ got' = got
      BY <1>3, TrashedCases DEF Lands
    <2>2. pc'[a] = "Commit" /\ got'[a] = got[a] /\ item'[a] = i
      BY <2>1 DEF Goto, Keep, TypeOK
    <2> QED BY <1>1, <1>3, <2>2 DEF Owned
  <1>4. CASE mode[a] = "UndoReplace"
    <2>1. Goto(a, "Restore") /\ Keep(a, NoItem.origin, 0, Head(got[a])) /\ got' = got
      BY <1>4, TrashedCases DEF Lands
    <2>2. pc'[a] = "Restore" /\ got'[a] = got[a] /\ item'[a] = Head(got[a])
      BY <2>1 DEF Goto, Keep, TypeOK
    <2> QED BY <1>1, <1>4, <2>2 DEF Owned
  <1> QED BY <1>1, <1>2, <1>3, <1>4

(* Trashing a file of the job's own, or the edited one that undo replaces, *)
(* is undone by putting back what there is to put back.                    *)
LEMMA WorkTrash ==
    ASSUME TypeOK, ActorInv, NEW a \in Actors, AloneTask(a), AloneHand(a),
           RenameToTrash(a) \/ QtTrash(a)
    PROVE  Progress(a)
  <1>0. By(a) /\ pc[a] \in Moving
    BY DEF By, MoveToTrash, RenameToTrash, QtTrash, Moving
  <1>1. PICK i \in Item : Lands(a, i)
    BY TrashFiled
  <1>2. /\ stack' = stack /\ mode' = mode /\ cancelled' = cancelled /\ todo' = todo
        /\ i.origin = path[a] /\ i.file = at[path[a]] /\ path[a] \in Paths
        /\ at' = [at EXCEPT ![path[a]] = None]
    BY <1>1 DEF Lands, TypeOK
  <1>3. at \in Disk /\ at' \in Disk /\ Owned(a) \in Seq(Item)
    BY <1>0, DiskType, OwnedType DEF TypeOK, Disk
  <1>4. at'[path[a]] = None /\ \A p \in Paths : p # path[a] => at'[p] = at[p]
    BY <1>2 DEF TypeOK
  <1>5. ASSUME mode[a] \in {"Trash", "Edit"}, a # Gui, Owned(a)' = Append(Owned(a), i),
               pc'[a] = "Next" \/ (pc'[a] = "Commit" /\ item'[a] = i)
        PROVE  Progress(a)
    <2>1. /\ path[a] \notin Origins(Owned(a)) /\ path[a] \notin todo[a] /\ OneEach(Owned(a))
          /\ mode[a] = "Edit" => path[a] \notin Far
      BY <1>0, <1>5 DEF AloneHand, AloneTask
    <2>2. /\ OneEach(Owned(a)') /\ Origins(Owned(a)') = Origins(Owned(a)) \cup {path[a]}
          /\ Vacant(Owned(a), at) => Vacant(Owned(a)', at')
          /\ \A g \in Disk : Back(Owned(a), at, g) => Back(Owned(a)', at', g)
      <3> DEFINE s == Owned(a)
                 t == Append(s, i)
      <3>1. /\ at' = [at EXCEPT ![i.origin] = None] /\ i.file = at[i.origin]
            /\ i.origin \notin Origins(s) /\ s \in Seq(Item) /\ OneEach(s)
        BY <1>2, <1>3, <2>1
      <3> HIDE DEF s
      <3>2. ASSUME NEW g \in Disk
            PROVE  /\ OneEach(t) /\ Origins(t) = Origins(s) \cup {i.origin}
                   /\ Vacant(s, at) => Vacant(t, at')
                   /\ Back(s, at, g) => Back(t, at', g)
        BY <1>3, <3>1, BackGrows
      <3>3. Owned(a)' = t /\ i.origin = path[a]
        BY <1>2, <1>5 DEF s
      <3> HIDE DEF t
      <3> QED BY <1>3, <3>2, <3>3 DEF s
    <2>3. AloneTask(a)'
      BY <1>2, <1>5, <2>1, <2>2 DEF AloneTask
    <2>4. AloneHand(a)'
      BY <1>2, <1>4, <1>5 DEF AloneHand, Moving
    <2> QED BY <1>2, <2>2, <2>3, <2>4 DEF Progress
  <1>6. ASSUME mode[a] = "UndoReplace", a = Gui, Owned(a)' = Owned(a), Owned(a) = got[a], got[a] # <<>>,
               pc'[a] = "Restore", item'[a] = Head(got[a])
        PROVE  Progress(a)
    <2>1. path[a] = Head(got[a]).origin
      BY <1>0, <1>6 DEF AloneHand
    <2>2. path[a] \in Origins(Owned(a))
      BY <1>3, <1>6, <2>1, TailFacts DEF Origins
    <2>3. \A g \in Disk : Back(Owned(a), at, g) => Back(Owned(a)', at', g)
      BY <1>4, <1>6, <2>2 DEF Back
    <2>4. AloneTask(a)'
      BY <1>2, <1>6 DEF AloneTask
    <2>5. AloneHand(a)'
      BY <1>4, <1>6, <2>1 DEF AloneHand, Moving
    <2> QED BY <1>2, <2>3, <2>4, <2>5 DEF Progress
  <1> QED BY <1>1, <1>5, <1>6, TrashOwned

(* Putting back an item is one less to put back. *)
LEMMA WorkRestore ==
    ASSUME TypeOK, ActorInv, OwnInv, NEW a \in Actors, AloneTask(a), AloneHand(a), Restore(a)
    PROVE  Progress(a)
  <1>0. By(a)
    BY DEF By, RestoreSteps
  <1>1. PICK r \in 1..Len(Owned(a)) :
            /\ Owned(a)[r] = item[a]
            /\ \E d \in Nat :
                   /\ \A n \in 1..Len(Owned(a)') :
                          n + d \in 1..Len(Owned(a)) /\ n + d # r /\ Owned(a)'[n] = Owned(a)[n + d]
                   /\ \A m \in 1..Len(Owned(a)) : m # r =>
                          \E n \in 1..Len(Owned(a)') : Owned(a)'[n] = Owned(a)[m]
    BY RestoreOwned
  <1>2. LessOne(Owned(a), Owned(a)', r)
    BY <1>1 DEF LessOne
  <1>3. /\ stack' = stack /\ mode' = mode /\ cancelled' = cancelled /\ todo' = todo
        /\ pc'[a] = "RestoreInfo" /\ item[a] \in Item
        /\ at' = [at EXCEPT ![item[a].origin] = Held(item[a])]
    BY RestoreOwned DEF Restore, Goto, actorVars, TypeOK
  <1>4. Held(item[a]) = item[a].file
    <2>1. Has(item[a])
      BY <1>1 DEF Has
    <2> QED BY <1>3, <2>1 DEF OwnInv, ItemsGood, Good
  <1>5. at \in Disk /\ at' \in Disk /\ Owned(a) \in Seq(Item) /\ OneEach(Owned(a))
    BY <1>0, DiskType, OwnedType DEF TypeOK, Disk, AloneTask
  <1>6. PutBack(at', at, Owned(a)[r])
    BY <1>1, <1>3, <1>4 DEF PutBack, TypeOK
  <1>7. /\ OneEach(Owned(a)') /\ Origins(Owned(a)') = Origins(Owned(a)) \ {Owned(a)[r].origin}
        /\ Vacant(Owned(a), at) => Vacant(Owned(a)', at')
        /\ \A g \in Disk : Back(Owned(a), at, g) => Back(Owned(a)', at', g)
    BY <1>2, <1>5, <1>6, BackShrinks
  <1>8. AloneTask(a)'
    BY <1>3, <1>7 DEF AloneTask
  <1>9. AloneHand(a)'
    BY <1>3 DEF AloneHand, Moving
  <1> QED BY <1>3, <1>7, <1>8, <1>9 DEF Progress

(* The edited file comes to where the original is put back to. *)
LEMMA WorkCommit ==
    ASSUME TypeOK, ActorInv, NEW a \in Jobs, AloneTask(a), AloneHand(a), Commit(a)
    PROVE  Progress(a)
  <1>0. a \in Actors /\ a # Gui
    BY TrashAssumption DEF Actors
  <1>1. /\ pc[a] = "Commit" /\ pc'[a] = "Next" /\ got'[a] = Append(got[a], item[a])
        /\ stack' = stack /\ mode' = mode /\ cancelled' = cancelled /\ todo' = todo
        /\ at' = [at EXCEPT ![path[a]] = fresh'] /\ path[a] \in Paths
    BY <1>0 DEF Commit, Goto, TypeOK
  <1>2. mode[a] = "Edit" /\ item[a].origin = path[a] /\ item[a] \in Item
    BY <1>0, <1>1 DEF ActorInv, ActorOK, Holding
  <1>3. Owned(a) = Append(got[a], item[a]) /\ Owned(a)' = Owned(a) /\ got[a] \in Seq(Item)
    BY <1>0, <1>1 DEF Owned, TypeOK
  <1>4. path[a] \in Origins(Owned(a))
    <2>1. Len(got[a]) + 1 \in 1..Len(Owned(a)) /\ Owned(a)[Len(got[a]) + 1] = item[a]
      BY <1>2, <1>3, AppendProperties
    <2> QED BY <1>2, <2>1 DEF Origins
  <1>5. \A p \in Paths : p # path[a] => at'[p] = at[p]
    BY <1>1 DEF TypeOK
  <1>6. \A g \in Disk : Back(Owned(a), at, g) => Back(Owned(a)', at', g)
    BY <1>3, <1>4, <1>5 DEF Back
  <1>7. AloneTask(a)'
    BY <1>1, <1>2, <1>3 DEF AloneTask
  <1>8. AloneHand(a)'
    BY <1>1 DEF AloneHand, Moving
  <1> QED BY <1>1, <1>6, <1>7, <1>8 DEF Progress

(* An actor that moves nothing and gives up nothing makes progress when    *)
(* what it has in hand next is as it should be.                            *)
LEMMA ProgressSame ==
    ASSUME NEW a, AloneTask(a), AloneHand(a)',
           at' = at, mode' = mode, stack' = stack, cancelled' = cancelled,
           todo'[a] \subseteq todo[a], Owned(a)' = Owned(a)
    PROVE  Progress(a)
  <1>1. AloneTask(a)'
    BY AloneSame
  <1> QED BY <1>1 DEF Progress

(* The item about to be put back is one that its actor owns. *)
LEMMA HandOwned ==
    ASSUME TypeOK, ActorInv, OwnInv, NEW a \in Actors, pc[a] = "Restore"
    PROVE  Held(item[a]) # None
  <1>1. item[a] \in Item /\ got[a] \in Seq(Item) /\ (a = Gui => got[a] # <<>> /\ item[a] = Head(got[a]))
    BY DEF ActorInv, ActorOK, Holding, TypeOK
  <1>2. \E r \in 1..Len(Owned(a)) : Owned(a)[r] = item[a]
    <2>1. CASE a = Gui
      <3>1. Owned(a) = got[a]
        BY <2>1 DEF Owned
      <3> QED BY <1>1, <2>1, <3>1, TailFacts
    <2>2. CASE a # Gui
      <3>1. Owned(a) = Append(got[a], item[a])
        BY <2>2 DEF Owned
      <3> QED BY <1>1, <3>1, AppendProperties
    <2> QED BY <2>1, <2>2
  <1>3. Has(item[a])
    BY <1>2 DEF Has
  <1>4. Held(item[a]) = item[a].file /\ item[a].file \in Files
    BY <1>1, <1>3 DEF OwnInv, ItemsGood, Good, Item
  <1> QED BY <1>4 DEF Files, None

(* The steps of moveToTrash and restore around the moves: none fails while *)
(* nothing disturbs, but that a file cannot be renamed to the trash.       *)
LEMMA WorkAround ==
    ASSUME TypeOK, ActorInv, OwnInv, NEW a \in Actors, AloneTask(a), AloneHand(a), ~disturbed',
           \/ WriteInfo(a) \/ WriteInfoFails(a) \/ RenameToTrashFails(a) \/ RemoveInfo(a)
           \/ QtTrashFails(a) \/ RestoreFails(a) \/ RestoreRemovesInfo(a)
    PROVE  Progress(a)
  <1>0. ~Fault
    BY DEF Fault
  <1>1. ActorOK(a) /\ got[a] \in Seq(Item)
    BY DEF ActorInv, TypeOK
  <1>2. CASE WriteInfo(a)
    <2>1. /\ UNCHANGED <<at, trash, mode, stack, cancelled, todo, path, slot, item, got>>
          /\ pc[a] = "Info" /\ pc'[a] = "Rename"
      BY <1>2 DEF WriteInfo, Goto, actorVars, TypeOK
    <2>2. Owned(a)' = Owned(a)
      BY <2>1 DEF Owned
    <2>3. AloneHand(a)'
      BY <2>1, <2>2 DEF AloneHand, Moving
    <2> QED BY <2>1, <2>2, <2>3, ProgressSame
  <1>3. CASE WriteInfoFails(a)
    BY <1>0, <1>3 DEF WriteInfoFails
  <1>4. CASE RenameToTrashFails(a)
    <2>1. /\ UNCHANGED <<at, trash, mode, stack, cancelled, todo, path, slot, item, got>>
          /\ pc[a] = "Rename" /\ pc'[a] = "RemoveInfo"
          /\ path[a] \in Far \/ at[path[a]] = None \/ trash[slot[a]] # None
      BY <1>0, <1>4 DEF RenameToTrashFails, Goto, diskVars, actorVars, TypeOK
    <2>2. Owned(a)' = Owned(a) /\ Owned(a) = got[a]
      BY <2>1 DEF Owned
    <2>3. a # Gui
      <3>1. SUFFICES ASSUME a = Gui
                     PROVE  FALSE
        OBVIOUS
      <3>2. /\ path[a] = Head(got[a]).origin /\ got[a] # <<>> /\ mode[a] = "UndoReplace"
            /\ at[path[a]] # None /\ trash[slot[a]] = None
        BY <1>1, <2>1, <3>1 DEF AloneHand, Moving, ActorOK
      <3>3. path[a] \in Origins(Owned(a))
        BY <1>1, <2>2, <3>2, TailFacts DEF Origins
      <3> QED BY <2>1, <3>2, <3>3 DEF AloneTask
    <2>4. AloneHand(a)'
      BY <2>1, <2>2, <2>3 DEF AloneHand, Moving
    <2> QED BY <2>1, <2>2, <2>4, ProgressSame
  <1>5. CASE RemoveInfo(a)
    <2>1. /\ UNCHANGED <<at, mode, stack, cancelled, todo, path, slot, item, got>>
          /\ pc[a] = "RemoveInfo" /\ pc'[a] = "Qt"
      BY <1>5 DEF RemoveInfo, Goto, actorVars, TypeOK
    <2>2. Owned(a)' = Owned(a)
      BY <2>1 DEF Owned
    <2>3. AloneHand(a)'
      BY <2>1, <2>2 DEF AloneHand, Moving
    <2> QED BY <2>1, <2>2, <2>3, ProgressSame
  <1>6. CASE QtTrashFails(a)
    <2>1. /\ UNCHANGED <<at, mode, stack, cancelled, todo>> /\ pc[a] = "Qt" /\ GoOn(a)
      BY <1>6 DEF QtTrashFails, diskVars
    <2>2. a # Gui
      BY <2>1 DEF AloneHand, Moving
    <2>3. pc'[a] = "Next" /\ got'[a] = got[a]
      BY <2>1, <2>2 DEF GoOn, Goto, TypeOK
    <2>4. Owned(a)' = Owned(a)
      BY <2>1, <2>2, <2>3 DEF Owned
    <2>5. AloneHand(a)'
      BY <2>3 DEF AloneHand, Moving
    <2> QED BY <2>1, <2>4, <2>5, ProgressSame
  <1>7. CASE RestoreFails(a)
    <2>1. pc[a] = "Restore" /\ (Held(item[a]) = None \/ at[item[a].origin] # None)
      BY <1>0, <1>7 DEF RestoreFails
    <2> QED BY <2>1, HandOwned DEF AloneHand
  <1>8. CASE RestoreRemovesInfo(a)
    <2>1. /\ UNCHANGED <<at, mode, stack, cancelled, todo>> /\ pc[a] = "RestoreInfo" /\ GoOn(a)
      BY <1>8 DEF RestoreRemovesInfo
    <2>2. pc'[a] = "Next" /\ got'[a] = IF a = Gui THEN Tail(got[a]) ELSE got[a]
      BY <2>1 DEF GoOn, Goto, TypeOK
    <2>3. Owned(a)' = Owned(a)
      BY <2>1, <2>2 DEF Owned
    <2>4. AloneHand(a)'
      BY <2>2 DEF AloneHand, Moving
    <2> QED BY <2>1, <2>3, <2>4, ProgressSame
  <1> QED BY <1>2, <1>3, <1>4, <1>5, <1>6, <1>7, <1>8

(* A worker goes on to a path that is not yet among its items, or fails to *)
(* commit an edit whose original it then puts back.                        *)
LEMMA WorkOn ==
    ASSUME TypeOK, ActorInv, NEW a \in Jobs, AloneTask(a), AloneHand(a), ~disturbed',
           CommitFails(a) \/ \E p \in Paths : NextPath(a, p)
    PROVE  Progress(a)
  <1>0. a \in Actors /\ a # Gui
    BY TrashAssumption DEF Actors
  <1>1. CASE CommitFails(a)
    <2>1. /\ UNCHANGED <<at, mode, stack, cancelled, todo, path, slot, item, got>>
          /\ pc[a] = "Commit" /\ pc'[a] = "Restore"
      BY <1>0, <1>1 DEF CommitFails, Goto, diskVars, actorVars, TypeOK
    <2>2. Owned(a)' = Owned(a)
      BY <1>0, <2>1 DEF Owned
    <2>3. AloneHand(a)'
      BY <2>1 DEF AloneHand, Moving
    <2> QED BY <2>1, <2>2, <2>3, ProgressSame
  <1>2. ASSUME NEW p \in Paths, NextPath(a, p)
        PROVE  Progress(a)
    <2>1. /\ UNCHANGED <<at, mode, stack, cancelled>> /\ pc[a] = "Next" /\ ChooseName(a, p)
          /\ p \in todo[a] /\ todo' = [todo EXCEPT ![a] = @ \ {p}]
      BY <1>2 DEF NextPath, diskVars
    <2>2. todo'[a] = todo[a] \ {p}
      BY <1>0, <2>1 DEF TypeOK
    <2>3. pc' = [pc EXCEPT ![a] = "Info"] /\ got' = got /\ path'[a] = p
      BY <1>0, <2>1, ChooseType
    <2>4. pc'[a] = "Info"
      BY <1>0, <2>3 DEF TypeOK
    <2>5. Owned(a)' = Owned(a)
      BY <1>0, <2>1, <2>3, <2>4 DEF Owned
    <2>6. AloneHand(a)'
      BY <1>0, <2>1, <2>2, <2>3, <2>4, <2>5 DEF AloneHand, AloneTask, Moving
    <2> QED BY <2>1, <2>2, <2>5, <2>6, ProgressSame
  <1> QED BY <1>1, <1>2

(* Undo goes on to the next item: what is at its path is trashed first, if *)
(* an edit left something there, or nothing is.                            *)
LEMMA WorkUndo ==
    ASSUME TypeOK, ActorInv, AloneTask(Gui), AloneHand(Gui), ~disturbed', UndoNext
    PROVE  Progress(Gui)
  <1>0. /\ Gui \in Actors /\ got[Gui] \in Seq(Item) /\ got[Gui] # <<>> /\ ~Idle(Gui) /\ pc[Gui] = "Next"
        /\ UNCHANGED <<at, trash, mode, stack, cancelled, todo>>
        /\ mode[Gui] \in {"Undo", "UndoReplace"}
    BY DEF Actors, UndoNext, diskVars, TypeOK, ActorInv, ActorOK, Idle
  <1>1. Owned(Gui) = got[Gui] /\ Head(got[Gui]) \in Item
    BY <1>0, TailFacts DEF Owned
  <1>2. Head(got[Gui]).origin \in Paths
    BY <1>1 DEF Item
  <1>3. CASE mode[Gui] = "UndoReplace" /\ at[Head(got[Gui]).origin] # None
    <2>1. ChooseName(Gui, Head(got[Gui]).origin)
      BY <1>3 DEF UndoNext
    <2>2. /\ pc' = [pc EXCEPT ![Gui] = "Info"] /\ got' = got
          /\ path'[Gui] = Head(got[Gui]).origin /\ trash[slot'[Gui]] = None
      BY <1>0, <1>2, <2>1, ChooseType
    <2>3. pc'[Gui] = "Info"
      BY <1>0, <2>2 DEF TypeOK
    <2>4. Owned(Gui)' = Owned(Gui)
      BY <1>1, <2>2, <2>3 DEF Owned
    <2>5. AloneHand(Gui)'
      BY <1>0, <1>3, <2>2, <2>3 DEF AloneHand, Moving
    <2> QED BY <1>0, <2>4, <2>5, ProgressSame
  <1>4. CASE ~(mode[Gui] = "UndoReplace" /\ at[Head(got[Gui]).origin] # None)
    <2>1. Goto(Gui, "Restore") /\ Keep(Gui, NoItem.origin, 0, Head(got[Gui])) /\ got' = got
      BY <1>4 DEF UndoNext
    <2>2. pc'[Gui] = "Restore" /\ item'[Gui] = Head(got[Gui])
      BY <1>0, <2>1 DEF Goto, Keep, TypeOK
    <2>3. Owned(Gui)' = Owned(Gui)
      BY <1>1, <2>1, <2>2 DEF Owned
    <2>4. at[Head(got[Gui]).origin] = None
      <3>1. Head(got[Gui]).origin \in Origins(Owned(Gui))
        BY <1>0, <1>1, TailFacts DEF Origins
      <3> QED BY <1>0, <1>4, <3>1 DEF AloneTask, Vacant
    <2>5. AloneHand(Gui)'
      BY <1>0, <2>2, <2>4 DEF AloneHand, Moving
    <2> QED BY <1>0, <2>3, <2>5, ProgressSame
  <1> QED BY <1>3, <1>4

(* The stack leads back from the same place while it is the same, ...      *)
LEMMA ReachesStays ==
    ASSUME NEW g \in Disk, Reaches(g), stack' = stack
    PROVE  Reaches(g)'
  BY DEF Reaches

(* ... from where an entry is undone to one more place when it is pushed,  *)
LEMMA ReachesPush ==
    ASSUME TypeOK, NEW e \in Entry, Push(e), ~Evicts, NEW f \in Disk, NEW g \in Disk,
           Reaches(g), Undoes(e, f, g)
    PROVE  Reaches(f)'
  <1>1. /\ Len(stack') = Len(stack) + 1 /\ Len(stack) \in Nat
        /\ \A k \in 1..Len(stack) : stack'[k] = stack[k]
        /\ stack'[Len(stack) + 1] = e
    <2>1. PICK d \in {0, 1} :
              /\ Len(stack') = Len(stack) + 1 - d /\ Len(stack') \in Nat \ {0} /\ Len(stack) \in Nat
              /\ \A k \in 1..(Len(stack') - 1) : k + d \in 1..Len(stack) /\ stack'[k] = stack[k + d]
              /\ stack'[Len(stack')] = e
              /\ d = 1 => Evicts
      BY PushFacts
    <2>2. d = 0
      BY <2>1
    <2> QED BY <2>1, <2>2
  <1>2. PICK h \in [0..Len(stack) -> Disk] :
            /\ h[0] = Numbering
            /\ \A k \in 1..Len(stack) : Undoes(stack[k], h[k], h[k - 1])
            /\ h[Len(stack)] = g
    BY DEF Reaches
  <1>3. PICK m \in Nat : m = Len(stack)
    BY <1>1
  <1> DEFINE i == [k \in 0..(m + 1) |-> IF k <= m THEN h[k] ELSE f]
  <1>4. \A k \in 0..m : k \in 0..(m + 1) /\ k <= m
    OBVIOUS
  <1>5. /\ i \in [0..(m + 1) -> Disk]
        /\ \A k \in 0..m : i[k] = h[k]
        /\ i[m + 1] = f
    <2>1. \A k \in 0..(m + 1) : k <= m => k \in 0..m
      OBVIOUS
    <2>2. \A k \in 0..m : h[k] \in Disk
      BY <1>3
    <2>3. m + 1 \in 0..(m + 1) /\ ~(m + 1 <= m)
      OBVIOUS
    <2> QED BY <1>4, <2>1, <2>2, <2>3
  <1> HIDE DEF i
  <1>6. \A k \in 1..(m + 1) : \/ k \in 1..m /\ k \in 0..m /\ k - 1 \in 0..m
                              \/ k = m + 1 /\ k - 1 = m /\ m \in 0..m
    OBVIOUS
  <1>7. \A k \in 1..(m + 1) : Undoes(stack'[k], i[k], i[k - 1])
    <2>1. ASSUME NEW k \in 1..m, k \in 0..m, k - 1 \in 0..m
          PROVE  Undoes(stack'[k], i[k], i[k - 1])
      BY <1>1, <1>2, <1>3, <1>5, <2>1
    <2>2. Undoes(stack'[m + 1], i[m + 1], i[m])
      BY <1>1, <1>2, <1>3, <1>5, <1>6
    <2> QED BY <1>6, <2>1, <2>2
  <1>8. i[0] = Numbering
    BY <1>2, <1>5
  <1> QED BY <1>1, <1>3, <1>5, <1>7, <1>8 DEF Reaches

(* ... and from where its last entry leads when that is popped.            *)
LEMMA ReachesPop ==
    ASSUME TypeOK, stack # <<>>, Pop, NEW f \in Disk, Reaches(f)
    PROVE  \E g \in Disk : Undoes(Top, f, g) /\ Reaches(g)'
  <1>1. PICK m \in Nat \ {0} : m = Len(stack)
    BY TopFacts
  <1>2. PICK h \in [0..m -> Disk] :
            /\ h[0] = Numbering
            /\ \A k \in 1..m : Undoes(stack[k], h[k], h[k - 1])
            /\ h[m] = f
    BY <1>1 DEF Reaches
  <1>3. Len(stack') = m - 1 /\ \A k \in 1..(m - 1) : stack'[k] = stack[k]
    BY <1>1, PopFacts
  <1> DEFINE i == [k \in 0..(m - 1) |-> h[k]]
  <1>4. /\ \A k \in 0..(m - 1) : k \in 0..m
        /\ \A k \in 1..(m - 1) : k \in 1..m /\ k \in 0..(m - 1) /\ k - 1 \in 0..(m - 1)
        /\ m \in 1..m /\ 0 \in 0..(m - 1) /\ m - 1 \in 0..(m - 1)
    OBVIOUS
  <1>5. i \in [0..(m - 1) -> Disk] /\ \A k \in 0..(m - 1) : i[k] = h[k]
    BY <1>4
  <1> HIDE DEF i
  <1>6. \A k \in 1..(m - 1) : Undoes(stack'[k], i[k], i[k - 1])
    BY <1>2, <1>3, <1>4, <1>5
  <1>7. i[0] = Numbering /\ i[m - 1] = h[m - 1] /\ h[m - 1] \in Disk
    BY <1>2, <1>4, <1>5
  <1>8. Reaches(h[m - 1])'
    BY <1>3, <1>5, <1>6, <1>7 DEF Reaches
  <1>9. Undoes(Top, f, h[m - 1])
    BY <1>1, <1>2, <1>4 DEF Top
  <1> QED BY <1>7, <1>8, <1>9

(* An actor at rest owns nothing. *)
LEMMA AtRest ==
    ASSUME NEW a \in Actors, mode'[a] = "Idle", pc'[a] = "Next", got'[a] = <<>>
    PROVE  Owned(a)' = <<>> /\ AloneTask(a)' /\ AloneHand(a)'
  <1>1. Owned(a)' = <<>>
    BY DEF Owned
  <1> QED BY <1>1, BackEmpty DEF AloneTask, AloneHand, Moving

(* Who is alone at work: everybody else is at rest, and stays so. *)
LEMMA OthersRest ==
    ASSUME TypeOK, ActorInv, AloneInv, NEW a \in Actors, By(a),
           \A b \in Actors \ {a} : Idle(b)
    PROVE  \A b \in Actors \ {a} :
               /\ mode'[b] = "Idle" /\ pc'[b] = "Next" /\ got'[b] = <<>>
               /\ AloneTask(b)' /\ AloneHand(b)' /\ Idle(b)'
  <1>1. \A b \in Actors \ {a} : mode'[b] = "Idle" /\ pc'[b] = "Next" /\ got'[b] = <<>>
    BY OthersKept DEF Idle, ActorInv, ActorOK
  <1> QED BY <1>1, AtRest DEF Idle

(* As long as an actor makes progress the stack leads back. *)
LEMMA UndoWork ==
    ASSUME TypeOK, ActorInv, AloneInv, LeadsBack, NEW a \in Actors, By(a), ~Idle(a), Progress(a)
    PROVE  AloneInv' /\ LeadsBack'
  <1>1. /\ stack' = stack /\ mode' = mode /\ cancelled' = cancelled
        /\ AloneTask(a)' /\ AloneHand(a)'
        /\ \A g \in Disk : Back(Owned(a), at, g) => Back(Owned(a)', at', g)
    BY DEF Progress
  <1>2. \A b \in Actors \ {a} : Idle(b)
    BY DEF AloneInv
  <1>3. \A b \in Actors : Idle(b)' <=> Idle(b)
    BY <1>1 DEF Idle
  <1>4. AloneInv'
    BY <1>1, <1>2, <1>3, OthersRest DEF AloneInv
  <1>5. PICK g \in Disk : /\ Reaches(g)
                          /\ \A b \in Actors : ~Idle(b) => Back(Owned(b), at, g)
    BY DEF LeadsBack
  <1>6. Reaches(g)'
    BY <1>1, <1>5, ReachesStays
  <1>7. \A b \in Actors : ~Idle(b)' => Back(Owned(b)', at', g)
    BY <1>1, <1>2, <1>3, <1>5
  <1>8. ~Idle(a)'
    BY <1>3
  <1> QED BY <1>4, <1>6, <1>7, <1>8 DEF LeadsBack

(* Between operations the stack leads back from where the files are.       *)
LEMMA RestReaches ==
    ASSUME LeadsBack, \A a \in Actors : Idle(a)
    PROVE  at \in Disk /\ Reaches(at)
  BY DEF LeadsBack

(* When an actor ends its work the files are where the stack leads back    *)
(* from.                                                                   *)
LEMMA EndReaches ==
    ASSUME TypeOK, LeadsBack, NEW a \in Actors, ~Idle(a), Owned(a) = <<>>
    PROVE  at \in Disk /\ Reaches(at)
  <1>1. PICK g \in Disk : Reaches(g) /\ Back(Owned(a), at, g)
    BY DEF LeadsBack
  <1>2. at \in Disk
    BY DEF TypeOK, Disk
  <1>3. at = g
    BY <1>1, <1>2, BackEmpty
  <1> QED BY <1>1, <1>2, <1>3

(* So it is when all are at rest afterwards, *)
LEMMA AllRest ==
    ASSUME cancelled' = {}, at' \in Disk, Reaches(at)',
           \A a \in Actors : mode'[a] = "Idle" /\ pc'[a] = "Next" /\ got'[a] = <<>>
    PROVE  AloneInv' /\ LeadsBack'
  <1>1. \A a \in Actors : Idle(a)'
    BY DEF Idle
  <1>2. \A a \in Actors : AloneTask(a)' /\ AloneHand(a)'
    BY AtRest
  <1>3. AloneInv'
    BY <1>1, <1>2 DEF AloneInv
  <1>4. LeadsBack'
    BY <1>1 DEF LeadsBack
  <1> QED BY <1>3, <1>4

(* and when one begins to work. *)
LEMMA OneWorks ==
    ASSUME TypeOK, ActorInv, AloneInv, NEW a \in Actors, By(a),
           \A b \in Actors \ {a} : Idle(b),
           cancelled' = {}, mode'[a] # "Idle", AloneTask(a)', AloneHand(a)',
           NEW g \in Disk, Reaches(g)', Back(Owned(a)', at', g)
    PROVE  AloneInv' /\ LeadsBack'
  <1>1. \A b \in Actors \ {a} : AloneTask(b)' /\ AloneHand(b)' /\ Idle(b)'
    BY OthersRest
  <1>2. ~Idle(a)'
    BY DEF Idle
  <1>3. AloneInv'
    BY <1>1, <1>2 DEF AloneInv
  <1>4. \A b \in Actors : ~Idle(b)' => Back(Owned(b)', at', g)
    BY <1>1
  <1> QED BY <1>2, <1>3, <1>4 DEF LeadsBack

(* A job begins with nothing to put back. *)
LEMMA UndoStart ==
    ASSUME TypeOK, ActorInv, AloneInv, LeadsBack, NEW j \in Jobs,
           NEW paths \in SUBSET {p \in Paths : at[p] # None} \ {{}},
           NEW m \in {"Trash", "Permanent", "Edit"}, Start(j, m, paths), ~disturbed'
    PROVE  AloneInv' /\ LeadsBack'
  <1>0. j \in Actors /\ j # Gui /\ Actors = Jobs \cup {Gui}
    BY TrashAssumption DEF Actors
  <1>1. /\ Idle(j) /\ Idle(Gui) /\ m # "Permanent" /\ \A k \in Jobs \ {j} : Idle(k)
        /\ (m = "Edit" => paths \cap Far = {})
        /\ UNCHANGED <<at, stack, cancelled, pc, item, got>>
        /\ mode' = [mode EXCEPT ![j] = m] /\ todo' = [todo EXCEPT ![j] = paths]
    BY DEF Start, diskVars
  <1>2. \A b \in Actors : Idle(b)
    BY <1>0, <1>1
  <1>3. By(j)
    BY DEF By, JobStep, Start
  <1>4. mode'[j] = m /\ todo'[j] = paths /\ pc'[j] = "Next" /\ got'[j] = <<>>
    BY <1>0, <1>1 DEF TypeOK, ActorInv, ActorOK
  <1>5. Owned(j)' = <<>>
    BY <1>4 DEF Owned
  <1>6. AloneTask(j)' /\ AloneHand(j)'
    BY <1>1, <1>4, <1>5, BackEmpty DEF AloneTask, AloneHand, Moving
  <1>7. PICK g \in Disk : g = at /\ Reaches(g)
    BY <1>2, RestReaches
  <1>8. Reaches(g)' /\ at' = g
    BY <1>1, <1>7, ReachesStays
  <1>9. Back(Owned(j)', at', g)
    BY <1>5, <1>8, BackEmpty
  <1>10. cancelled' = {} /\ mode'[j] # "Idle"
    BY <1>1, <1>4 DEF AloneInv
  <1> QED BY <1>0, <1>2, <1>3, <1>6, <1>8, <1>9, <1>10, OneWorks

(* A job that ends passes what there is to put back to its entry.          *)
LEMMA UndoFinish ==
    ASSUME TypeOK, ActorInv, AloneInv, LeadsBack, NEW j \in Jobs, Finish(j), ~disturbed'
    PROVE  AloneInv' /\ LeadsBack'
  <1>0. j \in Actors /\ j # Gui /\ By(j)
    BY TrashAssumption DEF Actors, By, JobStep, Worker
  <1>1. /\ ~Idle(j) /\ pc[j] = "Next" /\ at' = at /\ pc' = pc
        /\ mode'[j] = "Idle" /\ got'[j] = <<>> /\ cancelled' = {} /\ cancelled = {}
    BY <1>0 DEF Finish, EndJob, AloneInv, diskVars, TypeOK
  <1>2. \A b \in Actors \ {j} : Idle(b)
    BY <1>0, <1>1 DEF AloneInv
  <1>3. \A b \in Actors : mode'[b] = "Idle" /\ pc'[b] = "Next" /\ got'[b] = <<>>
    BY <1>0, <1>1, <1>2, OthersRest
  <1>4. Owned(j) = got[j]
    BY <1>0, <1>1 DEF Owned
  <1>5. at \in Disk /\ at' \in Disk
    BY <1>1 DEF TypeOK, Disk
  <1>6. CASE stack' = stack /\ got[j] = <<>>
    <2>1. PICK g \in Disk : g = at /\ Reaches(g)
      BY <1>0, <1>1, <1>4, <1>6, EndReaches
    <2>2. Reaches(g)' /\ at' = g
      BY <1>1, <1>6, <2>1, ReachesStays
    <2> QED BY <1>1, <1>3, <1>5, <2>2, AllRest
  <1>7. ASSUME NEW e \in Entry, Push(e), e.items = got[j],
               e.kind = IF mode[j] = "Trash" THEN "Trash" ELSE "Replace",
               disturbed' = (disturbed \/ Evicts)
        PROVE  AloneInv' /\ LeadsBack'
    <2>1. ~Evicts
      BY <1>7
    <2>2. PICK g \in Disk : Reaches(g) /\ Back(Owned(j), at, g)
      BY <1>0, <1>1 DEF LeadsBack
    <2>3. AloneTask(j) /\ mode[j] \in {"Trash", "Edit"}
      BY <1>0, <1>1 DEF AloneInv, AloneTask, ActorInv, ActorOK, Idle, TypeOK
    <2>4. Undoes(e, at, g)
      BY <1>0, <1>4, <1>7, <2>2, <2>3 DEF Undoes, AloneTask
    <2>5. PICK f \in Disk : f = at
      BY <1>5
    <2>6. Reaches(f)'
      BY <1>7, <2>1, <2>2, <2>4, <2>5, ReachesPush
    <2>7. at' = f
      BY <1>1, <2>5
    <2> QED BY <1>1, <1>3, <1>5, <2>6, <2>7, AllRest
  <1> QED BY <1>1, <1>6, <1>7, FinishCases

(* A move adds an entry that leads back to where the files were. *)
LEMMA UndoMoved ==
    ASSUME TypeOK, ActorInv, AloneInv, LeadsBack, NEW p \in Paths, NEW q \in Paths, Move(p, q),
           ~disturbed'
    PROVE  AloneInv' /\ LeadsBack'
  <1>1. /\ Idle(Gui) /\ (\A k \in Jobs : Idle(k)) /\ ~Evicts
        /\ at[p] # None /\ at[q] = None /\ at' = [at EXCEPT ![p] = None, ![q] = at[p]]
        /\ UNCHANGED <<mode, pc, got, cancelled>>
    BY DEF Move, actorVars
  <1>2. \A b \in Actors : Idle(b)
    BY <1>1 DEF Actors
  <1>3. \A b \in Actors : mode'[b] = "Idle" /\ pc'[b] = "Next" /\ got'[b] = <<>>
    BY <1>1, <1>2 DEF Idle, ActorInv, ActorOK
  <1>4. PICK g \in Disk : g = at /\ Reaches(g)
    BY <1>2, RestReaches
  <1>5. PICK f : f = at'
    OBVIOUS
  <1>6. /\ f \in Disk /\ f[p] = None /\ f[q] = g[p] /\ p # q
        /\ \A r \in Paths : r # p /\ r # q => f[r] = g[r]
    BY <1>1, <1>4, <1>5 DEF Disk
  <1>7. g = [f EXCEPT ![q] = None, ![p] = f[q]] /\ f[q] # None
    BY <1>1, <1>4, <1>6 DEF Disk
  <1> DEFINE e == [kind |-> "Move", from |-> p, to |-> q]
  <1>8. e \in Entry /\ Push(e) /\ e.kind = "Move" /\ e.from = p /\ e.to = q
    BY DEF Entry, Move
  <1> HIDE DEF e
  <1>9. Undoes(e, f, g)
    BY <1>6, <1>7, <1>8 DEF Undoes
  <1>10. Reaches(f)'
    BY <1>1, <1>4, <1>6, <1>8, <1>9, ReachesPush
  <1>11. cancelled' = {}
    BY <1>1 DEF AloneInv
  <1> QED BY <1>3, <1>5, <1>6, <1>10, <1>11, AllRest

(* Undo of a deletion or an edit begins with the items of its entry.       *)
LEMMA UndoBegins ==
    ASSUME TypeOK, ActorInv, AloneInv, LeadsBack, UndoTrashOrReplace, ~disturbed'
    PROVE  AloneInv' /\ LeadsBack'
  <1>1. /\ Idle(Gui) /\ (\A k \in Jobs : Idle(k)) /\ stack # <<>> /\ Top.kind # "Move" /\ Pop
        /\ UNCHANGED <<at, cancelled, item>>
        /\ mode'[Gui] = IF Top.kind = "Trash" THEN "Undo" ELSE "UndoReplace"
        /\ got'[Gui] = Top.items /\ pc'[Gui] = "Next"
    BY DEF UndoTrashOrReplace, Goto, diskVars, TypeOK, Actors
  <1>2. Gui \in Actors /\ By(Gui) /\ \A b \in Actors : Idle(b)
    BY <1>1 DEF Actors, By, Undo
  <1>3. PICK f \in Disk : f = at /\ Reaches(f)
    BY <1>2, RestReaches
  <1>4. PICK g \in Disk : Undoes(Top, f, g) /\ Reaches(g)'
    BY <1>1, <1>3, ReachesPop
  <1>5. Owned(Gui)' = Top.items /\ Top.kind \in {"Trash", "Replace"} /\ at' = f
    BY <1>1, <1>3, TopFacts DEF Owned
  <1>6. /\ OneEach(Top.items) /\ Back(Top.items, f, g)
        /\ IF Top.kind = "Trash" THEN Vacant(Top.items, f) ELSE Origins(Top.items) \cap Far = {}
    BY <1>1, <1>4 DEF Undoes
  <1>7. AloneTask(Gui)'
    BY <1>1, <1>5, <1>6 DEF AloneTask
  <1>8. AloneHand(Gui)'
    BY <1>1 DEF AloneHand, Moving
  <1>9. cancelled' = {} /\ mode'[Gui] # "Idle"
    BY <1>1 DEF AloneInv
  <1>10. Back(Owned(Gui)', at', g)
    BY <1>5, <1>6
  <1> QED BY <1>2, <1>4, <1>7, <1>8, <1>9, <1>10, OneWorks

(* It ends when there is nothing more to put back. *)
LEMMA UndoDone ==
    ASSUME TypeOK, ActorInv, AloneInv, LeadsBack, UndoEnds
    PROVE  AloneInv' /\ LeadsBack'
  <1>1. /\ ~Idle(Gui) /\ pc[Gui] = "Next" /\ got[Gui] = <<>> /\ mode'[Gui] = "Idle"
        /\ UNCHANGED <<at, stack, cancelled, pc, got>> /\ Gui \in Actors
    BY DEF UndoEnds, diskVars, TypeOK, Actors
  <1>2. By(Gui)
    BY DEF By, Undo
  <1>3. \A b \in Actors \ {Gui} : Idle(b)
    BY <1>1 DEF AloneInv
  <1>4. \A b \in Actors : mode'[b] = "Idle" /\ pc'[b] = "Next" /\ got'[b] = <<>>
    BY <1>1, <1>2, <1>3, OthersRest
  <1>5. Owned(Gui) = <<>>
    BY <1>1 DEF Owned
  <1>6. PICK g \in Disk : g = at /\ Reaches(g)
    BY <1>1, <1>5, EndReaches
  <1>7. Reaches(g)' /\ at' = g
    BY <1>1, <1>6, ReachesStays
  <1>8. cancelled' = {}
    BY <1>1 DEF AloneInv
  <1> QED BY <1>4, <1>7, <1>8, AllRest

(* Undo of a move finds the file where it was moved to, and its old path   *)
(* vacant.                                                                 *)
LEMMA UndoMovedBack ==
    ASSUME TypeOK, ActorInv, AloneInv, LeadsBack, UndoMove, ~disturbed'
    PROVE  AloneInv' /\ LeadsBack'
  <1>1. /\ Idle(Gui) /\ (\A k \in Jobs : Idle(k)) /\ stack # <<>> /\ Top.kind = "Move" /\ Pop
        /\ UNCHANGED <<cancelled, mode, pc, got>>
        /\ at' = IF at[Top.to] = None \/ at[Top.from] # None THEN at
                 ELSE [at EXCEPT ![Top.to] = None, ![Top.from] = at[Top.to]]
    BY DEF UndoMove, actorVars
  <1>2. \A b \in Actors : Idle(b)
    BY <1>1 DEF Actors
  <1>3. \A b \in Actors : mode'[b] = "Idle" /\ pc'[b] = "Next" /\ got'[b] = <<>>
    BY <1>1, <1>2 DEF Idle, ActorInv, ActorOK
  <1>4. PICK f \in Disk : f = at /\ Reaches(f)
    BY <1>2, RestReaches
  <1>5. PICK g \in Disk : Undoes(Top, f, g) /\ Reaches(g)'
    BY <1>1, <1>4, ReachesPop
  <1>6. at' = g
    BY <1>1, <1>4, <1>5 DEF Undoes
  <1>7. cancelled' = {}
    BY <1>1 DEF AloneInv
  <1> QED BY <1>3, <1>5, <1>6, <1>7, AllRest

(* What an actor at work does. *)
LEMMA UndoWorks ==
    ASSUME TypeOK, ActorInv, OwnInv, AloneInv, LeadsBack, ~disturbed', NEW a \in Actors,
           MoveToTrash(a) \/ RestoreSteps(a)
    PROVE  AloneInv' /\ LeadsBack'
  <1>1. AloneTask(a) /\ AloneHand(a)
    BY DEF AloneInv
  <1>2. By(a)
    BY DEF By
  <1>3. pc[a] # "Next"
    BY DEF MoveToTrash, RestoreSteps, WriteInfo, WriteInfoFails, RenameToTrash,
           RenameToTrashFails, RemoveInfo, QtTrash, QtTrashFails, Restore, RestoreFails,
           RestoreRemovesInfo
  <1>4. ~Idle(a)
    BY <1>3 DEF ActorInv, ActorOK, Idle
  <1>5. CASE RenameToTrash(a) \/ QtTrash(a)
    BY <1>1, <1>2, <1>4, <1>5, WorkTrash, UndoWork
  <1>6. CASE Restore(a)
    BY <1>1, <1>2, <1>4, <1>6, WorkRestore, UndoWork
  <1>7. CASE \/ WriteInfo(a) \/ WriteInfoFails(a) \/ RenameToTrashFails(a) \/ RemoveInfo(a)
             \/ QtTrashFails(a) \/ RestoreFails(a) \/ RestoreRemovesInfo(a)
    BY <1>1, <1>2, <1>4, <1>7, WorkAround, UndoWork
  <1> QED BY <1>5, <1>6, <1>7 DEF MoveToTrash, RestoreSteps

(* What a job does; permanent deletions and cancellations disturb. *)
LEMMA UndoJob ==
    ASSUME TypeOK, ActorInv, OwnInv, AloneInv, LeadsBack, ~disturbed', NEW j \in Jobs, JobStep(j)
    PROVE  AloneInv' /\ LeadsBack'
  <1>1. j \in Actors /\ AloneTask(j) /\ AloneHand(j) /\ By(j)
    BY DEF AloneInv, Actors, By
  <1>2. ~Cancel(j)
    BY DEF Cancel
  <1>3. \A p \in Paths : ~Unlink(j, p)
    BY <1>1 DEF Unlink, AloneTask
  <1>4. ASSUME Commit(j) \/ CommitFails(j) \/ \E p \in Paths : NextPath(j, p)
        PROVE  AloneInv' /\ LeadsBack'
    <2>1. mode[j] # "Idle"
      BY <1>1, <1>4 DEF Commit, CommitFails, NextPath, ActorInv, ActorOK, Idle
    <2>2. Progress(j)
      BY <1>1, <1>4, WorkCommit, WorkOn
    <2> QED BY <1>1, <2>1, <2>2, UndoWork DEF Idle
  <1>5. CASE Finish(j)
    BY <1>5, UndoFinish
  <1>6. CASE \E paths \in SUBSET {p \in Paths : at[p] # None} \ {{}} :
                 \E m \in {"Trash", "Permanent", "Edit"} : Start(j, m, paths)
    BY <1>6, UndoStart
  <1> QED BY <1>2, <1>3, <1>4, <1>5, <1>6 DEF JobStep, Worker

(* The way back stays when nothing happens. *)
LEMMA UndoStutter ==
    ASSUME UndoInv, UNCHANGED vars
    PROVE  UndoInv'
  <1> USE DEF vars, diskVars, actorVars
  <1>1. disturbed' = disturbed
    OBVIOUS
  <1>2. AloneInv => AloneInv'
    BY DEF AloneInv, AloneTask, AloneHand, Idle, Owned
  <1>3. LeadsBack => LeadsBack'
    BY DEF LeadsBack, Reaches, Idle, Owned
  <1> QED BY <1>1, <1>2, <1>3 DEF UndoInv

(* Each step keeps a way back, unless it disturbs. *)
LEMMA UndoStep ==
    ASSUME TypeOK, ActorInv, OwnInv, UndoInv, [Next]_vars
    PROVE  UndoInv'
  <1>1. CASE UNCHANGED vars
    BY <1>1, UndoStutter
  <1>2. CASE Next
    <2>1. SUFFICES ASSUME ~disturbed'
                   PROVE  AloneInv' /\ LeadsBack'
      BY DEF UndoInv
    <2>2. disturbed \in BOOLEAN
      BY DEF TypeOK
    <2>3. ~disturbed
      BY <1>2, <2>1, <2>2, NextIsBy, DisturbedStays
    <2>4. AloneInv /\ LeadsBack
      BY <2>3 DEF UndoInv
    <2>5. ASSUME NEW a \in Actors, MoveToTrash(a) \/ RestoreSteps(a)
          PROVE  AloneInv' /\ LeadsBack'
      BY <2>1, <2>4, <2>5, UndoWorks
    <2>6. ASSUME NEW j \in Jobs, JobStep(j)
          PROVE  AloneInv' /\ LeadsBack'
      BY <2>1, <2>4, <2>6, UndoJob
    <2>7. CASE UndoNext
      <3>1. Gui \in Actors /\ AloneTask(Gui) /\ AloneHand(Gui) /\ ~Idle(Gui) /\ By(Gui)
        BY <2>4, <2>7 DEF Actors, AloneInv, UndoNext, By, Undo
      <3> QED BY <2>1, <2>4, <2>7, <3>1, WorkUndo, UndoWork
    <2>8. CASE UndoTrashOrReplace \/ UndoEnds \/ UndoMove
      BY <2>1, <2>4, <2>8, UndoBegins, UndoDone, UndoMovedBack
    <2>9. CASE \E p, q \in Paths : Move(p, q)
      BY <2>1, <2>4, <2>9, UndoMoved
    <2>10. \A p \in Paths : ~Create(p)
      BY <2>1 DEF Create
    <2> QED BY <1>2, <2>5, <2>6, <2>7, <2>8, <2>9, <2>10, NextIsBy DEF By, Undo
  <1> QED BY <1>1, <1>2

(* In the beginning there is nothing to undo, and every file is where it   *)
(* is.                                                                     *)
LEMMA UndoInit ==
    ASSUME Init
    PROVE  UndoInv
  <1>1. /\ at = Numbering /\ cancelled = {} /\ Len(stack) = 0
        /\ \A a \in Actors : Idle(a)
    BY DEF Init, Idle
  <1>2. TypeOK /\ ActorInv
    BY InitType
  <1>3. Numbering \in Disk
    BY <1>1, <1>2 DEF TypeOK, Disk
  <1>4. AloneInv
    BY <1>1, <1>2, AloneIdle DEF AloneInv
  <1>5. Reaches(Numbering)
    <2> DEFINE h == [k \in 0..0 |-> Numbering]
    <2>1. h \in [0..Len(stack) -> Disk] /\ h[0] = Numbering /\ h[Len(stack)] = Numbering
      BY <1>1, <1>3
    <2>2. \A k \in 1..Len(stack) : FALSE
      BY <1>1
    <2> HIDE DEF h
    <2> QED BY <2>1, <2>2 DEF Reaches
  <1>6. LeadsBack
    BY <1>1, <1>3, <1>5 DEF LeadsBack
  <1> QED BY <1>4, <1>6 DEF UndoInv

(* Once everything is undone, and nothing disturbed, every file is where   *)
(* it was in the beginning: no order of deletions, edits, moves and undos, *)
(* of any number of items, makes undo put one file in another's place or   *)
(* leave one behind.                                                       *)
THEOREM UndoInverts == Spec => []UndoIsInverse
  <1>1. Init => UndoInv
    BY UndoInit
  <1>2. TypeOK /\ ActorInv /\ OwnInv /\ UndoInv /\ [Next]_vars => UndoInv'
    BY UndoStep
  <1>3. UndoInv => UndoIsInverse
    <2> SUFFICES ASSUME UndoInv, \A a \in Actors : Idle(a), stack = <<>>, ~disturbed
                 PROVE  at = Numbering
      BY DEF UndoIsInverse
    <2>1. Reaches(at)
      BY RestReaches DEF UndoInv
    <2>2. Len(stack) = 0
      OBVIOUS
    <2> QED BY <2>1, <2>2 DEF Reaches
  <1> QED BY <1>1, <1>2, <1>3, TypesHold, ClaimsHold, PTL DEF Spec

=============================================================================
