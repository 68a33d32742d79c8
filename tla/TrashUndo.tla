----------------------------- MODULE TrashUndo ------------------------------
(***************************************************************************)
(* The trash and the undo stack (src/fs/Trash.cpp, src/fs/UndoStack.cpp)   *)
(* with the jobs that fill them: DeleteJob, the in-place edits of ImageJob *)
(* and renames.                                                            *)
(*                                                                         *)
(* Workers move files to the trash one system call after the other, while  *)
(* the GUI thread undoes and the user makes new files.  All files have one *)
(* base name and differ in their directory, so they compete for names in   *)
(* the trash: slot 0 is the name itself, slot k the name with -k.          *)
(*                                                                         *)
(* Since a crash may fall between any two steps, what must survive one is  *)
(* stated of every state.                                                  *)
(***************************************************************************)
EXTENDS Naturals, Sequences, FiniteSets, TLC

CONSTANTS Paths,     \* where files are
          Far,       \* those of another volume, which hold directories: QFile::rename
                     \* copies a file to the trash from there, but not a directory
          Jobs,      \* workers
          Gui,       \* the GUI thread
          Capacity,  \* UndoStack::kCapacity
          MaxSlot,   \* uniqueTrashName's limit on the counter
          MaxFiles,  \* bound: how many files there ever are
          MaxOps,    \* bound: how many operations the user starts
          MaxFaults  \* bound: how many calls fail for no modelled reason

None == 0

ASSUME TrashAssumption ==
    /\ IsFiniteSet(Paths) /\ Paths # {} /\ None \notin Paths
    /\ Far \subseteq Paths
    /\ Gui \notin Jobs
    /\ Capacity \in Nat \ {0}
    /\ MaxSlot \in Nat /\ MaxFiles \in Nat /\ MaxOps \in Nat /\ MaxFaults \in Nat
    /\ Cardinality(Paths) <= MaxFiles

(* For TLC: the workers are interchangeable, paths and slots are not, since  *)
(* files are numbered and the least free name is taken.                      *)
JobSymmetry == Permutations(Jobs)

Actors == Jobs \cup {Gui}

Slots == 0..MaxSlot

Files == 1..MaxFiles

(* TrashedItem, and which file it is. *)
Item == [far : BOOLEAN, slot : Slots, origin : Paths, file : Files]

NoItem == [far |-> FALSE, slot |-> 0, origin |-> CHOOSE p \in Paths : TRUE, file |-> None]

VARIABLES
    at,        \* the file at each path
    trash,     \* the file in each slot of files/
    info,      \* the path in the record of each slot, if info/ has one
    farTrash,  \* the file in each slot of the other volume's trash
    gone,      \* files deleted for good
    fresh,     \* how many files there have been
    \* the jobs, and the GUI thread while it undoes
    mode,      \* what the actor is doing
    pc,
    todo,      \* the paths still to be done
    path,      \* the path in hand
    slot,      \* the name moveToTrash has chosen
    item,      \* the item in hand
    got,       \* m_trashedItems or m_replaced; the items of the entry being undone
    cancelled,
    stack,     \* m_entries, oldest first
    \* bounds and history
    ops, faults,
    clashed,   \* slots that two actors were about to use
    disturbed  \* something happened that undo need not make up for

diskVars  == <<at, trash, info, farTrash, gone, fresh>>
actorVars == <<mode, todo, path, slot, item, got>>
vars == <<diskVars, actorVars, pc, cancelled, stack, ops, faults, clashed, disturbed>>

Entry == [kind : {"Trash", "Replace"}, items : Seq(Item)]
         \cup [kind : {"Move"}, from : Paths, to : Paths]

TypeOK ==
    /\ at \in [Paths -> Files \cup {None}]
    /\ trash \in [Slots -> Files \cup {None}] /\ farTrash \in [Slots -> Files \cup {None}]
    /\ info \in [Slots -> Paths \cup {None}]
    /\ gone \subseteq Files
    /\ fresh \in 0..MaxFiles
    /\ mode \in [Actors -> {"Idle", "Trash", "Permanent", "Edit", "Undo", "UndoReplace"}]
    /\ pc \in [Actors -> {"Next", "Info", "Rename", "RemoveInfo", "Qt", "Commit", "Restore",
                          "RestoreInfo"}]
    /\ todo \in [Actors -> SUBSET Paths]
    /\ path \in [Actors -> Paths] /\ slot \in [Actors -> Slots]
    /\ item \in [Actors -> Item \cup {NoItem}]
    /\ got \in [Actors -> Seq(Item)]
    /\ cancelled \subseteq Jobs
    /\ stack \in Seq(Entry) /\ Len(stack) <= Capacity
    /\ ops \in 0..MaxOps /\ faults \in 0..MaxFaults
    /\ clashed \subseteq Slots
    /\ disturbed \in BOOLEAN

(* The files of the beginning are numbered. *)
Numbering == CHOOSE f \in [Paths -> 1..Cardinality(Paths)] :
                 \A p, q \in Paths : f[p] = f[q] => p = q

Init ==
    /\ at = Numbering
    /\ trash = [s \in Slots |-> None]
    /\ info = [s \in Slots |-> None]
    /\ farTrash = [s \in Slots |-> None]
    /\ gone = {}
    /\ fresh = Cardinality(Paths)
    /\ mode = [a \in Actors |-> "Idle"]
    /\ pc = [a \in Actors |-> "Next"]
    /\ todo = [a \in Actors |-> {}]
    /\ path = [a \in Actors |-> NoItem.origin]
    /\ slot = [a \in Actors |-> 0]
    /\ item = [a \in Actors |-> NoItem]
    /\ got = [a \in Actors |-> <<>>]
    /\ cancelled = {}
    /\ stack = <<>>
    /\ ops = 0 /\ faults = 0
    /\ clashed = {}
    /\ disturbed = FALSE

-----------------------------------------------------------------------------
Goto(a, label) == pc' = [pc EXCEPT ![a] = label]

(* The actor's path, name and item from here on. *)
Keep(a, p, s, i) ==
    /\ path' = [path EXCEPT ![a] = p]
    /\ slot' = [slot EXCEPT ![a] = s]
    /\ item' = [item EXCEPT ![a] = i]

Drop(a) == Keep(a, NoItem.origin, 0, NoItem)

Quiet == UNCHANGED <<ops, faults, clashed, disturbed>>

Fault ==
    /\ faults < MaxFaults
    /\ faults' = faults + 1
    /\ disturbed' = TRUE

Idle(a) == mode[a] = "Idle"

(* UndoStack::push *)
Push(entry) ==
    LET all == Append(stack, entry)
    IN  stack' = IF Len(all) > Capacity THEN Tail(all) ELSE all

Evicts == Len(stack) = Capacity

-----------------------------------------------------------------------------
(* The user *)

(* startDelete and startImageJob, of what exists; a directory is no image. *)
Start(j, m, paths) ==
    /\ Idle(j) /\ Idle(Gui)
    /\ m = "Edit" => paths \cap Far = {}
    /\ ops < MaxOps /\ ops' = ops + 1
    /\ mode' = [mode EXCEPT ![j] = m]
    /\ todo' = [todo EXCEPT ![j] = paths]
    /\ disturbed' = (disturbed \/ m = "Permanent" \/ \E k \in Jobs \ {j} : ~Idle(k))
    /\ UNCHANGED <<diskVars, pc, path, slot, item, got, cancelled, stack, faults, clashed>>

Cancel(j) ==
    /\ ~Idle(j) /\ j \notin cancelled
    /\ cancelled' = cancelled \cup {j}
    /\ disturbed' = TRUE
    /\ UNCHANGED <<diskVars, actorVars, pc, stack, ops, faults, clashed>>

(* A rename or a move that succeeds, with its entry on the stack. *)
Move(p, q) ==
    /\ Idle(Gui)
    /\ ops < MaxOps /\ ops' = ops + 1
    /\ (p \in Far) = (q \in Far)
    /\ at[p] # None /\ at[q] = None
    /\ at' = [at EXCEPT ![p] = None, ![q] = at[p]]
    /\ Push([kind |-> "Move", from |-> p, to |-> q])
    /\ disturbed' = (disturbed \/ Evicts \/ \E k \in Jobs : ~Idle(k))
    /\ UNCHANGED <<trash, info, farTrash, gone, fresh, actorVars, pc, cancelled, faults, clashed>>

(* A new file where there is none. *)
Create(p) ==
    /\ at[p] = None
    /\ fresh < MaxFiles /\ fresh' = fresh + 1
    /\ at' = [at EXCEPT ![p] = fresh']
    /\ disturbed' = TRUE
    /\ UNCHANGED <<trash, info, farTrash, gone, actorVars, pc, cancelled, stack, ops, faults,
                   clashed>>

-----------------------------------------------------------------------------
(* Trash::moveToTrash, by a job or by undo of an edit *)

InHand(s) == {a \in Actors : slot[a] = s /\ pc[a] \in {"Info", "Rename", "RemoveInfo"}}

Restoring(s) == {a \in Actors : item[a].slot = s /\ pc[a] \in {"RestoreInfo"}}

(* Slot s comes into use; others that have it in hand clash with it. *)
Claims(a, s) ==
    clashed' = IF (InHand(s) \cup Restoring(s)) \ {a} # {} THEN clashed \cup {s} ELSE clashed

(* On to the next path of a job, or to the next item of undo. *)
GoOn(a) ==
    /\ Goto(a, "Next")
    /\ Drop(a)
    /\ got' = IF a = Gui THEN [got EXCEPT ![a] = Tail(@)] ELSE got

(* uniqueTrashName looks at files/ only. *)
FreeSlots == {s \in Slots : trash[s] = None}

LeastOf(S) == CHOOSE s \in S : \A t \in S : s <= t

ChooseName(a, p) ==
    IF at[p] = None \/ FreeSlots = {}
    THEN GoOn(a) /\ disturbed' = TRUE /\ UNCHANGED clashed
    ELSE /\ Goto(a, "Info")
         /\ Keep(a, p, LeastOf(FreeSlots), NoItem)
         /\ Claims(a, LeastOf(FreeSlots))
         /\ UNCHANGED <<got, disturbed>>

(* The record is written first. *)
WriteInfo(a) ==
    /\ pc[a] = "Info"
    /\ info' = [info EXCEPT ![slot[a]] = path[a]]
    /\ Goto(a, "Rename")
    /\ UNCHANGED <<at, trash, farTrash, gone, fresh, actorVars, cancelled, stack>>
    /\ Quiet

(* A slip: the move goes on without its record. *)
WriteInfoFailsUnnoticed(a) ==
    /\ pc[a] = "Info"
    /\ Fault
    /\ Goto(a, "Rename")
    /\ UNCHANGED <<diskVars, actorVars, cancelled, stack, ops, clashed>>

WriteInfoFails(a) ==
    /\ pc[a] = "Info"
    /\ Fault
    /\ GoOn(a)
    /\ UNCHANGED <<diskVars, mode, todo, cancelled, stack, ops, clashed>>

Trashed(a, i) ==
    CASE mode[a] = "Trash" ->
             Goto(a, "Next") /\ Drop(a) /\ got' = [got EXCEPT ![a] = Append(@, i)]
      [] mode[a] = "Edit" ->
             Goto(a, "Commit") /\ Keep(a, path[a], 0, i) /\ got' = got
      [] mode[a] = "UndoReplace" ->
             Goto(a, "Restore") /\ Keep(a, NoItem.origin, 0, Head(got[a])) /\ got' = got

(* A slip: the item is noted under the name it had, not its name in files/. *)
RenameToTrashMisnamed(a) ==
    /\ pc[a] = "Rename"
    /\ path[a] \notin Far /\ at[path[a]] # None /\ trash[slot[a]] = None
    /\ at' = [at EXCEPT ![path[a]] = None]
    /\ trash' = [trash EXCEPT ![slot[a]] = at[path[a]]]
    /\ Trashed(a, [far |-> FALSE, slot |-> 0, origin |-> path[a], file |-> at[path[a]]])
    /\ UNCHANGED <<info, farTrash, gone, fresh, mode, todo, cancelled, stack>>
    /\ Quiet

(* QFile::rename, which never replaces a file. *)
RenameToTrash(a) ==
    /\ pc[a] = "Rename"
    /\ path[a] \notin Far /\ at[path[a]] # None /\ trash[slot[a]] = None
    /\ at' = [at EXCEPT ![path[a]] = None]
    /\ trash' = [trash EXCEPT ![slot[a]] = at[path[a]]]
    /\ Trashed(a, [far |-> FALSE, slot |-> slot[a], origin |-> path[a], file |-> at[path[a]]])
    /\ UNCHANGED <<info, farTrash, gone, fresh, mode, todo, cancelled, stack>>
    /\ Quiet

RenameToTrashFails(a) ==
    /\ pc[a] = "Rename"
    /\ IF path[a] \in Far \/ at[path[a]] = None \/ trash[slot[a]] # None
       THEN UNCHANGED <<faults, disturbed>> ELSE Fault
    /\ Goto(a, "RemoveInfo")
    /\ UNCHANGED <<diskVars, actorVars, cancelled, stack, ops, clashed>>

RemoveInfo(a) ==
    /\ pc[a] = "RemoveInfo"
    /\ info' = [info EXCEPT ![slot[a]] = None]
    /\ Goto(a, "Qt")
    /\ UNCHANGED <<at, trash, farTrash, gone, fresh, actorVars, cancelled, stack>>
    /\ Quiet

(* QFile::moveToTrash, a library: the file gets a free name, with a record *)
(* of its own, in the trash of its volume.                                 *)
QtFreeSlots(p) == IF p \in Far THEN {s \in Slots : farTrash[s] = None}
                  ELSE {s \in Slots : trash[s] = None /\ info[s] = None}

QtTrash(a) ==
    /\ pc[a] = "Qt"
    /\ at[path[a]] # None /\ QtFreeSlots(path[a]) # {}
    /\ at' = [at EXCEPT ![path[a]] = None]
    /\ LET p == path[a]
           s == LeastOf(QtFreeSlots(p))
       IN  /\ IF p \in Far
              THEN farTrash' = [farTrash EXCEPT ![s] = at[p]] /\ UNCHANGED <<trash, info, clashed>>
              ELSE /\ trash' = [trash EXCEPT ![s] = at[p]]
                   /\ info' = [info EXCEPT ![s] = p]
                   /\ farTrash' = farTrash
                   /\ Claims(a, s)
           /\ Trashed(a, [far |-> p \in Far, slot |-> s, origin |-> p, file |-> at[p]])
    /\ UNCHANGED <<gone, fresh, mode, todo, cancelled, stack, ops, faults, disturbed>>

QtTrashFails(a) ==
    /\ pc[a] = "Qt"
    /\ IF at[path[a]] = None \/ QtFreeSlots(path[a]) = {} THEN UNCHANGED <<faults, disturbed>>
       ELSE Fault
    /\ GoOn(a)
    /\ UNCHANGED <<diskVars, mode, todo, cancelled, stack, ops, clashed>>

-----------------------------------------------------------------------------
(* Trash::restore, by undo or by an edit that could not be committed *)

Held(i) == IF i.far THEN farTrash[i.slot] ELSE trash[i.slot]

(* A slip: what occupies the original path is replaced. *)
RestoreOverwriting(a) ==
    /\ pc[a] = "Restore"
    /\ Held(item[a]) # None
    /\ at' = [at EXCEPT ![item[a].origin] = Held(item[a])]
    /\ IF item[a].far THEN farTrash' = [farTrash EXCEPT ![item[a].slot] = None] /\ trash' = trash
       ELSE trash' = [trash EXCEPT ![item[a].slot] = None] /\ farTrash' = farTrash
    /\ Goto(a, "RestoreInfo")
    /\ UNCHANGED <<info, gone, fresh, actorVars, cancelled, stack>>
    /\ Quiet

(* The file goes back unless its path is occupied ... *)
Restore(a) ==
    /\ pc[a] = "Restore"
    /\ Held(item[a]) # None /\ at[item[a].origin] = None
    /\ at' = [at EXCEPT ![item[a].origin] = Held(item[a])]
    /\ IF item[a].far THEN farTrash' = [farTrash EXCEPT ![item[a].slot] = None] /\ trash' = trash
       ELSE trash' = [trash EXCEPT ![item[a].slot] = None] /\ farTrash' = farTrash
    /\ Goto(a, "RestoreInfo")
    /\ UNCHANGED <<info, gone, fresh, actorVars, cancelled, stack>>
    /\ Quiet

RestoreFails(a) ==
    /\ pc[a] = "Restore"
    /\ IF Held(item[a]) = None \/ at[item[a].origin] # None THEN UNCHANGED <<faults, disturbed>>
       ELSE Fault
    /\ GoOn(a)
    /\ UNCHANGED <<diskVars, mode, todo, cancelled, stack, ops, clashed>>

(* ... and then the record of that name goes: in this trash, wherever the  *)
(* file was.                                                               *)
RestoreRemovesInfo(a) ==
    /\ pc[a] = "RestoreInfo"
    /\ info' = [info EXCEPT ![item[a].slot] = None]
    /\ clashed' = IF item[a].far \/ InHand(item[a].slot) # {} THEN clashed \cup {item[a].slot}
                  ELSE clashed
    /\ GoOn(a)
    /\ UNCHANGED <<at, trash, farTrash, gone, fresh, mode, todo, cancelled, stack, ops, faults,
                   disturbed>>

-----------------------------------------------------------------------------
(* DeleteJob and ImageJob *)

NextPath(j, p) ==
    /\ mode[j] \in {"Trash", "Edit"} /\ pc[j] = "Next" /\ j \notin cancelled
    /\ p \in todo[j]
    /\ todo' = [todo EXCEPT ![j] = @ \ {p}]
    /\ ChooseName(j, p)
    /\ UNCHANGED <<diskVars, mode, cancelled, stack, ops, faults>>

(* DeleteJob::deleteOne of a permanent deletion *)
Unlink(j, p) ==
    /\ mode[j] = "Permanent" /\ pc[j] = "Next" /\ j \notin cancelled
    /\ p \in todo[j]
    /\ todo' = [todo EXCEPT ![j] = @ \ {p}]
    /\ at' = [at EXCEPT ![p] = None]
    /\ gone' = gone \cup ({at[p]} \ {None})
    /\ UNCHANGED <<trash, info, farTrash, fresh, mode, pc, path, slot, item, got, cancelled, stack>>
    /\ Quiet

(* The edited file, written aside before, gets the name of the original.   *)
Commit(j) ==
    /\ pc[j] = "Commit"
    /\ fresh < MaxFiles /\ fresh' = fresh + 1
    /\ at' = [at EXCEPT ![path[j]] = fresh']
    /\ gone' = gone \cup ({at[path[j]]} \ {None})
    /\ got' = [got EXCEPT ![j] = Append(@, item[j])]
    /\ Goto(j, "Next")
    /\ Drop(j)
    /\ UNCHANGED <<trash, info, farTrash, mode, todo, cancelled, stack>>
    /\ Quiet

(* It does not, and the original is put back. *)
CommitFails(j) ==
    /\ pc[j] = "Commit"
    /\ \/ Fault
       \/ fresh = MaxFiles /\ UNCHANGED <<faults, disturbed>>
    /\ Goto(j, "Restore")
    /\ UNCHANGED <<diskVars, actorVars, cancelled, stack, ops, clashed>>

EndJob(j) ==
    /\ ~Idle(j) /\ pc[j] = "Next"
    /\ todo[j] = {} \/ j \in cancelled
    /\ Idle(Gui)
    /\ mode' = [mode EXCEPT ![j] = "Idle"]
    /\ todo' = [todo EXCEPT ![j] = {}]
    /\ got' = [got EXCEPT ![j] = <<>>]
    /\ cancelled' = cancelled \ {j}

(* The handlers of startDelete and startImageJob: a cancelled deletion is  *)
(* not undoable, a cancelled edit is for what was done.                    *)
Finish(j) ==
    /\ EndJob(j)
    /\ IF got[j] = <<>> \/ (mode[j] = "Trash" /\ j \in cancelled)
       THEN UNCHANGED <<stack, disturbed>>
       ELSE /\ Push([kind |-> IF mode[j] = "Trash" THEN "Trash" ELSE "Replace", items |-> got[j]])
            /\ disturbed' = (disturbed \/ Evicts)
    /\ UNCHANGED <<diskVars, pc, path, slot, item, ops, faults, clashed>>

-----------------------------------------------------------------------------
(* UndoStack::undo *)

(* A slip: the oldest entry is undone first. *)
Oldest == stack[1]

Top == stack[Len(stack)]

Pop == stack' = SubSeq(stack, 1, Len(stack) - 1)

UndoTrashOrReplace ==
    /\ Idle(Gui) /\ stack # <<>> /\ Top.kind # "Move"
    /\ Pop
    /\ mode' = [mode EXCEPT ![Gui] = IF Top.kind = "Trash" THEN "Undo" ELSE "UndoReplace"]
    /\ got' = [got EXCEPT ![Gui] = Top.items]
    /\ Goto(Gui, "Next")
    /\ disturbed' = (disturbed \/ \E k \in Jobs : ~Idle(k))
    /\ UNCHANGED <<diskVars, todo, path, slot, item, cancelled, ops, faults, clashed>>

(* The edited file is trashed first, if there is one. *)
UndoNext ==
    /\ ~Idle(Gui) /\ pc[Gui] = "Next" /\ got[Gui] # <<>>
    /\ LET i == Head(got[Gui])
       IN  IF mode[Gui] = "UndoReplace" /\ at[i.origin] # None
           THEN ChooseName(Gui, i.origin)
           ELSE /\ Goto(Gui, "Restore")
                /\ Keep(Gui, NoItem.origin, 0, i)
                /\ UNCHANGED <<got, clashed, disturbed>>
    /\ UNCHANGED <<diskVars, mode, todo, cancelled, stack, ops, faults>>

UndoEnds ==
    /\ ~Idle(Gui) /\ pc[Gui] = "Next" /\ got[Gui] = <<>>
    /\ mode' = [mode EXCEPT ![Gui] = "Idle"]
    /\ UNCHANGED <<diskVars, pc, todo, path, slot, item, got, cancelled, stack>>
    /\ Quiet

(* What was moved goes back unless its path is occupied. *)
UndoMove ==
    /\ Idle(Gui) /\ stack # <<>> /\ Top.kind = "Move"
    /\ Pop
    /\ at' = IF at[Top.to] = None \/ at[Top.from] # None THEN at
             ELSE [at EXCEPT ![Top.to] = None, ![Top.from] = at[Top.to]]
    /\ disturbed' = (disturbed \/ \E k \in Jobs : ~Idle(k))
    /\ UNCHANGED <<trash, info, farTrash, gone, fresh, actorVars, pc, cancelled, ops, faults,
                   clashed>>

-----------------------------------------------------------------------------
User ==
    \/ \E j \in Jobs, paths \in SUBSET {p \in Paths : at[p] # None} \ {{}} :
           \E m \in {"Trash", "Permanent", "Edit"} : Start(j, m, paths)
    \/ \E j \in Jobs : Cancel(j)
    \/ \E p, q \in Paths : Move(p, q)
    \/ \E p \in Paths : Create(p)

MoveToTrash(a) ==
    \/ WriteInfo(a) \/ WriteInfoFails(a)
    \/ RenameToTrash(a) \/ RenameToTrashFails(a) \/ RemoveInfo(a)
    \/ QtTrash(a) \/ QtTrashFails(a)

RestoreSteps(a) == Restore(a) \/ RestoreFails(a) \/ RestoreRemovesInfo(a)

Worker(j) ==
    \/ \E p \in Paths : NextPath(j, p) \/ Unlink(j, p)
    \/ Commit(j) \/ CommitFails(j)
    \/ Finish(j)

Undo == UndoTrashOrReplace \/ UndoNext \/ UndoEnds \/ UndoMove

Next ==
    \/ User
    \/ \E a \in Actors : MoveToTrash(a) \/ RestoreSteps(a)
    \/ \E j \in Jobs : Worker(j)
    \/ Undo

Spec == Init /\ [][Next]_vars

-----------------------------------------------------------------------------
(* Properties *)

(* No file is lost: each is at a path, in a trash, or was deleted for good *)
(* or overwritten by an edit of the same path.                             *)
NoFileLost ==
    \A f \in 1..fresh :
        \/ f \in gone
        \/ \E p \in Paths : at[p] = f
        \/ \E s \in Slots : trash[s] = f \/ farTrash[s] = f

(* What is in the trash can be restored from the browser: it has a record, *)
(* which names the path that undo would put it back to.  Not so where two  *)
(* actors use one name at a time, or where the item that was restored was  *)
(* in another trash.                                                       *)
ItemsHaveRecords ==
    /\ \A s \in Slots \ clashed : trash[s] # None => info[s] # None
    /\ \A k \in 1..Len(stack) :
           stack[k].kind # "Move" =>
               \A n \in 1..Len(stack[k].items) :
                   LET i == stack[k].items[n]
                   IN  i.far \/ i.slot \in clashed \/ info[i.slot] = i.origin

(* Every item the undo stack could still restore is where the entry says,  *)
(* and is the file that was deleted.                                       *)
EntriesAreGood ==
    \A k \in 1..Len(stack) :
        stack[k].kind # "Move" =>
            \A n \in 1..Len(stack[k].items) :
                Held(stack[k].items[n]) = stack[k].items[n].file

(* Undoing all there is to undo brings back every file where it was, if    *)
(* operations did not overlap, none failed, none was cancelled or dropped  *)
(* off the stack, and nobody made a file in between.                       *)
UndoIsInverse ==
    (\A a \in Actors : Idle(a)) /\ stack = <<>> /\ ~disturbed => at = Numbering

(* Said of moveToTrash: the record is written first, since an item without *)
(* one cannot be restored.                                                 *)
ItemsAlwaysHaveRecords == \A s \in Slots : trash[s] # None => info[s] # None
=============================================================================
