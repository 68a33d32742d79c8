------------------------------ MODULE Transfer ------------------------------
(***************************************************************************)
(* Copies and moves (src/fs/jobs/TransferJob.cpp, src/fs/UniquePath.h and  *)
(* what FileOperations::runTransfer makes of the result).                  *)
(*                                                                         *)
(* Several transfers run at a time, each on a worker of its own, and step  *)
(* through their items one system call after the other.  A file is copied  *)
(* in chunks into <name>.pf-partial, which is then renamed; a link is made *)
(* anew; a move within one filesystem is a rename.  Files are inodes, so a *)
(* job that holds one open goes on writing into it wherever its name goes. *)
(*                                                                         *)
(* Left out: the directories of a tree, which are made before and removed  *)
(* after their contents, and modes, times and attributes.                  *)
(***************************************************************************)
EXTENDS Naturals, Sequences, FiniteSetsExt, Functions, TLC

CONSTANTS Dirs,       \* directories
          Foreign,    \* those of them on another filesystem than the rest
          Targets,    \* those that something is copied or moved into
          Names,      \* file names
          Jobs,       \* transfers
          Kinds,      \* what may be at a path at first
          MaxItems,   \* bound: how many items each transfer has
          MaxCopies,  \* uniquePath's limit on the counter
          MaxFaults   \* bound: how many system calls fail for no modelled reason

ASSUME TransferAssumption ==
    /\ Foreign \subseteq Dirs
    /\ Targets \subseteq Dirs
    /\ Kinds \subseteq {"none", "file", "link", "dangling"}
    /\ Names # {}
    /\ MaxItems \in Nat \ {0}
    /\ MaxCopies \in Nat \ {0}
    /\ MaxFaults \in Nat

(* For TLC: which job is which makes no difference. *)
JobSymmetry == Permutations(Jobs)

Path == [dir : Dirs, name : Names, copy : 1..MaxCopies, partial : BOOLEAN]

Place(d, n, c) == [dir |-> d, name |-> n, copy |-> c, partial |-> FALSE]

Partial(p) == [p EXCEPT !.partial = TRUE]

AnyPath == CHOOSE p \in Path : TRUE

(* The paths of the files that are there from the beginning. *)
Source == {Place(d, n, 1) : d \in Dirs, n \in Names}

Chunks == 1..2

(* An inode is known by the path it was found at, or by the job that made  *)
(* it and the item it was made for.                                        *)
Inode == (Source \X {0}) \cup (Jobs \X (1..MaxItems))

None == <<>>

VARIABLES
    \* the file systems
    fs,         \* the inode at each path, or None
    nodes,      \* the inodes: a kind, and for each chunk the source it is from
    faults,     \* how many system calls have failed for no modelled reason
    \* the transfers: what they were asked to do ...
    work,       \* mode, target directory and sources
    \* ... and where they are
    pc, cancelled,
    links,      \* the sources enumerated as links
    at,         \* the item in hand
    dest,       \* the path resolveDestination settled on
    fd,         \* the inodes open for reading and for writing
    chunk,      \* how many chunks have been written
    created,    \* m_createdPaths
    removed,    \* m_removedSources
    \* history
    told,       \* the user said Overwrite for the item in hand
    contested,  \* another job changed what the item in hand is about
    shared,     \* inodes two jobs wrote to, or one renamed that was not its own
    given,      \* what was given up knowingly, or in a contest
    moved,      \* where each job has moved what
    ragged      \* jobs that could not remove a source after copying it

fsVars   == <<fs, nodes, faults>>
itemVars == <<at, dest, fd, chunk, told>>
history  == <<contested, shared, given, ragged>>
logVars  == <<created, removed, moved>>
vars     == <<fsVars, work, pc, cancelled, links, itemVars, logVars,
              history>>

NoNode == [kind |-> "none", data |-> [c \in Chunks |-> None]]

Node == [kind : Kinds \cup {"none", "file"}, data : [Chunks -> Source \cup {None}]]

Work == [mode : {"Copy", "Move"}, target : Targets, sources : Seq(Source)]

PC == {"Submitted", "Next", "Asking", "Rename", "Copy", "Link", "Write", "Unlink", "Done"}

TypeOK ==
    /\ nodes \in [Inode -> Node]
    /\ fs \in [Path -> Inode \cup {None}]
    /\ faults \in 0..MaxFaults
    /\ work \in [Jobs -> Work] /\ \A j \in Jobs : Len(work[j].sources) <= MaxItems
    /\ pc \in [Jobs -> PC]
    /\ cancelled \subseteq Jobs
    /\ links \in [Jobs -> SUBSET Source]
    /\ at \in [Jobs -> Nat] /\ \A j \in Jobs : at[j] \in 1..(Len(work[j].sources) + 1)
    /\ dest \in [Jobs -> Path]
    /\ fd \in [Jobs -> [in : Inode \cup {None}, out : Inode \cup {None}]]
    /\ chunk \in [Jobs -> 0..Cardinality(Chunks)]
    /\ created \in [Jobs -> Seq(Path)] /\ removed \in [Jobs -> Seq(Source)]
    /\ told \subseteq Jobs /\ contested \subseteq Jobs
    /\ shared \subseteq Inode
    /\ given \subseteq Source
    /\ moved \in [Jobs -> SUBSET (Source \X Path)]
    /\ ragged \subseteq Jobs

Exists(p) == fs[p] # None /\ nodes[fs[p]].kind # "dangling"

HoldsLink(p) == fs[p] # None /\ nodes[fs[p]].kind # "file"

SameFilesystem(d, e) == d \in Foreign <=> e \in Foreign

(* The item in hand, and the name it would have in the target directory. *)
Item(j) == work[j].sources[at[j]]

Natural(j) == [Item(j) EXCEPT !.dir = work[j].target]

IsLink(j) == Item(j) \in links[j]

Init ==
    /\ \E kind \in [Source -> Kinds] :
           /\ nodes = [i \in Inode |->
                  IF i[2] = 0 THEN [kind |-> kind[i[1]], data |-> [c \in Chunks |-> i[1]]]
                  ELSE NoNode]
           /\ fs = [p \in Path |-> IF p \in Source /\ kind[p] # "none" THEN <<p, 0>> ELSE None]
    /\ work \in [Jobs -> {w \in [mode : {"Copy", "Move"}, target : Targets,
                                 sources : UNION {[1..n -> Source] : n \in 0..MaxItems}] :
                              /\ IsInjective(w.sources)
                              /\ \A i \in DOMAIN w.sources : fs[w.sources[i]] # None}]
    /\ MapThenSumSet(LAMBDA j : Len(work[j].sources), Jobs) <= MaxItems
    /\ faults = 0
    /\ pc = [j \in Jobs |-> "Submitted"]
    /\ cancelled = {}
    /\ links = [j \in Jobs |-> {}]
    /\ at = [j \in Jobs |-> 1]
    /\ dest = [j \in Jobs |-> AnyPath]
    /\ fd = [j \in Jobs |-> [in |-> None, out |-> None]]
    /\ chunk = [j \in Jobs |-> 0]
    /\ created = [j \in Jobs |-> <<>>]
    /\ removed = [j \in Jobs |-> <<>>]
    /\ told = {} /\ contested = {} /\ shared = {} /\ given = {}
    /\ moved = [j \in Jobs |-> {}] /\ ragged = {}

-----------------------------------------------------------------------------
(* What is kept track of for the properties *)

(* Some path holds, under its final name, all of what inode o held. *)
WholeIn(f, nd, o) ==
    \E p \in DOMAIN f : ~p.partial /\ f[p] # None /\ nd[f[p]].data = [c \in Chunks |-> o]

Uses(j) == {Item(j), Natural(j), dest[j], Partial(dest[j])}

Working == {j \in Jobs : pc[j] \notin {"Submitted", "Next", "Done"}}

KeepsBothOfLink(j) == IsLink(j) /\ dest[j] # Natural(j)

(* Job j changes what is at paths: others that use them are in a contest,  *)
(* and what is lost is given up if the user was told, if j is in a contest *)
(* or if j keeps both of a link.                                           *)
Touches(j, paths) ==
    /\ contested' = contested \cup {k \in Working \ {j} : Uses(k) \cap paths # {}}
    /\ given' = given \cup
           {o \in Source : /\ WholeIn(fs, nodes, o) /\ ~WholeIn(fs', nodes', o)
                        /\ (j \in told \cup contested \/ KeepsBothOfLink(j))}
    /\ UNCHANGED ragged

TouchesNothing == UNCHANGED <<fs, nodes, history>>

Fault == faults < MaxFaults /\ faults' = faults + 1

-----------------------------------------------------------------------------
(* TransferJob::enumerate and the head of the loop in execute *)

Goto(j, label) == pc' = [pc EXCEPT ![j] = label]

(* On to the next item: the path and the answer were the last one's. *)
NextItem(j) ==
    /\ at' = [at EXCEPT ![j] = @ + 1]
    /\ dest' = [dest EXCEPT ![j] = AnyPath]
    /\ told' = told \ {j}
    /\ Goto(j, "Next")

(* Sources that are gone are taken for files. *)
Enumerate(j) ==
    /\ pc[j] = "Submitted"
    /\ Goto(j, IF j \in cancelled THEN "Done" ELSE "Next")
    /\ links' = [links EXCEPT ![j] = {p \in Range(work[j].sources) : HoldsLink(p)}]
    /\ TouchesNothing
    /\ UNCHANGED <<faults, work, cancelled, itemVars, logVars>>

(* Where the item goes is settled: a move tries rename(2) first if stat(2) *)
(* of the source, which follows links, says it is on the same filesystem.  *)
Settle(j, p) ==
    /\ dest' = [dest EXCEPT ![j] = p]
    /\ \E same \in IF ~Exists(Item(j)) THEN {FALSE}
                   ELSE IF IsLink(j) THEN BOOLEAN
                   ELSE {SameFilesystem(Item(j).dir, work[j].target)} :
           Goto(j, IF work[j].mode = "Move" /\ same THEN "Rename" ELSE "Copy")

(* A slip: the destination is taken as it is. *)
BeginUnasked(j) ==
    /\ pc[j] = "Next" /\ j \notin cancelled
    /\ at[j] <= Len(work[j].sources)
    /\ Settle(j, Natural(j))
    /\ told' = told \ {j}
    /\ contested' = contested \ {j}
    /\ UNCHANGED <<fsVars, work, cancelled, links, at, fd, chunk, logVars, shared, given, ragged>>

(* resolveDestination up to its question. *)
Begin(j) ==
    /\ pc[j] = "Next" /\ j \notin cancelled
    /\ at[j] <= Len(work[j].sources)
    /\ IF Exists(Natural(j)) THEN Goto(j, "Asking") /\ dest' = [dest EXCEPT ![j] = Natural(j)]
       ELSE Settle(j, Natural(j))
    /\ told' = told \ {j}
    /\ contested' = contested \ {j}
    /\ UNCHANGED <<fsVars, work, cancelled, links, at, fd, chunk, logVars, shared, given, ragged>>

(* uniquePath: the first counter whose name is free, links or not. *)
FreeCopies(p) == {c \in 2..MaxCopies : fs[[p EXCEPT !.copy = c]] = None}

Unique(p) == [p EXCEPT !.copy = CHOOSE c \in FreeCopies(p) : \A e \in FreeCopies(p) : c <= e]

(* Overwrite, and OverwriteIfNewer when it is. *)
AnswerOverwrite(j) ==
    /\ pc[j] = "Asking"
    /\ Settle(j, Natural(j))
    /\ told' = told \cup {j}
    /\ TouchesNothing
    /\ UNCHANGED <<faults, work, cancelled, links, at, fd, chunk, logVars>>

(* Rename, "Keep both" on the button. *)
AnswerRename(j) ==
    /\ pc[j] = "Asking"
    /\ FreeCopies(Natural(j)) # {}
    /\ Settle(j, Unique(Natural(j)))
    /\ TouchesNothing
    /\ UNCHANGED <<faults, work, cancelled, links, at, fd, chunk, told, logVars>>

(* Skip, OverwriteIfNewer when it is not, Cancel, and no free name. *)
AnswerSkip(j) ==
    /\ pc[j] = "Asking"
    /\ NextItem(j)
    /\ \/ UNCHANGED cancelled
       \/ cancelled' = cancelled \cup {j}
    /\ TouchesNothing
    /\ UNCHANGED <<faults, work, links, fd, chunk, logVars>>

-----------------------------------------------------------------------------
(* TransferJob::transferOne, one system call after the other *)

AddCreated(j) == created' = [created EXCEPT ![j] = Append(@, dest[j])]

AddRemoved(j) ==
    /\ removed' = [removed EXCEPT ![j] = Append(@, Item(j))]
    /\ moved' = [moved EXCEPT ![j] = @ \cup {<<Item(j), dest[j]>>}]

(* rename(2) replaces what is there, and does nothing from a path to itself. *)
Renamed(from, to) == [fs EXCEPT ![from] = None, ![to] = fs[from]]

RenameItem(j) ==
    /\ pc[j] = "Rename"
    /\ fs[Item(j)] # None
    /\ SameFilesystem(Item(j).dir, work[j].target)
    /\ fs' = Renamed(Item(j), dest[j])
    /\ AddCreated(j) /\ AddRemoved(j)
    /\ NextItem(j)
    /\ UNCHANGED <<nodes, faults, work, cancelled, links, fd, chunk, shared>>
    /\ Touches(j, {Item(j), dest[j]})

(* A failed rename falls through to copy and delete.  A file that can be   *)
(* read can be renamed to itself.                                          *)
RenameFails(j) ==
    /\ pc[j] = "Rename"
    /\ IF fs[Item(j)] = None \/ ~SameFilesystem(Item(j).dir, work[j].target) THEN UNCHANGED faults
       ELSE Fault /\ Item(j) # dest[j]
    /\ Goto(j, "Copy")
    /\ TouchesNothing
    /\ UNCHANGED <<work, cancelled, links, itemVars, logVars>>

(* copySymlink: what is at the natural destination is unlinked, whatever   *)
(* path resolveDestination settled on.                                     *)
UnlinkForLink(j) ==
    /\ pc[j] = "Copy" /\ IsLink(j)
    /\ HoldsLink(Item(j))
    /\ fd' = [fd EXCEPT ![j].in = fs[Item(j)]]
    /\ fs' = [fs EXCEPT ![Natural(j)] = None]
    /\ Goto(j, "Link")
    /\ UNCHANGED <<nodes, faults, work, cancelled, links, at, dest, chunk, told, logVars,
                   shared>>
    /\ Touches(j, {Natural(j)})

(* readlink(2) fails: the source has gone or is no link any more. *)
ReadLinkFails(j) ==
    /\ pc[j] = "Copy" /\ IsLink(j)
    /\ ~HoldsLink(Item(j))
    /\ NextItem(j)
    /\ TouchesNothing
    /\ UNCHANGED <<faults, work, cancelled, links, fd, chunk, logVars>>

AfterCopy(j) ==
    IF work[j].mode = "Move" THEN Goto(j, "Unlink") /\ UNCHANGED <<at, dest, told>>
    ELSE NextItem(j)

MakeLink(j) ==
    /\ pc[j] = "Link"
    /\ fs[Natural(j)] = None
    /\ nodes' = [nodes EXCEPT ![<<j, at[j]>>] = nodes[fd[j].in]]
    /\ fs' = [fs EXCEPT ![Natural(j)] = <<j, at[j]>>]
    /\ fd' = [fd EXCEPT ![j].in = None]
    /\ AddCreated(j)
    /\ AfterCopy(j)
    /\ UNCHANGED <<faults, work, cancelled, links, chunk, removed, moved, shared>>
    /\ Touches(j, {Natural(j)})

(* symlink(2) fails when the name was taken again. *)
LinkFails(j) ==
    /\ pc[j] = "Link"
    /\ IF fs[Natural(j)] # None THEN UNCHANGED faults ELSE Fault
    /\ fd' = [fd EXCEPT ![j].in = None]
    /\ NextItem(j)
    /\ TouchesNothing
    /\ UNCHANGED <<work, cancelled, links, chunk, logVars>>

Empty == [kind |-> "file", data |-> [c \in Chunks |-> None]]

(* copyFileContents opens the source, following links, and creates or      *)
(* truncates the partial file.                                             *)
OpenFiles(j) ==
    /\ pc[j] = "Copy" /\ ~IsLink(j)
    /\ Exists(Item(j))
    /\ LET p == Partial(dest[j])
           out == IF fs[p] = None THEN <<j, at[j]>> ELSE fs[p]
       IN  /\ fs' = [fs EXCEPT ![p] = out]
           /\ nodes' = [nodes EXCEPT ![out] = Empty]
           /\ shared' = IF fs[p] = None THEN shared ELSE shared \cup {out}
           /\ fd' = [fd EXCEPT ![j] = [in |-> fs[Item(j)], out |-> out]]
    /\ chunk' = [chunk EXCEPT ![j] = 0]
    /\ Goto(j, "Write")
    /\ UNCHANGED <<faults, work, cancelled, links, at, dest, told, logVars>>
    /\ Touches(j, {Partial(dest[j])})

OpenFails(j) ==
    /\ pc[j] = "Copy" /\ ~IsLink(j)
    /\ IF ~Exists(Item(j)) THEN UNCHANGED faults ELSE Fault
    /\ NextItem(j)
    /\ TouchesNothing
    /\ UNCHANGED <<work, cancelled, links, fd, chunk, logVars>>

(* The paths the open partial file can be seen under. *)
NamesOf(inode) == {p \in Path : fs[p] = inode}

(* A chunk is copied, if progress is not refused because of a cancellation. *)
WriteChunk(j) ==
    /\ pc[j] = "Write" /\ j \notin cancelled
    /\ chunk[j] < Cardinality(Chunks)
    /\ LET c == chunk[j] + 1
       IN  /\ chunk' = [chunk EXCEPT ![j] = c]
           /\ nodes' = [nodes EXCEPT ![fd[j].out].data[c] = nodes[fd[j].in].data[c]]
    /\ fs' = fs
    /\ shared' = IF fd[j].in \in shared THEN shared \cup {fd[j].out} ELSE shared
    /\ UNCHANGED <<faults, work, pc, cancelled, links, at, dest, fd, told, logVars>>
    /\ Touches(j, NamesOf(fd[j].out))

(* Acceleration is given up: the buffered loop starts from an empty file. *)
FallBack(j) ==
    /\ pc[j] = "Write" /\ chunk[j] > 0
    /\ Fault
    /\ chunk' = [chunk EXCEPT ![j] = 0]
    /\ nodes' = [nodes EXCEPT ![fd[j].out] = Empty]
    /\ fs' = fs
    /\ UNCHANGED <<work, pc, cancelled, links, at, dest, fd, told, logVars,
                   shared>>
    /\ Touches(j, NamesOf(fd[j].out))

(* The partial file gets its final name, be it another job's by now. *)
RenamesPartial(j) ==
    /\ fs' = Renamed(Partial(dest[j]), dest[j])
    /\ shared' = shared \cup ({fs[Partial(dest[j])]} \ {fd[j].out})

Closed(j) ==
    /\ fd' = [fd EXCEPT ![j] = [in |-> None, out |-> None]]
    /\ chunk' = [chunk EXCEPT ![j] = 0]

(* A slip: the partial file is left where it is. *)
AbandonCopyKeeping(j) ==
    /\ pc[j] = "Write"
    /\ IF j \in cancelled THEN UNCHANGED faults ELSE Fault
    /\ Closed(j) /\ NextItem(j)
    /\ TouchesNothing
    /\ UNCHANGED <<work, cancelled, links, logVars>>

(* A slip: the destination is recorded before the copy's fate is known. *)
AbandonCopyRecording(j) ==
    /\ pc[j] = "Write"
    /\ IF j \in cancelled \/ (chunk[j] = Cardinality(Chunks) /\ fs[Partial(dest[j])] = None)
       THEN UNCHANGED faults ELSE Fault
    /\ fs' = [fs EXCEPT ![Partial(dest[j])] = None]
    /\ Closed(j) /\ NextItem(j)
    /\ AddCreated(j)
    /\ UNCHANGED <<nodes, work, cancelled, links, removed, moved, shared>>
    /\ Touches(j, {Partial(dest[j])})

(* Cancelled, or a read, a write or the rename failed: the partial file    *)
(* goes.                                                                   *)
AbandonCopy(j) ==
    /\ pc[j] = "Write"
    /\ IF j \in cancelled \/ (chunk[j] = Cardinality(Chunks) /\ fs[Partial(dest[j])] = None)
       THEN UNCHANGED faults ELSE Fault
    /\ fs' = [fs EXCEPT ![Partial(dest[j])] = None]
    /\ Closed(j) /\ NextItem(j)
    /\ UNCHANGED <<nodes, work, cancelled, links, logVars, shared>>
    /\ Touches(j, {Partial(dest[j])})

(* A slip: the rename does not wait for the last chunk. *)
RenamePartialEarly(j) ==
    /\ pc[j] = "Write" /\ j \notin cancelled
    /\ fs[Partial(dest[j])] # None
    /\ RenamesPartial(j)
    /\ Closed(j)
    /\ AddCreated(j)
    /\ AfterCopy(j)
    /\ UNCHANGED <<nodes, faults, work, cancelled, links, removed, moved>>
    /\ Touches(j, {dest[j], Partial(dest[j])})

(* The whole file gets its name. *)
RenamePartial(j) ==
    /\ pc[j] = "Write" /\ j \notin cancelled
    /\ chunk[j] = Cardinality(Chunks)
    /\ fs[Partial(dest[j])] # None
    /\ RenamesPartial(j)
    /\ Closed(j)
    /\ AddCreated(j)
    /\ AfterCopy(j)
    /\ UNCHANGED <<nodes, faults, work, cancelled, links, removed, moved>>
    /\ Touches(j, {dest[j], Partial(dest[j])})

(* The source of a move goes once its copy is complete. *)
UnlinkSource(j) ==
    /\ pc[j] = "Unlink"
    /\ fs[Item(j)] # None
    /\ fs' = [fs EXCEPT ![Item(j)] = None]
    /\ AddRemoved(j)
    /\ NextItem(j)
    /\ UNCHANGED <<nodes, faults, work, cancelled, links, fd, chunk, created, shared>>
    /\ Touches(j, {Item(j)})

UnlinkFails(j) ==
    /\ pc[j] = "Unlink"
    /\ IF fs[Item(j)] = None THEN UNCHANGED faults ELSE Fault
    /\ NextItem(j)
    /\ ragged' = ragged \cup {j}
    /\ UNCHANGED <<fs, nodes, work, cancelled, links, fd, chunk, logVars, contested, shared, given>>

-----------------------------------------------------------------------------
(* What runTransfer's handler pushes on the undo stack when the job has    *)
(* ended: what was removed and what was created, position by position.     *)
Undo(j) ==
    LET n == IF work[j].mode = "Copy" \/ j \in cancelled THEN 0
             ELSE IF Len(removed[j]) < Len(created[j]) THEN Len(removed[j]) ELSE Len(created[j])
    IN  [i \in 1..n |-> <<removed[j][i], created[j][i]>>]

Finish(j) ==
    /\ pc[j] = "Next"
    /\ j \in cancelled \/ at[j] > Len(work[j].sources)
    /\ Goto(j, "Done")
    /\ TouchesNothing
    /\ UNCHANGED <<faults, work, cancelled, links, itemVars, created, removed, moved>>

Cancel(j) ==
    /\ pc[j] # "Done" /\ j \notin cancelled
    /\ cancelled' = cancelled \cup {j}
    /\ IF pc[j] = "Asking" THEN NextItem(j) ELSE UNCHANGED <<pc, at, dest, told>>
    /\ TouchesNothing
    /\ UNCHANGED <<faults, work, links, fd, chunk, logVars>>

Step(j) ==
    \/ Enumerate(j) \/ Begin(j)
    \/ AnswerOverwrite(j) \/ AnswerRename(j) \/ AnswerSkip(j)
    \/ RenameItem(j) \/ RenameFails(j)
    \/ UnlinkForLink(j) \/ ReadLinkFails(j) \/ MakeLink(j) \/ LinkFails(j)
    \/ OpenFiles(j) \/ OpenFails(j) \/ WriteChunk(j) \/ FallBack(j)
    \/ AbandonCopy(j) \/ RenamePartial(j)
    \/ UnlinkSource(j) \/ UnlinkFails(j)
    \/ Finish(j)

Next == \E j \in Jobs : Step(j) \/ Cancel(j)

Spec == Init /\ [][Next]_vars

-----------------------------------------------------------------------------
(* Properties *)

WholeFile(inode) == \E o \in Source : nodes[inode].data = [c \in Chunks |-> o]

(* Whatever is copied, cancelled, failed or replaced, a file under its     *)
(* final name is whole, all of it from one source; save what two jobs      *)
(* wrote into, or one took for its own, through the same partial name.     *)
DestinationsAreWhole ==
    \A p \in Path : ~p.partial /\ fs[p] \notin {None} \cup shared => WholeFile(fs[p])

(* At every moment all that was there at first is still somewhere, unless  *)
(* the user chose to overwrite it or two jobs worked on the same paths.    *)
(* Links without a target count as absent for QFileInfo::exists and are    *)
(* replaced unasked, so they are left aside.                               *)
NothingLost ==
    \A o \in Source :
        nodes[<<o, 0>>].kind \in {"none", "dangling"} \/ o \in given \/ WholeIn(fs, nodes, o)

(* No partial file is left behind by a job that is not writing it.         *)
PartialsAreInUse ==
    \A p \in Path : p.partial /\ fs[p] # None =>
        \E j \in Jobs : pc[j] = "Write" /\ Partial(dest[j]) = p

(* What is pushed on the undo stack pairs each source with the place its   *)
(* file went to, and leaves none out; save after a failed unlink, which    *)
(* shifts the pairs that follow.                                           *)
UndoIsExact ==
    \A j \in Jobs \ ragged :
        pc[j] = "Done" /\ work[j].mode = "Move" /\ j \notin cancelled =>
            Range(Undo(j)) = moved[j]

(* Said of kPartialSuffix (src/fs/jobs/TransferJob.h): there is no         *)
(* half-written file where a whole one should be.                          *)
NeverHalfWritten == \A p \in Path : ~p.partial /\ fs[p] # None => WholeFile(fs[p])

(* Said of ConflictAction::Rename, "Keep both" (src/ui/modals/             *)
(* ConflictModal.cpp): what had the name before keeps it.                  *)
KeepBothKeepsBoth ==
    [][\A j \in Working :
           pc'[j] # pc[j] /\ pc[j] # "Asking" /\ Natural(j) \notin {Item(j), dest[j]} =>
               fs'[Natural(j)] = fs[Natural(j)]]_vars
=============================================================================
