------------------------------ MODULE CopyList ------------------------------
(* The copy list (app/FileOperations.cpp): copies gather into one set that   *)
(* lives on the system's clipboard, shared with every other application, and *)
(* a paste or a drop hands a set to a transfer.                              *)
EXTENDS Naturals, FiniteSets

CONSTANTS Folders,      \* the folders, each with a panel
          Files,        \* the files
          FolderOf,     \* [Files -> Folders]
          Foreign       \* what another application may put on the clipboard

VARIABLES
    focus,          \* the folder of the focused panel
    cursor,         \* [Folders -> Files]
    marked,         \* [Folders -> SUBSET Files]: the panels' selections
    pending,        \* m_pendingPaths, as a set
    isCut,          \* m_clipboardIsCut
    pastedSinceCopy,
    copySource,     \* m_copySourcePanel: at most one folder, as a set
    clipboard,      \* the system's: its paths and the mark of a cut
    transfer,       \* the transfer just begun, by a paste or a drop, <<>> before
                    \* and once the user goes on
    meant           \* [path -> the verb it was last gathered with]

vars == <<focus, cursor, marked, pending, isCut, pastedSinceCopy, copySource,
          clipboard, transfer, meant>>

Paths == Files \cup Foreign
Verb(cut) == IF cut THEN "cut" ELSE "copy"

Init ==
    /\ focus \in Folders
    /\ cursor = [d \in Folders |-> CHOOSE f \in Files : FolderOf[f] = d]
    /\ marked = [d \in Folders |-> {}]
    /\ pending = {}
    /\ isCut = FALSE
    /\ pastedSinceCopy = TRUE
    /\ copySource = {}
    /\ clipboard = [urls |-> {}, mark |-> "none"]
    /\ transfer = <<>>
    /\ meant = [p \in Paths |-> "none"]

(* selectedPaths(): the selection, or the row under the cursor. *)
Selected(d) == IF marked[d] # {} THEN marked[d] ELSE {cursor[d]}

SetClipboardPaths(paths, cut) ==
    /\ clipboard' = [urls |-> paths, mark |-> Verb(cut)]
    /\ isCut' = cut

(* clipboardIsCut(): what was put there says it, or else what this process   *)
(* did last.                                                                 *)
ClipboardIsCut == IF clipboard.mark # "none" THEN clipboard.mark = "cut" ELSE isCut

(* clearCopySourceSelection() *)
ClearCopySourceSelection ==
    /\ marked' = [d \in Folders |-> IF d \in copySource THEN {} ELSE marked[d]]
    /\ copySource' = {}

(* A copy that adds to whatever was gathered, with either verb. *)
GatheredSlip(paths, cut) == paths \cup pending

(* copySelection(): a paste, the other verb or a selection of several files  *)
(* begins a new set.                                                         *)
Gathered(paths, cut) ==
    IF pastedSinceCopy \/ cut # isCut \/ Cardinality(marked[focus]) > 1
    THEN paths
    ELSE pending \cup paths

CopySelection(cut) ==
    LET paths == Selected(focus)
    IN  /\ pending' = Gathered(paths, cut)
        /\ SetClipboardPaths(pending', cut)
        /\ pastedSinceCopy' = FALSE
        /\ transfer' = <<>>
        /\ meant' = [p \in Paths |-> IF p \in paths THEN Verb(cut) ELSE meant[p]]
        /\ UNCHANGED <<focus, cursor, marked, copySource>>

(* runTransfer(): a job is begun for exactly these paths. *)
RunTransfer(paths, cut, by) == transfer' = <<[paths |-> paths, cut |-> cut, by |-> by]>>

PasteIntoFocusedPanel ==
    /\ clipboard.urls # {}
    /\ RunTransfer(clipboard.urls, ClipboardIsCut, "paste")
    /\ pending' = {}
    /\ pastedSinceCopy' = TRUE
    /\ SetClipboardPaths({}, ClipboardIsCut)
    /\ ClearCopySourceSelection
    /\ UNCHANGED <<focus, cursor, meant>>

(* onFilesDropped(): the rows that live there already are left out. *)
OnFilesDropped(paths, d, cut) ==
    LET transferable == {f \in paths : FolderOf[f] # d}
    IN  /\ transferable # {}
        /\ RunTransfer(transferable, cut, "drop")
        /\ UNCHANGED <<focus, cursor, marked, pending, isCut, pastedSinceCopy,
                       copySource, clipboard, meant>>

(* The end of Escape's chain: first the selection, then the copy list. *)
Escape ==
    /\ transfer' = <<>>
    /\ IF marked[focus] # {}
       THEN /\ marked' = [marked EXCEPT ![focus] = {}]
            /\ UNCHANGED <<pending, pastedSinceCopy, clipboard, isCut, copySource>>
       ELSE /\ pending # {}
            /\ pending' = {}
            /\ pastedSinceCopy' = FALSE
            /\ SetClipboardPaths({}, FALSE)
            /\ ClearCopySourceSelection
    /\ UNCHANGED <<focus, cursor, meant>>

(* The user moves on: another panel, another row, a row marked or unmarked. *)
Browse ==
    /\ transfer' = <<>>
    /\ \/ /\ focus' \in Folders \ {focus}
          /\ UNCHANGED <<cursor, marked>>
       \/ /\ \E f \in Files : /\ FolderOf[f] = focus
                              /\ f # cursor[focus]
                              /\ cursor' = [cursor EXCEPT ![focus] = f]
          /\ UNCHANGED <<focus, marked>>
       \/ /\ marked' = [marked EXCEPT ![focus] =
                            IF cursor[focus] \in @ THEN @ \ {cursor[focus]}
                                                   ELSE @ \cup {cursor[focus]}]
          /\ UNCHANGED <<focus, cursor>>
    /\ UNCHANGED <<pending, isCut, pastedSinceCopy, copySource, clipboard, meant>>

(* Another application takes the clipboard, and says what it means by it. *)
Others(paths, verb) ==
    /\ clipboard' = [urls |-> paths, mark |-> verb]
    /\ meant' = [p \in Paths |-> IF p \in paths THEN verb ELSE meant[p]]
    /\ transfer' = <<>>
    /\ UNCHANGED <<focus, cursor, marked, pending, isCut, pastedSinceCopy, copySource>>

Next ==
    \/ \E cut \in BOOLEAN : CopySelection(cut)
    \/ PasteIntoFocusedPanel
    \/ \E d \in Folders, cut \in BOOLEAN : OnFilesDropped(Selected(focus), d, cut)
    \/ Escape \/ Browse
    \/ \E verb \in {"cut", "copy"} : Others(Foreign, verb)

Spec == Init /\ [][Next]_vars

-----------------------------------------------------------------------------
(* A paste moves or copies each file as the user asked for that file last,   *)
(* in whichever application: a gathered set never mixes the verbs, and one   *)
(* verb is never taken for the other.                                        *)
FilesGoAsAsked ==
    (transfer # <<>> /\ transfer[1].by = "paste") =>
        \A p \in transfer[1].paths : meant[p] = Verb(transfer[1].cut)
=============================================================================
