------------------------------- MODULE Extract ------------------------------
(* Unpacking an archive (fs/jobs/ExtractJob.cpp, fs/ArchiveReader.cpp): one  *)
(* pass lists it and decides, another reads it again and writes, so what is  *)
(* decided of and what is written may differ.                                *)
EXTENDS Naturals, FiniteSets

CONSTANTS Entries,          \* what archives may contain
          Top,              \* [Entries -> the top-level name of each]
          LooseFiles,       \* those that are files at the top level
          Escaping,         \* those whose path leads out of the destination
          Contents,         \* the archives there may be: sets of entries
          MaxSwaps          \* bound on the times the archive is replaced

VARIABLES
    stage,          \* "idle", "queued", "listed", "extracting", "ended"
    archive,        \* what the archive contains now
    encrypted,
    root,           \* m_root: "here", the panel's folder, or "nested" below it
    reading,        \* the entries the second pass has still to read
    written,        \* <<root, entry, whole>> for all that was written
    cancelled,
    told,           \* what the status bar says of it
    swaps

vars == <<stage, archive, encrypted, root, reading, written, cancelled, told, swaps>>

Init ==
    /\ stage = "idle"
    /\ archive \in Contents
    /\ encrypted \in BOOLEAN
    /\ root = "here"
    /\ reading = {} /\ written = {}
    /\ cancelled = FALSE /\ told = "" /\ swaps = 0

(* singleTopLevelDirectory(): all below one folder, and no file beside it. *)
SingleTopLevelDirectory(listing) ==
    /\ listing \cap LooseFiles = {}
    /\ Cardinality({Top[e] : e \in listing}) = 1

(* isSafeDestination() *)
IsSafeDestination(e) == e \notin Escaping

(* list(): the headers of every entry; nothing at all is a file that is no   *)
(* archive.                                                                  *)
List == [entries |-> archive, encrypted |-> encrypted, error |-> archive = {}]

(* rootFor(): "extract directly instead of nesting". *)
RootFor(listing) == IF SingleTopLevelDirectory(listing) THEN "here" ELSE "nested"

(* extractCursorItem() *)
Extract ==
    /\ stage = "idle"
    /\ stage' = "queued"
    /\ UNCHANGED <<archive, encrypted, root, reading, written, cancelled, told, swaps>>

End(message) == stage' = "ended" /\ told' = IF cancelled THEN "" ELSE message

(* enumerate(): an encrypted archive, or one with a single unsafe entry, is  *)
(* refused before anything is written.                                       *)
Enumerate ==
    /\ stage = "queued"
    /\ IF \/ List.error \/ List.encrypted
          \/ \E e \in List.entries : ~IsSafeDestination(e)
       THEN /\ stage' = "ended" /\ told' = "refused"
            /\ UNCHANGED root
       ELSE /\ root' = RootFor(List.entries)
            /\ IF cancelled THEN End("")
               ELSE stage' = "listed" /\ UNCHANGED told
    /\ UNCHANGED <<archive, encrypted, reading, written, cancelled, swaps>>

(* execute() opens the archive again. *)
Open ==
    /\ stage = "listed"
    /\ stage' = "extracting"
    /\ reading' = archive
    /\ UNCHANGED <<archive, encrypted, root, written, cancelled, told, swaps>>

(* execute(), an entry: checked again, since this pass reads anew. *)
ExtractEntry(e) ==
    /\ stage = "extracting" /\ e \in reading /\ ~cancelled
    /\ IF IsSafeDestination(e)
       THEN /\ reading' = reading \ {e}
            /\ written' = written \cup {<<root, e, TRUE>>}
            /\ UNCHANGED <<stage, told>>
       ELSE /\ End("refused")
            /\ UNCHANGED <<reading, written>>
    /\ UNCHANGED <<archive, encrypted, root, cancelled, swaps>>

(* A cancellation within an entry leaves it short. *)
BreakOff(e) ==
    /\ stage = "extracting" /\ e \in reading /\ cancelled
    /\ IsSafeDestination(e)
    /\ reading' = {}
    /\ written' = written \cup {<<root, e, FALSE>>}
    /\ UNCHANGED <<archive, encrypted, root, cancelled, stage, told, swaps>>

Finish ==
    /\ stage = "extracting"
    /\ reading = {} \/ cancelled
    /\ End("extracted")
    /\ UNCHANGED <<archive, encrypted, root, reading, written, cancelled, swaps>>

Cancel ==
    /\ stage \in {"queued", "listed", "extracting"} /\ ~cancelled
    /\ cancelled' = TRUE
    /\ UNCHANGED <<stage, archive, encrypted, root, reading, written, told, swaps>>

(* The archive is replaced, but not under an open handle. *)
Swap ==
    /\ swaps < MaxSwaps
    /\ archive' \in Contents \ {archive}
    /\ swaps' = swaps + 1
    /\ UNCHANGED <<stage, encrypted, root, reading, written, cancelled, told>>

Next ==
    \/ Extract \/ Enumerate \/ Open \/ Finish \/ Cancel \/ Swap
    \/ \E e \in Entries : ExtractEntry(e) \/ BreakOff(e)

Spec == Init /\ [][Next]_vars

-----------------------------------------------------------------------------
(* Nothing is ever written outside the destination, though the archive may   *)
(* be another by the time it is read; a refusal in the listing leaves the    *)
(* disk alone; and as long as it is the same archive, a file that would lie  *)
(* loose in the panel's folder is put in a folder of the archive's name.     *)
UnpacksBelowTheDestination ==
    /\ \A w \in written : IsSafeDestination(w[2])
    /\ swaps = 0 => \A w \in written : told # "refused" /\ (w[1] = "here" => w[2] \notin LooseFiles)
=============================================================================
