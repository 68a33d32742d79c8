------------------------------ MODULE Compress ------------------------------
(* Making an archive: the sheet that asks for its name and format            *)
(* (ui/modals/CompressModal.cpp) and the job that collects the items, writes *)
(* them to a partial file and gives it its name (fs/jobs/ArchiveJob.cpp),    *)
(* beside other programs that take items away or take the name, a            *)
(* cancellation at any moment and the end of the process.                    *)
EXTENDS Naturals, Sequences

CONSTANTS Items,        \* what may be selected
          EmptyFolders, \* those of them that are folders without a file
          Formats,      \* the formats in the sheet's order, each its extension
          Writable,     \* those libarchive was built to write
          Stem          \* the name the sheet proposes

VARIABLES
    stage,          \* "closed", "asking", "queued", "writing", "ended", "dead"
    selected,       \* m_sources
    name,           \* what the box of the sheet reads: a stem, then extensions
    format,
    destination,    \* the name asked for
    readable,       \* [Items -> "yes", "no" or "gone"]
    collected,      \* m_items
    unwritten,      \* those not written yet
    partial,        \* <<>> or <<what the partial file holds>>
    disk,           \* [names used -> what stands there]
    errors,         \* what the job reports
    cancelled,
    told            \* what the status bar says of it: "", "created" or "error"

vars == <<stage, selected, name, format, destination, readable, collected, unwritten,
          partial, disk, errors, cancelled, told>>
Work == <<collected, unwritten, partial, errors, told>>

(* isFormatSupported(): the library is asked. *)
IsFormatSupported(f) == f \in Writable
Available == SelectSeq(Formats, IsFormatSupported)

Extensions == {Formats[k] : k \in DOMAIN Formats}
Names == {<<Stem>>} \cup {<<Stem, e>> : e \in Extensions}
Nothing == [by |-> "none", holds |-> {}]
Foreign == [by |-> "others", holds |-> {}]

Init ==
    /\ stage = "closed"
    /\ selected = {} /\ name = <<>> /\ format = Head(Available) /\ destination = <<>>
    /\ readable = [i \in Items |-> "yes"]
    /\ collected = {} /\ unwritten = {} /\ partial = <<>>
    /\ disk \in [Names -> {Nothing, Foreign}]
    /\ errors = {} /\ cancelled = FALSE /\ told = ""

(* start(): only what the library can write is offered. *)
Start ==
    /\ stage = "closed"
    /\ stage' = "asking"
    /\ selected' \in SUBSET Items \ {{}}
    /\ format' = Head(Available)
    /\ name' = <<Stem, Head(Available)>>
    /\ UNCHANGED <<destination, readable, disk, cancelled, Work>>

(* updateExtension(): the known extension goes, the new one comes. *)
Stripped(n) == IF Len(n) > 1 /\ n[Len(n)] \in Extensions THEN SubSeq(n, 1, Len(n) - 1) ELSE n

ChooseFormat(f) ==
    /\ stage = "asking" /\ f # format
    /\ format' = f
    /\ name' = Append(Stripped(name), f)
    /\ UNCHANGED <<stage, selected, destination, readable, disk, cancelled, Work>>

EditName ==
    /\ stage = "asking"
    /\ name' = Stripped(name)
    /\ UNCHANGED <<stage, selected, format, destination, readable, disk, cancelled, Work>>

(* accept(): a name that is taken is refused in the sheet. *)
Accept ==
    /\ stage = "asking"
    /\ disk[name] = Nothing
    /\ destination' = name
    /\ stage' = "queued"
    /\ UNCHANGED <<selected, name, format, readable, disk, cancelled, Work>>

(* collect(): what is gone by now is left out. *)
Collected == {i \in selected : readable[i] # "gone"}

(* What compressModal() says once the job has ended. *)
Report(e, c) == told' = IF e # {} THEN "error" ELSE IF c THEN "" ELSE "created"

(* enumerate(): and refused by the job, if it was taken in the meantime. The *)
(* job goes on if it counted a file and was not cancelled.                   *)
Enumerate ==
    /\ stage = "queued"
    /\ IF disk[destination] # Nothing
       THEN errors' = {"taken"} /\ UNCHANGED collected
       ELSE /\ collected' = Collected
            /\ errors' = selected \ collected'
    /\ unwritten' = collected'
    /\ IF collected' \subseteq EmptyFolders \/ cancelled
       THEN stage' = "ended" /\ Report(errors', cancelled)
       ELSE stage' = "opening" /\ UNCHANGED told
    /\ UNCHANGED <<selected, name, format, destination, readable, partial, disk, cancelled>>

Open ==
    /\ stage = "opening"
    /\ partial' = <<{}>>
    /\ stage' = "writing"
    /\ UNCHANGED <<selected, name, format, destination, readable, collected, unwritten, disk,
                   errors, cancelled, told>>

(* execute(), an item. *)
WriteItem(i) ==
    /\ stage = "writing" /\ ~cancelled /\ i \in unwritten
    /\ unwritten' = unwritten \ {i}
    /\ IF readable[i] = "yes"
       THEN partial' = <<partial[1] \cup {i}>> /\ UNCHANGED errors
       ELSE errors' = errors \cup {i} /\ UNCHANGED partial
    /\ UNCHANGED <<stage, selected, name, format, destination, readable, collected, disk, cancelled,
                   told>>

(* execute(), the end: the partial file gets its name unless the job was     *)
(* cancelled or the name is taken by now.                                    *)
Finish ==
    /\ stage = "writing"
    /\ cancelled \/ unwritten = {}
    /\ stage' = "ended"
    /\ partial' = <<>>
    /\ IF cancelled THEN UNCHANGED <<disk, errors>>
       ELSE IF disk[destination] # Nothing
       THEN errors' = errors \cup {"taken"} /\ UNCHANGED disk
       ELSE /\ disk' = [disk EXCEPT ![destination] = [by |-> "job", holds |-> partial[1]]]
            /\ UNCHANGED errors
    /\ Report(errors', cancelled)
    /\ UNCHANGED <<selected, name, format, destination, readable, collected, unwritten, cancelled>>

Cancel ==
    /\ stage \in {"queued", "opening", "writing"} /\ ~cancelled
    /\ cancelled' = TRUE
    /\ UNCHANGED <<stage, selected, name, format, destination, readable, disk, Work>>

(* The process ends: what is on disk stays. *)
Crash ==
    /\ stage \in {"opening", "writing"}
    /\ stage' = "dead"
    /\ UNCHANGED <<selected, name, format, destination, readable, disk, cancelled, Work>>

(* Other programs: an item becomes unreadable or goes, the name is taken. *)
OthersTouch ==
    /\ \/ /\ \E i \in Items, r \in {"no", "gone"} :
                readable[i] = "yes" /\ readable' = [readable EXCEPT ![i] = r]
          /\ UNCHANGED disk
       \/ /\ \E n \in Names : disk[n] = Nothing /\ disk' = [disk EXCEPT ![n] = Foreign]
          /\ UNCHANGED readable
    /\ UNCHANGED <<stage, selected, name, format, destination, cancelled, Work>>

Next ==
    \/ Start \/ EditName \/ Accept \/ Enumerate \/ Open \/ Finish \/ Cancel \/ Crash
    \/ OthersTouch
    \/ \E k \in DOMAIN Available : ChooseFormat(Available[k])
    \/ \E i \in Items : WriteItem(i)

Spec == Init /\ [][Next]_vars

-----------------------------------------------------------------------------
(* "a cancelled or crashed archive must not be left looking like a complete  *)
(* one" (ArchiveJob.cpp): whatever carries an archive's name holds every     *)
(* item that was asked for, or the report names the items it lacks; and what *)
(* another program put under a name is never replaced.                       *)
ArchivesAreComplete ==
    /\ \A n \in Names : disk[n].by = "job" => selected \subseteq disk[n].holds \cup errors
    /\ "taken" \in errors => disk[destination] = Foreign
=============================================================================
