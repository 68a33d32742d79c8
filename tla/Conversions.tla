----------------------------- MODULE Conversions ----------------------------
(* Converting images (fs/jobs/ImageJob.cpp) and videos (fs/jobs/MediaJob.cpp *)
(* with ffmpeg): jobs that run at once in one folder, each taking its files  *)
(* in turn, asking about a name that is taken, writing beside it and putting *)
(* the result in its place, while other programs use the folder too.         *)
EXTENDS Naturals, FiniteSets

CONSTANTS Jobs,
          KindOf,       \* [Jobs -> {"image", "media"}]
          Selection,    \* [Jobs -> the names of files of the job's kind]
          InFormat,     \* [Jobs -> those in the target's format, .jpeg or .jpg]
          Names,        \* the names used
          Converted,    \* [Jobs -> [Names -> Names]]: source to destination
          Unique,       \* [Names -> Names]: where " (2)" leads
          MaxTouches    \* bound on what other programs do

VARIABLES
    disk,       \* [Names -> "none", "own", "others", "made" or "half"]
    partial,    \* [Names -> the job whose output the partial file holds, or 0]
    complete,   \* [Jobs -> BOOLEAN]: ffmpeg has ended well
    stage,      \* [Jobs -> "next", "asking", "converting", "ended"]
    todo,       \* [Jobs -> the names still to be taken]
    source, destination,    \* [Jobs -> Names]
    agreed,     \* the names the user agreed to have replaced
    cancelled,  \* [Jobs -> BOOLEAN]
    touched     \* the names other programs used

vars == <<disk, partial, complete, stage, todo, source, destination, agreed, cancelled, touched>>

IsFile(n) == disk[n] # "none"

(* The same name with the other extension. *)
DestinationOf(j, n) == Converted[j][n]
Sources == UNION {Selection[j] : j \in Jobs}

(* registerFileTypeActions(): what is selected when a conversion is offered, *)
(* and not every image of it in the format already.                          *)
Offered(j, paths) ==
    /\ paths # {} /\ paths \subseteq Selection[j]
    /\ KindOf[j] = "image" => ~ paths \subseteq InFormat[j]

Init ==
    /\ disk \in {d \in [Names -> {"none", "own"}] : \A n \in Sources : d[n] = "own"}
    /\ partial = [n \in Names |-> 0]
    /\ complete = [j \in Jobs |-> FALSE]
    /\ stage = [j \in Jobs |-> "next"]
    /\ todo \in [Jobs -> SUBSET Sources]
    /\ \A j \in Jobs : Offered(j, todo[j])
    /\ source \in {[j \in Jobs |-> CHOOSE n \in Selection[j] : TRUE]}
    /\ destination = source
    /\ agreed = {} /\ touched = {}
    /\ cancelled = [j \in Jobs |-> FALSE]

(* What a conversion begins by: ffmpeg starts a partial file of its own      *)
(* making, in place of any that is there; an image is written to a file      *)
(* nobody else knows.                                                        *)
Begin(j, n) ==
    /\ stage' = [stage EXCEPT ![j] = "converting"]
    /\ destination' = [destination EXCEPT ![j] = n]
    /\ partial' = IF KindOf[j] = "media" THEN [partial EXCEPT ![n] = j] ELSE partial
    /\ complete' = [complete EXCEPT ![j] = FALSE]

(* execute(): the next name; what is gone, or has the format already, is     *)
(* passed over.                                                              *)
Take(j, n) ==
    /\ stage[j] = "next" /\ ~cancelled[j] /\ n \in todo[j]
    /\ todo' = [todo EXCEPT ![j] = @ \ {n}]
    /\ LET d == DestinationOf(j, n)
       IN  IF ~IsFile(n) \/ d = n
           THEN UNCHANGED <<partial, complete, stage, source, destination>>
           ELSE /\ source' = [source EXCEPT ![j] = n]
                /\ IF IsFile(d)
                   THEN /\ stage' = [stage EXCEPT ![j] = "asking"]
                        /\ destination' = [destination EXCEPT ![j] = d]
                        /\ UNCHANGED <<partial, complete>>
                   ELSE Begin(j, d)
    /\ UNCHANGED <<disk, agreed, cancelled, touched>>

(* The answers to the question about a name that is taken. *)
Overwrite(j) ==
    /\ stage[j] = "asking" /\ ~cancelled[j]
    /\ Begin(j, destination[j])
    /\ agreed' = agreed \cup {destination[j]}
    /\ UNCHANGED <<disk, todo, source, cancelled, touched>>

UniquePath(n) == IF IsFile(Unique[n]) THEN {} ELSE {Unique[n]}

Rename(j) ==
    /\ stage[j] = "asking" /\ ~cancelled[j]
    /\ IF UniquePath(destination[j]) = {}
       THEN /\ stage' = [stage EXCEPT ![j] = "next"]
            /\ UNCHANGED <<partial, complete, destination>>
       ELSE Begin(j, Unique[destination[j]])
    /\ UNCHANGED <<disk, todo, source, agreed, cancelled, touched>>

Skip(j) ==
    /\ stage[j] = "asking"
    /\ stage' = [stage EXCEPT ![j] = "next"]
    /\ UNCHANGED <<disk, partial, complete, todo, source, destination, agreed, cancelled, touched>>

(* The user cancels, from the bar or as the answer. *)
Cancel(j) ==
    /\ stage[j] # "ended" /\ ~cancelled[j]
    /\ cancelled' = [cancelled EXCEPT ![j] = TRUE]
    /\ stage' = IF stage[j] = "asking" THEN [stage EXCEPT ![j] = "next"] ELSE stage
    /\ UNCHANGED <<disk, partial, complete, todo, source, destination, agreed, touched>>

(* The end of a conversion that failed or was cancelled. *)
BreakOff(j) ==
    /\ stage[j] = "converting"
    /\ stage' = [stage EXCEPT ![j] = "next"]
    /\ partial' = IF KindOf[j] = "media" THEN [partial EXCEPT ![destination[j]] = 0]
                                         ELSE partial
    /\ UNCHANGED <<disk, complete, todo, source, destination, agreed, cancelled, touched>>

(* ffmpeg writes to the end of its file, which has no name any more if       *)
(* another job began one in its place.                                       *)
Write(j) ==
    /\ stage[j] = "converting" /\ KindOf[j] = "media" /\ ~complete[j]
    /\ complete' = [complete EXCEPT ![j] = TRUE]
    /\ UNCHANGED <<disk, partial, stage, todo, source, destination, agreed, cancelled,
                   touched>>

(* convertOne(), the end of a video: what stands under the name goes, and    *)
(* the partial file gets it.                                                 *)
PutVideo(j) ==
    LET d == destination[j]
    IN  /\ stage[j] = "converting" /\ KindOf[j] = "media" /\ complete[j]
        /\ disk' = [disk EXCEPT ![d] = CASE partial[d] = 0          -> "none"
                                         [] complete[partial[d]] -> "made"
                                         [] OTHER                   -> "half"]
        /\ partial' = [partial EXCEPT ![d] = 0]
        /\ stage' = [stage EXCEPT ![j] = "next"]
        /\ UNCHANGED <<complete, todo, source, destination, agreed, cancelled, touched>>

(* convertOne(), the end of an image: QSaveFile puts it in place in one step. *)
PutImage(j) ==
    /\ stage[j] = "converting" /\ KindOf[j] = "image"
    /\ disk' = [disk EXCEPT ![destination[j]] = "made"]
    /\ stage' = [stage EXCEPT ![j] = "next"]
    /\ UNCHANGED <<partial, complete, todo, source, destination, agreed, cancelled, touched>>

End(j) ==
    /\ stage[j] = "next" /\ (cancelled[j] \/ todo[j] = {})
    /\ stage' = [stage EXCEPT ![j] = "ended"]
    /\ UNCHANGED <<disk, partial, complete, todo, source, destination, agreed, cancelled, touched>>

(* Other programs make a file, or remove one. *)
OthersTouch(n) ==
    /\ Cardinality(touched) < MaxTouches /\ n \notin touched
    /\ disk' = [disk EXCEPT ![n] = IF @ = "none" THEN "others" ELSE "none"]
    /\ touched' = touched \cup {n}
    /\ UNCHANGED <<partial, complete, stage, todo, source, destination, agreed, cancelled>>

Next ==
    \/ \E j \in Jobs : \/ Overwrite(j) \/ Rename(j) \/ Skip(j) \/ Cancel(j) \/ BreakOff(j)
                       \/ Write(j) \/ PutVideo(j) \/ PutImage(j) \/ End(j)
                       \/ \E n \in Names : Take(j, n)
    \/ \E n \in Names : OthersTouch(n)

Spec == Init /\ [][Next]_vars

-----------------------------------------------------------------------------
(* Whatever jobs and other programs do, and wherever it all stops, no name   *)
(* holds half a conversion, and a file to be converted is as it was, unless  *)
(* the user agreed to have it replaced or another program took it away.      *)
ConversionsAreWhole ==
    /\ \A n \in Names : disk[n] # "half"
    /\ \A n \in Sources \ (agreed \cup touched) : disk[n] = "own"
=============================================================================
