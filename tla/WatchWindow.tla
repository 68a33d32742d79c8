---------------------------- MODULE WatchWindow -----------------------------
(***************************************************************************)
(* One debounce window of a watched directory: files come, go, change and  *)
(* are renamed, the kernel reports it, and the delta that WatchDelta makes *)
(* of the reports is compared with what has become of the directory.       *)
(***************************************************************************)
EXTENDS WatchDelta, FiniteSets

CONSTANT MaxEvents   \* bound: how many events one window holds

VARIABLES before,    \* the names in the directory when the window opened
          now,       \* the names in it now
          touched,   \* the names in it whose content is not what it was
          log        \* the events of the window, oldest first

vars == <<before, now, touched, log>>

TypeOK ==
    /\ Coalesce(log) \in Delta
    /\ before \subseteq Names
    /\ now \subseteq Names
    /\ touched \subseteq now
    /\ log \in Seq(Event)

Init ==
    /\ before \in SUBSET Names
    /\ now = before
    /\ touched = {}
    /\ log = <<>>

Room(k) == Len(log) + k <= MaxEvents

Create(n) ==
    /\ Room(1)
    /\ n \notin now
    /\ now' = now \cup {n}
    /\ touched' = touched \cup {n}
    /\ \E kind \in {"Created", "MovedTo"} : log' = Append(log, Report(kind, n))

Remove(n) ==
    /\ Room(1)
    /\ n \in now
    /\ now' = now \ {n}
    /\ touched' = touched \ {n}
    /\ \E kind \in {"Deleted", "MovedFrom"} : log' = Append(log, Report(kind, n))

Modify(n) ==
    /\ Room(1)
    /\ n \in now
    /\ now' = now
    /\ touched' = touched \cup {n}
    /\ log' = Append(log, Report("Modified", n))

(* A file moved in over another one: the kernel reports only the arrival. *)
ReplaceBy(n) ==
    /\ Room(1)
    /\ n \in now
    /\ now' = now
    /\ touched' = touched \cup {n}
    /\ log' = Append(log, Report("MovedTo", n))

(* A rename within the directory, onto a free name or over a file. *)
Rename(n, m) ==
    /\ Room(2)
    /\ n \in now /\ m # n
    /\ now' = (now \ {n}) \cup {m}
    /\ touched' = (touched \ {n}) \cup {m}
    /\ log' = log \o <<Report("MovedFrom", n), Report("MovedTo", m)>>

Next ==
    /\ \E n \in Names :
        \/ Create(n) \/ Remove(n) \/ Modify(n) \/ ReplaceBy(n)
        \/ \E m \in Names : Rename(n, m)
    /\ UNCHANGED before

Spec == Init /\ [][Next]_vars

-----------------------------------------------------------------------------
(* Properties *)

Outcome == Coalesce(log)

Refreshed == Outcome.created \cup Outcome.modified \cup {p[2] : p \in Outcome.renamed}

Dropped == Outcome.deleted \cup {p[1] : p \in Outcome.renamed}

(* The names a listing of `before` shows once the delta has been applied:  *)
(* dropped rows go, refreshed names are looked up again.                   *)
Listed == (before \ Dropped) \cup (Refreshed \cap now)

(* The name was moved away, created anew and deleted, all in one window.   *)
MovedReplacedDeleted(l, n) ==
    \E i, j, k \in 1..Len(l) :
        /\ i < j /\ j < k
        /\ l[i] = Report("MovedFrom", n)
        /\ l[j] = Report("Created", n)
        /\ l[k] = Report("Deleted", n)

(* Whatever happened in the window, short of the one history named above,  *)
(* the delta turns the old listing into the directory's present content.   *)
DeltaIsExact ==
    \A n \in Names :
        Outcome.needsFullRescan \/ MovedReplacedDeleted(log, n) \/ (n \in Listed <=> n \in now)

(* The row of a file whose content is not what it was is looked up again.  *)
ChangesAreSeen == Outcome.needsFullRescan \/ touched \subseteq Refreshed

(* A burst that names deletions tells all: a listing that shows none of    *)
(* the names is up to date and need not be rescanned (DirectoryModel).     *)
EchoTellsAll ==
    Outcome.needsFullRescan /\ Outcome.deleted # {} => now = before \ Outcome.deleted

-----------------------------------------------------------------------------
(* What the proofs rest on *)

MovedReplaced(l, n) ==
    \E i, j \in 1..Len(l) :
        i < j /\ l[i] = Report("MovedFrom", n) /\ l[j] = Report("Created", n)

(* The window of the reports l against the names that are there and those  *)
(* with fresh content.  A name it says nothing of is as it was, or went    *)
(* the one way that is not told.                                           *)
WindowAgrees(l, there, fresh) ==
    \A n \in Names :
        LET state == Window(l).states[n] IN
        /\ state \in {"Created", "Modified", "MovedTo"} => n \in there
        /\ state \in {"Deleted", "MovedFrom"} => n \notin there
        /\ state = "None" => /\ n \notin fresh
                             /\ (n \in there <=> n \in before) \/ MovedReplacedDeleted(l, n)
        /\ state = "Created" => n \notin before \/ MovedReplaced(l, n)
        /\ state = "MovedFrom" => \E i \in 1..Len(l) : l[i] = Report("MovedFrom", n)

(* A window of nothing but departures: what is there is what was not named. *)
EchoAgrees(l, there) ==
    (\A i \in 1..Len(l) : ~Shows(l[i])) => there = before \ Mentioned(l)

WindowInv ==
    /\ log \in Seq(Plain)
    /\ WindowAgrees(log, now, touched)
    /\ EchoAgrees(log, now)
=============================================================================
