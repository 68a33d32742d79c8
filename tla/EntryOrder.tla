----------------------------- MODULE EntryOrder -----------------------------
(* The order a listing is sorted by: naturalCompare() (core/NaturalCompare)  *)
(* and FilterSortProxy::lessThan().  A name is a sequence of characters; the *)
(* collator, which is Qt's, compares what case folding leaves of them.       *)
(*                                                                           *)
(* The state is a choice of the sort settings and of two entries; the        *)
(* property quantifies over a third.                                         *)
EXTENDS Integers, Sequences, SequencesExt, FiniteSets, FiniteSetsExt

CONSTANTS
    Codes,          \* [characters -> Nat]: their code points
    Lowered,        \* [characters -> characters]: QChar::toLower()
    Digits,         \* the characters '0'..'9' in use
    Entries         \* records [name, dir, size]

VARIABLES key, reverse, directoriesFirst, left, right

vars == <<key, reverse, directoriesFirst, left, right>>

Sign(a, b) == IF a < b THEN -1 ELSE IF a > b THEN 1 ELSE 0

(* Two sequences by the first place where [rank] tells them apart, the       *)
(* shorter first when there is none.                                         *)
ByRank(l, r, rank) ==
    LET differ == {i \in DOMAIN l \cap DOMAIN r : rank[l[i]] # rank[r[i]]}
    IN  IF differ = {} THEN Sign(Len(l), Len(r))
        ELSE Sign(rank[l[Min(differ)]], rank[r[Min(differ)]])

(* The maximal runs of digits and of other characters, in order. *)
Runs(name) ==
    FoldLeft(LAMBDA runs, c :
               IF runs # <<>> /\ ((Last(Last(runs)) \in Digits) <=> (c \in Digits))
               THEN Append(Front(runs), Append(Last(runs), c))
               ELSE Append(runs, <<c>>),
             <<>>, name)

(* A run of digits without the zeros it starts with; the last digit stays. *)
Significant(run) ==
    LET zeros == {i \in 1..(Len(run) - 1) : \A j \in 1..i : Codes[run[j]] = Codes["0"]}
    IN  SubSeq(run, Cardinality(zeros) + 1, Len(run))

(* compareDigitRuns(): by value, then by how the value was written. *)
CompareDigitRuns(l, r) ==
    LET a == Significant(l)
        b == Significant(r)
    IN  IF Len(a) # Len(b) THEN Sign(Len(a), Len(b))
        ELSE IF ByRank(a, b, Codes) # 0 THEN ByRank(a, b, Codes)
        ELSE Sign(Len(l), Len(r))

(* One turn of the loop.  Against a run of digits the other side's run of    *)
(* non-digits is compared with an empty one.                                 *)
CompareRuns(l, r) ==
    LET numberL == l[1] \in Digits
        numberR == r[1] \in Digits
    IN  IF numberL /\ numberR THEN CompareDigitRuns(l, r)
        ELSE IF numberL THEN -1
        ELSE IF numberR THEN 1
        ELSE ByRank(l, r, [c \in DOMAIN Codes |-> Codes[Lowered[c]]])

(* naturalCompare(): a tie falls back to the exact characters. *)
NaturalCompare(l, r) ==
    LET a == Runs(l)
        b == Runs(r)
        differ == {i \in DOMAIN a \cap DOMAIN b : CompareRuns(a[i], b[i]) # 0}
    IN  IF differ # {} THEN CompareRuns(a[Min(differ)], b[Min(differ)])
        ELSE IF Len(a) # Len(b) THEN Sign(Len(a), Len(b))
        ELSE ByRank(l, r, Codes)

(* typeKey(): what follows the last dot, unless that dot leads the name or   *)
(* ends it; in lower case.                                                   *)
TypeKey(name) ==
    LET dots == {i \in DOMAIN name : name[i] = "."}
    IN  IF dots = {} \/ Max(dots) \in {1, Len(name)} THEN <<>>
        ELSE [i \in 1..(Len(name) - Max(dots)) |-> Lowered[name[Max(dots) + i]]]

(* The switch of lessThan(): every key but Random falls back to the name.    *)
(* (Random compares hashes of the names; a collision apart, it is a rank.)   *)
KeyLess(a, b) ==
    LET byName == NaturalCompare(a.name, b.name) < 0
    IN  CASE key = "name" -> byName
          [] key = "size" -> IF a.size # b.size THEN a.size < b.size ELSE byName
          [] key = "type" -> IF TypeKey(a.name) # TypeKey(b.name)
                             THEN NaturalCompare(TypeKey(a.name), TypeKey(b.name)) < 0
                             ELSE byName

(* lessThan(): directories first whatever the direction. *)
LessThan(a, b) ==
    IF directoriesFirst /\ a.dir # b.dir THEN a.dir
    ELSE IF reverse THEN ~KeyLess(a, b) ELSE KeyLess(a, b)

Init ==
    /\ key \in {"name", "size", "type"}
    /\ reverse \in BOOLEAN
    /\ directoriesFirst \in BOOLEAN
    /\ left \in Entries
    /\ right \in Entries

(* The user picks another order or direction; the entries stay. *)
ChooseSortOrder ==
    /\ \/ key' \in {"name", "size", "type"} /\ UNCHANGED <<reverse, directoriesFirst>>
       \/ reverse' = ~reverse /\ UNCHANGED <<key, directoriesFirst>>
       \/ directoriesFirst' = ~directoriesFirst /\ UNCHANGED <<key, reverse>>
    /\ UNCHANGED <<left, right>>

Next == ChooseSortOrder

Spec == Init /\ [][Next]_vars

-----------------------------------------------------------------------------
(* Whatever is chosen, two different entries of a folder are in one order    *)
(* and not in the other, and the order is transitive: the proxy's sort       *)
(* always has one answer, in both directions and with any names.             *)
OrderIsStrict ==
    left.name # right.name =>
      /\ LessThan(left, right) <=> ~LessThan(right, left)
      /\ \A e \in Entries :
            (/\ e.name \notin {left.name, right.name}
             /\ LessThan(left, right) /\ LessThan(right, e)) => LessThan(left, e)

=============================================================================
