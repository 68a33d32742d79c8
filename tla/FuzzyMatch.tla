----------------------------- MODULE FuzzyMatch -----------------------------
(* The matcher behind the filter box, the palette and the search             *)
(* (core/FuzzyMatcher.cpp): which names a query picks out, with which score  *)
(* and which characters marked.                                              *)
(*                                                                           *)
(* The machine only types: characters are appended to the query and to the   *)
(* candidate, and the properties hold of the match at every stage.           *)
EXTENDS Integers, Sequences, SequencesExt, FiniteSetsExt

CONSTANTS
    Alphabet,               \* the characters a name is made of
    Fold,                   \* [Alphabet -> Alphabet]: case folding
    Upper,                  \* the capitals; what folds to a capital's fold and
                            \* is no capital is a lower-case letter
    WordSeparators,         \* space, _, - and .
    PathSeparators,         \* / and \
    MaxQuery, MaxCandidate  \* bounds on the lengths

VARIABLES query, candidate

vars == <<query, candidate>>

MatchScore == 16
ConsecutiveBonus == 8
WordBoundaryBonus == 8
CamelBonus == 7
SeparatorBonus == 9
FirstCharacterBonus == 10
GapPenalty == 3
MaxGapPenalty == 20

Same(x, y) == Fold[x] = Fold[y]

IsLower(x) == x \notin Upper /\ \E y \in Upper : Same(x, y)

(* positionBonus() *)
PositionBonus(c, i) ==
    IF i = 1 THEN FirstCharacterBonus
    ELSE CASE c[i - 1] \in PathSeparators -> SeparatorBonus
           [] c[i - 1] \in WordSeparators -> WordBoundaryBonus
           [] c[i] \in Upper /\ IsLower(c[i - 1]) -> CamelBonus
           [] OTHER -> 0

(* scoreOf(): one assignment of the query's characters to positions. *)
ScoreOf(c, positions) ==
    LET step(k) ==
            LET gap == positions[k] - positions[k - 1] - 1
            IN  IF k = 1 THEN 0
                ELSE IF gap = 0 THEN ConsecutiveBonus
                ELSE -Min({gap * GapPenalty, MaxGapPenalty})
    IN  MapThenSumSet(LAMBDA k : MatchScore + PositionBonus(c, positions[k]) + step(k),
                      DOMAIN positions)

(* earliestPositions() *)
EarliestPositions(q, c) ==
    LET at[k \in 0..Len(q)] ==
            IF k = 0 THEN 0
            ELSE Min({j \in (at[k - 1] + 1)..Len(c) : Same(c[j], q[k])} \cup {Len(c) + 1})
    IN  IF at[Len(q)] > Len(c) THEN <<>> ELSE [k \in 1..Len(q) |-> at[k]]

(* tightestPositions(): the same from the end. *)
TightestPositions(q, c) ==
    LET at[k \in 0..Len(q)] ==
            IF k = 0 THEN Len(c) + 1
            ELSE Max({j \in 1..(at[k - 1] - 1) : Same(c[j], q[Len(q) + 1 - k])} \cup {0})
    IN  IF at[Len(q)] = 0 THEN <<>>
        ELSE [k \in 1..Len(q) |-> at[Len(q) + 1 - k]]

NoMatch == [matched |-> FALSE, score |-> 0, marked |-> {}]

(* resultFor(): the spans are the runs of the marked positions. *)
ResultFor(c, positions) ==
    [matched |-> TRUE, score |-> ScoreOf(c, positions), marked |-> Range(positions)]

(* match() *)
Match(q, c) ==
    LET forward == ResultFor(c, EarliestPositions(q, c))
        backward == ResultFor(c, TightestPositions(q, c))
    IN  IF q = <<>> THEN [NoMatch EXCEPT !.matched = TRUE]
        ELSE IF EarliestPositions(q, c) = <<>> THEN NoMatch
        ELSE IF TightestPositions(q, c) = <<>> THEN forward
        ELSE IF backward.score > forward.score THEN backward ELSE forward

(* The places where the whole query stands. *)
Occurrences(q, c) ==
    {i \in 1..(Len(c) - Len(q) + 1) : \A k \in DOMAIN q : Same(c[i + k - 1], q[k])}

(* matchSubstring() *)
MatchSubstring(q, c) ==
    LET at == Min(Occurrences(q, c))
    IN  IF q = <<>> THEN [NoMatch EXCEPT !.matched = TRUE]
        ELSE IF Occurrences(q, c) = {} THEN NoMatch
        ELSE [matched |-> TRUE,
              score |-> Len(q) * MatchScore + PositionBonus(c, at)
                        + (Len(q) - 1) * ConsecutiveBonus,
              marked |-> at..(at + Len(q) - 1)]

Init == query = <<>> /\ candidate = <<>>

TypeQuery ==
    /\ Len(query) < MaxQuery
    /\ \E x \in Alphabet : query' = Append(query, x)
    /\ UNCHANGED candidate

ExtendCandidate ==
    /\ Len(candidate) < MaxCandidate
    /\ \E x \in Alphabet : candidate' = Append(candidate, x)
    /\ UNCHANGED query

Next == TypeQuery \/ ExtendCandidate

Spec == Init /\ [][Next]_vars

-----------------------------------------------------------------------------
(* Every way to find the query in the candidate, in order. *)
Assignments ==
    {p \in [1..Len(query) -> 1..Len(candidate)] :
        /\ \A k \in 1..Len(query) : Same(candidate[p[k]], query[k])
        /\ \A k \in 2..Len(query) : p[k - 1] < p[k]}

(* A name matches exactly when the query's characters stand in it in order,  *)
(* whatever lies between; then the marked characters spell the query and the *)
(* score is that of marking them, no worse than the earliest placement and   *)
(* no better than the best; and what the plain match finds, the fuzzy one    *)
(* finds too, the plain score promising no more than the place is worth.     *)
MatchesAreReal ==
    LET m == Match(query, candidate)
        s == MatchSubstring(query, candidate)
    IN  query # <<>> =>
          /\ m.matched = (Assignments # {})
          /\ m.matched => \E p \in Assignments : /\ m.marked = Range(p)
                                                 /\ m.score = ScoreOf(candidate, p)
          /\ s.matched => /\ m.matched
                          /\ \E p \in Assignments : /\ s.marked = Range(p)
                                                    /\ s.score <= ScoreOf(candidate, p)
=============================================================================
