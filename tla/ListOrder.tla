----------------------------- MODULE ListOrder ------------------------------
(* The rows of a panel and their order, as FilterSortProxy keeps them:       *)
(* which names the filter and the hidden-files rule let through, and when    *)
(* the rows are really sorted again (model/FilterSortProxy.cpp); and what    *)
(* the panel says of them: the filter box, the count in the header and the   *)
(* words in an empty list (ui/FilePanel.cpp).                                *)
(*                                                                           *)
(* The base class is Qt's.  invalidate() sorts every row; a refilter takes   *)
(* out the rows that no longer pass and puts each one that now does between  *)
(* two neighbours it is in order with, and moves no other row.               *)
EXTENDS Integers, Sequences, SequencesExt, FiniteSets

CONSTANTS
    Names,          \* the names the directory may hold
    Hidden,         \* the dotfiles among them
    Texts,          \* the texts the filter box may hold
    NoText,         \* the empty one
    Score,          \* [Texts -> [Names -> Nat]]: FuzzyMatcher's, 0 for no match
    NameRank,       \* [Names -> Nat]: the place in the natural order
    Sizes           \* the sizes a file may have

VARIABLES
    source,         \* the rows of the model: [names -> sizes]
    rows,           \* the rows of the proxy, top to bottom
    filterText, fuzzy, showHidden, sortKey, reverseSort,
    rescored,       \* the scores have changed since the rows were last sorted
    scanning,       \* the listing of a new folder is under way
    bar, barText,   \* the filter box, once there is one, and its text
    header,         \* the counts: rows shown, and of how many a filter took them
    placeholder,    \* what an empty list says, and of how many files
    unseen          \* the watcher changed the folder and no row of the panel

said == <<header, placeholder, unseen>>
vars == <<source, rows, filterText, fuzzy, showHidden, sortKey, reverseSort, rescored,
          scanning, bar, barText, said>>

settings == <<filterText, fuzzy, showHidden, sortKey, reverseSort>>

(* isRankingByScore() *)
IsRankingByScore(text, loose) == loose /\ text # NoText

(* filterAcceptsRow(), for the settings of the next state. *)
Accepted ==
    {n \in DOMAIN source' :
        /\ showHidden' \/ n \notin Hidden
        /\ filterText' # NoText => Score[filterText'][n] > 0}

BaseLess(a, b) ==
    IF sortKey' = "size" /\ source'[a] # source'[b] THEN source'[a] < source'[b]
    ELSE NameRank[a] < NameRank[b]

(* lessThan(): by score while a fuzzy filter is on, ties and everything else *)
(* by the key; the direction turns only the latter round.                    *)
LessThan(a, b) ==
    LET score == Score[filterText']
    IN  IF IsRankingByScore(filterText', fuzzy') /\ score[a] # score[b]
        THEN score[a] > score[b]
        ELSE BaseLess(a, b) # reverseSort'

Ordered(s) == \A i \in 1..(Len(s) - 1) : LessThan(s[i], s[i + 1])

(* invalidate() *)
Invalidate ==
    /\ \E s \in SetToSeqs(Accepted) : Ordered(s) /\ rows' = s
    /\ rescored' = FALSE

(* Rows of s that were there keep their order; each new one fits between its *)
(* neighbours.                                                               *)
Inserted(old, s) ==
    LET kept == SelectSeq(old, LAMBDA n : n \in Accepted)
    IN  /\ SelectSeq(s, LAMBDA n : n \in Range(kept)) = kept
        /\ \A i \in DOMAIN s : s[i] \notin Range(kept) =>
              /\ i > 1 => LessThan(s[i - 1], s[i])
              /\ i < Len(s) => LessThan(s[i], s[i + 1])

Placed(old) == \E s \in SetToSeqs(Accepted) : Inserted(old, s) /\ rows' = s

(* A refilter that remembers which rows it has, and never takes one out. *)
RefilterSlip ==
    /\ \E s \in SetToSeqs(Accepted \cup Range(rows)) : rows' = s
    /\ rescored' = rescored

(* refilter() *)
Refilter ==
    /\ Placed(rows)
    /\ rescored' = (\/ rescored
                    \/ IsRankingByScore(filterText, fuzzy)
                    \/ IsRankingByScore(filterText', fuzzy'))

Init ==
    /\ source = <<>>
    /\ rows = <<>>
    /\ filterText = NoText
    /\ fuzzy \in BOOLEAN
    /\ showHidden = FALSE
    /\ sortKey = "name"
    /\ reverseSort = FALSE
    /\ rescored = FALSE
    /\ scanning = TRUE
    /\ bar = "none" /\ barText = NoText
    /\ header = <<0, 0>> /\ placeholder = <<"empty", 0>>
    /\ unseen = FALSE

-----------------------------------------------------------------------------
(* What the panel says, of the next state.                                   *)

CountPassingHiddenRule == Cardinality(IF showHidden' THEN DOMAIN source' ELSE DOMAIN source' \ Hidden)

(* updateHeader(): "n of m" only of a filter, and m is what it may show. *)
UpdateHeader ==
    header' = <<Len(rows'), IF filterText' = NoText THEN Len(rows') ELSE CountPassingHiddenRule>>

(* updatePlaceholder(), for a model that says whether it scans. *)
UpdatePlaceholder(isScanning) ==
    LET count == Cardinality(DOMAIN source') IN
    placeholder' = <<IF rows' # <<>> \/ isScanning THEN "none"
                     ELSE IF count = 0 THEN "empty"
                     ELSE IF filterText' # NoText THEN "no match" ELSE "hidden",
                     IF rows' # <<>> \/ isScanning THEN 0 ELSE count>>

Say == UpdateHeader /\ UpdatePlaceholder(scanning') /\ unseen' = FALSE

(* Rows that come and go have both said anew, what no row shows has not. *)
RowsSaid == IF Range(rows') # Range(rows) THEN Say ELSE UNCHANGED said

-----------------------------------------------------------------------------
OpenFilterBar ==
    /\ bar # "shown"
    /\ bar' = "shown"
    /\ UNCHANGED <<source, rows, settings, rescored, scanning, barText, said>>

(* Typing, and the button that clears the box. *)
SetFilterText ==
    /\ bar = "shown"
    /\ filterText' \in Texts \ {filterText}
    /\ barText' = filterText'
    /\ UNCHANGED <<source, fuzzy, showHidden, sortKey, reverseSort, scanning, bar>>
    /\ Refilter
    /\ Say

(* closeFilterBar(): Return keeps the filter, Escape and clear_filter do not;*)
(* the box stays for as long as there is a filter to show.                   *)
CloseFilterBar(keepFilter) ==
    /\ bar # "none"
    /\ UNCHANGED <<source, fuzzy, showHidden, sortKey, reverseSort, scanning>>
    /\ IF keepFilter
       THEN bar = "shown" /\ UNCHANGED <<rows, rescored, filterText, barText, said>>
       ELSE filterText' = NoText /\ barText' = NoText /\ Refilter /\ Say
    /\ bar' = IF filterText' = NoText THEN "hidden" ELSE "shown"

(* setFuzzyMatching(): only a filter that is on has anything to redo. *)
SetFuzzyMatching ==
    /\ fuzzy' = ~fuzzy
    /\ UNCHANGED <<source, filterText, showHidden, sortKey, reverseSort, scanning, bar, barText>>
    /\ IF filterText = NoText THEN UNCHANGED <<rows, rescored>> ELSE Refilter
    /\ RowsSaid

SetShowHidden ==
    /\ showHidden' = ~showHidden
    /\ UNCHANGED <<source, filterText, fuzzy, sortKey, reverseSort, scanning, bar, barText>>
    /\ Placed(rows)
    /\ UNCHANGED rescored
    /\ IF Range(rows') # Range(rows) THEN Say
       ELSE UpdateHeader /\ UNCHANGED <<placeholder, unseen>>

SetSortKey ==
    /\ sortKey' \in {"name", "size"} \ {sortKey}
    /\ UNCHANGED <<source, filterText, fuzzy, showHidden, reverseSort, scanning, bar, barText>>
    /\ Invalidate
    /\ UpdateHeader /\ UNCHANGED <<placeholder, unseen>>

SetReverseSort ==
    /\ reverseSort' = ~reverseSort
    /\ UNCHANGED <<source, filterText, fuzzy, showHidden, sortKey, scanning, bar, barText>>
    /\ Invalidate
    /\ UpdateHeader /\ UNCHANGED <<placeholder, unseen>>

(* A batch of a scan tells the header how far it is. *)
OnBatch ==
    /\ scanning
    /\ \E n \in Names \ DOMAIN source, size \in Sizes :
          source' = [m \in DOMAIN source \cup {n} |-> IF m = n THEN size ELSE source[m]]
    /\ UNCHANGED <<settings, rescored, scanning, bar, barText, unseen>>
    /\ Placed(rows)
    /\ UpdateHeader
    /\ IF Range(rows') # Range(rows) THEN UpdatePlaceholder(scanning') ELSE placeholder' = placeholder

OnScanFinished ==
    /\ scanning /\ scanning' = FALSE
    /\ UNCHANGED <<source, rows, settings, rescored, bar, barText>>
    /\ Say

(* The watcher's changes, of which the panel hears by its rows alone. *)
Watched ==
    /\ ~scanning
    /\ UNCHANGED <<settings, rescored, scanning, bar, barText>>
    /\ Placed(rows)
    /\ IF Range(rows') # Range(rows) THEN Say
       ELSE unseen' = TRUE /\ UNCHANGED <<header, placeholder>>

RowsInserted ==
    /\ \E n \in Names \ DOMAIN source, size \in Sizes :
          source' = [m \in DOMAIN source \cup {n} |-> IF m = n THEN size ELSE source[m]]
    /\ Watched

RowsRemoved ==
    /\ \E n \in DOMAIN source :
          source' = [m \in DOMAIN source \ {n} |-> source[m]]
    /\ Watched

(* A file's size changes: the row is taken out and put where it now belongs. *)
RowChanged ==
    /\ \E n \in DOMAIN source, size \in Sizes :
          /\ source' = [source EXCEPT ![n] = size]
          /\ UNCHANGED settings
          /\ Placed(SelectSeq(rows, LAMBDA m : m # n))
    /\ UNCHANGED <<rescored, scanning, bar, barText, said>>

(* setPath(): the filter stays behind, and its box; the rows go before the   *)
(* model says that it scans.                                                 *)
NewFolder ==
    /\ source' = <<>> /\ rows' = <<>>
    /\ filterText' = NoText /\ barText' = NoText
    /\ bar' = IF filterText = NoText \/ bar = "none" THEN bar ELSE "hidden"
    /\ UNCHANGED <<fuzzy, showHidden, sortKey, reverseSort>>
    /\ rescored' = FALSE /\ scanning' = TRUE
    /\ UpdateHeader /\ UpdatePlaceholder(scanning) /\ unseen' = FALSE

Next ==
    \/ OpenFilterBar
    \/ SetFilterText
    \/ \E keepFilter \in BOOLEAN : CloseFilterBar(keepFilter)
    \/ SetFuzzyMatching
    \/ SetShowHidden
    \/ SetSortKey
    \/ SetReverseSort
    \/ OnBatch
    \/ OnScanFinished
    \/ RowsInserted
    \/ RowChanged
    \/ RowsRemoved
    \/ NewFolder

Spec == Init /\ [][Next]_vars

-----------------------------------------------------------------------------
Less(a, b) ==
    IF sortKey = "size" /\ source[a] # source[b]
    THEN (source[a] < source[b]) # reverseSort
    ELSE (NameRank[a] < NameRank[b]) # reverseSort

(* The rows are at any time exactly the names that pass the filter and the   *)
(* hidden-files rule, each once, and, until a filter that ranks has been     *)
(* typed into, in the order and direction the folder is sorted by, however   *)
(* rows came, went and changed.                                              *)
RowsInOrder ==
    /\ Range(rows) = {n \in DOMAIN source : /\ showHidden \/ n \notin Hidden
                                            /\ filterText # NoText => Score[filterText][n] > 0}
    /\ Len(rows) = Cardinality(Range(rows))
    /\ (~rescored /\ ~IsRankingByScore(filterText, fuzzy)) =>
          \A i \in 1..(Len(rows) - 1) : Less(rows[i], rows[i + 1])

(* A filter that is on is in a box the user sees, and the counts and the     *)
(* words in an empty list are those of the folder as it is now, but for      *)
(* files that came or went where no row shows (FilePanel::updateHeader,      *)
(* updatePlaceholder, closeFilterBar, clearFilter).                          *)
PanelSaysWhatIsThere ==
    /\ filterText = barText
    /\ filterText # NoText => bar = "shown"
    /\ unseen \/ /\ header[1] = Len(rows)
                 /\ filterText # NoText =>
                       header[2] = Cardinality(IF showHidden THEN DOMAIN source
                                               ELSE DOMAIN source \ Hidden)
                 /\ (~scanning /\ rows = <<>>) =>
                       /\ placeholder[2] = Cardinality(DOMAIN source)
                       /\ placeholder[1] = "no match" <=> (filterText # NoText /\ DOMAIN source # {})
=============================================================================
