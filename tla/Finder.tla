------------------------------- MODULE Finder -------------------------------
(* The recursive finder (fs/RecursiveFinder.cpp) and its modal               *)
(* (ui/modals/FindModal.cpp): each query restarts a walk on the one worker,  *)
(* which posts what it finds in batches; a walk given up may still have      *)
(* batches on their way.                                                     *)
EXTENDS Naturals, Sequences, FiniteSets

CONSTANTS Queries,      \* the texts of the query box, "" among them
          Directories,  \* those of the tree
          Skipped,      \* those that are not walked: .git or ignored
          Hits,         \* [Queries -> [Directories -> the hits in it]]
          MaxResults,   \* m_maxResults
          MaxSearches   \* bound on the searches

VARIABLES
    open,           \* the modal is shown
    query,          \* the text of its box
    debounce,       \* m_debounce runs
    refresh,        \* m_refresh runs
    live,           \* the search whose channel the finder holds, 0 if none
    searches,       \* the number of searches begun
    tasks,          \* the walks not yet ended: [id, query, pending, found]
    cancelled,      \* the searches given up
    posts,          \* the batches, and the ends of walks, on their way
    collected, dirty,
    rows            \* what the list shows

vars == <<open, query, debounce, refresh, live, searches, tasks, cancelled, posts,
          collected, dirty, rows>>
Timers == <<debounce, refresh>>
Walk == <<live, searches, tasks, cancelled, posts>>

AllHits == UNION {UNION {Hits[q][d] : d \in Directories} : q \in Queries}

(* isAlwaysSkipped() and GitignoreRules::ignores() *)
IsSkipped(d) == d \in Skipped
Walked == {d \in Directories : ~IsSkipped(d)}

Tasks == [id : Nat, query : Queries, pending : SUBSET Walked, found : Nat]
Posts == [of : Nat, hits : SUBSET AllHits, done : BOOLEAN]

TypeOK ==
    /\ open \in BOOLEAN /\ query \in Queries
    /\ debounce \in BOOLEAN /\ refresh \in BOOLEAN /\ dirty \in BOOLEAN
    /\ searches \in Nat /\ live \in 0 .. searches
    /\ tasks \in Seq(Tasks) /\ cancelled \subseteq 1 .. searches /\ posts \in Seq(Posts)
    /\ collected \subseteq AllHits /\ rows \subseteq AllHits

Init ==
    /\ open = FALSE /\ query = "" /\ debounce = FALSE /\ refresh = FALSE
    /\ live = 0 /\ searches = 0 /\ tasks = <<>> /\ cancelled = {} /\ posts = <<>>
    /\ collected = {} /\ dirty = FALSE /\ rows = {}

(* cancel() *)
Cancelled == IF live = 0 THEN cancelled ELSE cancelled \cup {live}

(* search(): supersedes whatever is under way. *)
Search(q) ==
    /\ searches' = searches + 1
    /\ live' = searches'
    /\ cancelled' = Cancelled
    /\ tasks' = Append(tasks, [id |-> searches', query |-> q, pending |-> Walked, found |-> 0])
    /\ UNCHANGED posts

(* restartSearch() *)
RestartSearch(q) ==
    /\ searches < MaxSearches
    /\ collected' = {} /\ rows' = {}
    /\ Search(q)

(* start() *)
Start ==
    /\ ~open
    /\ open' = TRUE
    /\ debounce' = (debounce \/ query # "")
    /\ query' = ""
    /\ refresh' = TRUE
    /\ RestartSearch("")
    /\ UNCHANGED dirty

Type(q) ==
    /\ open /\ q # query
    /\ query' = q
    /\ debounce' = TRUE
    /\ UNCHANGED <<open, refresh, Walk, collected, dirty, rows>>

OnDebounce ==
    /\ debounce
    /\ debounce' = FALSE
    /\ RestartSearch(query)
    /\ UNCHANGED <<open, query, refresh, dirty>>

(* What is kept of the hits in a directory: as many as there may still be. *)
Kept(t, d) ==
    LET hits == Hits[t.query][d]
    IN IF t.found + Cardinality(hits) > MaxResults
       THEN {k \in SUBSET hits : Cardinality(k) = MaxResults - t.found}
       ELSE {hits}

Batched(t, k) == IF k = {} THEN posts ELSE Append(posts, [of |-> t.id, hits |-> k, done |-> FALSE])

(* FindTask::run(), a directory, in the order the file system gives them: a  *)
(* walk that was given up just ends; one that finds as many as it may stops  *)
(* there.                                                                    *)
WalkDirectory ==
    /\ tasks # <<>>
    /\ LET t == Head(tasks) IN
       \/ t.id \in cancelled /\ tasks' = Tail(tasks) /\ UNCHANGED posts
       \/ /\ t.id \notin cancelled
          /\ \E d \in t.pending : \E k \in Kept(t, d) :
                LET more == t.found + Cardinality(k) < MaxResults /\ t.pending # {d}
                    rest == [t EXCEPT !.pending = @ \ {d}, !.found = @ + Cardinality(k)]
                IN /\ tasks' = IF more THEN [tasks EXCEPT ![1] = rest] ELSE Tail(tasks)
                   /\ posts' = IF more THEN Batched(t, k)
                               ELSE Append(Batched(t, k), [of |-> t.id, hits |-> {}, done |-> TRUE])
    /\ UNCHANGED <<open, query, Timers, live, searches, cancelled, collected, dirty, rows>>

(* A batch is taken whichever search it is of. *)
OnResultsSlip ==
    /\ posts # <<>> /\ ~Head(posts).done
    /\ posts' = Tail(posts)
    /\ collected' = collected \cup Head(posts).hits
    /\ dirty' = TRUE
    /\ UNCHANGED <<open, query, Timers, live, searches, tasks, cancelled, rows>>

(* A batch arrives: it counts if its search is still the live one. *)
OnResults ==
    /\ posts # <<>> /\ ~Head(posts).done
    /\ posts' = Tail(posts)
    /\ IF Head(posts).of \notin cancelled
       THEN collected' = collected \cup Head(posts).hits /\ dirty' = TRUE
       ELSE UNCHANGED <<collected, dirty>>
    /\ UNCHANGED <<open, query, Timers, live, searches, tasks, cancelled, rows>>

RefreshList == rows' = collected /\ dirty' = FALSE

OnFinished ==
    /\ posts # <<>> /\ Head(posts).done
    /\ posts' = Tail(posts)
    /\ IF Head(posts).of \notin cancelled
       THEN live' = 0 /\ refresh' = FALSE /\ RefreshList
       ELSE UNCHANGED <<live, refresh, rows, dirty>>
    /\ UNCHANGED <<open, query, debounce, searches, tasks, cancelled, collected>>

(* Every 100 ms while m_refresh runs. *)
OnRefresh ==
    /\ refresh /\ dirty
    /\ RefreshList
    /\ UNCHANGED <<open, query, Timers, Walk, collected>>

(* accept(): the panel goes to the row chosen. *)
Accept ==
    /\ open
    /\ open' = FALSE
    /\ cancelled' = Cancelled /\ live' = 0
    /\ refresh' = FALSE
    /\ UNCHANGED <<query, debounce, searches, tasks, posts, collected, dirty, rows>>

Dismiss ==
    /\ open
    /\ open' = FALSE
    /\ UNCHANGED <<query, Timers, Walk, collected, dirty, rows>>

Next ==
    \/ Start \/ OnDebounce \/ WalkDirectory \/ OnResults \/ OnFinished \/ OnRefresh
    \/ Accept \/ Dismiss
    \/ \E q \in Queries : Type(q)

Spec == Init /\ [][Next]_vars

-----------------------------------------------------------------------------
(* Walks and posts are of the live search or of one given up, and the end of *)
(* the live one comes once, after its walk and after its batches.            *)
WalkInv ==
    /\ live # 0 => live = searches /\ live \notin cancelled
    /\ \A i \in DOMAIN tasks : /\ tasks[i].id \in 1 .. searches
                               /\ tasks[i].id \in cancelled \/ tasks[i].id = live
    /\ \A i, j \in DOMAIN tasks : tasks[i].id = live /\ tasks[j].id = live => i = j
    /\ \A i \in DOMAIN posts :
          /\ posts[i].of \in 1 .. searches /\ (posts[i].of \in cancelled \/ posts[i].of = live)
          /\ posts[i].of = live /\ posts[i].done =>
                /\ posts[i].hits = {}
                /\ \A j \in DOMAIN tasks : tasks[j].id # live
                /\ \A j \in DOMAIN posts : i < j => posts[j].of # live

(* The hits of a query, and those of the live search that have been found.   *)
FoundIn(q, dirs) == UNION {Hits[q][d] : d \in dirs}
Found(q) == FoundIn(q, Walked)
SoFar == collected \cup UNION {posts[i].hits : i \in {j \in DOMAIN posts : posts[j].of = live}}
AllOrEnough(hits, q) ==
    hits \subseteq Found(q) /\ (hits = Found(q) \/ Cardinality(hits) = MaxResults)

(* The last search is for the text in the box unless the text has changed    *)
(* since; what it has found is what is in the directories it is through      *)
(* with; and when it is over the list shows that.                            *)
SearchInv ==
    \E q \in Queries :
        /\ open /\ ~debounce => q = query
        /\ \A i \in DOMAIN tasks :
              tasks[i].id = live =>
                  /\ tasks[i].query = q
                  /\ SoFar = FoundIn(q, Walked \ tasks[i].pending) /\ IsFiniteSet(SoFar)
                  /\ tasks[i].found = Cardinality(SoFar) /\ tasks[i].found < MaxResults
        /\ live # 0 /\ (\A i \in DOMAIN tasks : tasks[i].id # live) => AllOrEnough(SoFar, q)
        /\ live = 0 /\ open => rows = collected /\ AllOrEnough(rows, q)

(* Once nothing is under way, the list shows hits of the text in the box and *)
(* no others: all there are, or as many as the limit lets through.           *)
ResultsAreOfTheQuery ==
    (open /\ ~debounce /\ live = 0) =>
        /\ rows \subseteq Found(query)
        /\ Cardinality(rows) \in {Cardinality(Found(query)), MaxResults}
=============================================================================
