------------------------------- MODULE QuickLook -------------------------------
(***************************************************************************)
(* The preview that follows the cursor: the controller that opens, closes  *)
(* and follows, the view with its page per renderer, and the loader with   *)
(* its debounce, its cancelled and its live loads, and its small cache.    *)
(***************************************************************************)
EXTENDS Integers, SequencesExt

CONSTANTS
    Files,         \* what the cursor can be on
    Unreadable,    \* of them, those whose content ends in an error
    Directories,   \* of them, those whose entries are read one by one
    CacheSize,     \* kCacheSize, smaller
    MaxLoads,      \* bound: how many loads are started
    MaxEdits       \* bound: how often a file changes; each takes a second of its own

None == "none"
Nothing == [file |-> None, of |-> 0]

VARIABLES
    version,       \* per file, what is on disk
    listed,        \* per file, the modification time the panel's row has
    cursor,        \* the file under it, or None in an empty directory
    follows,       \* the follow_cursor setting
    open,          \* the controller's m_open
    path,          \* the view's m_currentPath
    page,          \* the page in front: None is the skeleton
    content,       \* what the current renderer was given
    wanted,        \* the loader's pending request: file and modification time
    debounce, spinner,   \* its two timers
    channel,       \* the live load, or 0
    load,          \* per load: key, stage, what was read, whether it is cancelled
    loads,         \* how many there have been
    ready,         \* reports queued for the GUI thread
    cache          \* finished contents, the one used last at the end

disk == <<version, listed>>
view == <<path, page, content>>
loader == <<wanted, debounce, spinner, channel, load, loads, cache>>
vars == <<disk, cursor, follows, open, view, loader, ready>>

Loads == 1 .. MaxLoads
Keys == [file : Files \cup {None}, of : Nat]    \* a file and a modification time
LoadStates == [key : Keys, stage : {"none", "queued", "listing", "read", "over"},
               of : Nat, cancelled : BOOLEAN]
Entries == [key : Keys, what : Keys]
InProgress(id) == load[id].stage \in {"queued", "listing", "read"}
Live == { id \in Loads : InProgress(id) /\ ~load[id].cancelled }

TypeOK ==
    /\ version \in [Files -> Nat] /\ listed \in [Files -> Nat]
    /\ cursor \in Files \cup {None} /\ path \in Files \cup {None}
    /\ follows \in BOOLEAN /\ open \in BOOLEAN
    /\ page \in {None, "renderer", "fallback"}
    /\ content \in Keys /\ wanted \in Keys
    /\ debounce \in BOOLEAN /\ spinner \in BOOLEAN
    /\ loads \in 0 .. MaxLoads /\ channel \in 0 .. loads
    /\ load \in [Loads -> LoadStates]
    /\ ready \in Seq(Entries)
    /\ cache \in Seq(Entries) /\ Len(cache) <= CacheSize
    /\ Live \subseteq {channel}

Init ==
    /\ version = [f \in Files |-> 0] /\ listed = [f \in Files |-> 0]
    /\ cursor = None /\ follows = TRUE /\ open = FALSE
    /\ path = None /\ page = None /\ content = Nothing
    /\ wanted = Nothing /\ debounce = FALSE /\ spinner = FALSE
    /\ channel = 0 /\ loads = 0
    /\ load = [id \in Loads |-> [key |-> Nothing, stage |-> "none", of |-> 0, cancelled |-> FALSE]]
    /\ ready = <<>> /\ cache = <<>>

(* A listing that is not one, as of a damaged archive. *)
HasError(what) == what.file \in Unreadable

(* A content for another file than the current one is not shown; one with  *)
(* an error goes to the fallback.                                          *)
OnLoaded(what) ==
    IF what.file # path'
    THEN UNCHANGED <<page, content>>
    ELSE /\ content' = what
         /\ page' = IF HasError(what) THEN "fallback" ELSE "renderer"

(* The flag of the live load is raised and its report is no longer heard;  *)
(* one that is queued already stays.                                       *)
LoaderCancelled ==
    IF channel = 0 THEN load ELSE [load EXCEPT ![channel].cancelled = TRUE]

(* The live load is cancelled; what the cache holds under the same path    *)
(* and time is shown at once, anything else after the debounce.            *)
Request(f) ==
    /\ wanted' = [file |-> f, of |-> listed[f]]
    /\ load' = LoaderCancelled /\ channel' = 0 /\ spinner' = FALSE /\ loads' = loads
    /\ \/ \E i \in DOMAIN cache :
             /\ cache[i].key = wanted' /\ \A j \in 1 .. i - 1 : cache[j].key # wanted'
             /\ debounce' = FALSE
             /\ cache' = Append(RemoveAt(cache, i), cache[i])
             /\ OnLoaded(cache[i].what)
       \/ /\ \A i \in DOMAIN cache : cache[i].key # wanted'
          /\ debounce' = TRUE
          /\ UNCHANGED <<cache, page, content>>

ClearView ==
    /\ path' = None /\ page' = None /\ content' = Nothing
    /\ debounce' = FALSE /\ spinner' = FALSE
    /\ load' = LoaderCancelled /\ channel' = 0
    /\ cache' = <<>>
    /\ UNCHANGED <<wanted, loads>>

ShowFile(f) == IF f = None THEN ClearView ELSE path' = f /\ Request(f)

(* The cursor moved, its panel went elsewhere, or another panel is in front. *)
FollowCursor ==
    IF open /\ follows THEN ShowFile(cursor') ELSE UNCHANGED <<view, loader>>

CursorMoves ==
    /\ cursor' \in Files \cup {None}
    /\ FollowCursor
    /\ UNCHANGED <<disk, follows, open, ready>>

CloseView ==
    /\ open' = FALSE
    /\ ClearView
    /\ UNCHANGED <<disk, follows, ready>>

(* A floating preview goes when another panel comes to the front. *)
PanelSwitch ==
    /\ open
    /\ cursor' \in Files \cup {None}
    /\ CloseView

Open ==
    /\ ~open
    /\ open' = TRUE /\ cursor' = cursor
    /\ ShowFile(cursor)
    /\ UNCHANGED <<disk, follows, ready>>

Close ==
    /\ open
    /\ cursor' = cursor
    /\ CloseView

ApplySettings ==
    /\ follows' = ~follows
    /\ UNCHANGED <<disk, cursor, open, view, loader, ready>>

(* The debounce ran out. *)
Start ==
    /\ debounce
    /\ loads < MaxLoads
    /\ debounce' = FALSE /\ spinner' = TRUE
    /\ channel' = loads + 1 /\ loads' = loads + 1
    /\ load' = [load EXCEPT ![loads + 1].key = wanted, ![loads + 1].stage = "queued"]
    /\ UNCHANGED <<disk, cursor, follows, open, view, wanted, ready, cache>>

(* Two hundred milliseconds into a load. *)
OnLoadingSlowly ==
    /\ spinner
    /\ spinner' = FALSE
    /\ page' = IF wanted.file = path THEN None ELSE page
    /\ UNCHANGED <<disk, cursor, follows, open, path, content, wanted, debounce, channel,
                   load, loads, ready, cache>>

(* The names of a directory come first; each entry looks at the flag before  *)
(* it is read, and a load that is cancelled there ends with what it has.     *)
ListEntries(id) ==
    /\ load[id].stage = "queued" /\ load[id].key.file \in Directories
    /\ ~load[id].cancelled
    /\ load' = [load EXCEPT ![id].stage = "listing"]
    /\ UNCHANGED <<disk, cursor, follows, open, view, wanted, debounce, spinner, channel,
                   loads, ready, cache>>

(* The worker looks at its flag, reads the file as it is now ... *)
Read(id) ==
    /\ \/ load[id].stage = "listing"
       \/ /\ load[id].stage = "queued"
          /\ load[id].cancelled \/ load[id].key.file \notin Directories
    /\ load' = [load EXCEPT ![id].stage = IF load[id].cancelled THEN "over" ELSE "read",
                            ![id].of = version[load[id].key.file]]
    /\ UNCHANGED <<disk, cursor, follows, open, view, wanted, debounce, spinner, channel,
                   loads, ready, cache>>

(* ... looks again and reports. *)
Report(id) ==
    /\ load[id].stage = "read"
    /\ load' = [load EXCEPT ![id].stage = "over"]
    /\ ready' = IF load[id].cancelled THEN ready
                ELSE Append(ready, [key |-> load[id].key,
                                    what |-> [file |-> load[id].key.file, of |-> load[id].of]])
    /\ UNCHANGED <<disk, cursor, follows, open, view, wanted, debounce, spinner, channel,
                   loads, cache>>

Remembered(entry) ==
    LET longer == Append(cache, entry)
    IN IF Len(longer) > CacheSize THEN Tail(longer) ELSE longer

(* The report arrives, of the live load or of one that was cancelled since. *)
OnReady ==
    /\ ready # <<>>
    /\ ready' = Tail(ready)
    /\ spinner' = FALSE
    /\ cache' = Remembered(Head(ready))
    /\ path' = path
    /\ OnLoaded(Head(ready).what)
    /\ UNCHANGED <<disk, cursor, follows, open, wanted, debounce, channel, load, loads>>

(* Another program changes the file; the row hears of it later. *)
Edit(f) ==
    /\ version[f] < MaxEdits
    /\ version' = [version EXCEPT ![f] = @ + 1]
    /\ UNCHANGED <<listed, cursor, follows, open, view, loader, ready>>

RowRefreshed(f) ==
    /\ listed[f] # version[f]
    /\ listed' = [listed EXCEPT ![f] = version[f]]
    /\ UNCHANGED <<version, cursor, follows, open, view, loader, ready>>

Next ==
    \/ CursorMoves \/ PanelSwitch \/ Open \/ Close \/ ApplySettings
    \/ Start \/ OnLoadingSlowly \/ OnReady
    \/ \E id \in Loads : ListEntries(id) \/ Read(id) \/ Report(id)
    \/ \E f \in Files : Edit(f) \/ RowRefreshed(f)

Spec == Init /\ [][Next]_vars

--------------------------------------------------------------------------------

(* The live load is of the request that is pending, and no other has been  *)
(* started since; nothing is due for a view that is on no file.            *)
LoaderInv ==
    /\ debounce => channel = 0 /\ wanted.file \in Files
    /\ channel # 0 => load[channel].key = wanted /\ ~load[channel].cancelled
    /\ \A id \in Loads : /\ InProgress(id) => load[id].key.file \in Files
                         /\ load[id].stage = "none" => ~load[id].cancelled
                         /\ load[id].stage = "none" <=> id > loads
    /\ path = None => page = None /\ content = Nothing
    /\ path # None => wanted.file = path

(* What is kept is of what the file held when its row said so, or later,   *)
(* and no older request comes after it.                                    *)
KeptInv ==
    \A i \in DOMAIN cache :
        /\ cache[i].what.file = cache[i].key.file /\ cache[i].key.file \in Files
        /\ cache[i].key.of <= cache[i].what.of
        /\ cache[i].key.of <= listed[cache[i].key.file]
        /\ cache[i].key.file = wanted.file => cache[i].key.of <= wanted.of
        /\ \A j \in DOMAIN ready : ready[j].key.file = cache[i].key.file
                                     => cache[i].key.of <= ready[j].key.of

(* So is what is on its way, and the reports of a file come in the order   *)
(* of their requests, none of which is newer than the one that is pending. *)
ReportsInv ==
    /\ \A i \in DOMAIN ready :
          /\ ready[i].what.file = ready[i].key.file /\ ready[i].key.file \in Files
          /\ ready[i].key.of <= ready[i].what.of
          /\ ready[i].key.of <= listed[ready[i].key.file]
          /\ ready[i].key.file = wanted.file => ready[i].key.of <= wanted.of
    /\ \A i, j \in DOMAIN ready :
          i < j /\ ready[i].key.file = ready[j].key.file => ready[i].key.of <= ready[j].key.of

(* A row is never ahead of its file, nor a request of its row.             *)
RowsInv ==
    /\ \A f \in Files : listed[f] <= version[f]
    /\ wanted.file \in Files => wanted.of <= listed[wanted.file]

ReadsInv == \A id \in Loads : load[id].stage = "read" => load[id].key.of <= load[id].of
AgesInv == RowsInv /\ ReadsInv /\ ReportsInv /\ KeptInv

(* The page in front is of the file, as new as its row was, and stays so.  *)
Shown ==
    /\ page # None /\ content.file = path /\ content.of >= wanted.of /\ ~spinner
    /\ \A i \in DOMAIN ready : ready[i].key.file = path => ready[i].key.of >= wanted.of

(* What the view is on is shown, or is going to be. *)
ShownInv ==
    path # None =>
        \/ debounce
        \/ channel # 0 /\ InProgress(channel)
        \/ \E i \in DOMAIN ready : ready[i].key = wanted
        \/ Shown

Settled == ~debounce /\ Live = {} /\ ready = <<>>

(* Once no load is due, under way or reported, the page in front shows the *)
(* file the view is on, and nothing older than the row the user pointed    *)
(* at, whatever moves, cancelled loads and late reports came before; a     *)
(* closed view shows nothing.                                              *)
PreviewIsOfTheFile ==
    Settled =>
        IF path = None THEN page = None /\ content = Nothing
        ELSE /\ page # None
             /\ content.file = path
             /\ content.of >= wanted.of
================================================================================
