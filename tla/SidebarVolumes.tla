--------------------------- MODULE SidebarVolumes ---------------------------
(* The Devices rows of the sidebar and the service they come from            *)
(* (ui/Sidebar.cpp, platform/linux/VolumeMonitor_linux.cpp): asynchronous    *)
(* calls over the bus, hotplug signals, and enumerations that replace the    *)
(* rows, those of the places included, while the pointer may be dragging     *)
(* one (SidebarPlaces has what a drop does).  The service answers calls in   *)
(* any order; its messages arrive in the order it sends them.                *)
EXTENDS Naturals, Sequences, SequencesExt, FiniteSets

CONSTANTS
    Volumes,
    Places,         \* the places of the layout, the wastebasket included
    DriveOf,        \* [Places -> Volumes \cup {NoVolume}]: where they are kept
    MaxChanges,     \* bound on plugging, unplugging and mounting by others
    MaxCalls        \* bound on the calls and messages under way

VARIABLES
    plugged,        \* the volumes there are
    mounted,        \* those of them that are mounted
    started,
    calls,          \* calls the service has not answered
    messages,       \* what it has sent and we have not seen
    known,          \* m_volumes: [id -> mounted], the rows
    mounting,       \* m_mounting
    outside,        \* history: mounted or unmounted by others since they were
                    \* last listed
    changes,
    places,         \* those of Places that are in the layout
    shown,          \* the rows of places; the others are on drives not mounted
    drawn,          \* turns whenever the rows are made anew
    candidate,      \* m_dragCandidate: the row pressed, and when it was drawn
    drag            \* the drag under way: its place, and m_dragLeftSidebar

service == <<plugged, mounted, started, calls, messages, known, mounting, outside, changes>>
list == <<places, shown, drawn, candidate>>
vars == <<service, list, drag>>

Call(kind, v) == [kind |-> kind, of |-> v]

NoVolume == "none"
NoPress == [of |-> "none", drawn |-> FALSE]
NoDrag == [of |-> "none", left |-> FALSE]

Enumerate == Call("enumerate", NoVolume)

Listing == [v \in plugged |-> v \in mounted]

Init ==
    /\ plugged \in SUBSET Volumes
    /\ mounted \in SUBSET plugged
    /\ started = FALSE
    /\ calls = <<>>
    /\ messages = <<>>
    /\ known = <<>>
    /\ mounting = {}
    /\ outside = {}
    /\ changes = 0
    /\ places = Places
    /\ shown = {p \in Places : DriveOf[p] \in mounted \cup {NoVolume}}
    /\ drawn = FALSE
    /\ candidate = NoPress
    /\ drag = NoDrag

(* addPlace(): only places that exist. *)
HasRow(p) == DriveOf[p] \in mounted' \cup {NoVolume}

(* populate() *)
Populate ==
    /\ shown' = {p \in places' : HasRow(p)}
    /\ drawn' = ~drawn
    /\ candidate' = NoPress

Room == Len(calls) + Len(messages) < MaxCalls

Ask(call) == calls' = Append(calls, call)

-----------------------------------------------------------------------------
(* A volume is plugged in or pulled out: InterfacesAdded, InterfacesRemoved. *)
Hotplug ==
    /\ changes < MaxChanges /\ Room
    /\ \E v \in Volumes :
          /\ plugged' = IF v \in plugged THEN plugged \ {v} ELSE plugged \cup {v}
          /\ mounted' = mounted \ {v}
          /\ messages' = IF started THEN Append(messages, [kind |-> "changed", of |-> v]) ELSE messages
    /\ changes' = changes + 1
    /\ UNCHANGED <<started, calls, known, mounting, outside, list, drag>>

(* Another program mounts or unmounts: a change of a property, which the     *)
(* two signals do not tell.                                                  *)
MountedByOthers ==
    /\ changes < MaxChanges
    /\ \E v \in plugged :
          /\ mounted' = IF v \in mounted THEN mounted \ {v} ELSE mounted \cup {v}
          /\ outside' = outside \cup {v}
    /\ changes' = changes + 1
    /\ UNCHANGED <<plugged, started, calls, messages, known, mounting, list, drag>>

(* The service answers one call. *)
Serve ==
    \E i \in DOMAIN calls :
       LET c == calls[i]
           answer(kind) == messages' = Append(messages, [kind |-> kind, of |-> c.of])
       IN  /\ calls' = RemoveAt(calls, i)
           /\ \/ /\ c.kind = "enumerate"
                 /\ messages' = Append(messages, [kind |-> "listing", of |-> Listing])
                 /\ outside' = {}
                 /\ UNCHANGED mounted
              \/ /\ c.kind = "mount" /\ c.of \in plugged \ mounted
                 /\ mounted' = mounted \cup {c.of}
                 /\ answer("mounted")
                 /\ UNCHANGED outside
              \/ /\ c.kind = "unmount" /\ c.of \in mounted
                 /\ mounted' = mounted \ {c.of}
                 /\ answer("unmounted")
                 /\ UNCHANGED outside
              \/ /\ c.kind # "enumerate"
                 /\ answer("failed")
                 /\ UNCHANGED <<mounted, outside>>
           /\ UNCHANGED <<plugged, started, known, mounting, changes, list, drag>>

-----------------------------------------------------------------------------
(* addDevices(): one of each, mounted or not. *)
DeviceRows == DOMAIN known

(* startWatchingDevices(), when the sidebar is first focused. *)
StartWatchingDevices ==
    /\ ~started
    /\ started' = TRUE
    /\ Ask(Enumerate)
    /\ UNCHANGED <<plugged, mounted, messages, known, mounting, outside, changes, list, drag>>

(* openItem() on a row that is not mounted; asked once while under way. *)
OpenItem ==
    /\ Room
    /\ \E v \in DeviceRows :
          /\ ~known[v] /\ v \notin mounting
          /\ mounting' = mounting \cup {v}
          /\ Ask(Call("mount", v))
    /\ UNCHANGED <<plugged, mounted, started, messages, known, outside, changes, list, drag>>

(* unmountVolume(): the button of a mounted row, or the key on any. *)
UnmountVolume ==
    /\ Room
    /\ \E v \in DeviceRows : Ask(Call("unmount", v))
    /\ UNCHANGED <<plugged, mounted, started, messages, known, mounting, outside, changes,
                   list, drag>>

(* operationFailed *)
OnFailed(v) ==
    /\ mounting' = mounting \ {v}
    /\ UNCHANGED <<calls, known, list>>

(* mounted, after which the panel goes there, and unmounted *)
OnDone(m) ==
    /\ mounting' = IF m.kind = "mounted" THEN mounting \ {m.of} ELSE mounting
    /\ Ask(Enumerate)
    /\ UNCHANGED <<known, list>>

(* rebuild(): the same volumes again redraw nothing. *)
Rebuild(listing) ==
    /\ known' = listing
    /\ UNCHANGED <<calls, mounting, places>>
    /\ IF listing = known THEN UNCHANGED list ELSE Populate

Deliver ==
    /\ messages # <<>>
    /\ UNCHANGED <<plugged, mounted, started, outside, changes, drag>>
    /\ messages' = Tail(messages)
    /\ LET m == Head(messages)
       IN  CASE m.kind = "changed" -> Ask(Enumerate) /\ UNCHANGED <<known, mounting, list>>
             [] m.kind \in {"mounted", "unmounted"} -> OnDone(m)
             [] m.kind = "failed" -> OnFailed(m.of)
             [] m.kind = "listing" -> Rebuild(m.of)

-----------------------------------------------------------------------------
(* The pointer on the rows: handleViewportEvent() and startPlaceDrag().      *)

(* Devices come and go by themselves, and cannot be dragged. *)
Press(p) ==
    /\ drag = NoDrag
    /\ candidate' = [of |-> p, drawn |-> drawn]
    /\ UNCHANGED <<service, places, shown, drawn, drag>>

Release ==
    /\ candidate' = NoPress /\ candidate # NoPress
    /\ UNCHANGED <<service, places, shown, drawn, drag>>

(* The row is read here, and only its path and ids go on the drag. *)
StartPlaceDrag ==
    /\ candidate # NoPress
    /\ drag' = [of |-> candidate.of, left |-> FALSE]
    /\ candidate' = NoPress
    /\ UNCHANGED <<service, places, shown, drawn>>

(* DragLeave, and DragMove once it is back. *)
DragOverTheEdge ==
    /\ drag # NoDrag
    /\ drag' = [drag EXCEPT !.left = ~@]
    /\ UNCHANGED <<service, list>>

(* A change of the layout: a drop, a menu, a key, another window. *)
CommitLayout(l) ==
    /\ places' = l
    /\ UNCHANGED service
    /\ Populate

(* The drag is over: what was dropped where it was not wanted, outside the   *)
(* sidebar, is taken off.  A drag that Escape ended looks the same.          *)
EndPlaceDrag ==
    /\ drag # NoDrag
    /\ drag' = NoDrag
    /\ \/ ~drag.left /\ CommitLayout(places)
       \/ drag.left /\ drag.of \in places /\ CommitLayout(places \ {drag.of})
       \/ UNCHANGED <<service, list>>

(* Menus and keys take a place off, and put the missing ones back. *)
Arrange ==
    /\ drag' = drag
    /\ \/ \E p \in places : CommitLayout(places \ {p})
       \/ places # Places /\ CommitLayout(Places)

Next ==
    \/ Hotplug
    \/ MountedByOthers
    \/ Serve
    \/ StartWatchingDevices
    \/ OpenItem
    \/ UnmountVolume
    \/ Deliver
    \/ \E p \in shown : Press(p)
    \/ Release
    \/ StartPlaceDrag
    \/ DragOverTheEdge
    \/ EndPlaceDrag
    \/ Arrange

Spec == Init /\ [][Next]_vars

-----------------------------------------------------------------------------
(* Once nothing is under way, the rows are the volumes there are, and each   *)
(* says whether it is mounted, unless another program has mounted or         *)
(* unmounted it since the volumes were last listed.                          *)
RowsAreTrue ==
    (started /\ calls = <<>> /\ messages = <<>>) =>
        /\ DOMAIN known = plugged
        /\ \A v \in plugged \ outside : known[v] = (v \in mounted)

(* A volume that is marked as being mounted has a call the service has yet   *)
(* to answer or an answer yet to be seen: no row stays dead to a click.      *)
MountsAreUnderWay ==
    \A v \in mounting :
       \/ \E i \in DOMAIN calls : calls[i] = Call("mount", v)
       \/ \E i \in DOMAIN messages : /\ messages[i].kind \in {"mounted", "failed"}
                                     /\ messages[i].of = v

(* The row a drag would start from is one of the list as it is drawn, though *)
(* drives come, places go and the rows are made anew under the pointer       *)
(* (Sidebar keeps a pointer to it between the press and the move).           *)
PressIsOnALiveRow ==
    candidate # NoPress => candidate.drawn = drawn /\ candidate.of \in shown
=============================================================================
