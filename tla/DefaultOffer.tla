---------------------------- MODULE DefaultOffer ----------------------------
(* The offer to become the default file manager, and the claim of the bus    *)
(* name behind "Show in folder" (app/DefaultFileManagerOffer.cpp,            *)
(* ui/DefaultFileManagerBar.cpp, platform/linux/DefaultFileManager_linux.cpp).*)
(* One thread of a pool of one reads and writes the defaults; the bus        *)
(* answers calls in the order they are made, and its messages arrive in the  *)
(* order it sends them.                                                      *)
EXTENDS Naturals, Sequences

CONSTANTS
    MaxChanges,     \* bound on what the user and other programs do
    MaxMakes        \* bound on the times the user makes Panefile the default

VARIABLES
    default,        \* on disk: both halves name Panefile
    installed,      \* panefile.desktop is installed
    asks,           \* general.offer_default_file_manager, in the file
    other,          \* another file manager is running and wants the name
    place,          \* of Panefile with the bus: "out", "queued" or "owner"
    calls,          \* made to the bus and not answered
    messages,       \* from the bus, not seen
    pool,           \* tasks of the pool, in order
    posted,         \* their answers, not delivered
    statusKnown, isDefault,         \* m_statusKnown, m_status.isDefault()
    optedIn, dismissed, working,    \* m_optedIn, m_dismissed, m_working
    bar,            \* "hidden", "offer", "busy" or "result"
    mayClaim, activated,            \* the context of this process
    requesting, owns,               \* m_requesting, m_owns
    reportClaim,                    \* m_reportClaim
    made,           \* history: this process has made Panefile the default
    changes, makes

world == <<default, installed, asks, other>>
bus   == <<place, calls, messages>>
work  == <<pool, posted>>
offer == <<statusKnown, isDefault, optedIn, dismissed, working, bar>>
claim == <<requesting, owns, reportClaim>>
context == <<mayClaim, activated>>

vars == <<world, bus, work, offer, claim, context, made, changes, makes>>

Replies == {"primary", "in queue", "refused"}

QueuesOK ==
    /\ calls \in Seq({"request", "who"})
    /\ messages \in Seq(Replies \cup {"acquired", "lost", "it is"})
    /\ pool \in Seq({"query", "make"})
    /\ posted \in Seq([of : {"query", "make"}, ok : BOOLEAN])

CountsOK == changes \in 0..MaxChanges /\ makes \in 0..MaxMakes

FlagsOK ==
    /\ default \in BOOLEAN /\ installed \in BOOLEAN /\ asks \in BOOLEAN /\ other \in BOOLEAN
    /\ place \in {"out", "queued", "owner"}
    /\ statusKnown \in BOOLEAN /\ isDefault \in BOOLEAN /\ optedIn \in BOOLEAN
    /\ dismissed \in BOOLEAN /\ working \in BOOLEAN
    /\ bar \in {"hidden", "offer", "busy", "result"}
    /\ mayClaim \in BOOLEAN /\ activated \in BOOLEAN
    /\ requesting \in BOOLEAN /\ owns \in BOOLEAN /\ reportClaim \in BOOLEAN
    /\ made \in BOOLEAN

TypeOK == QueuesOK /\ CountsOK /\ FlagsOK

(* start() *)
Init ==
    /\ default \in BOOLEAN
    /\ installed \in BOOLEAN
    /\ default => installed
    /\ asks \in BOOLEAN
    /\ other \in BOOLEAN
    /\ place = "out"
    /\ calls = <<>> /\ messages = <<>>
    /\ pool = <<"query">> /\ posted = <<>>
    /\ statusKnown = FALSE /\ isDefault = FALSE
    /\ optedIn = asks
    /\ dismissed = FALSE /\ working = FALSE
    /\ bar = "hidden"
    /\ mayClaim \in BOOLEAN
    /\ activated \in BOOLEAN
    /\ requesting = FALSE /\ owns = FALSE /\ reportClaim = FALSE
    /\ made = FALSE
    /\ changes = 0 /\ makes = 0

Change == changes < MaxChanges /\ changes' = changes + 1

-----------------------------------------------------------------------------
ShouldOffer(asked, already, gone) ==
    asked /\ ~already /\ installed /\ ~activated /\ ~gone

(* showOfferIfWanted() in a state where the status is known. *)
OfferIfWanted(asked, already) ==
    bar' = IF ~working /\ ShouldOffer(asked, already, dismissed) /\ bar \notin {"offer", "result"}
             THEN "offer" ELSE bar

(* requestName() *)
RequestName ==
    IF owns \/ requesting
      THEN UNCHANGED <<calls, requesting>>
      ELSE calls' = Append(calls, "request") /\ requesting' = TRUE

(* claimName(), with what the outcome of the claim is to be added to. *)
ClaimName(report) ==
    IF mayClaim
      THEN /\ reportClaim' = (report /\ ~owns)
           /\ RequestName
           /\ UNCHANGED owns
      ELSE reportClaim' = report /\ UNCHANGED <<calls, requesting, owns>>

(* applyStatus() *)
ApplyStatus(found) ==
    /\ statusKnown' = TRUE
    /\ isDefault' = found
    /\ IF found THEN ClaimName(reportClaim) ELSE UNCHANGED <<calls, claim>>
    /\ OfferIfWanted(optedIn, found)
    /\ UNCHANGED <<optedIn, dismissed, working, made>>

(* onMadeDefault() *)
OnMadeDefault(ok) ==
    LET barInUse == bar # "hidden"
    IN  /\ working' = FALSE
        /\ bar' = IF barInUse THEN "result" ELSE bar
        /\ isDefault' = (isDefault \/ ok)
        /\ IF ok THEN ClaimName(barInUse) ELSE UNCHANGED <<calls, claim>>
        /\ made' = (made \/ ok)
        /\ UNCHANGED <<statusKnown, optedIn, dismissed>>

(* The pool runs its next task: queryDefaultFileManager() or                 *)
(* makePanefileDefaultFileManager(), which may fail to write either file.    *)
RunTask ==
    /\ pool # <<>>
    /\ pool' = Tail(pool)
    /\ \/ /\ Head(pool) = "query"
          /\ posted' = Append(posted, [of |-> "query", ok |-> default])
          /\ UNCHANGED default
       \/ /\ Head(pool) = "make"
          /\ \E ok \in BOOLEAN :
                /\ ok => installed
                /\ default' = (default \/ ok)
                /\ posted' = Append(posted, [of |-> "make", ok |-> ok])
    /\ UNCHANGED <<installed, asks, other, bus, offer, claim, context, made, changes, makes>>

(* The event loop delivers the next answer of the pool. *)
Deliver ==
    /\ posted # <<>>
    /\ posted' = Tail(posted)
    /\ \/ Head(posted).of = "query" /\ ApplyStatus(Head(posted).ok)
       \/ Head(posted).of = "make" /\ OnMadeDefault(Head(posted).ok)
    /\ UNCHANGED <<world, place, messages, pool, context, changes, makes>>

-----------------------------------------------------------------------------
(* makeDefault(): Yes on the bar, or the button of the settings. *)
MakeDefault ==
    /\ makes < MaxMakes /\ makes' = makes + 1
    /\ ~working
    /\ working' = TRUE
    /\ bar' = IF bar # "hidden" THEN "busy" ELSE bar
    /\ pool' = Append(pool, "make")
    /\ UNCHANGED <<world, bus, posted, statusKnown, isDefault, optedIn, dismissed, claim,
                   context, made, changes>>

(* notNow() *)
NotNow ==
    /\ bar = "offer"
    /\ dismissed' = TRUE
    /\ bar' = "hidden"
    /\ UNCHANGED <<world, bus, work, statusKnown, isDefault, optedIn, working, claim, context,
                   made, changes, makes>>

(* never(): the file may refuse the answer. *)
Never ==
    /\ bar = "offer"
    /\ dismissed' = TRUE
    /\ bar' = "hidden"
    /\ \/ asks' = FALSE /\ optedIn' = FALSE
       \/ UNCHANGED <<asks, optedIn>>
    /\ UNCHANGED <<default, installed, other, bus, work, statusKnown, isDefault, working, claim,
                   context, made, changes, makes>>

(* The bar's timer hides a result. *)
HideResult ==
    /\ bar = "result"
    /\ bar' = "hidden"
    /\ UNCHANGED <<world, bus, work, statusKnown, isDefault, optedIn, dismissed, working, claim,
                   context, made, changes, makes>>

(* The user edits the file, and it is read again: setOptedIn(). *)
SetOptedIn ==
    /\ Change
    /\ \E b \in BOOLEAN :
          /\ asks' = b
          /\ optedIn' = b
          /\ IF b = optedIn THEN UNCHANGED bar
             ELSE IF ~b THEN bar' = IF bar = "offer" THEN "hidden" ELSE bar
             ELSE IF statusKnown THEN OfferIfWanted(b, isDefault) ELSE UNCHANGED bar
    /\ UNCHANGED <<default, installed, other, bus, work, statusKnown, isDefault, dismissed, working,
                   claim, context, made, makes>>

-----------------------------------------------------------------------------
(* Another file manager takes the name, from Panefile if need be, which then *)
(* waits for it again.                                                       *)
OtherStarts ==
    /\ Change
    /\ ~other /\ other' = TRUE
    /\ IF place = "owner"
         THEN place' = "queued" /\ messages' = Append(messages, "lost")
         ELSE UNCHANGED <<place, messages>>
    /\ UNCHANGED <<default, installed, asks, calls, work, offer, claim, context, made, makes>>

OtherExits ==
    /\ Change
    /\ other /\ other' = FALSE
    /\ IF place = "queued"
         THEN place' = "owner" /\ messages' = Append(messages, "acquired")
         ELSE UNCHANGED <<place, messages>>
    /\ UNCHANGED <<default, installed, asks, calls, work, offer, claim, context, made, makes>>

(* The bus answers a call: for a name nobody has, the signal comes first. *)
Serve ==
    /\ calls # <<>>
    /\ calls' = Tail(calls)
    /\ \/ /\ Head(calls) = "request" /\ other
          /\ place' = "queued"
          /\ messages' = Append(messages, "in queue")
       \/ /\ Head(calls) = "request" /\ ~other
          /\ place' = "owner"
          /\ messages' = (IF place = "owner" THEN messages ELSE Append(messages, "acquired"))
                         \o <<"primary">>
       \/ /\ Head(calls) = "request" /\ place = "out"
          /\ messages' = Append(messages, "refused")
          /\ UNCHANGED place
       \/ /\ Head(calls) = "who"
          /\ messages' = Append(messages, "it is")
          /\ UNCHANGED place
    /\ UNCHANGED <<world, work, offer, claim, context, made, changes, makes>>

(* acquired(): by the reply or by the signal, whichever comes. *)
Acquired(m) == m \in {"acquired", "primary"}

(* onNameLost() *)
OnNameLost(m) == m = "lost"

(* A reply or a signal is seen; nameQueued, nameAcquired, nameUnavailable    *)
(* settle what the result on the bar still had to say.                       *)
OnMessage ==
    /\ messages # <<>>
    /\ messages' = Tail(messages)
    /\ LET m == Head(messages)
       IN  /\ owns' = (Acquired(m) \/ (owns /\ ~OnNameLost(m)))
           /\ requesting' = (requesting /\ m \notin {"primary", "in queue", "refused"})
           /\ calls' = IF m = "in queue" THEN Append(calls, "who") ELSE calls
           /\ reportClaim' = (reportClaim /\ m \notin {"it is", "refused"} /\ ~(Acquired(m) /\ ~owns))
    /\ UNCHANGED <<world, place, work, offer, context, made, changes, makes>>

Next ==
    \/ RunTask
    \/ Deliver
    \/ MakeDefault
    \/ NotNow
    \/ Never
    \/ HideResult
    \/ SetOptedIn
    \/ OtherStarts
    \/ OtherExits
    \/ Serve
    \/ OnMessage

Spec == Init /\ [][Next]_vars

-----------------------------------------------------------------------------
(* The bar asks only what is still a question: not of a user who has put it  *)
(* off or turned it off, not while the answer Yes is being carried out, and  *)
(* never again once this process has made Panefile the default, however the  *)
(* settings are turned in the meantime.                                      *)
OffersAreWanted ==
    /\ bar = "offer" => optedIn /\ asks /\ ~dismissed /\ ~activated /\ installed
    /\ bar = "offer" => ~working /\ ~made
    /\ bar = "busy" => working

(* Once all has been said, Panefile takes itself for the owner of the name   *)
(* exactly when the bus does, through takeovers, queues and grants; and a    *)
(* process that is not the first of its session never asks for it.           *)
NameIsAsTheBusSays ==
    /\ (calls = <<>> /\ messages = <<>>) => (owns <=> place = "owner") /\ ~requesting
    /\ ~mayClaim => place = "out" /\ calls = <<>>

-----------------------------------------------------------------------------
(* Why offers are wanted: the one query is answered before Panefile is made  *)
(* the default, and the file says what the program took from it.             *)
WorkInv ==
    /\ \A i \in DOMAIN pool : pool[i] = "query" => i = 1 /\ posted = <<>> /\ ~made
    /\ \A i \in DOMAIN posted : posted[i].of = "query" => i = 1 /\ ~made
    /\ made => isDefault
    /\ optedIn = asks

(* Why the name is as the bus says: what is last heard of it is what the bus *)
(* last did, and a request under way has a call or a reply under way.        *)
Tells == {i \in DOMAIN messages : messages[i] \in {"acquired", "primary", "lost"}}

BusInv ==
    /\ place # "out" => (other <=> place = "queued")
    /\ Tells = {} => (owns <=> place = "owner")
    /\ \A i \in Tells : (\A j \in Tells : j <= i) => (place = "owner" <=> messages[i] # "lost")
    /\ requesting => \/ \E i \in DOMAIN calls : calls[i] = "request"
                     \/ \E i \in DOMAIN messages : messages[i] \in Replies
    /\ ~mayClaim => place = "out" /\ calls = <<>> /\ messages = <<>>
=============================================================================
