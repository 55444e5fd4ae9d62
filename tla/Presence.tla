------------------------------ MODULE Presence ------------------------------
(***************************************************************************)
(* What a user sees of the status of a contact: the handlers that write    *)
(* users.status and tell the contacts (backend/user_handlers.go), the      *)
(* broker they tell them through (SSEBroker), the EventSource that one tab *)
(* keeps (frontend/src/contexts/AuthContext.jsx, hooks/useSSE.js), and the *)
(* list of contacts it shows (hooks/useContacts.js).                       *)
(*                                                                         *)
(* Viewer is the user of the tab.  Another user, the friend, logs in and   *)
(* out; Users are the contacts of the friend, and a publisher is one of    *)
(* its requests.  A stream belongs to the tab while it is in "linked".     *)
(*                                                                         *)
(* Every step is a step of the broker or leaves it alone (PresenceProofs). *)
(***************************************************************************)
EXTENDS SSEBroker

CONSTANTS
    Viewer,         \* the user of the tab
    MaxAnswers      \* bound: fetches of the contacts at a time

ASSUME ViewerAssumption == Viewer \in Users
ASSUME MaxAnswersAssumption == MaxAnswers \in Nat \ {0}

VARIABLES
    status,     \* users.status of the friend
    doing,      \* the event a request of the friend is about, or "none"
    line,       \* the events in the channel of a stream
    user,       \* AuthContext: user is not null
    linked,     \* the stream the EventSource of the tab is connected to, if any
    asked,      \* fetches of the contacts the server has not answered
    answers,    \* answers to them under way
    shown,      \* the status the list shows for the friend, "none" before it is loaded
    \* for the properties:
    astray,     \* a change will not reach the list, or has not reached it last
    crossed     \* an event under way may be older than the status

friendVars == <<status, doing>>
tabVars == <<user, linked>>
listVars == <<asked, answers, shown>>
ghostVars == <<astray, crossed>>
pvars == <<vars, friendVars, line, tabVars, listVars, ghostVars>>

Statuses == {"online", "offline"}

PInit ==
    /\ Init
    /\ status = "offline"
    /\ doing = [p \in Publishers |-> "none"]
    /\ line = [s \in Streams |-> <<>>]
    /\ user = FALSE /\ linked = {}
    /\ asked = 0 /\ answers = {} /\ shown = "none"
    /\ astray = FALSE /\ crossed = FALSE

-----------------------------------------------------------------------------
(***************************************************************************)
(* The friend.                                                             *)
(***************************************************************************)

\* A request of the friend, or an event, is under way.
Busy ==
    \/ \E p \in Publishers : doing[p] # "none"
    \/ \E s \in Streams : line[s] # <<>>

\* The answers under way are older than what happens now.
Outdated == {[a EXCEPT !.late = TRUE] : a \in answers}

\* The list is not told of a change, or not in the order of the changes.
Miss ==
    /\ astray' = TRUE
    /\ crossed' = (crossed \/ Busy)
    /\ answers' = Outdated

\* loginHandler and logoutHandler begin with the row.
Write(p, new) ==
    /\ at[p] = "idle" /\ doing[p] = "none"
    /\ status' = new
    /\ doing' = [doing EXCEPT ![p] = new]
    /\ IF \E q \in Publishers : doing[q] # "none" THEN Miss ELSE UNCHANGED <<answers, ghostVars>>
    /\ UNCHANGED <<vars, line, tabVars, asked, shown>>

\* notifyContacts asks for the contacts, which come in any order.
Notify(p) ==
    /\ at[p] = "idle" /\ doing[p] # "none"
    /\ \E us \in Contacts :
        /\ ToSet(us) = Users
        /\ Request(p, us)
    /\ UNCHANGED <<friendVars, line, tabVars, listVars, ghostVars>>

NotifyLookup(p) ==
    /\ Lookup(p)
    /\ UNCHANGED <<friendVars, line, tabVars, listVars, ghostVars>>

\* The event goes into the channel of the viewer, or is lost: nobody was
\* subscribed, the channel is full, has been closed, or nobody reads it.
NotifySend(p) ==
    LET s == ch[p]
        put == s # None /\ chan[s] = "open" /\ held[s] < Buffer
    IN  /\ Send(p)
        /\ line' = IF put THEN [line EXCEPT ![s] = Append(@, doing[p])] ELSE line
        /\ doing' = IF at'[p] = "look" THEN doing ELSE [doing EXCEPT ![p] = "none"]
        /\ IF \/ put /\ stream[s] # "none"
              \/ Head(todo[p]) # Viewer /\ at'[p] # "panicked"
           THEN UNCHANGED <<answers, ghostVars>>
           ELSE Miss
        /\ UNCHANGED <<status, tabVars, asked, shown>>

NotifyRecover(p) ==
    /\ Recover(p)
    /\ UNCHANGED <<friendVars, line, tabVars, listVars, ghostVars>>

\* ipUpdateHandler, called by the friend's heartbeat: the friend is online,
\* also when the request comes after the logout, and nobody is told.
IPUpdate ==
    /\ status' = "online"
    /\ IF status = "online" THEN UNCHANGED <<answers, ghostVars>> ELSE Miss
    /\ UNCHANGED <<vars, doing, line, tabVars, asked, shown>>

-----------------------------------------------------------------------------
(***************************************************************************)
(* The streams of the viewer.                                              *)
(***************************************************************************)

\* The EventSource of the tab is connected, at first or again (Account has
\* the timers and the cookies that lead here).
Connect(s) ==
    /\ user /\ linked = {}
    /\ Subscribe(s, Viewer)
    /\ linked' = {s}
    /\ line' = [line EXCEPT ![s] = <<>>]
    /\ UNCHANGED <<friendVars, user, listVars, ghostVars>>

\* Another tab of the same user connects, or the request of an EventSource
\* that has been closed meanwhile arrives late.
ConnectOther(s) ==
    /\ Subscribe(s, Viewer)
    /\ line' = [line EXCEPT ![s] = <<>>]
    /\ UNCHANGED <<friendVars, tabVars, listVars, ghostVars>>

\* onerror: the EventSource is closed.
ConnLost(s) ==
    /\ s \in linked
    /\ linked' = {}
    /\ UNCHANGED <<vars, friendVars, line, user, listVars, ghostVars>>

\* The loop of a stream sees that its request is over.
StreamDone(s) ==
    /\ s \notin linked
    /\ Done(s)
    /\ UNCHANGED <<friendVars, line, tabVars, listVars, ghostVars>>

\* Slip: sseHandler returns without its deferred cleanup.
StreamCleanupNot(s) ==
    /\ stream[s] = "ending"
    /\ stream' = [stream EXCEPT ![s] = "none"]
    /\ owner' = [owner EXCEPT ![s] = None]
    /\ UNCHANGED <<subs, chan, latest, held, pubVars>>
    /\ UNCHANGED <<friendVars, line, tabVars, listVars, ghostVars>>

\* The events still in the channel go with it.
StreamCleanup(s) ==
    /\ Cleanup(s)
    /\ line' = [line EXCEPT ![s] = <<>>]
    /\ IF line[s] = <<>> THEN UNCHANGED <<answers, ghostVars>> ELSE Miss
    /\ UNCHANGED <<friendVars, tabVars, asked, shown>>

-----------------------------------------------------------------------------
(***************************************************************************)
(* The list of contacts.                                                   *)
(***************************************************************************)

\* Slip: every event means online.
SeenOnline(e) == IF shown = "none" THEN "none" ELSE "online"

\* The listener of useContacts: an event changes the contact in the list.
Seen(e) == IF shown = "none" THEN "none" ELSE e

\* The stream writes an event; the tab handles it if it still listens.
Event(s) ==
    /\ WriteEvent(s)
    /\ line' = [line EXCEPT ![s] = Tail(@)]
    /\ IF s \in linked
       THEN /\ shown' = Seen(Head(line[s]))
            /\ answers' = Outdated
            /\ UNCHANGED ghostVars
       ELSE Miss /\ UNCHANGED shown
    /\ UNCHANGED <<friendVars, tabVars, asked>>

\* fetchContacts: the request, and what the database says when it arrives.
Fetch ==
    /\ user /\ asked + Cardinality(answers) < MaxAnswers
    /\ asked' = asked + 1
    /\ UNCHANGED <<vars, friendVars, line, tabVars, answers, shown, ghostVars>>

ServeContacts ==
    /\ asked > 0
    /\ asked' = asked - 1
    /\ answers' = answers \cup {[status |-> status, late |-> crossed /\ Busy]}
    /\ crossed' = (crossed /\ Busy)
    /\ UNCHANGED <<vars, friendVars, line, tabVars, shown, astray>>

GetContacts(a) ==
    /\ a \in answers
    /\ answers' = answers \ {a}
    /\ shown' = a.status
    /\ astray' = a.late
    /\ UNCHANGED <<vars, friendVars, line, tabVars, asked, crossed>>

-----------------------------------------------------------------------------
(***************************************************************************)
(* The tab begins and ends.                                                *)
(***************************************************************************)

\* login, register, or refreshMe after the page was loaded, then the first
\* fetch of the list.
Start ==
    /\ ~user
    /\ user' = TRUE
    /\ asked' = 1
    /\ UNCHANGED <<vars, friendVars, line, linked, answers, shown, ghostVars>>

\* logout, or the page is closed: the effects are cleaned up and the list is
\* gone, with whoever waits for an answer to it.
Stop ==
    /\ user
    /\ user' = FALSE /\ linked' = {}
    /\ asked' = 0 /\ answers' = {} /\ shown' = "none" /\ astray' = FALSE
    /\ UNCHANGED <<vars, friendVars, line, crossed>>

-----------------------------------------------------------------------------
FriendTells(p) == Notify(p) \/ NotifyLookup(p) \/ NotifySend(p) \/ NotifyRecover(p)

Friend(p) == (\E new \in Statuses : Write(p, new)) \/ FriendTells(p)

ViewerStream(s) ==
    Connect(s) \/ ConnectOther(s) \/ ConnLost(s) \/ Event(s) \/ StreamDone(s) \/ StreamCleanup(s)

List == Start \/ Stop \/ Fetch \/ ServeContacts \/ \E a \in answers : GetContacts(a)

PNext ==
    \/ \E p \in Publishers : Friend(p)
    \/ IPUpdate
    \/ \E s \in Streams : ViewerStream(s)
    \/ List

PSpec == PInit /\ [][PNext]_pvars

\* The fairness of SSEBroker: requests and cleanups go on.
PFairness ==
    /\ \A s \in Streams : WF_pvars(StreamCleanup(s))
    /\ \A p \in Publishers : WF_pvars(FriendTells(p))

PFairSpec == PSpec /\ PFairness

-----------------------------------------------------------------------------
(***************************************************************************)
(* Properties.                                                             *)
(***************************************************************************)

\* The type invariant of the broker and of what surrounds it; the channel of a
\* stream holds as many events as the broker counts.
TabTypeOK ==
    /\ TypeOK
    /\ status \in Statuses
    /\ doing \in [Publishers -> Statuses \cup {"none"}]
    /\ line \in [Streams -> Seq(Statuses)]
    /\ user \in BOOLEAN /\ astray \in BOOLEAN /\ crossed \in BOOLEAN
    /\ linked \subseteq Streams
    /\ asked \in 0..MaxAnswers
    /\ answers \subseteq [status : Statuses, late : BOOLEAN]
    /\ shown \in Statuses \cup {"none"}
    /\ \A s \in Streams : stream[s] # "none" => Len(line[s]) = held[s]

\* What the requests and the streams do to the broker is what SSEBroker
\* says: Presence implements it.
UsesBroker == Spec

\* No request, event or answer is under way.
Quiet ==
    /\ \A p \in Publishers : at[p] = "idle" /\ doing[p] = "none"
    /\ \A s \in Streams : stream[s] # "none" => line[s] = <<>>
    /\ asked = 0 /\ answers = {}

\* Once everything under way has arrived, the list shows the status that the
\* database holds - unless a change was never told (IPUpdate), its event was
\* lost, or an answer older than the last event came after it.
ShownIsRight == user /\ Quiet /\ shown # "none" /\ ~astray => shown = status

=============================================================================
