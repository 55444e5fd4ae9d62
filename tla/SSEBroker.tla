------------------------------ MODULE SSEBroker ------------------------------
(***************************************************************************)
(* The broker of server-sent events: backend/sse.go, with the handlers     *)
(* that publish (notifyContacts of backend/user_handlers.go and            *)
(* roomInviteHandler of backend/room_handlers.go).                         *)
(*                                                                         *)
(* A stream is one run of sseHandler: it subscribes its user, which        *)
(* replaces the channel of an earlier stream of the same user, writes the  *)
(* events of its own channel to the browser, and cleans up when the        *)
(* request is over.  A publisher is the goroutine of another request.  It  *)
(* looks the channel up under the lock and sends to it after it has given  *)
(* the lock back, so Publish is two steps.  The methods of the broker that *)
(* hold the lock to their end are one step each.                           *)
(***************************************************************************)
EXTENDS Naturals, Sequences, FiniteSets, SequencesExt

CONSTANTS
    Users,
    Streams,        \* runs of sseHandler, and the channel each has made
    Publishers,     \* requests that publish
    None,           \* no channel, or no user
    Buffer,         \* capacity of a channel (10 in Subscribe)
    MaxContacts     \* bound: how many contacts a request notifies

ASSUME NoneAssumption == None \notin Streams \cup Users
ASSUME BufferAssumption == Buffer \in Nat \ {0}
ASSUME MaxContactsAssumption == MaxContacts \in Nat \ {0}

VARIABLES
    subs,       \* SSEBroker.subs: the channel of a user, or None
    stream,     \* none, running (in the loop), ending (in the deferred cleanup)
    owner,      \* the user of a stream that is not over
    chan,       \* its channel: open or closed
    held,       \* how many events are in the channel
    at,         \* where a publisher is: idle, look, send, panicked
    todo,       \* the users it has still to publish to
    ch,         \* the channel it has looked up, or None
    latest      \* the stream that subscribed last for a user (for the properties)

streamVars == <<subs, stream, owner, chan, latest>>
pubVars == <<at, todo, ch>>
vars == <<streamVars, held, pubVars>>

Init ==
    /\ subs = [u \in Users |-> None]
    /\ stream = [s \in Streams |-> "none"]
    /\ owner = [s \in Streams |-> None]
    /\ chan = [s \in Streams |-> "closed"]
    /\ held = [s \in Streams |-> 0]
    /\ at = [p \in Publishers |-> "idle"]
    /\ todo = [p \in Publishers |-> <<>>]
    /\ ch = [p \in Publishers |-> None]
    /\ latest = [u \in Users |-> None]

-----------------------------------------------------------------------------
(***************************************************************************)
(* Streams.                                                                *)
(***************************************************************************)

\* Nobody refers to the channel of s any more: s can stand for a new one.
Fresh(s) == stream[s] = "none" /\ \A p \in Publishers : ch[p] # s

\* Subscribe: a new channel for u, whatever was there.
Subscribe(s, u) ==
    /\ Fresh(s)
    /\ subs' = [subs EXCEPT ![u] = s]
    /\ stream' = [stream EXCEPT ![s] = "running"]
    /\ owner' = [owner EXCEPT ![s] = u]
    /\ chan' = [chan EXCEPT ![s] = "open"]
    /\ held' = [held EXCEPT ![s] = 0]
    /\ latest' = [v \in Users |-> IF v = u THEN s ELSE IF latest[v] = s THEN None ELSE latest[v]]
    /\ UNCHANGED pubVars

\* The loop takes an event out of the channel and writes it to the browser.
WriteEvent(s) ==
    /\ stream[s] = "running" /\ held[s] > 0
    /\ held' = [held EXCEPT ![s] = @ - 1]
    /\ UNCHANGED <<streamVars, pubVars>>

\* The browser has closed the EventSource: the loop returns.
Done(s) ==
    /\ stream[s] = "running"
    /\ stream' = [stream EXCEPT ![s] = "ending"]
    /\ UNCHANGED <<subs, owner, chan, latest, held, pubVars>>

\* Slip: it does not look whose channel is there.
UnregisterAny(s, u) ==
    /\ subs' = [subs EXCEPT ![u] = None]
    /\ chan' = [chan EXCEPT ![s] = "closed"]

\* Remove and close the channel, if it is still the one of the user.
Unregister(s, u) ==
    IF subs[u] = s
    THEN /\ subs' = [subs EXCEPT ![u] = None]
         /\ chan' = [chan EXCEPT ![s] = "closed"]
    ELSE UNCHANGED <<subs, chan>>

\* The deferred cleanup.
Cleanup(s) ==
    /\ stream[s] = "ending"
    /\ stream' = [stream EXCEPT ![s] = "none"]
    /\ Unregister(s, owner[s])
    /\ owner' = [owner EXCEPT ![s] = None]
    /\ UNCHANGED <<latest, held, pubVars>>

-----------------------------------------------------------------------------
(***************************************************************************)
(* Publishers.                                                             *)
(***************************************************************************)

\* A request notifies the contacts of its user (login, logout), or invites
\* one of them.
Request(p, us) ==
    /\ at[p] = "idle"
    /\ at' = [at EXCEPT ![p] = "look"]
    /\ todo' = [todo EXCEPT ![p] = us]
    /\ UNCHANGED <<streamVars, held, ch>>

\* Publish, first half: the channel of the next user.
Lookup(p) ==
    /\ at[p] = "look"
    /\ at' = [at EXCEPT ![p] = "send"]
    /\ ch' = [ch EXCEPT ![p] = subs[Head(todo[p])]]
    /\ UNCHANGED <<streamVars, held, todo>>

\* Slip: without the default branch it waits for room in the channel.
DeliverBlocking(s) ==
    /\ held[s] < Buffer
    /\ held' = [held EXCEPT ![s] = @ + 1]

\* Slip: the channel takes whatever comes.
DeliverAlways(s) == held' = [held EXCEPT ![s] = @ + 1]

\* select: the event goes into the channel, or is dropped when it is full.
Deliver(s) ==
    held' = IF held[s] < Buffer THEN [held EXCEPT ![s] = @ + 1] ELSE held

\* Publish, second half.  A send to a closed channel panics, which ends the
\* request (net/http recovers it): the users it had still to notify are not.
Send(p) ==
    LET s == ch[p]
        panics == s # None /\ chan[s] = "closed"
        rest == Tail(todo[p])
    IN  /\ at[p] = "send"
        /\ ch' = [ch EXCEPT ![p] = None]
        /\ todo' = [todo EXCEPT ![p] = IF panics THEN <<>> ELSE rest]
        /\ at' = [at EXCEPT ![p] = IF panics THEN "panicked"
                                   ELSE IF rest = <<>> THEN "idle" ELSE "look"]
        /\ IF s = None \/ panics THEN UNCHANGED held ELSE Deliver(s)
        /\ UNCHANGED streamVars

\* The goroutine has ended; the next request has a new one.
Recover(p) ==
    /\ at[p] = "panicked"
    /\ at' = [at EXCEPT ![p] = "idle"]
    /\ UNCHANGED <<streamVars, held, todo, ch>>

-----------------------------------------------------------------------------
Contacts == {us \in UNION {[1..n -> Users] : n \in 1..MaxContacts} : IsInjective(us)}

Stream(s) == (\E u \in Users : Subscribe(s, u)) \/ WriteEvent(s) \/ Done(s) \/ Cleanup(s)
Publisher(p) == (\E us \in Contacts : Request(p, us)) \/ Lookup(p) \/ Send(p) \/ Recover(p)

Next == (\E s \in Streams : Stream(s)) \/ (\E p \in Publishers : Publisher(p))

Spec == Init /\ [][Next]_vars

\* A goroutine that can go on does.  Nothing makes a browser open or close a
\* stream, or send a request; nothing is assumed of the writes to it.
Fairness ==
    /\ \A s \in Streams : WF_vars(Cleanup(s))
    /\ \A p \in Publishers : WF_vars(Lookup(p) \/ Send(p) \/ Recover(p))

FairSpec == Spec /\ Fairness

-----------------------------------------------------------------------------
(***************************************************************************)
(* Properties.                                                             *)
(***************************************************************************)

\* The type invariant of the broker, its streams and its publishers; a
\* channel never holds more than it has room for.
TypeOK ==
    /\ subs \in [Users -> Streams \cup {None}]
    /\ stream \in [Streams -> {"none", "running", "ending"}]
    /\ owner \in [Streams -> Users \cup {None}]
    /\ chan \in [Streams -> {"open", "closed"}]
    /\ held \in [Streams -> 0..Buffer]
    /\ at \in [Publishers -> {"idle", "look", "send", "panicked"}]
    /\ todo \in [Publishers -> Seq(Users)]
    /\ ch \in [Publishers -> Streams \cup {None}]
    /\ latest \in [Users -> Streams \cup {None}]

\* The broker publishes to the newest stream of a user as long as that runs,
\* however many older ones end meanwhile: their cleanup, late as it may come,
\* never takes a newer subscription away; and a user without entry has none.
NewestIsSubscribed ==
    \A u \in Users :
        subs[u] = IF latest[u] # None /\ stream[latest[u]] # "none" THEN latest[u] ELSE None

\* The map never leads a publisher to a channel that is closed already.
EntryIsOpen == \A u \in Users : subs[u] # None => chan[subs[u]] = "open"

\* A request that publishes comes to its end, whatever becomes of the streams
\* it publishes to: Publish never waits for a browser.
RequestsEnd == \A p \in Publishers : at[p] # "idle" ~> at[p] = "idle"

\* "Buffer full, drop event" is the worst that happens to an event: Publish
\* to a user whose stream ends does not bring the request down.
PublishReturns == \A p \in Publishers : at[p] # "panicked"

=============================================================================
