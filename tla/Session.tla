------------------------------- MODULE Session -------------------------------
(***************************************************************************)
(* The session of a browser: frontend/src/pages/AppPage.jsx with           *)
(* useSignaling.js, useWebRTC.js and the buttons of RoomPanel.jsx and      *)
(* ContactsPanel.jsx, for several browsers that meet in the rooms of the   *)
(* hub.                                                                    *)
(*                                                                         *)
(* app[b] is what the handlers of browser b set: React state and refs.     *)
(* seen[b] is what React has rendered of it.  Commit renders, and runs the *)
(* effects whose dependencies have changed: they open and close the        *)
(* WebSocket and the peer connection and arm the watchdog.  Handlers of    *)
(* messages, timers and peer connections may run before that, so several   *)
(* updates may be rendered at once.                                        *)
(*                                                                         *)
(* The hub is a line of sockets per room (RoomLine, which Hub implements)  *)
(* and the notices it sends; a signal that is sent is at the hub at once   *)
(* and waits in down[c], in order, until browser c takes it.               *)
(***************************************************************************)
EXTENDS Naturals, Sequences, FiniteSets, SequencesExt

CONSTANTS
    Browsers,
    RoomIDs,    \* the rooms that can be created
    NoRoom,     \* roomID is null
    None,       \* no description has been heard
    MaxJoins,   \* bound: how often a browser goes into a room
    MaxTrouble, \* bound: how often the network fails of itself
    Eager       \* React renders before the browser handles the next event

ASSUME NoRoomAssumption == NoRoom \notin RoomIDs
ASSUME MaxJoinsAssumption == MaxJoins \in Nat
ASSUME MaxTroubleAssumption == MaxTrouble \in Nat
ASSUME EagerAssumption == Eager \in BOOLEAN

VARIABLES
    app,        \* state and refs of AppPage, by browser
    seen,       \* what was rendered last: room, active role, ICE state
    ws,         \* the WebSocket: none, connecting, open, lost
    gen,        \* how many a browser has opened
    down,       \* messages on their way to a browser
    line,       \* the hub's line of sockets, by room
    fate,       \* of a room: unused, made, hosted (the maker came first), stray
    fetching,   \* the roles effects wait with for getIceConfig, not cancelled
    pc,         \* pcRef
    made,       \* how many peer connections a browser has made
    alive,      \* the peer connections that are not closed
    trouble     \* how often the network has failed

rtcVars == <<fetching, pc, made, alive>>
hubVars == <<gen, line, fate>>
vars == <<app, seen, ws, down, hubVars, rtcVars, trouble>>

-----------------------------------------------------------------------------
\* The WebSocket a browser has opened last, and whether it is in use.
Sock(b) == <<b, gen[b]>>
Live(s) == s = Sock(s[1]) /\ ws[s[1]] = "open"

NoPC == [n |-> 0, role |-> "none", sig |-> "closed", heard |-> None, opened |-> FALSE]
Id(b) == <<b, pc[b].n>>

IsConnected(x) == x.ice = "connected"

\* activeRole: there is a role to play only when a peer has joined.
ActiveRole(a) == IF a.status = "joined" THEN a.role ELSE "none"

\* What React renders of the state a, as far as effects depend on it.
Shown(a) == [room |-> a.room, role |-> ActiveRole(a), ice |-> a.ice]
Rendered(b) == seen[b] = Shown(app[b])

\* An event of the browser other than rendering may be handled.
MayHandle(b) == Eager => Rendered(b)

Start == [room |-> NoRoom, role |-> "none", status |-> "waiting", chan |-> 0,
          pos |-> 0, ice |-> "new", wasActive |-> FALSE, pending |-> {},
          watchdog |-> FALSE, joins |-> <<>>]

Init ==
    /\ app = [b \in Browsers |-> Start]
    /\ seen = [b \in Browsers |-> Shown(Start)]
    /\ ws = [b \in Browsers |-> "none"]
    /\ gen = [b \in Browsers |-> 0]
    /\ down = [b \in Browsers |-> <<>>]
    /\ line = [r \in RoomIDs |-> <<>>]
    /\ fate = [r \in RoomIDs |-> "unused"]
    /\ fetching = [b \in Browsers |-> {}]
    /\ pc = [b \in Browsers |-> NoPC]
    /\ made = [b \in Browsers |-> 0]
    /\ alive = {}
    /\ trouble = 0

-----------------------------------------------------------------------------
(***************************************************************************)
(* disconnect, and what calls it.                                          *)
(***************************************************************************)

\* cleanup of useWebRTC.
ClosePC(b) ==
    /\ pc' = [pc EXCEPT ![b] = NoPC]
    /\ alive' = alive \ {Id(b)}
    /\ UNCHANGED made

\* Slip: the place in the queue is not reset.
ResetKeepsPlace(a) == [Start EXCEPT !.joins = a.joins, !.pos = a.pos]

\* Slip: the flags of a pending call are not reset.
ResetKeepsCall(a) == [Start EXCEPT !.joins = a.joins, !.pending = a.pending]

\* What disconnect leaves of a.  A join that is waiting for its 50 ms stays.
Reset(a) == [Start EXCEPT !.joins = a.joins]

Disconnect(b) ==
    /\ app' = [app EXCEPT ![b] = Reset(@)]
    /\ ClosePC(b)
    /\ UNCHANGED <<seen, ws, down, hubVars, fetching>>

\* The buttons Disconnect and Cancel Connection are there while a room is.
PressDisconnect(b) == seen[b].room # NoRoom /\ MayHandle(b) /\ Disconnect(b)

\* The watchdog of 20 s.
WatchdogFires(b) == app[b].watchdog /\ MayHandle(b) /\ Disconnect(b)

\* The grace timer of 5 s, or the 1.5 s after a failure, which run while the
\* ICE state that was rendered says so.
GraceExpires(b) ==
    seen[b].ice \in {"disconnected", "failed"} /\ MayHandle(b) /\ Disconnect(b)

-----------------------------------------------------------------------------
(***************************************************************************)
(* Going into a room.                                                      *)
(***************************************************************************)

\* handleJoinRoom and handleCreateRoom: disconnect, and go there after 50 ms.
\* A pending call is noted after that, with its room for the properties.
GoTo(b, r, role, call) ==
    LET a == Reset(app[b])
    IN  /\ MayHandle(b)
        /\ app[b].joins = <<>>
        /\ gen[b] < MaxJoins
        /\ app' = [app EXCEPT ![b] =
                    [a EXCEPT !.joins = Append(@, [room |-> r, role |-> role]),
                              !.pending = call]]
        /\ ClosePC(b)
        /\ UNCHANGED <<seen, ws, down, gen, line, fetching>>

\* The buttons to create and to join are there only without a room.
HasRoomButtons(b) == seen[b].room = NoRoom

HandleCreate(b, r) ==
    /\ HasRoomButtons(b)
    /\ fate[r] = "unused"
    /\ fate' = [fate EXCEPT ![r] = "made"]
    /\ GoTo(b, r, "offerer", {})

\* The id of a room is known once it is made, and the maker need not be in it.
HandleJoin(b, r) ==
    /\ HasRoomButtons(b)
    /\ fate[r] # "unused"
    /\ GoTo(b, r, "answerer", {})
    /\ UNCHANGED fate

\* handleCall: the server's new room, and a call once connected.
HandleCall(b, r) ==
    /\ fate[r] = "unused"
    /\ fate' = [fate EXCEPT ![r] = "made"]
    /\ GoTo(b, r, "offerer", {<<"start", r>>})

\* handleAcceptInvite of a call.
HandleAcceptInvite(b, r) ==
    /\ fate[r] # "unused"
    /\ GoTo(b, r, "answerer", {<<"accept", r>>})
    /\ UNCHANGED fate

\* The 50 ms are over, and the disconnect has been rendered long since.
JoinTimer(b) ==
    /\ MayHandle(b)
    /\ app[b].joins # <<>>
    /\ seen[b].room = NoRoom
    /\ LET j == Head(app[b].joins)
       IN  app' = [app EXCEPT ![b].room = j.room, ![b].role = j.role, ![b].joins = Tail(@)]
    /\ UNCHANGED <<seen, ws, down, hubVars, rtcVars>>

-----------------------------------------------------------------------------
(***************************************************************************)
(* React renders and runs the effects.                                     *)
(***************************************************************************)

\* The effect of useSignaling: close the old socket, open one for the room.
SignalingEffect(b, x) ==
    IF seen[b].room = x.room THEN UNCHANGED <<ws, gen, down>>
    ELSE /\ ws' = [ws EXCEPT ![b] = IF x.room = NoRoom THEN "none" ELSE "connecting"]
         /\ gen' = IF x.room = NoRoom THEN gen ELSE [gen EXCEPT ![b] = @ + 1]
         /\ down' = [down EXCEPT ![b] = <<>>]

\* Slip: a fetch that is under way is not cancelled.
WebRTCEffectUncancelled(b, x) ==
    IF seen[b].role = x.role THEN UNCHANGED rtcVars
    ELSE /\ fetching' = [fetching EXCEPT ![b] = @ \cup ({x.role} \ {"none"})]
         /\ IF seen[b].role = "none" THEN UNCHANGED <<pc, made, alive>> ELSE ClosePC(b)

\* Slip: nothing closes the old peer connection.
WebRTCEffectUnclosed(b, x) ==
    IF seen[b].role = x.role THEN UNCHANGED rtcVars
    ELSE /\ fetching' = [fetching EXCEPT ![b] = {x.role} \ {"none"}]
         /\ UNCHANGED <<pc, made, alive>>

\* The effect of useWebRTC: cancel and close what was there, and wait for the
\* ICE configuration.
WebRTCEffect(b, x) ==
    IF seen[b].role = x.role THEN UNCHANGED rtcVars
    ELSE /\ fetching' = [fetching EXCEPT ![b] = {x.role} \ {"none"}]
         /\ IF seen[b].role = "none" THEN UNCHANGED <<pc, made, alive>> ELSE ClosePC(b)

\* Slip: a connection that is lost does not start the watchdog again.
WatchdogEffectOnce(b, x) ==
    IF seen[b].room # x.room \/ IsConnected(x)
    THEN x.room # NoRoom /\ ~IsConnected(x)
    ELSE app[b].watchdog

\* The watchdog runs while there is a room and no connection.
WatchdogEffect(b, x) ==
    IF seen[b].room # x.room \/ IsConnected(seen[b]) # IsConnected(x)
    THEN x.room # NoRoom /\ ~IsConnected(x)
    ELSE app[b].watchdog

\* The effects that start the pending calls.
CallEffect(b, x) ==
    IF IsConnected(x) /\ ~IsConnected(seen[b]) THEN {} ELSE app[b].pending

Commit(b) ==
    LET x == Shown(app[b])
    IN  /\ ~Rendered(b)
        /\ seen' = [seen EXCEPT ![b] = x]
        /\ SignalingEffect(b, x)
        /\ WebRTCEffect(b, x)
        /\ app' = [app EXCEPT
                    ![b].watchdog = WatchdogEffect(b, x),
                    ![b].pending = CallEffect(b, x),
                    ![b].ice = IF seen[b].role \notin {x.role, "none"} THEN "new" ELSE @]
        /\ UNCHANGED <<line, fate>>

-----------------------------------------------------------------------------
(***************************************************************************)
(* The hub and the sockets (external to the browser; Hub is the model).    *)
(***************************************************************************)

Msg(t) == [type |-> t]
Place(t, n) == [type |-> t, position |-> n]
Offer(id) == [type |-> "offer", by |-> id]
Answer(id, of) == [type |-> "answer", by |-> id, to |-> of]

\* What is said to each of some sockets reaches those of open that live.
Deliver(said, open) ==
    down' = [c \in Browsers |->
        IF c \in open /\ Sock(c) \in DOMAIN said THEN down[c] \o said[Sock(c)] ELSE down[c]]

Open == {c \in Browsers : ws[c] = "open"}

\* Where the socket s stands in the line l.
PlaceIn(l, s) == CHOOSE k \in DOMAIN l : l[k] = s

\* What the hub says when the line has become l at its end.
EnterNotes(l) ==
    [s \in ToSet(l) |->
        LET k == PlaceIn(l, s)
        IN  IF Len(l) = 2 THEN <<Msg(IF k = 1 THEN "peer-joined" ELSE "room-ready")>>
            ELSE IF k = Len(l) /\ k > 2 THEN <<Place("queued", k - 2)>>
            ELSE <<>>]

\* The socket of b opens, and the hub puts it at the end of the line.
Enter(b) ==
    LET r == seen[b].room
        l == Append(line[r], Sock(b))
        hosted == fate[r] = "made" /\ app[b].role = "offerer"
    IN  /\ ws[b] = "connecting"
        /\ ws' = [ws EXCEPT ![b] = "open"]
        /\ line' = [line EXCEPT ![r] = l]
        /\ fate' = [fate EXCEPT ![r] =
                        IF Len(l) > 1 THEN @ ELSE IF hosted THEN "hosted" ELSE "stray"]
        /\ Deliver(EnterNotes(l), Open \cup {b})
        /\ UNCHANGED <<app, seen, gen, rtcVars>>

\* The network takes a socket away; the browser only shows it.
WsLost(b) ==
    /\ ws[b] = "open"
    /\ ws' = [ws EXCEPT ![b] = "lost"]
    /\ down' = [down EXCEPT ![b] = <<>>]
    /\ UNCHANGED <<app, seen, hubVars, rtcVars>>

\* What the hub says when the one at place i has gone and rest is the line.
LeaveNotes(rest, i) ==
    [s \in ToSet(rest) |->
        LET k == PlaceIn(rest, s)
        IN  IF k > 2 THEN <<Place("queue-position", k - 2)>>
            ELSE IF i > 2 THEN <<>>
            ELSE IF k = 2 THEN <<Msg("queue-promoted")>>
            ELSE IF Len(rest) = 1 THEN <<Msg("peer-left")>>
            ELSE <<Msg("peer-left"), Msg("peer-joined")>>]

\* The hub finds that the socket at place i of a room is gone.
HubLeave(r, i) ==
    /\ i \in DOMAIN line[r]
    /\ ~Live(line[r][i])
    /\ line' = [line EXCEPT ![r] = RemoveAt(@, i)]
    /\ fate' = [fate EXCEPT ![r] = IF Len(line[r]) = 1 THEN "stray" ELSE @]
    /\ Deliver(LeaveNotes(RemoveAt(line[r], i), i), Open)
    /\ UNCHANGED <<app, seen, ws, gen, rtcVars>>

\* sendSignal, and Relay: to the active peers of the room but the sender.
SendSignal(b, m) ==
    LET front == UNION {{line[r][i] : i \in DOMAIN line[r] \cap {1, 2}} :
                            r \in {x \in RoomIDs : Sock(b) \in ToSet(line[x])}}
    IN  Deliver([s \in front \ {Sock(b)} |-> <<m>>], IF Live(Sock(b)) THEN Open ELSE {})

-----------------------------------------------------------------------------
(***************************************************************************)
(* onSignalingMessage: what a message makes of the state a.                *)
(***************************************************************************)
\* Slips: the survivor keeps his role; a status that does not exist; the place
\* stays.
PeerJoinedKeepsRole(a) == [a EXCEPT !.pos = 0, !.status = "joined", !.wasActive = FALSE]
QueuedStatus(a, n) == [a EXCEPT !.pos = n, !.status = "queued"]
QueuePromotedKeepsPlace(a) == [a EXCEPT !.role = "answerer", !.status = "joined"]

PeerJoined(a) == [a EXCEPT !.pos = 0, !.status = "joined", !.wasActive = FALSE,
                           !.role = IF a.wasActive THEN "offerer" ELSE @]
RoomReady(a) == [a EXCEPT !.pos = 0, !.status = "joined"]
Queued(a, n) == [a EXCEPT !.pos = n, !.status = "waiting"]
QueuePosition(a, n) == [a EXCEPT !.pos = n]
QueuePromoted(a) == [a EXCEPT !.pos = 0, !.role = "answerer", !.status = "joined"]
PeerLeft(a) == [a EXCEPT !.wasActive = TRUE, !.status = "waiting", !.chan = 0]

OnNotice(a, m) ==
    CASE m.type = "peer-joined" -> PeerJoined(a)
      [] m.type = "room-ready" -> RoomReady(a)
      [] m.type = "queued" -> Queued(a, m.position)
      [] m.type = "queue-position" -> QueuePosition(a, m.position)
      [] m.type = "queue-promoted" -> QueuePromoted(a)
      [] m.type = "peer-left" -> PeerLeft(a)
      [] OTHER -> a

\* handleSignal, for the peer connection p with the id: without one the signal
\* is lost; an offer is taken, and answered later; an answer is taken by the one
\* who offered, also when it answers an offer of an earlier connection.
HandleSignal(p, id, m) ==
    IF p = NoPC THEN p
    ELSE IF m.type = "offer" /\ p.sig \in {"new", "asked", "stable"}
         THEN [p EXCEPT !.heard = m.by, !.sig = "asked"]
    ELSE IF m.type = "answer" /\ p.sig = "offering"
         THEN [p EXCEPT !.heard = m.by, !.sig = IF m.to = id THEN "stable" ELSE "unfit"]
    ELSE p

Receive(b) ==
    /\ MayHandle(b)
    /\ down[b] # <<>>
    /\ app' = [app EXCEPT ![b] = OnNotice(@, Head(down[b]))]
    /\ pc' = [pc EXCEPT ![b] = HandleSignal(@, Id(b), Head(down[b]))]
    /\ down' = [down EXCEPT ![b] = Tail(@)]
    /\ UNCHANGED <<seen, ws, hubVars, fetching, made, alive>>

-----------------------------------------------------------------------------
(***************************************************************************)
(* The peer connection.                                                    *)
(***************************************************************************)

\* getIceConfig has returned, with TURN or without.
FetchDone(b, role) ==
    /\ MayHandle(b)
    /\ role \in fetching[b]
    /\ fetching' = [fetching EXCEPT ![b] = @ \ {role}]
    /\ made' = [made EXCEPT ![b] = @ + 1]
    /\ pc' = [pc EXCEPT ![b] = [NoPC EXCEPT !.n = made[b] + 1, !.role = role, !.sig = "new"]]
    /\ alive' = alive \cup {<<b, made[b] + 1>>}
    /\ UNCHANGED <<app, seen, ws, down, hubVars>>

\* The offer is made and sent.
SendOffer(b) ==
    /\ MayHandle(b)
    /\ pc[b].role = "offerer" /\ pc[b].sig = "new"
    /\ pc' = [pc EXCEPT ![b].sig = "offering"]
    /\ SendSignal(b, Offer(Id(b)))
    /\ UNCHANGED <<app, seen, ws, hubVars, fetching, made, alive>>

\* The offer that was taken is answered.
SendAnswer(b) ==
    /\ MayHandle(b)
    /\ pc[b].sig = "asked"
    /\ pc' = [pc EXCEPT ![b].sig = "stable"]
    /\ SendSignal(b, Answer(Id(b), pc[b].heard))
    /\ UNCHANGED <<app, seen, ws, hubVars, fetching, made, alive>>

\* Two peer connections have each other's descriptions (external).
Linked(b) == \E c \in Browsers \ {b} :
                /\ pc[b].sig = "stable" /\ pc[b].heard = Id(c)
                /\ pc[c].sig = "stable" /\ pc[c].heard = Id(b)

Ice(b, from, to) ==
    /\ MayHandle(b)
    /\ pc[b] # NoPC /\ app[b].ice \in from
    /\ app' = [app EXCEPT ![b].ice = to]
    /\ UNCHANGED <<seen, ws, down, hubVars, rtcVars>>

IceConnects(b) == Linked(b) /\ Ice(b, {"new", "disconnected"}, "connected")

\* The other peer connection is closed.
LinkDies(b) == ~Linked(b) /\ Ice(b, {"connected"}, "disconnected")

\* A connection that could be: it breaks, or never comes about.
LinkBreaks(b) ==
    \/ Linked(b) /\ Ice(b, {"connected"}, "disconnected")
    \/ pc[b].heard # None /\ Ice(b, {"new", "disconnected"}, "failed")

\* onChannelOpen.
ChannelOpens(b) ==
    /\ MayHandle(b)
    /\ Linked(b) /\ app[b].ice = "connected" /\ ~pc[b].opened
    /\ pc' = [pc EXCEPT ![b].opened = TRUE]
    /\ app' = [app EXCEPT ![b].chan = pc[b].n, ![b].wasActive = FALSE, ![b].watchdog = FALSE]
    /\ UNCHANGED <<seen, ws, down, hubVars, fetching, made, alive>>

-----------------------------------------------------------------------------
User(b) == PressDisconnect(b) \/ \E r \in RoomIDs :
                HandleCreate(b, r) \/ HandleJoin(b, r) \/ HandleCall(b, r)
                    \/ HandleAcceptInvite(b, r)
Timers(b) == WatchdogFires(b) \/ GraceExpires(b) \/ JoinTimer(b)
Rtc(b) == (\E role \in {"offerer", "answerer"} : FetchDone(b, role))
            \/ SendOffer(b) \/ SendAnswer(b) \/ ChannelOpens(b)
            \/ IceConnects(b) \/ LinkDies(b)
Browser(b) == Timers(b) \/ Commit(b) \/ Enter(b) \/ Receive(b) \/ Rtc(b)
Trouble(b) == WsLost(b) \/ LinkBreaks(b)
HubLeaves == \E r \in RoomIDs : \E i \in DOMAIN line[r] : HubLeave(r, i)

\* A step that is no trouble of the network.
Calm(A) == A /\ UNCHANGED trouble

Next ==
    \/ Calm(HubLeaves)
    \/ \E b \in Browsers : Calm(User(b)) \/ Calm(Browser(b))
    \/ \E b \in Browsers : Trouble(b) /\ trouble < MaxTrouble /\ trouble' = trouble + 1

Spec == Init /\ [][Next]_vars

(***************************************************************************)
(* Fairness: timers go off, React renders, effects and peer connections    *)
(* go on, the hub and the network deliver.  Nothing makes a user act, and  *)
(* nothing makes the connection of two browsers come about.                *)
(***************************************************************************)
Fair(b) ==
    /\ WF_vars(Calm(Timers(b))) /\ WF_vars(Calm(Commit(b))) /\ WF_vars(Calm(Receive(b)))
    /\ WF_vars(Calm(Enter(b))) /\ WF_vars(Calm(LinkDies(b)))

FairSpec == Spec /\ WF_vars(Calm(HubLeaves)) /\ \A b \in Browsers : Fair(b)

-----------------------------------------------------------------------------
(***************************************************************************)
(* Properties.                                                             *)
(***************************************************************************)
Roles == {"none", "offerer", "answerer"}
Ids == Browsers \X Nat

\* The types of the state.
TypeOK ==
    /\ app \in [Browsers -> [room : RoomIDs \cup {NoRoom}, role : Roles,
            status : {"waiting", "joined"}, chan : Nat, pos : Nat,
            ice : {"new", "connected", "disconnected", "failed"}, wasActive : BOOLEAN,
            pending : SUBSET ({"start", "accept"} \X RoomIDs), watchdog : BOOLEAN,
            joins : Seq([room : RoomIDs, role : Roles])]]
    /\ seen \in [Browsers -> [room : RoomIDs \cup {NoRoom}, role : Roles,
            ice : {"new", "connected", "disconnected", "failed"}]]
    /\ ws \in [Browsers -> {"none", "connecting", "open", "lost"}]
    /\ gen \in [Browsers -> 0 .. MaxJoins]
    /\ down \in [Browsers -> Seq([type : {"peer-joined", "room-ready", "peer-left",
            "queue-promoted"}] \cup [type : {"queued", "queue-position"}, position : Nat]
                \cup [type : {"offer"}, by : Ids]
                \cup [type : {"answer"}, by : Ids, to : Ids])]
    /\ line \in [RoomIDs -> Seq(Ids)]
    /\ fate \in [RoomIDs -> {"unused", "made", "hosted", "stray"}]
    /\ fetching \in [Browsers -> SUBSET Roles]
    /\ pc \in [Browsers -> [n : Nat, role : Roles, heard : Ids \cup {None}, opened : BOOLEAN,
            sig : {"closed", "new", "offering", "asked", "stable", "unfit"}]]
    /\ made \in [Browsers -> Nat]
    /\ alive \subseteq Ids
    /\ trouble \in 0 .. MaxTrouble

\* b and c are the pair of the room r that may talk, and both are there.
Pair(r, b, c) ==
    /\ Len(line[r]) >= 2
    /\ {line[r][1], line[r][2]} = {Sock(b), Sock(c)}
    /\ Live(Sock(b)) /\ Live(Sock(c)) /\ Rendered(b) /\ Rendered(c)

\* b has taken and rendered all it was told.
Caught(b) == Rendered(b) /\ down[b] = <<>>

\* What the peer connection of one who is paired has heard comes from the
\* partner, whoever was the partner before, and a data channel in use belongs
\* to that connection.
TalksToPartner ==
    \A r \in RoomIDs, b, c \in Browsers :
        b # c /\ Pair(r, b, c) /\ Caught(b) =>
            /\ pc[b].heard \in {None} \cup ({c} \X Nat)
            /\ app[b].chan \in {0, pc[b].n}

\* useWebRTC makes a fresh connection when the partner has changed: once all
\* offers and answers of the two are through, it is a connection of the two.
Through(b) == Caught(b) /\ fetching[b] = {} /\ pc[b].sig \notin {"closed", "new", "asked"}
Reconnects ==
    \A r \in RoomIDs, b, c \in Browsers :
        b # c /\ fate[r] = "hosted" /\ Pair(r, b, c) /\ Through(b) /\ Through(c)
            /\ made[b] > 1 => Linked(b)

\* In a room that its maker opened, one of the pair offers and the other
\* answers, through all departures and promotions.
RolesFit ==
    \A r \in RoomIDs, b, c \in Browsers :
        b # c /\ fate[r] = "hosted" /\ Pair(r, b, c) /\ Caught(b) /\ Caught(c) =>
            {ActiveRole(app[b]), ActiveRole(app[c])} = {"offerer", "answerer"}

\* Who waits sees the place the hub has for him, and who does not sees none.
PlaceIsShown ==
    \A r \in RoomIDs : \A i \in DOMAIN line[r] :
        LET b == line[r][i][1]
        IN  Live(line[r][i]) /\ Caught(b) => app[b].pos = (IF i > 2 THEN i - 2 ELSE 0)

\* Without a room nothing of the last session is left.
Released ==
    \A b \in Browsers : app[b].room = NoRoom /\ Rendered(b) =>
        /\ ws[b] = "none" /\ fetching[b] = {} /\ pc[b] = NoPC
        /\ app[b] = [Start EXCEPT !.joins = app[b].joins, !.pending = app[b].pending]
        /\ app[b].joins = <<>> => app[b].pending = {}

\* A browser has one peer connection at most that is not closed.
NoLeak == \A p \in alive : p = Id(p[1])

\* A call that waits for the connection is for the room the browser is in,
\* or on its way to.
CallInItsRoom ==
    \A b \in Browsers : \A p \in app[b].pending :
        p[2] = IF app[b].joins = <<>> THEN app[b].room ELSE Head(app[b].joins).room

\* A browser that is in a room and not connected gets connected or comes out.
Talks(b) == Linked(b) /\ app[b].ice = "connected"
NotStuck ==
    \A b \in Browsers :
        (app[b].room # NoRoom /\ ~Talks(b)) ~> (app[b].room = NoRoom \/ Talks(b))

\* RoomPanel tells one who waits that he will be connected when there is a
\* place; so waiting is not what the watchdog ends.
WaitersStay == [][\A b \in Browsers : WatchdogFires(b) => app[b].pos = 0]_vars

=============================================================================
