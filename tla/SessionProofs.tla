---------------------------- MODULE SessionProofs ----------------------------
(***************************************************************************)
(* Proofs about Session, for any browsers, rooms and bounds.  A theorem    *)
(* that needs React to render before the browser handles the next event    *)
(* says so (Eager); the others hold as well when it renders late.          *)
(***************************************************************************)
EXTENDS Session, SeqLemmas

-----------------------------------------------------------------------------
(***************************************************************************)
(* Peer connections.  Three steps touch alive: a fetch that returns makes  *)
(* one, Disconnect and the effect of useWebRTC close one.  That the one    *)
(* that is made does not replace another needs that an effect waits for    *)
(* its configuration only while there is none.                             *)
(***************************************************************************)
Shape ==
    /\ DOMAIN seen = Browsers
    /\ DOMAIN fetching = Browsers
    /\ DOMAIN pc = Browsers
    /\ \A b \in Browsers : "n" \in DOMAIN pc[b]
    /\ made \in [Browsers -> Nat]
    /\ alive \subseteq Browsers \X (Nat \ {0})

\* An effect waits for the role that was rendered, and while it does there is
\* no peer connection; without a role there is none.
OnePerEffect ==
    \A b \in Browsers :
        /\ fetching[b] \subseteq {seen[b].role} \ {"none"}
        /\ fetching[b] # {} => pc[b].n = 0
        /\ pc[b].n # 0 => seen[b].role # "none"

\* The invariant of the peer connections.
LeakInv == Shape /\ OnePerEffect /\ NoLeak

\* The initial states satisfy it.
LEMMA LeakInit == Init => LeakInv
BY DEF Init, LeakInv, Shape, OnePerEffect, NoLeak, Shown, ActiveRole, Start, NoPC

\* Steps that change neither what was rendered nor the peer connections.
LEMMA LeakIdle == LeakInv /\ UNCHANGED <<seen, rtcVars>> => LeakInv'
BY DEF LeakInv, Shape, OnePerEffect, NoLeak, Id, rtcVars

\* Steps of a peer connection keep its number.
LEMMA LeakSame ==
    ASSUME LeakInv, UNCHANGED <<seen, fetching, made, alive>>, DOMAIN pc' = Browsers,
           \A b \in Browsers : "n" \in DOMAIN pc'[b] /\ pc'[b].n = pc[b].n
    PROVE  LeakInv'
BY DEF LeakInv, Shape, OnePerEffect, NoLeak, Id

\* Closing the connection of a browser.
LEMMA LeakClose ==
    ASSUME LeakInv, NEW b \in Browsers, ClosePC(b), UNCHANGED <<seen, fetching>>
    PROVE  LeakInv'
<1>1. pc'[b].n = 0 /\ \A c \in Browsers \ {b} : pc'[c] = pc[c]
    BY DEF LeakInv, Shape, ClosePC, NoPC
<1>2. Shape'
    BY DEF LeakInv, Shape, ClosePC, NoPC
<1>3. OnePerEffect'
    BY <1>1 DEF LeakInv, OnePerEffect
<1>4. \A p \in alive' : p \in alive /\ p[1] # b
    BY DEF LeakInv, NoLeak, Id, ClosePC
<1>5. NoLeak'
    BY <1>1, <1>4 DEF LeakInv, Shape, NoLeak, Id
<1> QED
    BY <1>2, <1>3, <1>5 DEF LeakInv

\* The configuration arrives, and the connection is made.
LEMMA LeakFetch ==
    ASSUME LeakInv, NEW b \in Browsers, NEW role, FetchDone(b, role)
    PROVE  LeakInv'
<1> USE DEF LeakInv
<1>1. pc[b].n = 0 /\ seen[b].role # "none" /\ fetching'[b] = {}
    BY DEF FetchDone, OnePerEffect, Shape
<1>2. \A p \in alive : p[1] # b
    BY <1>1 DEF NoLeak, Shape, Id
<1>3. pc'[b].n = made[b] + 1 /\ \A c \in Browsers \ {b} : pc'[c] = pc[c]
    BY DEF FetchDone, Shape, NoPC
<1>4. Shape'
    <2>1. "n" \in DOMAIN pc'[b]
        BY DEF FetchDone, Shape, NoPC
    <2>2. made[b] + 1 \in Nat \ {0}
        BY DEF Shape
    <2> QED
        BY <1>3, <2>1, <2>2 DEF FetchDone, Shape
<1>5. OnePerEffect'
    <2>1. \A c \in Browsers \ {b} : fetching'[c] = fetching[c]
        BY DEF FetchDone, Shape
    <2> QED
        BY <1>1, <1>3, <2>1 DEF FetchDone, OnePerEffect
<1>6. NoLeak'
    BY <1>2, <1>3, <1>4 DEF FetchDone, NoLeak, Shape, Id
<1> QED
    BY <1>4, <1>5, <1>6

\* React renders: the effect closes what there was, or there was nothing.
LEMMA LeakCommit ==
    ASSUME LeakInv, NEW b \in Browsers, Commit(b)
    PROVE  LeakInv'
<1> DEFINE x == Shown(app[b])
<1> USE DEF LeakInv
<1>1. seen' = [seen EXCEPT ![b] = x] /\ WebRTCEffect(b, x)
    BY DEF Commit
<1>2. CASE seen[b].role = x.role
    <2>1. seen'[b].role = seen[b].role /\ UNCHANGED rtcVars
        BY <1>1, <1>2 DEF Shape, WebRTCEffect
    <2> QED
        BY <1>1, <2>1 DEF Shape, OnePerEffect, NoLeak, Id, rtcVars
<1>3. CASE seen[b].role # x.role
    <2>1. fetching' = [fetching EXCEPT ![b] = {x.role} \ {"none"}]
        BY <1>1, <1>3 DEF WebRTCEffect
    <2>2. /\ pc'[b].n = 0 /\ "n" \in DOMAIN pc'[b] /\ DOMAIN pc' = Browsers
          /\ \A c \in Browsers \ {b} : pc'[c] = pc[c]
          /\ alive' \subseteq alive /\ made' = made
          /\ \A p \in alive' : p[1] # b
        <3>1. CASE seen[b].role = "none"
            <4>1. UNCHANGED <<pc, made, alive>> /\ pc[b].n = 0
                BY <1>1, <1>3, <3>1 DEF WebRTCEffect, OnePerEffect
            <4> QED
                BY <4>1 DEF Shape, NoLeak, Id
        <3>2. CASE seen[b].role # "none"
            <4>1. ClosePC(b)
                BY <1>1, <1>3, <3>2 DEF WebRTCEffect
            <4> QED
                BY <4>1 DEF ClosePC, NoPC, Shape, NoLeak, Id
        <3> QED
            BY <3>1, <3>2
    <2>3. seen'[b].role = x.role /\ fetching'[b] = {x.role} \ {"none"}
        BY <1>1, <2>1 DEF Shape
    <2>4. \A c \in Browsers \ {b} : seen'[c] = seen[c] /\ fetching'[c] = fetching[c]
        BY <1>1, <2>1 DEF Shape
    <2>5. Shape'
        BY <1>1, <2>1, <2>2 DEF Shape
    <2>6. OnePerEffect'
        BY <2>2, <2>3, <2>4 DEF OnePerEffect
    <2>7. NoLeak'
        BY <2>2 DEF NoLeak, Id, Shape
    <2> QED
        BY <2>5, <2>6, <2>7
<1> QED
    BY <1>2, <1>3

\* A signal does not give the connection that takes it another number.
LEMMA SignalKeepsNumber ==
    ASSUME NEW p, NEW id, NEW m, "n" \in DOMAIN p
    PROVE  "n" \in DOMAIN HandleSignal(p, id, m) /\ HandleSignal(p, id, m).n = p.n
BY DEF HandleSignal

\* Every step of the session keeps the invariant of the peer connections.
LEMMA LeakStep == LeakInv /\ [Next]_vars => LeakInv'
<1> SUFFICES ASSUME LeakInv, [Next]_vars PROVE LeakInv'
    OBVIOUS
<1>1. CASE HubLeaves
    BY <1>1, LeakIdle DEF HubLeaves, HubLeave
<1>2. ASSUME NEW b \in Browsers, User(b) PROVE LeakInv'
    <2>1. CASE PressDisconnect(b)
        BY <2>1, LeakClose DEF PressDisconnect, Disconnect
    <2>2. ASSUME NEW r, NEW role, NEW call, GoTo(b, r, role, call) PROVE LeakInv'
        BY <2>2, LeakClose DEF GoTo
    <2> QED
        BY <1>2, <2>1, <2>2 DEF User, HandleCreate, HandleJoin, HandleCall, HandleAcceptInvite
<1>3. ASSUME NEW b \in Browsers, Timers(b) PROVE LeakInv'
    <2>1. CASE JoinTimer(b)
        BY <2>1, LeakIdle DEF JoinTimer
    <2>2. CASE Disconnect(b)
        BY <2>2, LeakClose DEF Disconnect
    <2> QED
        BY <1>3, <2>1, <2>2 DEF Timers, WatchdogFires, GraceExpires
<1>4. ASSUME NEW b \in Browsers, Receive(b) PROVE LeakInv'
    <2>1. /\ UNCHANGED <<seen, fetching, made, alive>> /\ DOMAIN pc' = Browsers
          /\ \A c \in Browsers : c # b => pc'[c] = pc[c]
          /\ pc'[b] = HandleSignal(pc[b], Id(b), Head(down[b]))
        BY <1>4 DEF Receive, LeakInv, Shape
    <2> QED
        BY <2>1, SignalKeepsNumber, LeakSame DEF LeakInv, Shape
<1>5. ASSUME NEW b \in Browsers, Rtc(b) PROVE LeakInv'
    <2>1. ASSUME NEW role, FetchDone(b, role) PROVE LeakInv'
        BY <2>1, LeakFetch
    <2>2. CASE SendOffer(b) \/ SendAnswer(b) \/ ChannelOpens(b)
        <3>1. /\ UNCHANGED <<seen, fetching, made, alive>> /\ DOMAIN pc' = Browsers
              /\ \A c \in Browsers : "n" \in DOMAIN pc'[c] /\ pc'[c].n = pc[c].n
            BY <2>2 DEF SendOffer, SendAnswer, ChannelOpens, LeakInv, Shape
        <3> QED
            BY <3>1, LeakSame
    <2>3. CASE IceConnects(b) \/ LinkDies(b)
        BY <2>3, LeakIdle DEF IceConnects, LinkDies, Ice
    <2> QED
        BY <1>5, <2>1, <2>2, <2>3 DEF Rtc
<1>6. ASSUME NEW b \in Browsers, Enter(b) \/ Trouble(b) PROVE LeakInv'
    BY <1>6, LeakIdle DEF Enter, Trouble, WsLost, LinkBreaks, Ice
<1>7. ASSUME NEW b \in Browsers, Commit(b) PROVE LeakInv'
    BY <1>7, LeakCommit
<1>8. CASE UNCHANGED vars
    BY <1>8, LeakIdle DEF vars
<1> QED
    BY <1>1, <1>2, <1>3, <1>4, <1>5, <1>6, <1>7, <1>8 DEF Next, Calm, Browser

\* A browser has one peer connection at most that is not closed, whatever
\* fetches, rooms and partners follow on each other.
THEOREM OneConnection == Spec => []NoLeak
<1>1. LeakInv => NoLeak
    BY DEF LeakInv
<1> QED
    BY <1>1, LeakInit, LeakStep, PTL DEF Spec

-----------------------------------------------------------------------------
(***************************************************************************)
(* Calls that wait for a connection.  Only steps that go somewhere note    *)
(* one, and each of them resets what was there; that the room the browser  *)
(* is on its way to is the one of the call needs that it is on its way to  *)
(* one room at most.                                                       *)
(***************************************************************************)
Joins == [room : RoomIDs, role : Roles]

\* The state of one browser is right about its pending calls.
CallFits(a) ==
    /\ {"room", "pending", "joins"} \subseteq DOMAIN a
    /\ a.joins \in Seq(Joins) /\ Len(a.joins) <= 1
    /\ \A p \in a.pending : p[2] = IF a.joins = <<>> THEN a.room ELSE Head(a.joins).room

\* The invariant of the pending calls.
CallInv == DOMAIN app = Browsers /\ \A b \in Browsers : CallFits(app[b])

\* A step that gives one browser a state that is right keeps the invariant.
LEMMA CallOne ==
    ASSUME CallInv, NEW b \in Browsers, NEW a, CallFits(a), app' = [app EXCEPT ![b] = a]
    PROVE  CallInv'
<1>1. \A c \in Browsers : app'[c] = IF c = b THEN a ELSE app[c]
    BY DEF CallInv
<1> QED
    BY <1>1 DEF CallInv

\* A state with the same room, calls and ways, or without calls, is right.
LEMMA CallSame ==
    ASSUME NEW a, CallFits(a), NEW n,
           {"room", "pending", "joins"} \subseteq DOMAIN n,
           n.joins = a.joins, n.pending = {} \/ (n.pending = a.pending /\ n.room = a.room)
    PROVE  CallFits(n)
BY DEF CallFits

\* disconnect leaves no call.
LEMMA CallReset ==
    ASSUME NEW a, CallFits(a)
    PROVE  CallFits(Reset(a)) /\ Reset(a).joins = a.joins
BY DEF CallFits, Reset, Start

\* The hub's messages do not touch what a call depends on.
LEMMA CallNotice ==
    ASSUME NEW a, CallFits(a), NEW m
    PROVE  CallFits(OnNotice(a, m))
<1>1. CallFits(PeerJoined(a))
    BY CallSame DEF CallFits, PeerJoined
<1>2. CallFits(RoomReady(a))
    BY CallSame DEF CallFits, RoomReady
<1>3. CallFits(Queued(a, m.position)) /\ CallFits(QueuePosition(a, m.position))
    BY CallSame DEF CallFits, Queued, QueuePosition
<1>4. CallFits(QueuePromoted(a))
    BY CallSame DEF CallFits, QueuePromoted
<1>5. CallFits(PeerLeft(a))
    BY CallSame DEF CallFits, PeerLeft
<1> QED
    BY <1>1, <1>2, <1>3, <1>4, <1>5 DEF OnNotice

\* Going to a room leaves at most the call for that room.
LEMMA CallGo ==
    ASSUME CallInv, NEW b \in Browsers, NEW r \in RoomIDs, NEW role \in Roles,
           NEW call, \A p \in call : p[2] = r, GoTo(b, r, role, call)
    PROVE  CallInv'
<1> DEFINE way == [room |-> r, role |-> role]
           a == [Reset(app[b]) EXCEPT !.joins = Append(@, way), !.pending = call]
<1>1. app' = [app EXCEPT ![b] = a]
    BY DEF GoTo
<1>2. Reset(app[b]).joins = <<>>
    BY DEF GoTo, CallInv, CallFits, Reset, Start
<1>3. /\ {"room", "pending", "joins"} \subseteq DOMAIN a
      /\ a.joins = Append(<<>>, way) /\ a.pending = call
    BY <1>2 DEF Reset, Start
<1>4. way \in Joins
    BY DEF Joins
<1>5. way.room = r
    OBVIOUS
<1>6. Append(<<>>, way) = <<way>>
    BY <1>4
<1>7. <<way>> \in Seq(Joins) /\ Len(<<way>>) = 1 /\ Head(<<way>>) = way /\ <<way>> # <<>>
    BY <1>4
<1> HIDE DEF a, way
<1>8. a.joins = <<way>>
    BY <1>3, <1>6
<1>9. CallFits(a)
    BY <1>3, <1>5, <1>7, <1>8 DEF CallFits
<1> QED
    BY <1>1, <1>9, CallOne

\* The way that was waited for is gone, and its room taken.
LEMMA CallArrives ==
    ASSUME CallInv, NEW b \in Browsers, JoinTimer(b)
    PROVE  CallInv'
<1> DEFINE j == Head(app[b].joins)
           a == [app[b] EXCEPT !.room = j.room, !.role = j.role, !.joins = Tail(@)]
<1>1. CallFits(app[b]) /\ app[b].joins # <<>>
    BY DEF JoinTimer, CallInv
<1>2. Tail(app[b].joins) \in Seq(Joins) /\ Tail(app[b].joins) = <<>>
    BY <1>1 DEF CallFits
<1>3. /\ {"room", "pending", "joins"} \subseteq DOMAIN a
      /\ a.joins = Tail(app[b].joins) /\ a.pending = app[b].pending /\ a.room = j.room
    BY <1>1 DEF CallFits
<1>4. CallFits(a)
    BY <1>1, <1>2, <1>3 DEF CallFits
<1>5. app' = [app EXCEPT ![b] = a]
    BY DEF JoinTimer, CallInv
<1> HIDE DEF a
<1> QED
    BY <1>4, <1>5, CallOne

\* The initial states satisfy the invariant of the calls.
LEMMA CallInit == Init => CallInv
<1>1. /\ {"room", "pending", "joins"} \subseteq DOMAIN Start
      /\ Start.joins = <<>> /\ Start.pending = {}
    BY DEF Start
<1>2. <<>> \in Seq(Joins) /\ Len(<<>>) = 0
    OBVIOUS
<1>3. CallFits(Start)
    BY <1>1, <1>2 DEF CallFits
<1>4. Init => app = [b \in Browsers |-> Start]
    BY DEF Init
<1> QED
    BY <1>3, <1>4 DEF CallInv

\* Steps of the user keep it.
LEMMA CallUser ==
    ASSUME CallInv, NEW b \in Browsers, User(b)
    PROVE  CallInv'
<1>1. CASE PressDisconnect(b)
    BY <1>1, CallReset, CallOne DEF PressDisconnect, Disconnect, CallInv
<1>2. ASSUME NEW r \in RoomIDs, HandleCreate(b, r) \/ HandleJoin(b, r) PROVE CallInv'
    BY <1>2, CallGo DEF HandleCreate, HandleJoin, Roles
<1>3. ASSUME NEW r \in RoomIDs, HandleCall(b, r) PROVE CallInv'
    BY <1>3, CallGo DEF HandleCall, Roles
<1>4. ASSUME NEW r \in RoomIDs, HandleAcceptInvite(b, r) PROVE CallInv'
    BY <1>4, CallGo DEF HandleAcceptInvite, Roles
<1> QED
    BY <1>1, <1>2, <1>3, <1>4 DEF User

\* So do the other steps of a browser.
LEMMA CallBrowser ==
    ASSUME CallInv, NEW b \in Browsers, Browser(b) \/ Trouble(b)
    PROVE  CallInv'
<1> USE DEF CallInv
<1>1. CallFits(app[b])
    OBVIOUS
<1>2. CASE Disconnect(b)
    BY <1>2, CallReset, CallOne DEF Disconnect
<1>3. CASE JoinTimer(b)
    BY <1>3, CallArrives
<1>4. CASE Commit(b)
    <2> DEFINE x == Shown(app[b])
               a == [app[b] EXCEPT !.watchdog = WatchdogEffect(b, x),
                        !.pending = CallEffect(b, x),
                        !.ice = IF seen[b].role \notin {x.role, "none"} THEN "new" ELSE @]
    <2>1. app' = [app EXCEPT ![b] = a]
        BY <1>4 DEF Commit
    <2>2. CallEffect(b, x) \in {{}, app[b].pending}
        BY DEF CallEffect
    <2>3. /\ {"room", "pending", "joins"} \subseteq DOMAIN a
          /\ a.joins = app[b].joins /\ a.room = app[b].room /\ a.pending = CallEffect(b, x)
        BY <1>1 DEF CallFits
    <2> HIDE DEF a, x
    <2>4. CallFits(a)
        BY <1>1, <2>2, <2>3, CallSame
    <2> QED
        BY <2>1, <2>4, CallOne
<1>5. CASE Receive(b)
    <2>1. app' = [app EXCEPT ![b] = OnNotice(app[b], Head(down[b]))]
        BY <1>5 DEF Receive
    <2> QED
        BY <1>1, <2>1, CallNotice, CallOne
<1>6. ASSUME NEW to, app' = [app EXCEPT ![b].ice = to] PROVE CallInv'
    <2> DEFINE a == [app[b] EXCEPT !.ice = to]
    <2>1. CallFits(a)
        BY <1>1, CallSame DEF CallFits
    <2> QED
        BY <1>6, <2>1, CallOne
<1>7. CASE ChannelOpens(b)
    <2> DEFINE a == [app[b] EXCEPT !.chan = pc[b].n, !.wasActive = FALSE, !.watchdog = FALSE]
    <2>1. CallFits(a)
        BY <1>1, CallSame DEF CallFits
    <2> QED
        BY <1>7, <2>1, CallOne DEF ChannelOpens
<1>8. CASE UNCHANGED app
    BY <1>8
<1> QED
    BY <1>2, <1>3, <1>4, <1>5, <1>6, <1>7, <1>8
    DEF Browser, Trouble, Timers, WatchdogFires, GraceExpires, Enter, Rtc, FetchDone,
        SendOffer, SendAnswer, IceConnects, LinkDies, LinkBreaks, Ice, WsLost

\* Every step keeps the invariant of the calls.
LEMMA CallStep == CallInv /\ [Next]_vars => CallInv'
<1> SUFFICES ASSUME CallInv, [Next]_vars PROVE CallInv'
    OBVIOUS
<1>1. CASE UNCHANGED app
    BY <1>1 DEF CallInv
<1> QED
    BY <1>1, CallUser, CallBrowser DEF Next, Calm, HubLeaves, HubLeave, vars

\* A call that waits for the connection is for the room the browser is in or
\* on its way to: no later disconnect, invitation or message leaves it behind
\* for another room.
THEOREM CallsAreForTheRoom == Spec => []CallInItsRoom
<1>1. CallInv => CallInItsRoom
    BY DEF CallInv, CallFits, CallInItsRoom
<1> QED
    BY <1>1, CallInit, CallStep, PTL DEF Spec

-----------------------------------------------------------------------------
(***************************************************************************)
(* Types.  That the numbers of the sockets stay within the bound needs     *)
(* that a browser on its way to a room has not been in too many, and that  *)
(* it goes there from none; that an answer names the offer it answers      *)
(* needs that a connection which is asked has heard one.                   *)
(***************************************************************************)
IceStates == {"new", "connected", "disconnected", "failed"}
AppStates == [room : RoomIDs \cup {NoRoom}, role : Roles, status : {"waiting", "joined"},
              chan : Nat, pos : Nat, ice : IceStates, wasActive : BOOLEAN,
              pending : SUBSET ({"start", "accept"} \X RoomIDs), watchdog : BOOLEAN,
              joins : Seq(Joins)]
Views == [room : RoomIDs \cup {NoRoom}, role : Roles, ice : IceStates]
Notices == [type : {"peer-joined", "room-ready", "peer-left", "queue-promoted"}]
Numbers == [type : {"queued", "queue-position"}, position : Nat]
Offers == [type : {"offer"}, by : Ids]
Answers == [type : {"answer"}, by : Ids, to : Ids]
Messages == Notices \cup Numbers \cup Offers \cup Answers
Conns == [n : Nat, role : Roles, heard : Ids \cup {None}, opened : BOOLEAN,
          sig : {"closed", "new", "offering", "asked", "stable", "unfit"}]

PageType ==
    /\ app \in [Browsers -> AppStates]
    /\ seen \in [Browsers -> Views]
HubType ==
    /\ ws \in [Browsers -> {"none", "connecting", "open", "lost"}]
    /\ gen \in [Browsers -> 0 .. MaxJoins]
    /\ down \in [Browsers -> Seq(Messages)]
    /\ line \in [RoomIDs -> Seq(Ids)]
    /\ fate \in [RoomIDs -> {"unused", "made", "hosted", "stray"}]
RtcType ==
    /\ fetching \in [Browsers -> SUBSET Roles]
    /\ pc \in [Browsers -> Conns]
    /\ made \in [Browsers -> Nat]
    /\ alive \subseteq Ids

\* Where the state a of a browser may lead, with the room that was rendered, the
\* WebSocket and how many there have been.
WayFits(a, room, socket, sockets) ==
    /\ a.joins # <<>> => a.room = NoRoom /\ sockets < MaxJoins
    /\ a.room \notin {NoRoom, room} => room = NoRoom /\ sockets < MaxJoins
    /\ socket = "none" <=> room = NoRoom

\* A connection that is asked has heard whom it will answer, and one that is
\* not there has no state.
ConnFits(p) == (p.sig = "asked" => p.heard \in Ids) /\ (p.n = 0 => p = NoPC)

TroubleInv == trouble \in 0 .. MaxTrouble
SessionInv ==
    /\ PageType /\ HubType /\ RtcType
    /\ \A b \in Browsers : WayFits(app[b], seen[b].room, ws[b], gen[b]) /\ ConnFits(pc[b])

\* What disconnect leaves, and what React renders, has its type.
LEMMA ResetType ==
    ASSUME NEW a \in AppStates
    PROVE  Reset(a) \in AppStates /\ Start \in AppStates
<1>1. Start \in AppStates
    BY DEF AppStates, Start, Roles, IceStates
<1> QED
    BY <1>1 DEF AppStates, Start, Reset

LEMMA ShownType ==
    ASSUME NEW a \in AppStates
    PROVE  /\ Shown(a) \in Views /\ Shown(a).room = a.room
           /\ Shown(a).role = ActiveRole(a) /\ Shown(a).ice = a.ice
BY DEF AppStates, Views, Shown, ActiveRole, Roles

\* What a message makes of the state of a page has its type.
LEMMA NoticeType ==
    ASSUME NEW a \in AppStates, NEW m \in Messages
    PROVE  /\ OnNotice(a, m) \in AppStates
           /\ OnNotice(a, m).room = a.room /\ OnNotice(a, m).joins = a.joins
<1>1. m.type \in {"queued", "queue-position"} => m.position \in Nat
    BY DEF Messages, Notices, Numbers, Offers, Answers
<1>2. CASE m.type = "peer-joined"
    BY <1>2 DEF OnNotice, PeerJoined, AppStates, Roles
<1>3. CASE m.type = "room-ready"
    BY <1>3 DEF OnNotice, RoomReady, AppStates
<1>4. CASE m.type = "queued"
    BY <1>1, <1>4 DEF OnNotice, Queued, AppStates
<1>5. CASE m.type = "queue-position"
    BY <1>1, <1>5 DEF OnNotice, QueuePosition, AppStates
<1>6. CASE m.type = "queue-promoted"
    BY <1>6 DEF OnNotice, QueuePromoted, AppStates, Roles
<1>7. CASE m.type = "peer-left"
    BY <1>7 DEF OnNotice, PeerLeft, AppStates
<1>8. CASE m.type \notin {"peer-joined", "room-ready", "queued", "queue-position",
                          "queue-promoted", "peer-left"}
    BY <1>8 DEF OnNotice
<1> QED
    BY <1>2, <1>3, <1>4, <1>5, <1>6, <1>7, <1>8

\* What a signal makes of a peer connection has its type.
LEMMA SignalType ==
    ASSUME NEW p \in Conns, ConnFits(p), NEW id, NEW m \in Messages
    PROVE  HandleSignal(p, id, m) \in Conns /\ ConnFits(HandleSignal(p, id, m))
<1>1. m.type \in {"offer", "answer"} => m.by \in Ids
    BY DEF Messages, Notices, Numbers, Offers, Answers
<1>2. CASE HandleSignal(p, id, m) = p
    BY <1>2
<1>3. CASE /\ p # NoPC /\ m.type = "offer"
           /\ HandleSignal(p, id, m) = [p EXCEPT !.heard = m.by, !.sig = "asked"]
    BY <1>1, <1>3 DEF Conns, ConnFits
<1>4. CASE /\ p # NoPC /\ m.type = "answer"
           /\ HandleSignal(p, id, m) =
                [p EXCEPT !.heard = m.by, !.sig = IF m.to = id THEN "stable" ELSE "unfit"]
    BY <1>1, <1>4 DEF Conns, ConnFits
<1> QED
    BY <1>2, <1>3, <1>4 DEF HandleSignal

\* What the hub says to the one at place k when a line of n has grown, and when
\* the one at place i has left one of n.
EnterNote(k, n) ==
    IF n = 2 THEN <<Msg(IF k = 1 THEN "peer-joined" ELSE "room-ready")>>
    ELSE IF k = n /\ k > 2 THEN <<Place("queued", k - 2)>>
    ELSE <<>>
LeaveNote(k, i, n) ==
    IF k > 2 THEN <<Place("queue-position", k - 2)>>
    ELSE IF i > 2 THEN <<>>
    ELSE IF k = 2 THEN <<Msg("queue-promoted")>>
    ELSE IF n = 1 THEN <<Msg("peer-left")>>
    ELSE <<Msg("peer-left"), Msg("peer-joined")>>

\* Where a socket of a line stands.
LEMMA PlaceOf ==
    ASSUME NEW l \in Seq(Ids)
    PROVE  /\ \A s \in ToSet(l) : PlaceIn(l, s) \in 1 .. Len(l) /\ l[PlaceIn(l, s)] = s
           /\ IsInjective(l) => \A k \in 1 .. Len(l) : l[k] \in ToSet(l) /\ PlaceIn(l, l[k]) = k
<1>1. DOMAIN l = 1 .. Len(l)
    OBVIOUS
<1>2. \A s : s \in ToSet(l) <=> \E k \in 1 .. Len(l) : l[k] = s
    BY ToSetProperties
<1>3. ASSUME NEW s \in ToSet(l) PROVE PlaceIn(l, s) \in 1 .. Len(l) /\ l[PlaceIn(l, s)] = s
    BY <1>1, <1>2 DEF PlaceIn
<1>4. ASSUME IsInjective(l), NEW k \in 1 .. Len(l)
      PROVE  l[k] \in ToSet(l) /\ PlaceIn(l, l[k]) = k
    BY <1>1, <1>2, <1>3, <1>4 DEF IsInjective
<1> QED
    BY <1>3, <1>4

\* The notes are the notices of each place.
LEMMA NotesAre ==
    ASSUME NEW l \in Seq(Ids), NEW i
    PROVE  /\ \A s \in ToSet(l) :
                /\ EnterNotes(l)[s] = EnterNote(PlaceIn(l, s), Len(l))
                /\ LeaveNotes(l, i)[s] = LeaveNote(PlaceIn(l, s), i, Len(l))
           /\ DOMAIN EnterNotes(l) = ToSet(l) /\ DOMAIN LeaveNotes(l, i) = ToSet(l)
BY DEF EnterNotes, LeaveNotes, EnterNote, LeaveNote

\* The hub's notices are messages.
LEMMA NoteTypes ==
    ASSUME NEW n \in Nat, NEW k \in 1 .. n, NEW i \in Nat
    PROVE  EnterNote(k, n) \in Seq(Messages) /\ LeaveNote(k, i, n) \in Seq(Messages)
<1>1. \A t \in {"peer-joined", "room-ready", "peer-left", "queue-promoted"} : Msg(t) \in Messages
    BY DEF Msg, Messages, Notices
<1>2. \A t \in {"queued", "queue-position"} : k > 2 => Place(t, k - 2) \in Messages
    BY DEF Place, Messages, Numbers
<1> QED
    BY <1>1, <1>2 DEF EnterNote, LeaveNote

\* What is said to whom arrives at the end of what he has not taken.
LEMMA DeliverType ==
    ASSUME down \in [Browsers -> Seq(Messages)], NEW said, NEW open, Deliver(said, open),
           \A s \in DOMAIN said : said[s] \in Seq(Messages)
    PROVE  /\ down' \in [Browsers -> Seq(Messages)]
           /\ \A c \in Browsers : down'[c] =
                IF c \in open /\ Sock(c) \in DOMAIN said THEN down[c] \o said[Sock(c)] ELSE down[c]
BY DEF Deliver

\* A browser that has opened a socket has one that is numbered.
LEMMA SockType ==
    ASSUME HubType, RtcType, NEW b \in Browsers
    PROVE  Sock(b) \in Ids /\ Id(b) \in Ids /\ Sock(b)[1] = b /\ Sock(b)[2] = gen[b]
BY DEF HubType, RtcType, Conns, Sock, Id, Ids

\* Steps that only give one page another state.
LEMMA TypePage ==
    ASSUME SessionInv, NEW b \in Browsers, NEW a \in AppStates, app' = [app EXCEPT ![b] = a],
           WayFits(a, seen[b].room, ws[b], gen[b]), UNCHANGED <<seen, ws, down, gen, line>>
    PROVE  PageType' /\ \A c \in Browsers : WayFits(app'[c], seen'[c].room, ws'[c], gen'[c])
<1>1. \A c \in Browsers : app'[c] = IF c = b THEN a ELSE app[c]
    BY DEF SessionInv, PageType
<1> QED
    BY <1>1 DEF SessionInv, PageType

LEMMA TypePageOnly ==
    ASSUME SessionInv, NEW b \in Browsers, NEW a \in AppStates, app' = [app EXCEPT ![b] = a],
           a.room = app[b].room, a.joins = app[b].joins, UNCHANGED <<seen, ws, down, gen, line>>
    PROVE  PageType' /\ \A c \in Browsers : WayFits(app'[c], seen'[c].room, ws'[c], gen'[c])
BY TypePage DEF SessionInv, WayFits

\* Steps that leave pages alone, or what is kept of their ways.
LEMMA TypeWays ==
    ASSUME SessionInv, UNCHANGED <<app, seen, ws, gen>>
    PROVE  PageType' /\ \A c \in Browsers : WayFits(app'[c], seen'[c].room, ws'[c], gen'[c])
BY DEF SessionInv, PageType

\* Steps that only give one peer connection another state.
LEMMA TypeConn ==
    ASSUME SessionInv, NEW b \in Browsers, NEW p \in Conns, ConnFits(p),
           pc' = [pc EXCEPT ![b] = p], fetching' \in [Browsers -> SUBSET Roles],
           made' \in [Browsers -> Nat], alive' \subseteq Ids
    PROVE  RtcType' /\ \A c \in Browsers : ConnFits(pc'[c])
<1>1. \A c \in Browsers : pc'[c] = IF c = b THEN p ELSE pc[c]
    BY DEF SessionInv, RtcType
<1> QED
    BY <1>1 DEF SessionInv, RtcType

\* Closing the connection of a browser.
LEMMA TypeClose ==
    ASSUME SessionInv, NEW b \in Browsers, ClosePC(b), fetching' \in [Browsers -> SUBSET Roles]
    PROVE  RtcType' /\ \A c \in Browsers : ConnFits(pc'[c])
<1>1. NoPC \in Conns /\ ConnFits(NoPC)
    BY DEF NoPC, Conns, ConnFits, Roles
<1>2. pc' = [pc EXCEPT ![b] = NoPC] /\ made' = made /\ alive' \subseteq alive
    BY DEF ClosePC
<1> QED
    BY <1>1, <1>2, TypeConn DEF SessionInv, RtcType

\* disconnect.
LEMMA TypeDisconnect ==
    ASSUME SessionInv, NEW b \in Browsers, Disconnect(b)
    PROVE  SessionInv'
<1>1. app[b] \in AppStates /\ WayFits(app[b], seen[b].room, ws[b], gen[b])
    BY DEF SessionInv, PageType
<1>2. Reset(app[b]) \in AppStates /\ Reset(app[b]).room = NoRoom
      /\ Reset(app[b]).joins = app[b].joins
    BY <1>1, ResetType DEF Reset, Start
<1>3. WayFits(Reset(app[b]), seen[b].room, ws[b], gen[b])
    BY <1>1, <1>2 DEF WayFits
<1>4. PageType' /\ \A c \in Browsers : WayFits(app'[c], seen'[c].room, ws'[c], gen'[c])
    BY <1>2, <1>3, TypePage DEF Disconnect, hubVars
<1>5. RtcType' /\ \A c \in Browsers : ConnFits(pc'[c])
    BY TypeClose DEF Disconnect, SessionInv, RtcType
<1> QED
    BY <1>4, <1>5 DEF SessionInv, HubType, Disconnect, hubVars

\* Going to a room.
LEMMA TypeGo ==
    ASSUME SessionInv, CallInv, NEW b \in Browsers, NEW r \in RoomIDs, NEW role \in Roles,
           NEW call \in SUBSET ({"start", "accept"} \X RoomIDs), GoTo(b, r, role, call),
           fate' \in [RoomIDs -> {"unused", "made", "hosted", "stray"}]
    PROVE  SessionInv'
<1> DEFINE way == [room |-> r, role |-> role]
           a == [Reset(app[b]) EXCEPT !.joins = Append(@, way), !.pending = call]
<1>1. app[b] \in AppStates /\ WayFits(app[b], seen[b].room, ws[b], gen[b]) /\ gen[b] < MaxJoins
    BY DEF SessionInv, PageType, GoTo
<1>2. app' = [app EXCEPT ![b] = a]
    BY DEF GoTo
<1>3. Reset(app[b]) \in AppStates /\ Reset(app[b]).room = NoRoom
    BY <1>1, ResetType DEF Reset, Start
<1>4. way \in Joins
    BY DEF Joins
<1>5. a \in AppStates /\ a.room = NoRoom
    <2> PICK x : x = Reset(app[b])
        OBVIOUS
    <2>1. Append(x.joins, way) \in Seq(Joins)
        BY <1>3, <1>4 DEF AppStates
    <2> HIDE DEF way
    <2> QED
        BY <1>3, <2>1 DEF AppStates
<1> HIDE DEF a
<1>6. WayFits(a, seen[b].room, ws[b], gen[b])
    BY <1>1, <1>5 DEF WayFits
<1>7. PageType' /\ \A c \in Browsers : WayFits(app'[c], seen'[c].room, ws'[c], gen'[c])
    BY <1>2, <1>5, <1>6, TypePage DEF GoTo
<1>8. RtcType' /\ \A c \in Browsers : ConnFits(pc'[c])
    BY TypeClose DEF GoTo, SessionInv, RtcType
<1> QED
    BY <1>7, <1>8 DEF SessionInv, HubType, GoTo

\* The timer of 50 ms.
LEMMA TypeJoinTimer ==
    ASSUME SessionInv, CallInv, NEW b \in Browsers, JoinTimer(b)
    PROVE  SessionInv'
<1> DEFINE j == Head(app[b].joins)
           a == [app[b] EXCEPT !.room = j.room, !.role = j.role, !.joins = Tail(@)]
<1>1. /\ app[b] \in AppStates /\ WayFits(app[b], seen[b].room, ws[b], gen[b])
      /\ app[b].joins \in Seq(Joins) /\ app[b].joins # <<>> /\ Len(app[b].joins) <= 1
      /\ seen[b].room = NoRoom
    BY DEF SessionInv, PageType, JoinTimer, CallInv, CallFits, AppStates
<1>2. j \in Joins /\ Tail(app[b].joins) = <<>> /\ <<>> \in Seq(Joins)
    BY <1>1
<1>3. app' = [app EXCEPT ![b] = a]
    BY DEF JoinTimer, SessionInv, PageType
<1>4. j.room \in RoomIDs /\ j.role \in Roles
    BY <1>2 DEF Joins
<1> HIDE DEF j
<1>5. a \in AppStates /\ a.room = j.room /\ a.joins = <<>>
    BY <1>1, <1>2, <1>4 DEF AppStates
<1> HIDE DEF a
<1>6. WayFits(a, seen[b].room, ws[b], gen[b])
    BY <1>1, <1>5 DEF WayFits
<1>7. PageType' /\ \A c \in Browsers : WayFits(app'[c], seen'[c].room, ws'[c], gen'[c])
    BY <1>3, <1>5, <1>6, TypePage DEF JoinTimer, hubVars
<1> QED
    BY <1>7 DEF SessionInv, HubType, RtcType, JoinTimer, hubVars, rtcVars

\* React renders: there is a socket while there is a room, and it has a new
\* number.
LEMMA TypeCommit ==
    ASSUME SessionInv, CallInv, NEW b \in Browsers, Commit(b)
    PROVE  SessionInv'
<1> DEFINE x == Shown(app[b])
           a == [app[b] EXCEPT !.watchdog = WatchdogEffect(b, x), !.pending = CallEffect(b, x),
                    !.ice = IF seen[b].role \notin {x.role, "none"} THEN "new" ELSE @]
<1>1. /\ app[b] \in AppStates /\ WayFits(app[b], seen[b].room, ws[b], gen[b])
      /\ seen \in [Browsers -> Views]
    BY DEF SessionInv, PageType
<1>2. x \in Views /\ x.room = app[b].room
    BY <1>1, ShownType
<1>3. seen' = [seen EXCEPT ![b] = x] /\ SignalingEffect(b, x) /\ WebRTCEffect(b, x)
      /\ app' = [app EXCEPT ![b] = a] /\ UNCHANGED <<line, fate>>
    BY DEF Commit
<1>4. WatchdogEffect(b, x) \in BOOLEAN
    BY <1>1 DEF WatchdogEffect, IsConnected, AppStates
<1>5. CallEffect(b, x) \in {{}, app[b].pending}
    BY DEF CallEffect
<1> HIDE DEF x
<1>6. a \in AppStates /\ a.room = app[b].room /\ a.joins = app[b].joins
    <2> DEFINE w == WatchdogEffect(b, x)
               call == CallEffect(b, x)
               ice == IF seen[b].role \notin {x.role, "none"} THEN "new" ELSE app[b].ice
    <2>1. w \in BOOLEAN /\ call \in SUBSET ({"start", "accept"} \X RoomIDs) /\ ice \in IceStates
        BY <1>1, <1>4, <1>5 DEF AppStates, IceStates
    <2>2. a = [app[b] EXCEPT !.watchdog = w, !.pending = call, !.ice = ice]
        OBVIOUS
    <2> HIDE DEF w, call, ice, a
    <2> QED
        BY <1>1, <2>1, <2>2 DEF AppStates
<1> HIDE DEF a
<1>7. \A c \in Browsers : /\ seen'[c] = IF c = b THEN x ELSE seen[c]
                          /\ app'[c] = IF c = b THEN a ELSE app[c]
    BY <1>3 DEF SessionInv, PageType
<1>8. PageType'
    BY <1>2, <1>3, <1>6 DEF SessionInv, PageType
<1>9. HubType' /\ WayFits(a, x.room, ws'[b], gen'[b])
      /\ \A c \in Browsers \ {b} : ws'[c] = ws[c] /\ gen'[c] = gen[c]
    <2>0. ws \in [Browsers -> {"none", "connecting", "open", "lost"}]
          /\ gen \in [Browsers -> 0 .. MaxJoins] /\ down \in [Browsers -> Seq(Messages)]
        BY DEF SessionInv, HubType
    <2>1. CASE seen[b].room = x.room
        <3>1. UNCHANGED <<ws, gen, down>>
            BY <1>3, <2>1 DEF SignalingEffect
        <3> QED
            BY <1>1, <1>2, <1>3, <1>6, <2>1, <3>1 DEF SessionInv, HubType, WayFits
    <2>2. CASE seen[b].room # x.room
        <3>1. ws' = [ws EXCEPT ![b] = IF x.room = NoRoom THEN "none" ELSE "connecting"]
              /\ gen' = (IF x.room = NoRoom THEN gen ELSE [gen EXCEPT ![b] = @ + 1])
              /\ down' = [down EXCEPT ![b] = <<>>]
            BY <1>3, <2>2 DEF SignalingEffect
        <3>2. x.room # NoRoom => gen[b] < MaxJoins /\ app[b].joins = <<>>
            BY <1>1, <1>2, <2>2 DEF WayFits
        <3>3. gen' \in [Browsers -> 0 .. MaxJoins]
            BY <2>0, <3>1, <3>2, MaxJoinsAssumption
        <3>4. \A c \in Browsers \ {b} : ws'[c] = ws[c] /\ gen'[c] = gen[c]
            BY <2>0, <3>1
        <3>5. WayFits(a, x.room, ws'[b], gen'[b])
            BY <1>1, <1>2, <1>6, <2>0, <3>1, <3>2 DEF WayFits
        <3> QED
            BY <1>3, <2>0, <3>1, <3>3, <3>4, <3>5 DEF SessionInv, HubType
    <2> QED
        BY <2>1, <2>2
<1>10. \A c \in Browsers : WayFits(app'[c], seen'[c].room, ws'[c], gen'[c])
    BY <1>7, <1>9 DEF SessionInv
<1>11. RtcType' /\ \A c \in Browsers : ConnFits(pc'[c])
    <2>1. CASE seen[b].role = x.role
        BY <1>3, <2>1 DEF WebRTCEffect, rtcVars, SessionInv, RtcType
    <2>2. CASE seen[b].role # x.role
        <3>1. fetching' = [fetching EXCEPT ![b] = {x.role} \ {"none"}]
            BY <1>3, <2>2 DEF WebRTCEffect
        <3>2. fetching' \in [Browsers -> SUBSET Roles]
            BY <1>2, <3>1 DEF SessionInv, RtcType, Views
        <3>3. CASE seen[b].role = "none"
            BY <1>3, <2>2, <3>2, <3>3 DEF WebRTCEffect, SessionInv, RtcType
        <3>4. CASE seen[b].role # "none"
            BY <1>3, <2>2, <3>2, <3>4, TypeClose DEF WebRTCEffect
        <3> QED
            BY <3>3, <3>4
    <2> QED
        BY <2>1, <2>2
<1> QED
    BY <1>8, <1>9, <1>10, <1>11 DEF SessionInv

\* The hub's notices to a line.
LEMMA TypeNotes ==
    ASSUME NEW l \in Seq(Ids), NEW i \in Nat
    PROVE  /\ \A s \in DOMAIN EnterNotes(l) : EnterNotes(l)[s] \in Seq(Messages)
           /\ \A s \in DOMAIN LeaveNotes(l, i) : LeaveNotes(l, i)[s] \in Seq(Messages)
<1>1. Len(l) \in Nat
    OBVIOUS
<1>2. ASSUME NEW s \in ToSet(l)
      PROVE  EnterNotes(l)[s] \in Seq(Messages) /\ LeaveNotes(l, i)[s] \in Seq(Messages)
    <2>1. PlaceIn(l, s) \in 1 .. Len(l)
        BY PlaceOf
    <2> PICK k \in 1 .. Len(l) : k = PlaceIn(l, s)
        BY <2>1
    <2>2. EnterNote(k, Len(l)) \in Seq(Messages) /\ LeaveNote(k, i, Len(l)) \in Seq(Messages)
        BY <1>1, NoteTypes
    <2>3. EnterNotes(l)[s] = EnterNote(k, Len(l)) /\ LeaveNotes(l, i)[s] = LeaveNote(k, i, Len(l))
        BY NotesAre
    <2> QED
        BY <2>2, <2>3
<1> QED
    BY <1>2, NotesAre

\* A socket opens and the hub puts it into the line.
LEMMA TypeEnter ==
    ASSUME SessionInv, NEW b \in Browsers, Enter(b)
    PROVE  SessionInv'
<1> DEFINE r == seen[b].room
           l == Append(line[r], Sock(b))
<1>0. 0 \in Nat
    OBVIOUS
<1>1. r \in RoomIDs /\ ws[b] = "connecting"
    BY DEF Enter, SessionInv, WayFits, PageType, Views
<1>2. l \in Seq(Ids)
    BY <1>1, SockType DEF SessionInv, HubType
<1>3. /\ Deliver(EnterNotes(l), Open \cup {b})
      /\ line' = [line EXCEPT ![r] = l] /\ ws' = [ws EXCEPT ![b] = "open"]
      /\ UNCHANGED <<app, seen, gen, fetching, pc, made, alive>>
    BY DEF Enter, rtcVars
<1>4. down' \in [Browsers -> Seq(Messages)]
    BY <1>0, <1>2, <1>3, TypeNotes, DeliverType DEF SessionInv, HubType
<1>5. fate' \in [RoomIDs -> {"unused", "made", "hosted", "stray"}]
    BY DEF Enter, SessionInv, HubType
<1>6. HubType'
    BY <1>1, <1>2, <1>3, <1>4, <1>5 DEF SessionInv, HubType
<1>7. \A c \in Browsers : WayFits(app'[c], seen'[c].room, ws'[c], gen'[c])
    BY <1>1, <1>3 DEF SessionInv, HubType, WayFits
<1> QED
    BY <1>3, <1>6, <1>7 DEF SessionInv, PageType, RtcType

\* The hub takes a socket out of a line.
LEMMA TypeLeave ==
    ASSUME SessionInv, NEW r \in RoomIDs, NEW i \in DOMAIN line[r], HubLeave(r, i)
    PROVE  SessionInv'
<1> DEFINE l == RemoveAt(line[r], i)
<1>1. line[r] \in Seq(Ids) /\ i \in 1 .. Len(line[r])
    BY DEF SessionInv, HubType
<1>2. l \in Seq(Ids)
    BY <1>1, RemoveAtProperties
<1>3. /\ Deliver(LeaveNotes(l, i), Open) /\ line' = [line EXCEPT ![r] = l]
      /\ UNCHANGED <<app, seen, ws, gen, fetching, pc, made, alive>>
    BY DEF HubLeave, rtcVars, SessionInv, HubType
<1>4. down' \in [Browsers -> Seq(Messages)]
    BY <1>1, <1>2, <1>3, TypeNotes, DeliverType DEF SessionInv, HubType
<1>5. fate' \in [RoomIDs -> {"unused", "made", "hosted", "stray"}]
    BY DEF HubLeave, SessionInv, HubType
<1> HIDE DEF l
<1>6. HubType'
    BY <1>2, <1>3, <1>4, <1>5 DEF SessionInv, HubType
<1> QED
    BY <1>3, <1>6, TypeWays DEF SessionInv, PageType, RtcType

\* A signal that is sent.
LEMMA TypeSend ==
    ASSUME SessionInv, NEW b \in Browsers, NEW m \in Messages, SendSignal(b, m)
    PROVE  down' \in [Browsers -> Seq(Messages)]
<1> DEFINE front == UNION {{line[r][i] : i \in DOMAIN line[r] \cap {1, 2}} :
                            r \in {x \in RoomIDs : Sock(b) \in ToSet(line[x])}}
           said == [s \in front \ {Sock(b)} |-> <<m>>]
<1>1. Deliver(said, IF Live(Sock(b)) THEN Open ELSE {})
    BY DEF SendSignal
<1>2. \A s \in DOMAIN said : said[s] \in Seq(Messages)
    OBVIOUS
<1> HIDE DEF said
<1> QED
    BY <1>1, <1>2, DeliverType DEF SessionInv, HubType

\* The offer and the answer of a browser.
LEMMA TypeSignals ==
    ASSUME SessionInv, NEW b \in Browsers
    PROVE  /\ Offer(Id(b)) \in Messages
           /\ pc[b].sig = "asked" => Answer(Id(b), pc[b].heard) \in Messages
BY SockType DEF SessionInv, ConnFits, Offer, Answer, Messages, Offers, Answers

\* The ICE agent reports.
LEMMA TypeIce ==
    ASSUME SessionInv, NEW b \in Browsers, NEW to \in IceStates, NEW from, Ice(b, from, to)
    PROVE  SessionInv'
<1> DEFINE a == [app[b] EXCEPT !.ice = to]
<1>1. app[b] \in AppStates
    BY DEF SessionInv, PageType
<1>2. /\ a \in AppStates /\ a.room = app[b].room /\ a.joins = app[b].joins
      /\ app' = [app EXCEPT ![b] = a]
    BY <1>1 DEF Ice, AppStates
<1> HIDE DEF a
<1>3. PageType' /\ \A c \in Browsers : WayFits(app'[c], seen'[c].room, ws'[c], gen'[c])
    BY <1>2, TypePageOnly DEF Ice, hubVars
<1> QED
    BY <1>3 DEF Ice, SessionInv, HubType, RtcType, hubVars, rtcVars

\* The steps of a peer connection.
LEMMA TypeRtc ==
    ASSUME SessionInv, NEW b \in Browsers, Rtc(b)
    PROVE  SessionInv'
<1>0. /\ pc[b] \in Conns /\ ConnFits(pc[b]) /\ pc \in [Browsers -> Conns]
      /\ fetching \in [Browsers -> SUBSET Roles] /\ made \in [Browsers -> Nat]
    BY DEF SessionInv, RtcType
<1>1. ASSUME NEW role \in {"offerer", "answerer"}, FetchDone(b, role) PROVE SessionInv'
    <2> DEFINE p == [NoPC EXCEPT !.n = made[b] + 1, !.role = role, !.sig = "new"]
    <2>1. p \in Conns /\ ConnFits(p)
        <3> PICK q : q = NoPC
            OBVIOUS
        <3>1. q \in Conns
            BY DEF NoPC, Conns, Roles
        <3>2. made[b] + 1 \in Nat /\ made[b] + 1 # 0
            BY <1>0
        <3>3. p = [q EXCEPT !.n = made[b] + 1, !.role = role, !.sig = "new"]
            OBVIOUS
        <3> HIDE DEF p
        <3> QED
            BY <3>1, <3>2, <3>3 DEF Conns, ConnFits, Roles
    <2>2. fetching' \in [Browsers -> SUBSET Roles] /\ made' \in [Browsers -> Nat] /\ alive' \subseteq Ids
        BY <1>0, <1>1 DEF FetchDone, SessionInv, RtcType, Ids
    <2>3. RtcType' /\ \A c \in Browsers : ConnFits(pc'[c])
        BY <1>1, <2>1, <2>2, TypeConn DEF FetchDone
    <2> QED
        BY <1>1, <2>3, TypeWays DEF FetchDone, SessionInv, HubType, hubVars
<1>2. CASE SendOffer(b) \/ SendAnswer(b)
    <2>1. PICK s \in {"offering", "stable"} : pc' = [pc EXCEPT ![b].sig = s]
        BY <1>2 DEF SendOffer, SendAnswer
    <2> DEFINE p == [pc[b] EXCEPT !.sig = s]
    <2>2. p \in Conns /\ ConnFits(p) /\ pc' = [pc EXCEPT ![b] = p]
        <3>1. pc[b].n # 0
            BY <1>0, <1>2 DEF SendOffer, SendAnswer, ConnFits, NoPC
        <3> QED
            BY <1>0, <2>1, <3>1 DEF Conns, ConnFits
    <2>3. RtcType' /\ \A c \in Browsers : ConnFits(pc'[c])
        BY <1>2, <2>2, TypeConn DEF SendOffer, SendAnswer, SessionInv, RtcType
    <2>4. down' \in [Browsers -> Seq(Messages)]
        BY <1>2, TypeSend, TypeSignals DEF SendOffer, SendAnswer
    <2> QED
        BY <1>2, <2>3, <2>4, TypeWays DEF SendOffer, SendAnswer, SessionInv, HubType, hubVars
<1>3. CASE ChannelOpens(b)
    <2> DEFINE p == [pc[b] EXCEPT !.opened = TRUE]
               a == [app[b] EXCEPT !.chan = pc[b].n, !.wasActive = FALSE, !.watchdog = FALSE]
    <2>1. pc[b].n # 0
        BY <1>0, <1>3 DEF ChannelOpens, Linked, ConnFits, NoPC
    <2>2. p \in Conns /\ ConnFits(p) /\ pc' = [pc EXCEPT ![b] = p]
        BY <1>0, <1>3, <2>1 DEF ChannelOpens, Conns, ConnFits
    <2>3. RtcType' /\ \A c \in Browsers : ConnFits(pc'[c])
        BY <1>3, <2>2, TypeConn DEF ChannelOpens, SessionInv, RtcType
    <2>4. app[b] \in AppStates /\ WayFits(app[b], seen[b].room, ws[b], gen[b])
        BY DEF SessionInv, PageType
    <2>5. /\ a \in AppStates /\ a.room = app[b].room /\ a.joins = app[b].joins
          /\ app' = [app EXCEPT ![b] = a]
        BY <1>0, <1>3, <2>4 DEF ChannelOpens, AppStates, Conns
    <2> HIDE DEF a
    <2>6. PageType' /\ \A c \in Browsers : WayFits(app'[c], seen'[c].room, ws'[c], gen'[c])
        BY <1>3, <2>4, <2>5, TypePageOnly DEF ChannelOpens, hubVars
    <2> QED
        BY <1>3, <2>3, <2>6 DEF ChannelOpens, SessionInv, HubType, hubVars
<1>4. ASSUME NEW to \in IceStates, NEW from, Ice(b, from, to) PROVE SessionInv'
    BY <1>4, TypeIce
<1>5. CASE IceConnects(b) \/ LinkDies(b)
    BY <1>4, <1>5 DEF IceConnects, LinkDies, IceStates
<1> QED
    BY <1>1, <1>2, <1>3, <1>5 DEF Rtc

\* A message is taken.
LEMMA TypeReceive ==
    ASSUME SessionInv, NEW b \in Browsers, Receive(b)
    PROVE  SessionInv'
<1>1. /\ app[b] \in AppStates /\ pc[b] \in Conns /\ ConnFits(pc[b])
      /\ down[b] \in Seq(Messages) /\ down[b] # <<>>
    BY DEF SessionInv, PageType, HubType, RtcType, Receive
<1>2. Head(down[b]) \in Messages /\ Tail(down[b]) \in Seq(Messages)
    BY <1>1, HeadTailProperties
<1> PICK m \in Messages : m = Head(down[b])
    BY <1>2
<1>3. /\ app' = [app EXCEPT ![b] = OnNotice(app[b], m)]
      /\ pc' = [pc EXCEPT ![b] = HandleSignal(pc[b], Id(b), m)]
      /\ down' = [down EXCEPT ![b] = Tail(down[b])]
      /\ UNCHANGED <<seen, ws, gen, line, fate, fetching, made, alive>>
    BY DEF Receive, hubVars, SessionInv, PageType, RtcType, HubType
<1>4. OnNotice(app[b], m) \in AppStates /\ OnNotice(app[b], m).room = app[b].room
      /\ OnNotice(app[b], m).joins = app[b].joins
    BY <1>1, NoticeType
<1>5. HandleSignal(pc[b], Id(b), m) \in Conns /\ ConnFits(HandleSignal(pc[b], Id(b), m))
    BY <1>1, SignalType
<1>6. PageType' /\ \A c \in Browsers : WayFits(app'[c], seen'[c].room, ws'[c], gen'[c])
    <2>1. \A c \in Browsers : /\ app'[c].room = app[c].room /\ app'[c].joins = app[c].joins
        BY <1>3, <1>4 DEF SessionInv, PageType
    <2>2. PageType'
        BY <1>3, <1>4 DEF SessionInv, PageType
    <2> QED
        BY <1>3, <2>1, <2>2 DEF SessionInv, WayFits
<1>7. RtcType' /\ \A c \in Browsers : ConnFits(pc'[c])
    BY <1>3, <1>5, TypeConn DEF SessionInv, RtcType
<1>8. HubType'
    BY <1>2, <1>3 DEF SessionInv, HubType
<1> QED
    BY <1>6, <1>7, <1>8 DEF SessionInv

\* The initial states have their types.
LEMMA SessionInit == Init => SessionInv /\ TroubleInv
<1> SUFFICES ASSUME Init PROVE SessionInv /\ TroubleInv
    OBVIOUS
<1>1. Start \in AppStates
    BY DEF AppStates, Start, Roles, IceStates
<1>2. Shown(Start) \in Views /\ Shown(Start).room = NoRoom
    BY <1>1, ShownType DEF Start
<1>3. NoPC \in Conns /\ ConnFits(NoPC)
    BY DEF NoPC, Conns, ConnFits, Roles
<1>4. PageType /\ HubType /\ RtcType
    BY <1>1, <1>2, <1>3, MaxJoinsAssumption DEF Init, PageType, HubType, RtcType
<1>5. \A b \in Browsers : WayFits(Start, NoRoom, "none", 0)
    BY DEF WayFits, Start
<1> QED
    BY <1>2, <1>3, <1>4, <1>5, MaxTroubleAssumption DEF Init, SessionInv, TroubleInv

\* Every step keeps the types.
LEMMA SessionStep == SessionInv /\ CallInv /\ [Next]_vars => SessionInv'
<1> SUFFICES ASSUME SessionInv, CallInv, [Next]_vars PROVE SessionInv'
    OBVIOUS
<1>1. CASE HubLeaves
    BY <1>1, TypeLeave DEF HubLeaves
<1>2. ASSUME NEW b \in Browsers, User(b) PROVE SessionInv'
    <2>1. CASE PressDisconnect(b)
        BY <2>1, TypeDisconnect DEF PressDisconnect
    <2>2. ASSUME NEW r \in RoomIDs, HandleCreate(b, r) \/ HandleCall(b, r) PROVE SessionInv'
        <3>1. fate' \in [RoomIDs -> {"unused", "made", "hosted", "stray"}]
            BY <2>2 DEF HandleCreate, HandleCall, SessionInv, HubType
        <3>2. "offerer" \in Roles
              /\ {} \in SUBSET ({"start", "accept"} \X RoomIDs)
              /\ {<<"start", r>>} \in SUBSET ({"start", "accept"} \X RoomIDs)
            BY DEF Roles
        <3> QED
            BY <2>2, <3>1, <3>2, TypeGo DEF HandleCreate, HandleCall
    <2>3. ASSUME NEW r \in RoomIDs, HandleJoin(b, r) \/ HandleAcceptInvite(b, r) PROVE SessionInv'
        <3>1. fate' \in [RoomIDs -> {"unused", "made", "hosted", "stray"}]
            BY <2>3 DEF HandleJoin, HandleAcceptInvite, SessionInv, HubType
        <3>2. "answerer" \in Roles
              /\ {} \in SUBSET ({"start", "accept"} \X RoomIDs)
              /\ {<<"accept", r>>} \in SUBSET ({"start", "accept"} \X RoomIDs)
            BY DEF Roles
        <3> QED
            BY <2>3, <3>1, <3>2, TypeGo DEF HandleJoin, HandleAcceptInvite
    <2> QED
        BY <1>2, <2>1, <2>2, <2>3 DEF User
<1>3. ASSUME NEW b \in Browsers, Browser(b) PROVE SessionInv'
    BY <1>3, TypeDisconnect, TypeJoinTimer, TypeCommit, TypeEnter, TypeReceive, TypeRtc
    DEF Browser, Timers, WatchdogFires, GraceExpires
<1>4. ASSUME NEW b \in Browsers, Trouble(b) PROVE SessionInv'
    <2>1. CASE WsLost(b)
        <3>1. HubType' /\ \A c \in Browsers : ws'[c] = "none" <=> ws[c] = "none"
            BY <2>1 DEF WsLost, SessionInv, HubType, hubVars
        <3> QED
            BY <2>1, <3>1 DEF WsLost, SessionInv, PageType, RtcType, hubVars, rtcVars, WayFits
    <2>2. CASE LinkBreaks(b)
        BY <2>2, TypeIce DEF LinkBreaks, IceStates
    <2> QED
        BY <1>4, <2>1, <2>2 DEF Trouble
<1>5. CASE UNCHANGED vars
    BY <1>5 DEF vars, hubVars, rtcVars, SessionInv, PageType, HubType, RtcType, ClosePC
<1> QED
    BY <1>1, <1>2, <1>3, <1>4, <1>5 DEF Next, Calm

\* The invariants together.
LEMMA SessionInvariant == Spec => [](SessionInv /\ CallInv /\ LeakInv)
<1>1. Init => SessionInv /\ CallInv /\ LeakInv
    BY SessionInit, CallInit, LeakInit
<1>2. SessionInv /\ CallInv /\ LeakInv /\ [Next]_vars => (SessionInv /\ CallInv /\ LeakInv)'
    BY SessionStep, CallStep, LeakStep
<1> QED
    BY <1>1, <1>2, PTL DEF Spec

\* What the pages, the hub's lines and the peer connections are made of: no
\* order of timers, messages and renderings brings a page to a status, a place
\* or a role that AppPage.jsx does not know, or a browser to more sockets than
\* it has gone into rooms.
THEOREM SessionTypeCorrect == Spec => []TypeOK
<1>1. SessionInv /\ TroubleInv => TypeOK
    BY DEF SessionInv, PageType, HubType, RtcType, TypeOK, AppStates, Views, IceStates, Joins,
           Messages, Notices, Numbers, Offers, Answers, Conns, TroubleInv
<1>2. TroubleInv /\ [Next]_vars => TroubleInv'
    BY MaxTroubleAssumption DEF Next, Calm, vars, TroubleInv
<1>3. Init => TroubleInv
    BY SessionInit
<1> QED
    BY <1>1, <1>2, <1>3, SessionInvariant, PTL DEF Spec

-----------------------------------------------------------------------------
(***************************************************************************)
(* Sockets and lines.  A socket stands in the line of the room it was      *)
(* opened for, once, and only after it has opened; one that is open is     *)
(* there; and nothing is under way to a browser without one.               *)
(***************************************************************************)
LineFits(s, r) ==
    /\ s[2] <= gen[s[1]]
    /\ s = Sock(s[1]) => ws[s[1]] # "connecting" /\ seen[s[1]].room \in {NoRoom, r}

NetInv ==
    /\ \A r \in RoomIDs : IsInjective(line[r]) /\ \A s \in ToSet(line[r]) : LineFits(s, r)
    /\ \A b \in Browsers :
        /\ ws[b] = "open" => Sock(b) \in ToSet(line[seen[b].room])
        /\ ws[b] # "open" => down[b] = <<>>

\* Steps that leave sockets and lines alone, and say nothing to one without.
LEMMA NetSame ==
    ASSUME NetInv, UNCHANGED <<seen, ws, gen, line>>,
           \A b \in Browsers : ws[b] # "open" => down'[b] = down[b]
    PROVE  NetInv'
BY DEF NetInv, LineFits, Sock

\* Who is in a line, by its type.
LEMMA LineType ==
    ASSUME HubType, NEW r \in RoomIDs
    PROVE  /\ line[r] \in Seq(Ids) /\ Len(line[r]) \in Nat /\ DOMAIN line[r] = 1 .. Len(line[r])
           /\ \A s \in ToSet(line[r]) : s \in Ids /\ s[1] \in Browsers /\ s[2] \in Nat
           /\ \A s : s \in ToSet(line[r]) <=> \E k \in 1 .. Len(line[r]) : line[r][k] = s
<1>1. line[r] \in Seq(Ids)
    BY DEF HubType
<1>2. ToSet(line[r]) \subseteq Ids
      /\ \A s : s \in ToSet(line[r]) <=> \E k \in 1 .. Len(line[r]) : line[r][k] = s
    BY <1>1, ToSetProperties
<1> QED
    BY <1>1, <1>2 DEF Ids

\* A signal only reaches sockets that are open.
LEMMA NetSend ==
    ASSUME SessionInv, NetInv, NEW b \in Browsers, NEW m, SendSignal(b, m),
           UNCHANGED <<seen, ws, gen, line>>
    PROVE  NetInv'
BY NetSame DEF SendSignal, Deliver, Open

\* React renders: a new socket is in no line yet.
LEMMA NetCommit ==
    ASSUME SessionInv, NetInv, NEW b \in Browsers, Commit(b)
    PROVE  NetInv'
<1> DEFINE x == Shown(app[b])
<1>1. /\ seen \in [Browsers -> Views] /\ seen' = [seen EXCEPT ![b] = x]
      /\ SignalingEffect(b, x) /\ line' = line
    BY DEF Commit, SessionInv, PageType
<1>2. /\ ws \in [Browsers -> {"none", "connecting", "open", "lost"}]
      /\ gen \in [Browsers -> 0 .. MaxJoins] /\ down \in [Browsers -> Seq(Messages)]
    BY DEF SessionInv, HubType
<1> HIDE DEF x
<1>3. \A c \in Browsers : seen'[c] = IF c = b THEN x ELSE seen[c]
    BY <1>1
<1>4. CASE seen[b].room = x.room
    <2>1. UNCHANGED <<ws, gen, down>> /\ \A c \in Browsers : seen'[c].room = seen[c].room
        BY <1>1, <1>3, <1>4 DEF SignalingEffect
    <2>2. ASSUME NEW r \in RoomIDs, NEW s \in ToSet(line[r]) PROVE LineFits(s, r)'
        BY <2>1, LineType DEF SessionInv, NetInv, LineFits, Sock
    <2> QED
        BY <1>1, <2>1, <2>2 DEF NetInv, Sock
<1>5. CASE seen[b].room # x.room
    <2>1. /\ ws' = [ws EXCEPT ![b] = IF x.room = NoRoom THEN "none" ELSE "connecting"]
          /\ gen' = (IF x.room = NoRoom THEN gen ELSE [gen EXCEPT ![b] = @ + 1])
          /\ down' = [down EXCEPT ![b] = <<>>]
        BY <1>1, <1>5 DEF SignalingEffect
    <2>2. \A c \in Browsers \ {b} : ws'[c] = ws[c] /\ gen'[c] = gen[c] /\ down'[c] = down[c]
        BY <1>2, <2>1
    <2>3. /\ ws'[b] # "open" /\ down'[b] = <<>> /\ gen[b] \in Nat
          /\ \/ x.room = NoRoom /\ ws'[b] = "none" /\ gen'[b] = gen[b]
             \/ gen'[b] = gen[b] + 1
        BY <1>2, <2>1
    <2>4. ASSUME NEW r \in RoomIDs, NEW s \in ToSet(line[r]) PROVE LineFits(s, r)'
        <3>1. LineFits(s, r) /\ s[1] \in Browsers /\ s[2] \in Nat
            BY LineType DEF SessionInv, NetInv
        <3>2. CASE s[1] = b
            <4>1. gen'[b] = gen[b] + 1 => s # Sock(b)'
                BY <2>3, <3>1, <3>2 DEF LineFits, Sock
            <4> QED
                BY <1>3, <2>3, <3>1, <3>2, <4>1 DEF LineFits
        <3>3. CASE s[1] # b
            BY <1>3, <2>2, <3>1, <3>3 DEF LineFits, Sock
        <3> QED
            BY <3>2, <3>3
    <2>5. ASSUME NEW c \in Browsers
          PROVE  /\ ws'[c] = "open" => Sock(c)' \in ToSet(line[seen'[c].room])
                 /\ ws'[c] # "open" => down'[c] = <<>>
        BY <1>3, <2>2, <2>3 DEF NetInv, Sock
    <2> QED
        BY <1>1, <2>4, <2>5 DEF NetInv
<1> QED
    BY <1>4, <1>5

\* A socket opens: it is the last of its line, and in no other.
LEMMA NetEnter ==
    ASSUME SessionInv, NetInv, NEW b \in Browsers, Enter(b)
    PROVE  /\ NetInv' /\ seen[b].room \in RoomIDs
           /\ \A r \in RoomIDs : Sock(b) \notin ToSet(line[r])
<1> DEFINE q == seen[b].room
<1>1. q \in RoomIDs /\ ws[b] = "connecting" /\ Sock(b) \in Ids /\ Sock(b)[1] = b
    BY SockType DEF Enter, SessionInv, WayFits, PageType, Views
<1>2. \A r \in RoomIDs : Sock(b) \notin ToSet(line[r])
    BY <1>1 DEF NetInv, LineFits
<1>3. /\ \A c \in Browsers : ws'[c] = IF c = b THEN "open" ELSE ws[c]
      /\ \A r \in RoomIDs : line'[r] = IF r = q THEN Append(line[q], Sock(b)) ELSE line[r]
      /\ UNCHANGED <<seen, gen>>
    BY <1>1 DEF Enter, SessionInv, HubType
<1>4. ToSet(line'[q]) = ToSet(line[q]) \cup {Sock(b)} /\ IsInjective(line'[q])
    BY <1>1, <1>2, <1>3, LineType, ToSetAppend, AppendIsInjective DEF SessionInv, NetInv
<1>5. LineFits(Sock(b), q)'
    BY <1>1, <1>3 DEF LineFits, Sock, SessionInv, HubType
<1>6. ASSUME NEW r \in RoomIDs, NEW s \in ToSet(line[r]) PROVE LineFits(s, r)'
    <2>1. LineFits(s, r) /\ s[1] \in Browsers
        BY LineType DEF SessionInv, NetInv
    <2> QED
        BY <1>1, <1>2, <1>3, <2>1 DEF LineFits, Sock
<1>7. ASSUME NEW r \in RoomIDs
      PROVE  IsInjective(line'[r]) /\ \A s \in ToSet(line'[r]) : LineFits(s, r)'
    BY <1>3, <1>4, <1>5, <1>6, <1>7 DEF NetInv, Sock
<1>8. ASSUME NEW c \in Browsers
      PROVE  /\ ws'[c] = "open" => Sock(c)' \in ToSet(line'[seen'[c].room])
             /\ ws'[c] # "open" => down'[c] = down[c]
    <2>1. Sock(c)' = Sock(c)
        BY <1>3 DEF Sock
    <2>2. ws'[c] # "open" => down'[c] = down[c]
        BY <1>3 DEF Enter, Deliver, Open
    <2>3. CASE c = b
        BY <1>3, <1>4, <2>1, <2>2, <2>3
    <2>4. CASE c # b /\ ws[c] = "open"
        <3>1. seen[c].room \in RoomIDs
            BY <2>4 DEF SessionInv, WayFits, PageType, Views
        <3> QED
            BY <1>3, <1>4, <2>1, <2>2, <2>4, <3>1 DEF NetInv
    <2>5. CASE c # b /\ ws[c] # "open"
        BY <1>3, <2>2, <2>5
    <2> QED
        BY <2>3, <2>4, <2>5
<1>9. \A c \in Browsers : ws'[c] # "open" => down'[c] = <<>>
    BY <1>3, <1>8 DEF NetInv
<1> QED
    BY <1>1, <1>2, <1>7, <1>8, <1>9 DEF NetInv

\* The hub takes out a socket that is no longer in use.
LEMMA NetLeave ==
    ASSUME SessionInv, NetInv, NEW q \in RoomIDs, NEW i \in DOMAIN line[q], HubLeave(q, i)
    PROVE  NetInv'
<1>1. /\ line[q] \in Seq(Ids) /\ i \in 1 .. Len(line[q]) /\ IsInjective(line[q])
      /\ line[q][i] \in ToSet(line[q])
    BY LineType DEF SessionInv, NetInv
<1>2. /\ \A r \in RoomIDs : line'[r] = IF r = q THEN RemoveAt(line[q], i) ELSE line[r]
      /\ UNCHANGED <<seen, ws, gen>>
    BY DEF HubLeave, SessionInv, HubType
<1>3. ToSet(line'[q]) = ToSet(line[q]) \ {line[q][i]} /\ IsInjective(line'[q])
    BY <1>1, <1>2, RemoveAtInjective
<1>4. ASSUME NEW r \in RoomIDs, NEW s \in ToSet(line[r]) PROVE LineFits(s, r)'
    BY <1>2 DEF NetInv, LineFits, Sock
<1>5. \A r \in RoomIDs : IsInjective(line'[r]) /\ \A s \in ToSet(line'[r]) : LineFits(s, r)'
    BY <1>2, <1>3, <1>4 DEF NetInv
<1>6. ASSUME NEW c \in Browsers
      PROVE  /\ ws'[c] = "open" => Sock(c)' \in ToSet(line'[seen'[c].room])
             /\ ws'[c] # "open" => down'[c] = <<>>
    <2>1. Sock(c)' = Sock(c) /\ ws'[c] = ws[c] /\ seen'[c] = seen[c]
        BY <1>2 DEF Sock
    <2>2. CASE ws[c] = "open"
        <3>1. seen[c].room \in RoomIDs /\ Sock(c) \in ToSet(line[seen[c].room])
            BY <2>2 DEF SessionInv, WayFits, PageType, Views, NetInv
        <3>2. Sock(c) # line[q][i]
            <4>1. Sock(c)[1] = c
                BY DEF Sock
            <4> QED
                BY <2>2, <4>1 DEF HubLeave, Live
        <3> QED
            BY <1>2, <1>3, <2>1, <2>2, <3>1, <3>2
    <2>3. CASE ws[c] # "open"
        BY <2>1, <2>3 DEF HubLeave, Deliver, Open, NetInv
    <2> QED
        BY <2>2, <2>3
<1> QED
    BY <1>5, <1>6 DEF NetInv

\* The initial states satisfy the invariant of sockets and lines.
LEMMA NetInit == Init => NetInv
<1> SUFFICES ASSUME Init PROVE NetInv
    OBVIOUS
<1>1. \A r \in RoomIDs : line[r] = <<>>
    BY DEF Init
<1>2. IsInjective(<<>>) /\ ToSet(<<>>) = {}
    BY DEF IsInjective, ToSet
<1>3. \A b \in Browsers : ws[b] = "none" /\ down[b] = <<>>
    BY DEF Init
<1> QED
    BY <1>1, <1>2, <1>3 DEF NetInv

\* Every step keeps it.
LEMMA NetStep == SessionInv /\ NetInv /\ [Next]_vars => NetInv'
<1> SUFFICES ASSUME SessionInv, NetInv, [Next]_vars PROVE NetInv'
    OBVIOUS
<1>1. CASE HubLeaves
    BY <1>1, NetLeave DEF HubLeaves
<1>2. ASSUME NEW b \in Browsers, Commit(b) PROVE NetInv'
    BY <1>2, NetCommit
<1>3. ASSUME NEW b \in Browsers, Enter(b) PROVE NetInv'
    BY <1>3, NetEnter
<1>4. ASSUME NEW b \in Browsers, Receive(b) PROVE NetInv'
    <2>1. \A c \in Browsers : ws[c] # "open" => c # b
        BY <1>4 DEF Receive, NetInv
    <2>2. \A c \in Browsers : c # b => down'[c] = down[c]
        BY <1>4 DEF Receive, SessionInv, HubType
    <2> QED
        BY <1>4, <2>1, <2>2, NetSame DEF Receive, hubVars
<1>5. ASSUME NEW b \in Browsers, SendOffer(b) \/ SendAnswer(b) PROVE NetInv'
    BY <1>5, NetSend DEF SendOffer, SendAnswer, hubVars
<1>6. ASSUME NEW b \in Browsers, WsLost(b) PROVE NetInv'
    <2>1. /\ \A c \in Browsers : ws'[c] = IF c = b THEN "lost" ELSE ws[c]
          /\ \A c \in Browsers : down'[c] = IF c = b THEN <<>> ELSE down[c]
          /\ UNCHANGED <<seen, gen, line>>
        BY <1>6 DEF WsLost, SessionInv, HubType, hubVars
    <2>2. ASSUME NEW r \in RoomIDs, NEW s \in ToSet(line[r]) PROVE LineFits(s, r)'
        <3>1. LineFits(s, r) /\ s[1] \in Browsers
            BY LineType DEF SessionInv, NetInv
        <3> QED
            BY <2>1, <3>1 DEF LineFits, Sock
    <2> QED
        BY <2>1, <2>2 DEF NetInv, Sock
<1>7. CASE UNCHANGED <<seen, ws, gen, line, down>>
    BY <1>7, NetSame
<1> QED
    BY <1>1, <1>2, <1>3, <1>4, <1>5, <1>6, <1>7, ZenonT(40)
    DEF Next, Calm, User, PressDisconnect, Disconnect, HandleCreate, HandleJoin, HandleCall,
        HandleAcceptInvite, GoTo, Browser, Timers, WatchdogFires, GraceExpires, JoinTimer, Rtc,
        FetchDone, ChannelOpens, IceConnects, LinkDies, Ice, Trouble, LinkBreaks, vars, hubVars

-----------------------------------------------------------------------------
(***************************************************************************)
(* A browser without a room has nothing left of the last one, if React     *)
(* renders before the next event: disconnect resets the page and closes    *)
(* the connection, and until the socket is closed, too, nothing else       *)
(* happens there.                                                          *)
(***************************************************************************)

\* The page, and its peer connection, of one without a room.
Released1(a, p) ==
    a.room = NoRoom =>
        /\ p = NoPC
        /\ a.role = "none" /\ a.status = "waiting" /\ a.chan = 0 /\ a.pos = 0
        /\ a.ice = "new" /\ ~a.wasActive /\ ~a.watchdog
        /\ a.joins = <<>> => a.pending = {}

ReleasedInv == \A b \in Browsers : Released1(app[b], pc[b])

\* A browser that may go on has rendered, and without a room it has no socket,
\* no message to take, no role and no configuration to wait for.
LEMMA AtRest ==
    ASSUME Eager, SessionInv, LeakInv, NetInv, ReleasedInv, NEW b \in Browsers, MayHandle(b),
           app[b].room = NoRoom
    PROVE  /\ Rendered(b) /\ ws[b] = "none" /\ down[b] = <<>> /\ fetching[b] = {} /\ pc[b] = NoPC
<1>1. Rendered(b) /\ app[b] \in AppStates /\ Released1(app[b], pc[b])
    BY DEF MayHandle, SessionInv, PageType, ReleasedInv
<1>2. seen[b].room = NoRoom /\ seen[b].role = ActiveRole(app[b])
    BY <1>1, ShownType DEF Rendered
<1>3. ws[b] = "none" /\ down[b] = <<>>
    BY <1>2 DEF SessionInv, WayFits, NetInv
<1>4. app[b].status = "waiting"
    BY <1>1 DEF Released1
<1>5. seen[b].role = "none"
    BY <1>2, <1>4 DEF ActiveRole
<1> QED
    BY <1>1, <1>3, <1>5 DEF LeakInv, OnePerEffect, Released1

\* Steps that touch one browser.
LEMMA ReleasedOne ==
    ASSUME SessionInv, ReleasedInv, NEW b \in Browsers, NEW a, NEW p,
           app' = [app EXCEPT ![b] = a], pc' = [pc EXCEPT ![b] = p], Released1(a, p)
    PROVE  ReleasedInv'
<1>1. \A c \in Browsers : /\ app'[c] = IF c = b THEN a ELSE app[c]
                          /\ pc'[c] = IF c = b THEN p ELSE pc[c]
    BY DEF SessionInv, PageType, RtcType
<1> QED
    BY <1>1 DEF ReleasedInv

\* Steps of a browser in a room that stays there.
LEMMA ReleasedInRoom ==
    ASSUME SessionInv, ReleasedInv, NEW b \in Browsers, app[b].room # NoRoom,
           app'[b].room = app[b].room,
           \A c \in Browsers \ {b} : app'[c] = app[c] /\ pc'[c] = pc[c]
    PROVE  ReleasedInv'
BY DEF ReleasedInv, Released1

\* Steps that touch neither.
LEMMA ReleasedSame == ReleasedInv /\ UNCHANGED <<app, pc>> => ReleasedInv'
BY DEF ReleasedInv

LEMMA AppendNotEmpty ==
    ASSUME NEW S, NEW s \in Seq(S), NEW e \in S
    PROVE  Append(s, e) # <<>>
<1>1. Len(Append(s, e)) = Len(s) + 1 /\ Len(s) \in Nat
    BY AppendProperties, LenProperties
<1>2. Len(<<>>) = 0
    BY EmptySeq
<1> QED
    BY <1>1, <1>2

\* disconnect, alone or on the way to another room.
LEMMA ReleasedReset ==
    ASSUME SessionInv, ReleasedInv, NEW b \in Browsers, ClosePC(b),
           \/ app' = [app EXCEPT ![b] = Reset(@)]
           \/ \E way \in Joins : \E call : app' = [app EXCEPT ![b] =
                    [Reset(app[b]) EXCEPT !.joins = Append(@, way), !.pending = call]]
    PROVE  ReleasedInv'
<1>1. pc' = [pc EXCEPT ![b] = NoPC]
    BY DEF ClosePC
<1>2. CASE app' = [app EXCEPT ![b] = Reset(@)]
    <2>1. Released1(Reset(app[b]), NoPC)
        BY DEF Released1, Reset, Start
    <2> QED
        BY <1>1, <1>2, <2>1, ReleasedOne DEF SessionInv, PageType
<1>3. ASSUME NEW way \in Joins, NEW call, app' = [app EXCEPT ![b] =
                    [Reset(app[b]) EXCEPT !.joins = Append(@, way), !.pending = call]]
      PROVE  ReleasedInv'
    <2> DEFINE a == [Reset(app[b]) EXCEPT !.joins = Append(@, way), !.pending = call]
    <2>1. Reset(app[b]).joins = app[b].joins /\ app[b].joins \in Seq(Joins)
        BY DEF Reset, Start, SessionInv, PageType, AppStates
    <2>2. a.joins = Append(app[b].joins, way)
        BY <2>1 DEF Reset, Start
    <2>3. a.joins # <<>>
        <3> PICK s \in Seq(Joins) : s = app[b].joins
            BY <2>1
        <3>1. Append(s, way) # <<>>
            BY AppendNotEmpty
        <3> QED
            BY <2>2, <3>1
    <2>4. Released1(a, NoPC)
        BY <2>3 DEF Released1, Reset, Start
    <2> QED
        BY <1>1, <1>3, <2>4, ReleasedOne
<1> QED
    BY <1>2, <1>3

\* React renders.
LEMMA ReleasedCommit ==
    ASSUME SessionInv, ReleasedInv, NEW b \in Browsers, Commit(b)
    PROVE  ReleasedInv'
<1> DEFINE x == Shown(app[b])
           w == WatchdogEffect(b, x)
           call == CallEffect(b, x)
           ice == IF seen[b].role \notin {x.role, "none"} THEN "new" ELSE app[b].ice
           a == [app[b] EXCEPT !.watchdog = w, !.pending = call, !.ice = ice]
<1>1. app[b] \in AppStates /\ Released1(app[b], pc[b])
    BY DEF SessionInv, PageType, ReleasedInv
<1>2. x.room = app[b].room /\ x.ice = app[b].ice
    BY <1>1, ShownType
<1>3. app' = [app EXCEPT ![b] = a] /\ WebRTCEffect(b, x)
    BY DEF Commit
<1>4. app[b].room = NoRoom => ~w /\ ice = "new" /\ call \in {{}, app[b].pending}
    BY <1>1, <1>2 DEF WatchdogEffect, CallEffect, IsConnected, Released1
<1>5. PICK p \in {NoPC, pc[b]} : pc' = [pc EXCEPT ![b] = p]
    <2>1. pc = [pc EXCEPT ![b] = pc[b]]
        BY DEF SessionInv, RtcType
    <2> QED
        BY <1>3, <2>1 DEF WebRTCEffect, ClosePC, rtcVars
<1> HIDE DEF w, call, ice, x
<1>6. /\ a.room = app[b].room /\ a.role = app[b].role /\ a.status = app[b].status
      /\ a.chan = app[b].chan /\ a.pos = app[b].pos /\ a.wasActive = app[b].wasActive
      /\ a.joins = app[b].joins /\ a.watchdog = w /\ a.pending = call /\ a.ice = ice
    BY <1>1 DEF AppStates
<1> HIDE DEF a
<1>7. Released1(a, p)
    BY <1>1, <1>4, <1>5, <1>6 DEF Released1
<1> QED
    BY <1>3, <1>5, <1>7, ReleasedOne

\* Every step keeps it, if React is quick.
LEMMA ReleasedStep ==
    ASSUME Eager, SessionInv, CallInv, LeakInv, NetInv, ReleasedInv, [Next]_vars
    PROVE  ReleasedInv'
<1>1. ASSUME NEW b \in Browsers, User(b) PROVE ReleasedInv'
    <2>1. CASE PressDisconnect(b)
        BY <2>1, ReleasedReset DEF PressDisconnect, Disconnect
    <2>2. ASSUME NEW r \in RoomIDs, NEW role \in Roles, NEW call, GoTo(b, r, role, call)
          PROVE  ReleasedInv'
        <3>1. [room |-> r, role |-> role] \in Joins
            BY DEF Joins
        <3> QED
            BY <2>2, <3>1, ReleasedReset DEF GoTo
    <2> QED
        BY <1>1, <2>1, <2>2
        DEF User, HandleCreate, HandleJoin, HandleCall, HandleAcceptInvite, Roles
<1>2. ASSUME NEW b \in Browsers, Timers(b) PROVE ReleasedInv'
    <2>1. CASE Disconnect(b)
        BY <2>1, ReleasedReset DEF Disconnect
    <2>2. CASE JoinTimer(b)
        <3>1. Head(app[b].joins) \in Joins /\ app[b] \in AppStates
            BY <2>2 DEF JoinTimer, SessionInv, PageType, AppStates
        <3>2. Head(app[b].joins).room # NoRoom
            BY <3>1, NoRoomAssumption DEF Joins
        <3>3. /\ app'[b].room # NoRoom /\ UNCHANGED pc
              /\ \A c \in Browsers \ {b} : app'[c] = app[c]
            BY <2>2, <3>1, <3>2 DEF JoinTimer, SessionInv, PageType, AppStates, rtcVars
        <3> QED
            BY <3>3 DEF ReleasedInv, Released1
    <2> QED
        BY <1>2, <2>1, <2>2 DEF Timers, WatchdogFires, GraceExpires
<1>3. ASSUME NEW b \in Browsers, Commit(b) PROVE ReleasedInv'
    BY <1>3, ReleasedCommit
<1>4. ASSUME NEW b \in Browsers, Receive(b) PROVE ReleasedInv'
    <2>1. app[b].room # NoRoom
        BY <1>4, AtRest DEF Receive
    <2>2. Head(down[b]) \in Messages /\ app[b] \in AppStates
        BY <1>4 DEF Receive, SessionInv, HubType, PageType
    <2>3. app'[b] = OnNotice(app[b], Head(down[b]))
          /\ \A c \in Browsers \ {b} : app'[c] = app[c] /\ pc'[c] = pc[c]
        BY <1>4 DEF Receive, SessionInv, PageType, RtcType
    <2> QED
        BY <2>1, <2>2, <2>3, NoticeType, ReleasedInRoom
<1>5. ASSUME NEW b \in Browsers, Rtc(b) \/ Trouble(b), ~UNCHANGED <<app, pc>> PROVE ReleasedInv'
    <2>1. MayHandle(b) /\ (fetching[b] # {} \/ pc[b] # NoPC)
        <3>1. CASE \E role \in {"offerer", "answerer"} : FetchDone(b, role)
            BY <3>1 DEF FetchDone
        <3>2. CASE SendOffer(b) \/ SendAnswer(b) \/ ChannelOpens(b)
            BY <3>2 DEF SendOffer, SendAnswer, ChannelOpens, Linked, NoPC
        <3>3. CASE IceConnects(b) \/ LinkDies(b) \/ LinkBreaks(b)
            BY <3>3 DEF IceConnects, LinkDies, LinkBreaks, Ice
        <3>4. ~WsLost(b)
            BY <1>5 DEF WsLost, rtcVars
        <3> QED
            BY <1>5, <3>1, <3>2, <3>3, <3>4 DEF Rtc, Trouble
    <2>2. app[b].room # NoRoom
        BY <2>1, AtRest
    <2>3. app'[b].room = app[b].room
          /\ \A c \in Browsers \ {b} : app'[c] = app[c] /\ pc'[c] = pc[c]
        BY <1>5 DEF Rtc, Trouble, FetchDone, SendOffer, SendAnswer, ChannelOpens, IceConnects,
                    LinkDies, LinkBreaks, Ice, WsLost, rtcVars, SessionInv, PageType, RtcType,
                    AppStates
    <2> QED
        BY <2>2, <2>3, ReleasedInRoom
<1>6. CASE UNCHANGED <<app, pc>>
    BY <1>6, ReleasedSame
<1> QED
    BY <1>1, <1>2, <1>3, <1>4, <1>5, <1>6
    DEF Next, Calm, HubLeaves, HubLeave, Browser, Enter, vars, rtcVars

\* The initial states satisfy it.
LEMMA ReleasedInit == Init => ReleasedInv
<1>1. Released1(Start, NoPC)
    BY DEF Released1, Start
<1> QED
    BY <1>1 DEF Init, ReleasedInv

\* All that holds when React is quick.
LEMMA QuickInvariant ==
    Eager => (Spec => [](SessionInv /\ CallInv /\ LeakInv /\ NetInv /\ ReleasedInv))
<1> SUFFICES ASSUME Eager PROVE Spec => [](SessionInv /\ CallInv /\ LeakInv /\ NetInv /\ ReleasedInv)
    OBVIOUS
<1>1. Init => NetInv /\ ReleasedInv
    BY NetInit, ReleasedInit
<1>2. SessionInv /\ CallInv /\ LeakInv /\ NetInv /\ ReleasedInv /\ [Next]_vars
        => NetInv' /\ ReleasedInv'
    BY NetStep, ReleasedStep
<1> QED
    BY <1>1, <1>2, SessionInvariant, PTL DEF Spec

\* Without a room, and after a rendering, a browser has no socket, no peer
\* connection, no configuration under way, and the state it started with:
\* disconnect, the watchdog and the grace timer leave nothing of a session
\* behind (AppPage.jsx), if React renders before the next event.
THEOREM NothingIsLeft == Eager => (Spec => []Released)
<1> SUFFICES ASSUME Eager PROVE Spec => []Released
    OBVIOUS
<1>1. ASSUME SessionInv, LeakInv, NetInv, ReleasedInv PROVE Released
    <2> SUFFICES ASSUME NEW b \in Browsers, app[b].room = NoRoom, Rendered(b)
                 PROVE  /\ ws[b] = "none" /\ fetching[b] = {} /\ pc[b] = NoPC
                        /\ app[b] = [Start EXCEPT !.joins = app[b].joins, !.pending = app[b].pending]
                        /\ app[b].joins = <<>> => app[b].pending = {}
        BY DEF Released
    <2>1. ws[b] = "none" /\ fetching[b] = {} /\ pc[b] = NoPC
        BY <1>1, AtRest DEF MayHandle
    <2>2. app[b] \in AppStates /\ Released1(app[b], pc[b])
        BY <1>1 DEF SessionInv, PageType, ReleasedInv
    <2>3. app[b] = [Start EXCEPT !.joins = app[b].joins, !.pending = app[b].pending]
        <3> PICK a \in AppStates : a = app[b]
            BY <2>2
        <3>1. a.room = NoRoom /\ Released1(a, pc[b])
            BY <2>2
        <3>2. a.wasActive = FALSE /\ a.watchdog = FALSE
            BY <3>1 DEF Released1, AppStates
        <3> PICK x : x = Start
            OBVIOUS
        <3>3. /\ x \in AppStates /\ x.room = NoRoom /\ x.role = "none" /\ x.status = "waiting"
              /\ x.chan = 0 /\ x.pos = 0 /\ x.ice = "new" /\ x.wasActive = FALSE
              /\ x.watchdog = FALSE
            BY DEF Start, AppStates, Roles, IceStates
        <3> DEFINE y == [x EXCEPT !.joins = a.joins, !.pending = a.pending]
        <3>4. /\ y \in AppStates /\ y.room = a.room /\ y.role = a.role /\ y.status = a.status
              /\ y.chan = a.chan /\ y.pos = a.pos /\ y.ice = a.ice
              /\ y.wasActive = a.wasActive /\ y.watchdog = a.watchdog
              /\ y.joins = a.joins /\ y.pending = a.pending
            BY <3>1, <3>2, <3>3 DEF Released1, AppStates
        <3> HIDE DEF y
        <3>5. y = a
            BY <3>4 DEF AppStates
        <3> QED
            BY <3>5 DEF y
    <2> QED
        BY <2>1, <2>2, <2>3 DEF Released1
<1> QED
    BY <1>1, QuickInvariant, PTL DEF Spec

-----------------------------------------------------------------------------
(***************************************************************************)
(* What a page will make of the messages on their way to it.  The phases   *)
(* below relate the state a of a page and the messages d that it has not   *)
(* taken to the place of its socket in the line: who waits in the queue,   *)
(* who is alone, and who is one of a pair, that is told or will be.        *)
(***************************************************************************)
Up(m) == m.type \in {"peer-joined", "room-ready", "queue-promoted"}
Left(m) == m.type = "peer-left"
Numbered(m) == m.type \in {"queued", "queue-position"}
Moves(m) == Up(m) \/ Left(m)
Signals(m) == m.type \in {"offer", "answer"}

\* The last place that a page is told, or was told if none is on its way.
Ends(a, d, p) ==
    \/ a.pos = p /\ \A j \in DOMAIN d : ~Up(d[j]) /\ ~Numbered(d[j])
    \/ \E j \in DOMAIN d :
        /\ (Up(d[j]) /\ p = 0) \/ (Numbered(d[j]) /\ d[j].position = p)
        /\ \A i \in DOMAIN d : i > j => ~Up(d[i]) /\ ~Numbered(d[i])

\* Between two messages that a peer is there comes one that he has left.
Alternates(a, d) ==
    /\ \A i, j \in DOMAIN d : i < j /\ Up(d[i]) /\ Up(d[j]) =>
            \E k \in DOMAIN d : i < k /\ k < j /\ Left(d[k])
    /\ \A j \in DOMAIN d : Up(d[j]) =>
            a.status = "waiting" \/ \E k \in DOMAIN d : k < j /\ Left(d[k])
    /\ \A j \in DOMAIN d : d[j].type = "queued" =>
            a.status = "waiting" /\ \A k \in DOMAIN d : k < j => ~Moves(d[k])

\* In the queue; alone; one of a pair.
Waits(a, d) == a.status = "waiting" /\ \A j \in DOMAIN d : ~Moves(d[j])
Lone(a, d) ==
    /\ Alternates(a, d)
    /\ \A j \in DOMAIN d : Up(d[j]) => \E k \in DOMAIN d : k > j /\ Left(d[k])
    /\ a.status = "waiting" \/ \E k \in DOMAIN d : Left(d[k])
Joined(a, d) ==
    /\ Alternates(a, d)
    /\ \/ a.status = "joined" /\ \A j \in DOMAIN d : ~Moves(d[j])
       \/ \E j \in DOMAIN d : Up(d[j]) /\ \A k \in DOMAIN d : k > j => ~Moves(d[k])

\* e is d with m at its end; d is m and then e.
Grown(d, e, m) ==
    \E n \in Nat : /\ DOMAIN d = 1 .. n /\ DOMAIN e = 1 .. (n + 1)
                   /\ e[n + 1] = m /\ \A i \in 1 .. n : e[i] = d[i]
Shrunk(d, e, m) ==
    \E n \in Nat : /\ DOMAIN d = 1 .. (n + 1) /\ DOMAIN e = 1 .. n
                   /\ d[1] = m /\ \A i \in 1 .. n : e[i] = d[i + 1]

LEMMA GrownBy ==
    ASSUME NEW d \in Seq(Messages), NEW m \in Messages
    PROVE  Grown(d, Append(d, m), m) /\ Append(d, m) \in Seq(Messages)
<1>1. /\ Append(d, m) \in Seq(Messages) /\ Len(Append(d, m)) = Len(d) + 1 /\ Len(d) \in Nat
      /\ \A i \in 1 .. Len(d) : Append(d, m)[i] = d[i]
      /\ Append(d, m)[Len(d) + 1] = m
    BY AppendProperties, LenProperties
<1>2. DOMAIN d = 1 .. Len(d) /\ DOMAIN Append(d, m) = 1 .. (Len(d) + 1)
    BY <1>1, LenProperties
<1> QED
    BY <1>1, <1>2 DEF Grown

LEMMA ShrunkBy ==
    ASSUME NEW d \in Seq(Messages), d # <<>>
    PROVE  Shrunk(d, Tail(d), Head(d)) /\ Head(d) \in Messages /\ Tail(d) \in Seq(Messages)
<1>1. /\ Tail(d) \in Seq(Messages) /\ Len(Tail(d)) = Len(d) - 1 /\ Len(d) \in Nat \ {0}
      /\ \A i \in 1 .. Len(Tail(d)) : Tail(d)[i] = d[i + 1]
      /\ Head(d) = d[1] /\ Head(d) \in Messages
    BY HeadTailProperties, EmptySeq, LenProperties
<1>2. DOMAIN d = 1 .. Len(d) /\ DOMAIN Tail(d) = 1 .. (Len(d) - 1)
    BY <1>1, LenProperties
<1> DEFINE n == Len(d) - 1
<1>3. n \in Nat /\ Len(d) = n + 1
    BY <1>1
<1> QED
    BY <1>1, <1>2, <1>3 DEF Shrunk

\* What a message makes of the parts of a page that the phases read.
LEMMA NoticeEffect ==
    ASSUME NEW a \in AppStates, NEW m
    PROVE  /\ Up(m) => OnNotice(a, m).status = "joined" /\ OnNotice(a, m).pos = 0
           /\ Left(m) => /\ OnNotice(a, m).status = "waiting" /\ OnNotice(a, m).wasActive
                         /\ OnNotice(a, m).pos = a.pos /\ OnNotice(a, m).role = a.role
                         /\ OnNotice(a, m).chan = 0
           /\ ~Left(m) => OnNotice(a, m).chan = a.chan
           /\ Numbered(m) => /\ OnNotice(a, m).pos = m.position
                             /\ OnNotice(a, m).wasActive = a.wasActive
                             /\ OnNotice(a, m).role = a.role
           /\ m.type = "queued" => OnNotice(a, m).status = "waiting"
           /\ m.type = "queue-position" => OnNotice(a, m).status = a.status
           /\ ~Moves(m) /\ ~Numbered(m) => OnNotice(a, m) = a
           /\ m.type = "peer-joined" =>
                OnNotice(a, m).role = IF a.wasActive THEN "offerer" ELSE a.role
           /\ m.type = "room-ready" => OnNotice(a, m).role = a.role
           /\ m.type = "queue-promoted" => OnNotice(a, m).role = "answerer"
<1>1. CASE m.type = "peer-joined"
    BY <1>1 DEF OnNotice, PeerJoined, AppStates, Up, Left, Numbered, Moves
<1>2. CASE m.type = "room-ready"
    BY <1>2 DEF OnNotice, RoomReady, AppStates, Up, Left, Numbered, Moves
<1>3. CASE m.type = "queued"
    BY <1>3 DEF OnNotice, Queued, AppStates, Up, Left, Numbered, Moves
<1>4. CASE m.type = "queue-position"
    BY <1>4 DEF OnNotice, QueuePosition, AppStates, Up, Left, Numbered, Moves
<1>5. CASE m.type = "queue-promoted"
    BY <1>5 DEF OnNotice, QueuePromoted, AppStates, Up, Left, Numbered, Moves
<1>6. CASE m.type = "peer-left"
    BY <1>6 DEF OnNotice, PeerLeft, AppStates, Up, Left, Numbered, Moves
<1>7. CASE m.type \notin {"peer-joined", "room-ready", "queued", "queue-position",
                          "queue-promoted", "peer-left"}
    BY <1>7 DEF OnNotice, Up, Left, Numbered, Moves
<1> QED
    BY <1>1, <1>2, <1>3, <1>4, <1>5, <1>6, <1>7

\* The last place: what is said last counts, and taking a message keeps it.
LEMMA EndsGrow ==
    ASSUME NEW a, NEW d, NEW e, NEW m, Grown(d, e, m)
    PROVE  /\ \A p : Ends(a, d, p) /\ ~Up(m) /\ ~Numbered(m) => Ends(a, e, p)
           /\ Up(m) => Ends(a, e, 0)
           /\ Numbered(m) => Ends(a, e, m.position)
<1> PICK n \in Nat : /\ DOMAIN d = 1 .. n /\ DOMAIN e = 1 .. (n + 1)
                     /\ e[n + 1] = m /\ \A i \in 1 .. n : e[i] = d[i]
    BY DEF Grown
<1>1. ASSUME NEW p, Ends(a, d, p), ~Up(m), ~Numbered(m) PROVE Ends(a, e, p)
    BY <1>1 DEF Ends
<1>2. ASSUME Up(m) PROVE Ends(a, e, 0)
    BY <1>2 DEF Ends
<1>3. ASSUME Numbered(m) PROVE Ends(a, e, m.position)
    BY <1>3 DEF Ends
<1> QED
    BY <1>1, <1>2, <1>3

LEMMA EndsTake ==
    ASSUME NEW a \in AppStates, NEW d, NEW e, NEW m, Shrunk(d, e, m), NEW p, Ends(a, d, p)
    PROVE  Ends(OnNotice(a, m), e, p)
<1> PICK n \in Nat : /\ DOMAIN d = 1 .. (n + 1) /\ DOMAIN e = 1 .. n
                     /\ d[1] = m /\ \A i \in 1 .. n : e[i] = d[i + 1]
    BY DEF Shrunk
<1> PICK o : o = OnNotice(a, m)
    OBVIOUS
<1>1. /\ Up(m) => o.pos = 0
      /\ Numbered(m) => o.pos = m.position
      /\ ~Up(m) /\ ~Numbered(m) => o.pos = a.pos
    BY NoticeEffect DEF Moves
<1>2. CASE a.pos = p /\ \A j \in DOMAIN d : ~Up(d[j]) /\ ~Numbered(d[j])
    BY <1>1, <1>2 DEF Ends
<1>3. ASSUME NEW j \in DOMAIN d,
             (Up(d[j]) /\ p = 0) \/ (Numbered(d[j]) /\ d[j].position = p),
             \A i \in DOMAIN d : i > j => ~Up(d[i]) /\ ~Numbered(d[i])
      PROVE  Ends(o, e, p)
    <2>1. CASE j = 1
        BY <1>1, <1>3, <2>1, SMTT(30) DEF Ends
    <2>2. CASE j > 1
        <3> DEFINE i == j - 1
        <3>1. i \in 1 .. n /\ e[i] = d[j]
            BY <2>2
        <3>2. \A x \in 1 .. n : x > i => ~Up(e[x]) /\ ~Numbered(e[x])
            BY <1>3, <2>2, SMTT(30)
        <3> QED
            BY <1>3, <3>1, <3>2 DEF Ends
    <2> QED
        BY <2>1, <2>2
<1> QED
    BY <1>2, <1>3 DEF Ends

\* What is said to one of a phase.
LEMMA AlternatesGrow ==
    ASSUME NEW a, NEW d, NEW e, NEW m, Grown(d, e, m), Alternates(a, d), m.type # "queued",
           Up(m) => /\ \A j \in DOMAIN d : Up(d[j]) => \E k \in DOMAIN d : k > j /\ Left(d[k])
                    /\ a.status = "waiting" \/ \E k \in DOMAIN d : Left(d[k])
    PROVE  Alternates(a, e)
<1> PICK n \in Nat : /\ DOMAIN d = 1 .. n /\ DOMAIN e = 1 .. (n + 1)
                     /\ e[n + 1] = m /\ \A i \in 1 .. n : e[i] = d[i]
    BY DEF Grown
<1>1. ASSUME NEW i \in DOMAIN e, NEW j \in DOMAIN e, i < j, Up(e[i]), Up(e[j])
      PROVE  \E k \in DOMAIN e : i < k /\ k < j /\ Left(e[k])
    <2>1. CASE j \in 1 .. n
        <3>1. PICK k \in DOMAIN d : i < k /\ k < j /\ Left(d[k])
            BY <1>1, <2>1 DEF Alternates
        <3> QED
            BY <3>1
    <2>2. CASE j = n + 1
        <3>1. i \in DOMAIN d /\ Up(d[i]) /\ Up(m)
            BY <1>1, <2>2
        <3>2. PICK k \in DOMAIN d : k > i /\ Left(d[k])
            BY <3>1
        <3> QED
            BY <2>2, <3>2
    <2> QED
        BY <2>1, <2>2
<1>2. ASSUME NEW j \in DOMAIN e, Up(e[j]), a.status # "waiting"
      PROVE  \E k \in DOMAIN e : k < j /\ Left(e[k])
    <2>1. CASE j \in 1 .. n
        <3>1. PICK k \in DOMAIN d : k < j /\ Left(d[k])
            BY <1>2, <2>1 DEF Alternates
        <3> QED
            BY <3>1
    <2>2. CASE j = n + 1
        <3>1. PICK k \in DOMAIN d : Left(d[k])
            BY <1>2, <2>2
        <3> QED
            BY <2>2, <3>1
    <2> QED
        BY <2>1, <2>2
<1>3. ASSUME NEW j \in DOMAIN e, e[j].type = "queued"
      PROVE  a.status = "waiting" /\ \A k \in DOMAIN e : k < j => ~Moves(e[k])
    <2>1. j \in 1 .. n /\ d[j].type = "queued"
        BY <1>3
    <2>2. a.status = "waiting" /\ \A k \in DOMAIN d : k < j => ~Moves(d[k])
        BY <2>1 DEF Alternates
    <2> QED
        BY <2>1, <2>2
<1> QED
    BY <1>1, <1>2, <1>3 DEF Alternates

LEMMA WaitsAreLone ==
    ASSUME NEW a, NEW d, Waits(a, d)
    PROVE  Lone(a, d)
BY DEF Waits, Lone, Alternates, Moves

LEMMA PhaseGrow ==
    ASSUME NEW a, NEW d, NEW e, NEW m, Grown(d, e, m)
    PROVE  /\ ~Moves(m) /\ Waits(a, d) => Waits(a, e)
           /\ ~Moves(m) /\ m.type # "queued" /\ Lone(a, d) => Lone(a, e)
           /\ ~Moves(m) /\ m.type # "queued" /\ Joined(a, d) => Joined(a, e)
           /\ Up(m) /\ Lone(a, d) => Joined(a, e)
           /\ Left(m) /\ Joined(a, d) => Lone(a, e)
<1> PICK n \in Nat : /\ DOMAIN d = 1 .. n /\ DOMAIN e = 1 .. (n + 1)
                     /\ e[n + 1] = m /\ \A i \in 1 .. n : e[i] = d[i]
    BY DEF Grown
<1>1. ASSUME ~Moves(m), Waits(a, d) PROVE Waits(a, e)
    BY <1>1 DEF Waits
<1>2. ASSUME ~Moves(m), m.type # "queued", Lone(a, d) PROVE Lone(a, e)
    <2>1. Alternates(a, e)
        BY <1>2, AlternatesGrow DEF Lone, Moves
    <2>2. ASSUME NEW j \in DOMAIN e, Up(e[j]) PROVE \E k \in DOMAIN e : k > j /\ Left(e[k])
        <3>1. j \in DOMAIN d /\ Up(d[j])
            BY <1>2, <2>2 DEF Moves
        <3>2. PICK k \in DOMAIN d : k > j /\ Left(d[k])
            BY <1>2, <3>1 DEF Lone
        <3> QED
            BY <3>2
    <2>3. a.status = "waiting" \/ \E k \in DOMAIN e : Left(e[k])
        BY <1>2 DEF Lone
    <2> QED
        BY <2>1, <2>2, <2>3 DEF Lone
<1>3. ASSUME ~Moves(m), m.type # "queued", Joined(a, d) PROVE Joined(a, e)
    <2>1. Alternates(a, e)
        BY <1>3, AlternatesGrow DEF Joined, Moves
    <2>2. CASE a.status = "joined" /\ \A j \in DOMAIN d : ~Moves(d[j])
        BY <1>3, <2>1, <2>2 DEF Joined
    <2>3. ASSUME NEW j \in DOMAIN d, Up(d[j]), \A k \in DOMAIN d : k > j => ~Moves(d[k])
          PROVE  Joined(a, e)
        <3>1. j \in DOMAIN e /\ Up(e[j]) /\ \A k \in DOMAIN e : k > j => ~Moves(e[k])
            BY <1>3, <2>3
        <3> QED
            BY <2>1, <3>1 DEF Joined
    <2> QED
        BY <1>3, <2>2, <2>3 DEF Joined
<1>4. ASSUME Up(m), Lone(a, d) PROVE Joined(a, e)
    <2>1. Alternates(a, e)
        BY <1>4, AlternatesGrow DEF Lone, Up
    <2>2. n + 1 \in DOMAIN e /\ Up(e[n + 1]) /\ \A k \in DOMAIN e : k > n + 1 => ~Moves(e[k])
        BY <1>4
    <2> QED
        BY <2>1, <2>2 DEF Joined
<1>5. ASSUME Left(m), Joined(a, d) PROVE Lone(a, e)
    <2>1. Alternates(a, e)
        BY <1>5, AlternatesGrow DEF Joined, Up, Left
    <2>2. n + 1 \in DOMAIN e /\ Left(e[n + 1])
        BY <1>5
    <2>3. ASSUME NEW j \in DOMAIN e, Up(e[j]) PROVE \E k \in DOMAIN e : k > j /\ Left(e[k])
        <3>1. j # n + 1
            BY <1>5, <2>3 DEF Up, Left
        <3> QED
            BY <2>2, <3>1
    <2> QED
        BY <2>1, <2>2, <2>3 DEF Lone
<1> QED
    BY <1>1, <1>2, <1>3, <1>4, <1>5

\* Taking a message keeps the phase.
LEMMA AlternatesTake ==
    ASSUME NEW a \in AppStates, NEW d, NEW e, NEW m, Shrunk(d, e, m), Alternates(a, d)
    PROVE  Alternates(OnNotice(a, m), e)
<1> PICK n \in Nat : /\ DOMAIN d = 1 .. (n + 1) /\ DOMAIN e = 1 .. n
                     /\ d[1] = m /\ \A i \in 1 .. n : e[i] = d[i + 1]
    BY DEF Shrunk
<1> PICK o : o = OnNotice(a, m)
    OBVIOUS
<1>1. /\ Left(m) => o.status = "waiting"
      /\ m.type = "queued" => o.status = "waiting"
      /\ ~Moves(m) /\ m.type # "queued" => o.status = a.status
    BY NoticeEffect DEF Moves, Numbered
<1>2. ASSUME NEW i \in DOMAIN e, NEW j \in DOMAIN e, i < j, Up(e[i]), Up(e[j])
      PROVE  \E k \in DOMAIN e : i < k /\ k < j /\ Left(e[k])
    <2>0. /\ i + 1 \in DOMAIN d /\ j + 1 \in DOMAIN d /\ i + 1 < j + 1
          /\ Up(d[i + 1]) /\ Up(d[j + 1])
        BY <1>2
    <2>1. PICK k \in DOMAIN d : i + 1 < k /\ k < j + 1 /\ Left(d[k])
        BY <2>0 DEF Alternates
    <2>2. k - 1 \in 1 .. n /\ e[k - 1] = d[k] /\ i < k - 1 /\ k - 1 < j
        BY <2>1
    <2> QED
        BY <2>1, <2>2
<1>3. ASSUME NEW j \in DOMAIN e, Up(e[j]), o.status # "waiting"
      PROVE  \E k \in DOMAIN e : k < j /\ Left(e[k])
    <2>0. j + 1 \in DOMAIN d /\ Up(d[j + 1]) /\ ~Left(m)
        BY <1>1, <1>3
    <2>1. PICK k \in DOMAIN d : k < j + 1 /\ Left(d[k])
        <3>1. CASE Up(m)
            <4>1. 1 \in DOMAIN d /\ 1 < j + 1
                OBVIOUS
            <4> QED
                BY <2>0, <3>1, <4>1 DEF Alternates
        <3>2. CASE ~Up(m)
            BY <1>1, <1>3, <2>0, <3>2 DEF Alternates, Moves
        <3> QED
            BY <3>1, <3>2
    <2>2. k - 1 \in 1 .. n /\ e[k - 1] = d[k] /\ k - 1 < j
        BY <2>0, <2>1
    <2> QED
        BY <2>1, <2>2
<1>4. ASSUME NEW j \in DOMAIN e, e[j].type = "queued"
      PROVE  o.status = "waiting" /\ \A k \in DOMAIN e : k < j => ~Moves(e[k])
    <2>1. a.status = "waiting" /\ \A k \in DOMAIN d : k < j + 1 => ~Moves(d[k])
        BY <1>4 DEF Alternates
    <2>2. ~Moves(m)
        BY <2>1
    <2>3. o.status = "waiting"
        BY <1>1, <2>1, <2>2
    <2>4. ASSUME NEW k \in DOMAIN e, k < j PROVE ~Moves(e[k])
        <3>1. k + 1 \in DOMAIN d /\ k + 1 < j + 1 /\ e[k] = d[k + 1]
            BY <2>4
        <3> QED
            BY <2>1, <3>1
    <2> QED
        BY <2>3, <2>4
<1> QED
    BY <1>2, <1>3, <1>4 DEF Alternates

LEMMA PhaseTake ==
    ASSUME NEW a \in AppStates, NEW d, NEW e, NEW m, Shrunk(d, e, m)
    PROVE  /\ Waits(a, d) => Waits(OnNotice(a, m), e)
           /\ Lone(a, d) => Lone(OnNotice(a, m), e)
           /\ Joined(a, d) => Joined(OnNotice(a, m), e)
<1> PICK n \in Nat : /\ DOMAIN d = 1 .. (n + 1) /\ DOMAIN e = 1 .. n
                     /\ d[1] = m /\ \A i \in 1 .. n : e[i] = d[i + 1]
    BY DEF Shrunk
<1>0. Alternates(a, d) => Alternates(OnNotice(a, m), e)
    BY AlternatesTake
<1> PICK o : o = OnNotice(a, m)
    OBVIOUS
<1>1. /\ Up(m) => o.status = "joined"
      /\ Left(m) => o.status = "waiting"
      /\ m.type = "queued" => o.status = "waiting"
      /\ ~Moves(m) /\ m.type # "queued" => o.status = a.status
    BY NoticeEffect DEF Moves, Numbered
<1>2. ASSUME Waits(a, d) PROVE Waits(o, e)
    BY <1>1, <1>2 DEF Waits
<1>3. ASSUME Lone(a, d) PROVE Lone(o, e)
    <2>1. ASSUME NEW j \in DOMAIN e, Up(e[j]) PROVE \E k \in DOMAIN e : k > j /\ Left(e[k])
        <3>1. PICK k \in DOMAIN d : k > j + 1 /\ Left(d[k])
            BY <1>3, <2>1 DEF Lone
        <3>2. k - 1 \in 1 .. n /\ e[k - 1] = d[k] /\ k - 1 > j
            BY <3>1
        <3> QED
            BY <3>1, <3>2
    <2>2. o.status = "waiting" \/ \E k \in DOMAIN e : Left(e[k])
        <3>1. CASE Up(m)
            <4>1. PICK k \in DOMAIN d : k > 1 /\ Left(d[k])
                BY <1>3, <3>1 DEF Lone
            <4>2. k - 1 \in 1 .. n /\ e[k - 1] = d[k]
                BY <4>1
            <4> QED
                BY <4>1, <4>2
        <3>2. CASE Left(m) \/ m.type = "queued"
            BY <1>1, <3>2
        <3>3. CASE ~Moves(m) /\ m.type # "queued" /\ a.status # "waiting"
            <4>1. PICK k \in DOMAIN d : Left(d[k])
                BY <1>3, <3>3 DEF Lone
            <4>2. k - 1 \in 1 .. n /\ e[k - 1] = d[k]
                BY <3>3, <4>1 DEF Moves
            <4> QED
                BY <4>1, <4>2
        <3> QED
            BY <1>1, <3>1, <3>2, <3>3 DEF Moves
    <2> QED
        BY <1>0, <1>3, <2>1, <2>2 DEF Lone
<1>4. ASSUME Joined(a, d) PROVE Joined(o, e)
    <2>0. Alternates(a, d) /\ Alternates(o, e)
        BY <1>0, <1>4 DEF Joined
    <2>1. CASE a.status = "joined" /\ \A j \in DOMAIN d : ~Moves(d[j])
        <3>1. ~Moves(m) /\ m.type # "queued" /\ \A j \in DOMAIN e : ~Moves(e[j])
            BY <2>0, <2>1, SMTT(30) DEF Alternates
        <3> QED
            BY <1>1, <2>0, <2>1, <3>1 DEF Joined
    <2>2. ASSUME NEW j \in DOMAIN d, Up(d[j]), \A k \in DOMAIN d : k > j => ~Moves(d[k])
          PROVE  Joined(o, e)
        <3>1. CASE j = 1
            <4>1. o.status = "joined" /\ \A k \in DOMAIN e : ~Moves(e[k])
                BY <1>1, <2>2, <3>1
            <4> QED
                BY <2>0, <4>1 DEF Joined
        <3>2. CASE j > 1
            <4>1. j - 1 \in DOMAIN e /\ Up(e[j - 1])
                BY <2>2, <3>2
            <4>2. ASSUME NEW k \in DOMAIN e, k > j - 1 PROVE ~Moves(e[k])
                <5>1. k + 1 \in DOMAIN d /\ k + 1 > j /\ e[k] = d[k + 1]
                    BY <4>2
                <5> QED
                    BY <2>2, <5>1
            <4> QED
                BY <2>0, <4>1, <4>2 DEF Joined
        <3> QED
            BY <3>1, <3>2
    <2> QED
        BY <1>4, <2>1, <2>2 DEF Joined
<1> QED
    BY <1>2, <1>3, <1>4

-----------------------------------------------------------------------------
(***************************************************************************)
(* Roles, in a room that its maker was the first in.                       *)
(***************************************************************************)

\* The one who is told that a peer has come offers, because he did before or
\* because his partner left; the one who is told that the room is ready answers.
RolesCome(a, d) ==
    \A j \in DOMAIN d :
        /\ d[j].type = "peer-joined" /\ (\A k \in DOMAIN d : k < j => ~Left(d[k])) =>
            a.wasActive \/ a.role = "offerer"
        /\ d[j].type = "room-ready" =>
            a.role = "answerer" /\ \A k \in DOMAIN d : k < j => ~Moves(d[k])

\* Who is alone will offer to the next; of a pair the first offers and the
\* second answers.
RoleLone(a, d) == a.wasActive \/ a.role = "offerer" \/ \E k \in DOMAIN d : Left(d[k])
RoleJoined(a, d, k) ==
    \/ /\ \A j \in DOMAIN d : ~Moves(d[j])
       /\ a.role = IF k = 1 THEN "offerer" ELSE "answerer"
    \/ \E j \in DOMAIN d :
        /\ d[j].type \in IF k = 1 THEN {"peer-joined"} ELSE {"room-ready", "queue-promoted"}
        /\ \A i \in DOMAIN d : i > j => ~Moves(d[i])

LEMMA RoleGrow ==
    ASSUME NEW a, NEW d, NEW e, NEW m, Grown(d, e, m)
    PROVE  /\ ~Moves(m) /\ RolesCome(a, d) => RolesCome(a, e)
           /\ ~Moves(m) /\ RoleLone(a, d) => RoleLone(a, e)
           /\ \A k : ~Moves(m) /\ RoleJoined(a, d, k) => RoleJoined(a, e, k)
           /\ m.type = "peer-joined" /\ RolesCome(a, d) /\ RoleLone(a, d) =>
                RolesCome(a, e) /\ RoleJoined(a, e, 1)
           /\ m.type = "queue-promoted" /\ Waits(a, d) => RolesCome(a, e) /\ RoleJoined(a, e, 2)
           /\ m.type = "room-ready" /\ Waits(a, d) /\ a.role = "answerer" =>
                RolesCome(a, e) /\ RoleJoined(a, e, 2)
           /\ Left(m) /\ RolesCome(a, d) => RolesCome(a, e) /\ RoleLone(a, e)
<1> PICK n \in Nat : /\ DOMAIN d = 1 .. n /\ DOMAIN e = 1 .. (n + 1)
                     /\ e[n + 1] = m /\ \A i \in 1 .. n : e[i] = d[i]
    BY DEF Grown
<1>1. ASSUME RolesCome(a, d),
             m.type = "peer-joined" => RoleLone(a, d), m.type # "room-ready"
      PROVE  RolesCome(a, e)
    <2>1. ASSUME NEW j \in DOMAIN e, e[j].type = "peer-joined",
                 \A k \in DOMAIN e : k < j => ~Left(e[k])
          PROVE  a.wasActive \/ a.role = "offerer"
        <3>1. CASE j \in 1 .. n
            BY <1>1, <2>1, <3>1 DEF RolesCome
        <3>2. CASE j = n + 1
            BY <1>1, <2>1, <3>2 DEF RoleLone
        <3> QED
            BY <3>1, <3>2
    <2>2. ASSUME NEW j \in DOMAIN e, e[j].type = "room-ready"
          PROVE  a.role = "answerer" /\ \A k \in DOMAIN e : k < j => ~Moves(e[k])
        <3>1. j \in 1 .. n /\ d[j].type = "room-ready"
            BY <1>1, <2>2
        <3> QED
            BY <1>1, <3>1 DEF RolesCome
    <2> QED
        BY <2>1, <2>2 DEF RolesCome
<1>2. ASSUME ~Moves(m), RoleLone(a, d) PROVE RoleLone(a, e)
    BY <1>2 DEF RoleLone
<1>3. ASSUME NEW k, ~Moves(m), RoleJoined(a, d, k) PROVE RoleJoined(a, e, k)
    BY <1>3 DEF RoleJoined
<1>4. \A k : m.type \in (IF k = 1 THEN {"peer-joined"} ELSE {"room-ready", "queue-promoted"})
            => RoleJoined(a, e, k)
    BY DEF RoleJoined
<1>5. Left(m) => RoleLone(a, e)
    BY DEF RoleLone
<1>6. ASSUME Waits(a, d), m.type = "queue-promoted" \/ (m.type = "room-ready" /\ a.role = "answerer")
      PROVE  RolesCome(a, e)
    BY <1>6 DEF Waits, RolesCome, Moves, Up
<1> QED
    BY <1>1, <1>2, <1>3, <1>4, <1>5, <1>6 DEF Moves, Up, Left

LEMMA RoleTake ==
    ASSUME NEW a \in AppStates, NEW d, NEW e, NEW m, Shrunk(d, e, m), Alternates(a, d),
           RolesCome(a, d)
    PROVE  /\ RolesCome(OnNotice(a, m), e)
           /\ Lone(a, d) /\ RoleLone(a, d) => RoleLone(OnNotice(a, m), e)
           /\ \A k : RoleJoined(a, d, k) => RoleJoined(OnNotice(a, m), e, k)
<1> PICK n \in Nat : /\ DOMAIN d = 1 .. (n + 1) /\ DOMAIN e = 1 .. n
                     /\ d[1] = m /\ \A i \in 1 .. n : e[i] = d[i + 1]
    BY DEF Shrunk
<1> PICK o : o = OnNotice(a, m)
    OBVIOUS
<1>1. /\ Left(m) => o.wasActive /\ o.role = a.role
      /\ ~Moves(m) => o.wasActive = a.wasActive /\ o.role = a.role
      /\ m.type = "peer-joined" => o.role = IF a.wasActive THEN "offerer" ELSE a.role
      /\ m.type = "room-ready" => o.role = a.role
      /\ m.type = "queue-promoted" => o.role = "answerer"
    BY NoticeEffect DEF Moves
<1>2. ASSUME NEW j \in DOMAIN e, Up(e[j]), Up(m)
      PROVE  \E k \in DOMAIN e : k < j /\ Left(e[k])
    <2>1. 1 \in DOMAIN d /\ j + 1 \in DOMAIN d /\ 1 < j + 1 /\ Up(d[1]) /\ Up(d[j + 1])
        BY <1>2
    <2>2. PICK k \in DOMAIN d : 1 < k /\ k < j + 1 /\ Left(d[k])
        BY <2>1 DEF Alternates
    <2>3. k - 1 \in 1 .. n /\ e[k - 1] = d[k] /\ k - 1 < j
        BY <2>2
    <2> QED
        BY <2>2, <2>3
<1>3. ASSUME NEW j \in DOMAIN e, e[j].type = "peer-joined",
             \A k \in DOMAIN e : k < j => ~Left(e[k])
      PROVE  o.wasActive \/ o.role = "offerer"
    <2>1. CASE Up(m)
        BY <1>2, <1>3, <2>1 DEF Up
    <2>2. CASE Left(m)
        BY <1>1, <2>2
    <2>3. CASE ~Moves(m)
        <3>1. j + 1 \in DOMAIN d /\ d[j + 1].type = "peer-joined"
            BY <1>3
        <3>2. ASSUME NEW k \in DOMAIN d, k < j + 1 PROVE ~Left(d[k])
            <4>1. CASE k = 1
                BY <2>3, <4>1 DEF Moves
            <4>2. CASE k # 1
                <5>1. k - 1 \in DOMAIN e /\ k - 1 < j /\ e[k - 1] = d[k]
                    BY <3>2, <4>2
                <5> QED
                    BY <1>3, <5>1
            <4> QED
                BY <4>1, <4>2
        <3> QED
            BY <1>1, <2>3, <3>1, <3>2 DEF RolesCome
    <2> QED
        BY <2>1, <2>2, <2>3 DEF Moves
<1>4. ASSUME NEW j \in DOMAIN e, e[j].type = "room-ready"
      PROVE  o.role = "answerer" /\ \A k \in DOMAIN e : k < j => ~Moves(e[k])
    <2>1. j + 1 \in DOMAIN d /\ d[j + 1].type = "room-ready"
        BY <1>4
    <2>2. a.role = "answerer" /\ \A k \in DOMAIN d : k < j + 1 => ~Moves(d[k])
        BY <2>1 DEF RolesCome
    <2>3. ~Moves(m)
        BY <2>2
    <2>4. ASSUME NEW k \in DOMAIN e, k < j PROVE ~Moves(e[k])
        <3>1. k + 1 \in DOMAIN d /\ k + 1 < j + 1 /\ e[k] = d[k + 1]
            BY <2>4
        <3> QED
            BY <2>2, <3>1
    <2> QED
        BY <1>1, <2>2, <2>3, <2>4
<1>5. RolesCome(o, e)
    BY <1>3, <1>4 DEF RolesCome
<1>6. ASSUME Lone(a, d), RoleLone(a, d) PROVE RoleLone(o, e)
    <2>1. CASE Up(m)
        <3>1. PICK k \in DOMAIN d : k > 1 /\ Left(d[k])
            BY <1>6, <2>1 DEF Lone
        <3>2. k - 1 \in 1 .. n /\ e[k - 1] = d[k]
            BY <3>1
        <3> QED
            BY <3>1, <3>2 DEF RoleLone
    <2>2. CASE Left(m)
        BY <1>1, <2>2 DEF RoleLone
    <2>3. CASE ~Moves(m)
        <3>1. CASE a.wasActive \/ a.role = "offerer"
            BY <1>1, <2>3, <3>1 DEF RoleLone
        <3>2. ASSUME NEW k \in DOMAIN d, Left(d[k]) PROVE RoleLone(o, e)
            <4>1. k # 1
                BY <2>3, <3>2 DEF Moves
            <4>2. k - 1 \in 1 .. n /\ e[k - 1] = d[k]
                BY <4>1
            <4> QED
                BY <3>2, <4>2 DEF RoleLone
        <3> QED
            BY <1>6, <3>1, <3>2 DEF RoleLone
    <2> QED
        BY <2>1, <2>2, <2>3 DEF Moves
<1>7. ASSUME NEW k, RoleJoined(a, d, k) PROVE RoleJoined(o, e, k)
    <2>1. CASE /\ \A j \in DOMAIN d : ~Moves(d[j])
               /\ a.role = IF k = 1 THEN "offerer" ELSE "answerer"
        <3>1. ~Moves(m) /\ \A j \in DOMAIN e : ~Moves(e[j])
            BY <2>1, SMTT(30)
        <3> QED
            BY <1>1, <2>1, <3>1 DEF RoleJoined
    <2>2. ASSUME NEW j \in DOMAIN d,
                 d[j].type \in IF k = 1 THEN {"peer-joined"} ELSE {"room-ready", "queue-promoted"},
                 \A i \in DOMAIN d : i > j => ~Moves(d[i])
          PROVE  RoleJoined(o, e, k)
        <3>1. CASE j = 1
            <4>1. \A i \in DOMAIN e : ~Moves(e[i])
                BY <2>2, <3>1
            <4>2. o.role = IF k = 1 THEN "offerer" ELSE "answerer"
                BY <1>1, <2>2, <3>1 DEF RolesCome
            <4> QED
                BY <4>1, <4>2 DEF RoleJoined
        <3>2. CASE j > 1
            <4>1. /\ j - 1 \in DOMAIN e
                  /\ e[j - 1].type \in IF k = 1 THEN {"peer-joined"} ELSE {"room-ready", "queue-promoted"}
                BY <2>2, <3>2
            <4>2. ASSUME NEW i \in DOMAIN e, i > j - 1 PROVE ~Moves(e[i])
                <5>1. i + 1 \in DOMAIN d /\ i + 1 > j /\ e[i] = d[i + 1]
                    BY <4>2
                <5> QED
                    BY <2>2, <5>1
            <4> QED
                BY <4>1, <4>2 DEF RoleJoined
        <3> QED
            BY <3>1, <3>2
    <2> QED
        BY <1>7, <2>1, <2>2 DEF RoleJoined
<1> QED
    BY <1>5, <1>6, <1>7

-----------------------------------------------------------------------------
(***************************************************************************)
(* What the one at place k of a line of n is told.                         *)
(***************************************************************************)
Told(a, d, k, n) ==
    IF k > 2 THEN Waits(a, d) /\ Ends(a, d, k - 2)
    ELSE Ends(a, d, 0) /\ IF n = 1 THEN Lone(a, d) ELSE Joined(a, d)
RolesTold(a, d, k, n) ==
    k <= 2 => RolesCome(a, d) /\ IF n = 1 THEN RoleLone(a, d) ELSE RoleJoined(a, d, k)

\* Saying one thing, or two.
LEMMA SayOne ==
    ASSUME NEW d \in Seq(Messages), NEW m \in Messages
    PROVE  d \o <<m>> \in Seq(Messages) /\ Grown(d, d \o <<m>>, m) /\ d \o <<>> = d
<1>1. d \o <<m>> = Append(d, m)
    BY AppendIsConcat
<1>2. d \o <<>> = d
    BY ConcatEmptySeq
<1> QED
    BY <1>1, <1>2, GrownBy

LEMMA SayTwo ==
    ASSUME NEW d \in Seq(Messages), NEW m \in Messages, NEW q \in Messages
    PROVE  d \o <<m, q>> \in Seq(Messages) /\ Grown(d \o <<m>>, d \o <<m, q>>, q)
<1>0. <<m>> \in Seq(Messages)
    OBVIOUS
<1>1. Append(<<m>>, q) = <<m, q>>
    <2>1. Append(<<m>>, q) \in Seq(Messages) /\ <<m, q>> \in Seq(Messages)
        BY <1>0
    <2>2. Len(Append(<<m>>, q)) = 2 /\ Append(<<m>>, q)[1] = m /\ Append(<<m>>, q)[2] = q
        BY <1>0, AppendProperties
    <2>3. Len(<<m, q>>) = 2 /\ <<m, q>>[1] = m /\ <<m, q>>[2] = q
        OBVIOUS
    <2> PICK s, t : s = Append(<<m>>, q) /\ t = <<m, q>>
        OBVIOUS
    <2>4. \A i \in 1 .. 2 : s[i] = t[i]
        BY <2>2, <2>3
    <2>5. Len(s) = 2 /\ Len(t) = 2 /\ s \in Seq(Messages) /\ t \in Seq(Messages)
        BY <2>1, <2>2, <2>3
    <2>6. s = t
        BY <2>4, <2>5, SeqEqual
    <2> QED
        BY <2>6
<1>2. d \o <<m, q>> = Append(d \o <<m>>, q)
    BY <1>0, <1>1, AppendRight
<1>3. d \o <<m>> \in Seq(Messages)
    BY SayOne
<1> QED
    BY <1>2, <1>3, GrownBy

\* A signal, or the place of one who waits, does not change who one is.
LEMMA ToldSignal ==
    ASSUME NEW a, NEW d \in Seq(Messages), NEW m \in Messages, Signals(m),
           NEW k \in Nat, NEW n \in Nat,
           Told(a, d, k, n)
    PROVE  /\ Told(a, d \o <<m>>, k, n)
           /\ RolesTold(a, d, k, n) => RolesTold(a, d \o <<m>>, k, n)
<1> PICK e : e = d \o <<m>>
    OBVIOUS
<1>1. Grown(d, e, m)
    BY SayOne
<1>2. ~Up(m) /\ ~Left(m) /\ ~Numbered(m) /\ ~Moves(m) /\ m.type # "queued"
    BY DEF Signals, Up, Left, Numbered, Moves
<1>3. Told(a, e, k, n)
    BY <1>1, <1>2, EndsGrow, PhaseGrow DEF Told
<1>4. RolesTold(a, d, k, n) => RolesTold(a, e, k, n)
    BY <1>1, <1>2, RoleGrow DEF RolesTold
<1> QED
    BY <1>3, <1>4

\* A message is taken.
LEMMA ToldTake ==
    ASSUME NEW a \in AppStates, NEW d \in Seq(Messages), d # <<>>, NEW k \in Nat,
           NEW n \in Nat, Told(a, d, k, n)
    PROVE  /\ Told(OnNotice(a, Head(d)), Tail(d), k, n)
           /\ RolesTold(a, d, k, n) => RolesTold(OnNotice(a, Head(d)), Tail(d), k, n)
<1> PICK m, e : m = Head(d) /\ e = Tail(d)
    OBVIOUS
<1>1. Shrunk(d, e, m)
    BY ShrunkBy
<1>2. Told(OnNotice(a, m), e, k, n)
    BY <1>1, EndsTake, PhaseTake DEF Told
<1>3. RolesTold(a, d, k, n) => RolesTold(OnNotice(a, m), e, k, n)
    <2>1. k <= 2 => Alternates(a, d)
        BY DEF Told, Lone, Joined
    <2> QED
        BY <1>1, <2>1, RoleTake DEF RolesTold, Told
<1> QED
    BY <1>2, <1>3

\* What the phases do not read may change, and wasActive may be forgotten by
\* one who has joined.
LEMMA ToldTouch ==
    ASSUME NEW a, NEW o, NEW d, NEW k \in Nat, NEW n \in Nat, Told(a, d, k, n),
           o.pos = a.pos, o.status = a.status, o.role = a.role
    PROVE  /\ Told(o, d, k, n)
           /\ RolesTold(a, d, k, n) /\ (a.status = "joined" \/ o.wasActive = a.wasActive)
                => RolesTold(o, d, k, n)
<1>1. Told(o, d, k, n)
    BY DEF Told, Ends, Waits, Lone, Joined, Alternates
<1>2. ASSUME RolesTold(a, d, k, n), a.status = "joined", k <= 2
      PROVE  RolesCome(o, d) /\ IF n = 1 THEN RoleLone(o, d) ELSE RoleJoined(o, d, k)
    <2>1. Alternates(a, d) /\ RolesCome(a, d)
        BY <1>2 DEF Told, Lone, Joined, RolesTold
    <2>2. RolesCome(o, d)
        BY <1>2, <2>1 DEF RolesCome, Alternates, Up
    <2>3. n = 1 => RoleLone(o, d)
        BY <1>2 DEF Told, Lone, RoleLone
    <2>4. n # 1 => RoleJoined(o, d, k)
        BY <1>2 DEF RolesTold, RoleJoined
    <2> QED
        BY <2>2, <2>3, <2>4
<1>3. ASSUME RolesTold(a, d, k, n), o.wasActive = a.wasActive
      PROVE  RolesTold(o, d, k, n)
    BY <1>3 DEF RolesTold, RolesCome, RoleLone, RoleJoined
<1> QED
    BY <1>1, <1>2, <1>3 DEF RolesTold

\* What the hub's notices are.
LEMMA Noticed ==
    /\ \A t \in {"peer-joined", "room-ready", "peer-left", "queue-promoted"} :
        Msg(t) \in Messages /\ Msg(t).type = t
    /\ \A t \in {"queued", "queue-position"}, p \in Nat :
        Place(t, p) \in Messages /\ Place(t, p).type = t /\ Place(t, p).position = p
BY DEF Msg, Place, Messages, Notices, Numbers

\* A line of n grows.
LEMMA ToldEnter ==
    ASSUME NEW a, NEW d \in Seq(Messages), NEW n \in Nat, NEW k \in 1 .. n, Told(a, d, k, n)
    PROVE  /\ Told(a, d \o EnterNote(k, n + 1), k, n + 1)
           /\ RolesTold(a, d, k, n) => RolesTold(a, d \o EnterNote(k, n + 1), k, n + 1)
<1>1. CASE n = 1
    <2> PICK m : m = Msg("peer-joined")
        OBVIOUS
    <2>1. m \in Messages /\ m.type = "peer-joined" /\ Up(m) /\ k = 1
        BY <1>1, Noticed DEF Up
    <2> PICK e : e = d \o <<m>>
        OBVIOUS
    <2>2. Grown(d, e, m) /\ d \o EnterNote(k, n + 1) = e
        BY <1>1, <2>1, SayOne DEF EnterNote
    <2>3. Lone(a, d)
        BY <1>1, <2>1 DEF Told
    <2>4. Told(a, e, k, n + 1)
        <3>1. Joined(a, e)
            BY <2>1, <2>2, <2>3, PhaseGrow
        <3>2. Ends(a, e, 0)
            BY <2>1, <2>2, EndsGrow
        <3> QED
            BY <1>1, <2>1, <3>1, <3>2 DEF Told
    <2>5. RolesTold(a, d, k, n) => RolesCome(a, d) /\ RoleLone(a, d)
        BY <1>1, <2>1 DEF RolesTold
    <2>6. RolesTold(a, d, k, n) => RolesTold(a, e, k, n + 1)
        BY <1>1, <2>1, <2>2, <2>5, RoleGrow DEF RolesTold
    <2> QED
        BY <2>2, <2>4, <2>6
<1>2. CASE n # 1
    <2>1. EnterNote(k, n + 1) = <<>>
        BY <1>2 DEF EnterNote
    <2>2. d \o EnterNote(k, n + 1) = d /\ n + 1 # 1
        BY <2>1, ConcatEmptySeq
    <2> QED
        BY <1>2, <2>2 DEF Told, RolesTold
<1> QED
    BY <1>1, <1>2

\* The new one at its end.
LEMMA ToldNew ==
    ASSUME NEW a, NEW d, NEW n \in Nat, d = <<>>, a.status = "waiting", a.pos = 0
    PROVE  /\ Told(a, d \o EnterNote(n + 1, n + 1), n + 1, n + 1)
           /\ (n = 0 => a.role = "offerer") /\ (n = 1 => a.role = "answerer") =>
                RolesTold(a, d \o EnterNote(n + 1, n + 1), n + 1, n + 1)
<1>1. d \in Seq(Messages) /\ DOMAIN d = {}
    OBVIOUS
<1>2. Waits(a, d) /\ Lone(a, d) /\ Ends(a, d, 0) /\ RolesCome(a, d)
    BY <1>1, WaitsAreLone DEF Waits, Ends, RolesCome
<1>3. CASE n = 0
    <2>1. d \o EnterNote(n + 1, n + 1) = d
        BY <1>1, <1>3, ConcatEmptySeq DEF EnterNote
    <2>2. a.role = "offerer" => RoleLone(a, d)
        BY DEF RoleLone
    <2> QED
        BY <1>2, <1>3, <2>1, <2>2 DEF Told, RolesTold
<1>4. CASE n = 1
    <2> PICK m : m = Msg("room-ready")
        OBVIOUS
    <2>1. m \in Messages /\ m.type = "room-ready" /\ Up(m)
        BY Noticed DEF Up
    <2> PICK e : e = d \o <<m>>
        OBVIOUS
    <2>2. Grown(d, e, m) /\ d \o EnterNote(n + 1, n + 1) = e
        <3>1. n + 1 = 2
            BY <1>4
        <3>2. EnterNote(n + 1, n + 1) = <<m>>
            BY <3>1 DEF EnterNote
        <3> QED
            BY <1>1, <2>1, <3>2, SayOne
    <2>3. Told(a, e, 2, 2)
        <3>1. Joined(a, e)
            BY <1>2, <2>1, <2>2, PhaseGrow
        <3>2. Ends(a, e, 0)
            BY <2>1, <2>2, EndsGrow
        <3> QED
            BY <3>1, <3>2 DEF Told
    <2>4. a.role = "answerer" => RolesTold(a, e, 2, 2)
        BY <1>2, <2>1, <2>2, RoleGrow DEF RolesTold
    <2> QED
        BY <1>4, <2>2, <2>3, <2>4
<1>5. CASE n > 1
    <2> PICK m : m = Place("queued", n - 1)
        OBVIOUS
    <2>1. n - 1 \in Nat
        BY <1>5
    <2>2. m \in Messages /\ m.type = "queued" /\ m.position = n - 1
        BY <2>1, Noticed
    <2> PICK e : e = d \o <<m>>
        OBVIOUS
    <2>3. (n + 1) - 2 = n - 1 /\ n + 1 # 2 /\ n + 1 > 2
        BY <1>5
    <2>4. EnterNote(n + 1, n + 1) = <<m>>
        BY <2>3 DEF EnterNote
    <2>5. Grown(d, e, m) /\ d \o EnterNote(n + 1, n + 1) = e
        BY <1>1, <2>2, <2>4, SayOne
    <2>6. Numbered(m) /\ ~Moves(m)
        BY <2>2 DEF Numbered, Moves, Up, Left
    <2>7. Waits(a, e) /\ Ends(a, e, n - 1)
        <3>1. Waits(a, e)
            BY <1>2, <2>5, <2>6, PhaseGrow
        <3>2. Ends(a, e, m.position)
            BY <2>5, <2>6, EndsGrow
        <3> QED
            BY <2>2, <3>1, <3>2
    <2>8. Told(a, e, n + 1, n + 1) /\ RolesTold(a, e, n + 1, n + 1)
        BY <2>3, <2>7 DEF Told, RolesTold
    <2> QED
        BY <1>5, <2>5, <2>8
<1> QED
    BY <1>3, <1>4, <1>5

\* The one at place i leaves a line of n.
LEMMA ToldLeave ==
    ASSUME NEW a, NEW d \in Seq(Messages), NEW n \in Nat, NEW i \in 1 .. n, NEW k \in 1 .. n,
           k # i, NEW p \in Nat, p = (IF k < i THEN k ELSE k - 1), Told(a, d, k, n)
    PROVE  /\ Told(a, d \o LeaveNote(p, i, n - 1), p, n - 1)
           /\ RolesTold(a, d, k, n) => RolesTold(a, d \o LeaveNote(p, i, n - 1), p, n - 1)
<1>0. n - 1 \in Nat /\ p \in 1 .. (n - 1)
    OBVIOUS
<1>1. CASE p > 2
    <2> PICK m : m = Place("queue-position", p - 2)
        OBVIOUS
    <2>1. p - 2 \in Nat /\ k > 2
        BY <1>1
    <2>2. m \in Messages /\ m.type = "queue-position" /\ m.position = p - 2
        BY <2>1, Noticed
    <2>3. Numbered(m) /\ ~Moves(m)
        BY <2>2 DEF Numbered, Moves, Up, Left
    <2> PICK e : e = d \o <<m>>
        OBVIOUS
    <2>4. LeaveNote(p, i, n - 1) = <<m>>
        BY <1>1 DEF LeaveNote
    <2>5. Grown(d, e, m) /\ d \o LeaveNote(p, i, n - 1) = e
        BY <2>2, <2>4, SayOne
    <2>6. Waits(a, d)
        BY <2>1 DEF Told
    <2>7. Waits(a, e)
        BY <2>3, <2>5, <2>6, PhaseGrow
    <2>8. Ends(a, e, m.position)
        BY <2>3, <2>5, EndsGrow
    <2>9. Told(a, e, p, n - 1) /\ RolesTold(a, e, p, n - 1)
        BY <1>1, <2>2, <2>7, <2>8 DEF Told, RolesTold
    <2> QED
        BY <2>5, <2>9
<1>2. CASE p <= 2 /\ i > 2
    <2>1. k = p /\ n # 1 /\ n - 1 # 1 /\ ~(p > 2)
        BY <1>2
    <2>2. LeaveNote(p, i, n - 1) = <<>>
        BY <1>2, <2>1 DEF LeaveNote
    <2>3. d \o LeaveNote(p, i, n - 1) = d
        BY <2>2, ConcatEmptySeq
    <2> QED
        BY <2>1, <2>3 DEF Told, RolesTold
<1>3. CASE p = 2 /\ i <= 2
    <2> PICK m : m = Msg("queue-promoted")
        OBVIOUS
    <2>1. m \in Messages /\ m.type = "queue-promoted" /\ Up(m)
        BY Noticed DEF Up
    <2>2. k = 3 /\ n - 1 # 1
        BY <1>3
    <2> PICK e : e = d \o <<m>>
        OBVIOUS
    <2>3. ~(i > 2) /\ ~(p > 2)
        BY <1>3
    <2>4. LeaveNote(p, i, n - 1) = <<m>>
        BY <1>3, <2>3 DEF LeaveNote
    <2>5. Grown(d, e, m) /\ d \o LeaveNote(p, i, n - 1) = e
        BY <2>1, <2>4, SayOne
    <2>6. Waits(a, d)
        BY <2>2 DEF Told
    <2>7. Joined(a, e)
        BY <2>1, <2>5, <2>6, WaitsAreLone, PhaseGrow
    <2>8. Ends(a, e, 0)
        BY <2>1, <2>5, EndsGrow
    <2>9. RolesCome(a, e) /\ RoleJoined(a, e, 2)
        BY <2>1, <2>5, <2>6, RoleGrow
    <2>10. Told(a, e, p, n - 1) /\ RolesTold(a, e, p, n - 1)
        BY <1>3, <2>2, <2>7, <2>8, <2>9 DEF Told, RolesTold
    <2> QED
        BY <2>5, <2>10
<1>4. CASE p = 1 /\ i <= 2
    <2> PICK m, q : m = Msg("peer-left") /\ q = Msg("peer-joined")
        OBVIOUS
    <2>1. m \in Messages /\ m.type = "peer-left" /\ Left(m) /\ ~Up(m) /\ ~Numbered(m)
        BY Noticed DEF Up, Left, Numbered
    <2>2. q \in Messages /\ q.type = "peer-joined" /\ Up(q)
        BY Noticed DEF Up
    <2>3. k <= 2 /\ n # 1 /\ ~(k > 2)
        BY <1>4
    <2> PICK e, f : e = d \o <<m>> /\ f = d \o <<m, q>>
        OBVIOUS
    <2>4. Grown(d, e, m) /\ Grown(e, f, q)
        BY <2>1, <2>2, SayOne, SayTwo
    <2>5. Joined(a, d) /\ Ends(a, d, 0)
        BY <2>3 DEF Told
    <2>6. Lone(a, e)
        BY <2>1, <2>4, <2>5, PhaseGrow
    <2>7. Ends(a, e, 0)
        BY <2>1, <2>4, <2>5, EndsGrow
    <2>8. RolesTold(a, d, k, n) => RolesCome(a, e) /\ RoleLone(a, e)
        <3>1. RolesTold(a, d, k, n) => RolesCome(a, d)
            BY <2>3 DEF RolesTold
        <3> QED
            BY <2>1, <2>4, <3>1, RoleGrow
    <2>9. ~(i > 2) /\ ~(p > 2) /\ p # 2
        BY <1>4
    <2>10. CASE n - 1 = 1
        <3>1. LeaveNote(p, i, n - 1) = <<m>>
            BY <2>9, <2>10 DEF LeaveNote
        <3> QED
            BY <1>4, <2>6, <2>7, <2>8, <2>9, <2>10, <3>1 DEF Told, RolesTold
    <2>11. CASE n - 1 # 1
        <3>1. LeaveNote(p, i, n - 1) = <<m, q>>
            BY <2>9, <2>11 DEF LeaveNote
        <3>2. Joined(a, f)
            BY <2>2, <2>4, <2>6, PhaseGrow
        <3>3. Ends(a, f, 0)
            BY <2>2, <2>4, EndsGrow
        <3>4. RolesTold(a, d, k, n) => RolesCome(a, f) /\ RoleJoined(a, f, 1)
            BY <2>2, <2>4, <2>8, RoleGrow
        <3> QED
            BY <1>4, <2>9, <2>11, <3>1, <3>2, <3>3, <3>4 DEF Told, RolesTold
    <2> QED
        BY <2>10, <2>11
<1> QED
    BY <1>0, <1>1, <1>2, <1>3, <1>4

-----------------------------------------------------------------------------
(***************************************************************************)
(* Until its socket is open a page waits, without a place in the queue and *)
(* without a peer connection; one that has a connection, or is about to    *)
(* have one, has joined a peer.                                            *)
(***************************************************************************)
FreshInv ==
    \A b \in Browsers :
        ws[b] \in {"none", "connecting"} =>
            app[b].pos = 0 /\ app[b].status = "waiting" /\ pc[b] = NoPC

LEMMA InUse ==
    ASSUME Eager, SessionInv, LeakInv, FreshInv, NEW b \in Browsers, MayHandle(b),
           fetching[b] # {} \/ pc[b] # NoPC
    PROVE  /\ app[b].status = "joined" /\ ws[b] \in {"open", "lost"}
           /\ Rendered(b) /\ seen[b].role # "none"
<1>1. Rendered(b) /\ app[b] \in AppStates /\ ws[b] \in {"none", "connecting", "open", "lost"}
    BY DEF MayHandle, SessionInv, PageType, HubType
<1>2. seen[b].role # "none"
    BY DEF SessionInv, ConnFits, LeakInv, OnePerEffect
<1>3. seen[b].role = ActiveRole(app[b])
    BY <1>1, ShownType DEF Rendered
<1>4. app[b].status = "joined"
    BY <1>2, <1>3 DEF ActiveRole
<1> QED
    BY <1>1, <1>2, <1>4 DEF FreshInv

\* Steps that leave all browsers but one alone.
LEMMA FreshOne ==
    ASSUME FreshInv, NEW b \in Browsers,
           \A c \in Browsers \ {b} : ws'[c] = ws[c] /\ app'[c] = app[c] /\ pc'[c] = pc[c],
           ws'[b] \in {"none", "connecting"} =>
                app'[b].pos = 0 /\ app'[b].status = "waiting" /\ pc'[b] = NoPC
    PROVE  FreshInv'
BY DEF FreshInv

\* React renders: a socket is opened only by one who had none.
LEMMA FreshCommit ==
    ASSUME SessionInv, ReleasedInv, FreshInv, NEW b \in Browsers, Commit(b)
    PROVE  FreshInv'
<1> DEFINE x == Shown(app[b])
<1>1. /\ SignalingEffect(b, x) /\ WebRTCEffect(b, x) /\ app[b] \in AppStates
      /\ ws \in [Browsers -> {"none", "connecting", "open", "lost"}] /\ pc \in [Browsers -> Conns]
      /\ WayFits(app[b], seen[b].room, ws[b], gen[b])
    BY DEF Commit, SessionInv, PageType, HubType, RtcType
<1>2. x.room = app[b].room
    BY <1>1, ShownType
<1>3. /\ app'[b].pos = app[b].pos /\ app'[b].status = app[b].status
      /\ \A c \in Browsers \ {b} : app'[c] = app[c]
    BY <1>1 DEF Commit, SessionInv, PageType, AppStates
<1> HIDE DEF x
<1>4. pc'[b] \in {pc[b], NoPC} /\ \A c \in Browsers \ {b} : pc'[c] = pc[c]
    BY <1>1 DEF WebRTCEffect, ClosePC, rtcVars
<1>5. \A c \in Browsers \ {b} : ws'[c] = ws[c]
    BY <1>1 DEF SignalingEffect
<1>6. CASE seen[b].room = x.room
    <2>1. ws'[b] = ws[b]
        BY <1>1, <1>6 DEF SignalingEffect
    <2> QED
        BY <1>3, <1>4, <1>5, <2>1, FreshOne DEF FreshInv
<1>7. CASE seen[b].room # x.room
    <2>1. app[b].pos = 0 /\ app[b].status = "waiting" /\ pc[b] = NoPC
        <3>1. CASE app[b].room = NoRoom
            BY <3>1 DEF ReleasedInv, Released1
        <3>2. CASE app[b].room # NoRoom
            BY <1>1, <1>2, <1>7, <3>2 DEF WayFits, FreshInv
        <3> QED
            BY <3>1, <3>2
    <2> QED
        BY <1>3, <1>4, <1>5, <2>1, FreshOne
<1> QED
    BY <1>6, <1>7

\* What steps of the peer connection are there.
LEMMA RtcNeeds ==
    ASSUME NEW b \in Browsers,
           Rtc(b) \/ LinkBreaks(b)
    PROVE  MayHandle(b) /\ (fetching[b] # {} \/ pc[b] # NoPC)
<1>1. CASE \E role \in {"offerer", "answerer"} : FetchDone(b, role)
    BY <1>1 DEF FetchDone
<1>2. CASE SendOffer(b) \/ SendAnswer(b) \/ ChannelOpens(b)
    BY <1>2 DEF SendOffer, SendAnswer, ChannelOpens, Linked, NoPC
<1>3. CASE IceConnects(b) \/ LinkDies(b) \/ LinkBreaks(b)
    BY <1>3 DEF IceConnects, LinkDies, LinkBreaks, Ice
<1> QED
    BY <1>1, <1>2, <1>3 DEF Rtc

\* Every step keeps it, if React is quick.
LEMMA FreshStep ==
    ASSUME Eager, SessionInv, CallInv, LeakInv, NetInv, ReleasedInv, FreshInv, [Next]_vars
    PROVE  FreshInv'
<1>1. ASSUME NEW b \in Browsers, ClosePC(b), UNCHANGED ws,
             app'[b].pos = 0 /\ app'[b].status = "waiting",
             \A c \in Browsers \ {b} : app'[c] = app[c]
      PROVE  FreshInv'
    BY <1>1, FreshOne DEF ClosePC, SessionInv, RtcType
<1>2. ASSUME NEW b \in Browsers, Disconnect(b) PROVE FreshInv'
    BY <1>1, <1>2 DEF Disconnect, Reset, Start, SessionInv, PageType
<1>3. ASSUME NEW b \in Browsers, NEW r \in RoomIDs, NEW role, NEW call, GoTo(b, r, role, call)
      PROVE  FreshInv'
    BY <1>1, <1>3 DEF GoTo, Reset, Start, SessionInv, PageType
<1>4. ASSUME NEW b \in Browsers, JoinTimer(b) PROVE FreshInv'
    <2>1. app[b].room = NoRoom /\ app[b] \in AppStates
        BY <1>4 DEF JoinTimer, SessionInv, WayFits, PageType
    <2>2. app[b].pos = 0 /\ app[b].status = "waiting" /\ pc[b] = NoPC
        BY <2>1 DEF ReleasedInv, Released1
    <2>3. /\ app'[b].pos = app[b].pos /\ app'[b].status = app[b].status
          /\ \A c \in Browsers \ {b} : app'[c] = app[c]
        BY <1>4, <2>1 DEF JoinTimer, SessionInv, PageType, AppStates
    <2> QED
        BY <1>4, <2>2, <2>3, FreshOne DEF JoinTimer, rtcVars
<1>5. ASSUME NEW b \in Browsers, Commit(b) PROVE FreshInv'
    BY <1>5, FreshCommit
<1>6. ASSUME NEW b \in Browsers, Enter(b) PROVE FreshInv'
    BY <1>6, FreshOne DEF Enter, rtcVars, SessionInv, HubType
<1>7. ASSUME NEW b \in Browsers, Receive(b) PROVE FreshInv'
    <2>1. ws[b] = "open" /\ UNCHANGED ws
        BY <1>7 DEF Receive, NetInv
    <2> QED
        BY <1>7, <2>1, FreshOne DEF Receive, SessionInv, PageType, RtcType
<1>8. ASSUME NEW b \in Browsers, Rtc(b) \/ LinkBreaks(b) PROVE FreshInv'
    <2>1. ws[b] \in {"open", "lost"}
        BY <1>8, RtcNeeds, InUse
    <2>2. UNCHANGED ws /\ \A c \in Browsers \ {b} : app'[c] = app[c] /\ pc'[c] = pc[c]
        BY <1>8 DEF Rtc, FetchDone, SendOffer, SendAnswer, ChannelOpens, IceConnects,
                    LinkDies, LinkBreaks, Ice, rtcVars, SessionInv, PageType, RtcType
    <2> QED
        BY <2>1, <2>2, FreshOne
<1>9. ASSUME NEW b \in Browsers, WsLost(b) PROVE FreshInv'
    BY <1>9, FreshOne DEF WsLost, rtcVars, SessionInv, HubType
<1>10. CASE UNCHANGED <<ws, app, pc>>
    BY <1>10 DEF FreshInv
<1> QED
    BY <1>2, <1>3, <1>4, <1>5, <1>6, <1>7, <1>8, <1>9, <1>10
    DEF Next, Calm, HubLeaves, HubLeave, User, PressDisconnect, HandleCreate, HandleJoin,
        HandleCall, HandleAcceptInvite, Browser, Timers, WatchdogFires, GraceExpires, Trouble,
        vars, rtcVars

-----------------------------------------------------------------------------
(***************************************************************************)
(* Who opens a room.  A browser is bound for a room with a role from the   *)
(* button on, until its socket is open.  One that is bound to offer has    *)
(* made the room, and nobody can come in with that role once a room is     *)
(* hosted.                                                                 *)
(***************************************************************************)
BoundTo(a, room, socket, r, role) ==
    \/ a.joins # <<>> /\ Head(a.joins) = [room |-> r, role |-> role]
    \/ a.room = r /\ a.role = role /\ (room # r \/ socket = "connecting")
Bound(b, r, role) == BoundTo(app[b], seen[b].room, ws[b], r, role)

FateFits(r) ==
    /\ line[r] # <<>> => fate[r] \in {"hosted", "stray"}
    /\ fate[r] = "hosted" => line[r] # <<>>
    /\ \A b \in Browsers, role \in Roles :
        Bound(b, r, role) => fate[r] # "unused" /\ role # "none"
    /\ \A b \in Browsers : Bound(b, r, "offerer") => fate[r] \in {"made", "stray"}
    /\ fate[r] = "made" => \A b, c \in Browsers :
            Bound(b, r, "offerer") /\ Bound(c, r, "offerer") => b = c

FateInv == \A r \in RoomIDs : FateFits(r)

\* Steps after which nobody is bound who was not, and that leave the room alone.
LEMMA FateSame ==
    ASSUME NEW r \in RoomIDs, FateFits(r), line'[r] = line[r], fate'[r] = fate[r],
           \A c \in Browsers, role \in Roles : Bound(c, r, role)' => Bound(c, r, role)
    PROVE  FateFits(r)'
BY DEF FateFits, Roles

\* Going to a room binds for it, and for no other.
LEMMA GoBinds ==
    ASSUME SessionInv, NEW b \in Browsers, NEW r \in RoomIDs, NEW role \in Roles, NEW call,
           GoTo(b, r, role, call)
    PROVE  \A c \in Browsers, q \in RoomIDs, x \in Roles :
                Bound(c, q, x)' => Bound(c, q, x) \/ (c = b /\ q = r /\ x = role)
<1> DEFINE way == [room |-> r, role |-> role]
           a == [Reset(app[b]) EXCEPT !.joins = Append(@, way), !.pending = call]
<1>1. app' = [app EXCEPT ![b] = a] /\ UNCHANGED <<seen, ws>> /\ app[b].joins = <<>>
    BY DEF GoTo
<1>2. a.joins = Append(<<>>, way) /\ a.room = NoRoom
    BY <1>1 DEF Reset, Start
<1>3. way \in Joins /\ way.room = r /\ way.role = role
    BY DEF Joins
<1> HIDE DEF way, a
<1>4. Append(<<>>, way) = <<way>> /\ Head(<<way>>) = way
    BY <1>3
<1>5. \A c \in Browsers : app'[c] = IF c = b THEN a ELSE app[c]
    BY <1>1 DEF SessionInv, PageType
<1> SUFFICES ASSUME NEW c \in Browsers, NEW q \in RoomIDs, NEW x \in Roles, Bound(c, q, x)'
             PROVE  Bound(c, q, x) \/ (c = b /\ q = r /\ x = role)
    OBVIOUS
<1>6. CASE c = b
    <2>1. way = [room |-> q, role |-> x]
        BY <1>1, <1>2, <1>4, <1>5, <1>6, NoRoomAssumption DEF Bound, BoundTo
    <2> QED
        BY <1>3, <1>6, <2>1
<1>7. CASE c # b
    BY <1>1, <1>5, <1>7 DEF Bound
<1> QED
    BY <1>6, <1>7

\* A room is made, by one browser, which will offer there.
LEMMA FateMake ==
    ASSUME SessionInv, FateInv, NEW b \in Browsers, NEW r \in RoomIDs, NEW call,
           GoTo(b, r, "offerer", call), fate[r] = "unused", fate' = [fate EXCEPT ![r] = "made"]
    PROVE  FateInv'
<1>1. \A c \in Browsers, q \in RoomIDs, x \in Roles :
        Bound(c, q, x)' => Bound(c, q, x) \/ (c = b /\ q = r /\ x = "offerer")
    BY GoBinds DEF Roles
<1>2. \A q \in RoomIDs : fate'[q] = (IF q = r THEN "made" ELSE fate[q]) /\ line'[q] = line[q]
    BY DEF GoTo, SessionInv, HubType
<1>3. ASSUME NEW q \in RoomIDs, q # r PROVE FateFits(q)'
    BY <1>1, <1>2, <1>3, FateSame DEF FateInv
<1>4. FateFits(r)'
    <2>1. line[r] = <<>> /\ \A c \in Browsers, x \in Roles : ~Bound(c, r, x)
        BY DEF FateInv, FateFits
    <2> QED
        BY <1>1, <1>2, <2>1 DEF FateFits, Roles
<1> QED
    BY <1>3, <1>4 DEF FateInv

\* A room that was made is joined by its id.
LEMMA FateJoin ==
    ASSUME SessionInv, FateInv, NEW b \in Browsers, NEW r \in RoomIDs, NEW call,
           GoTo(b, r, "answerer", call), fate[r] # "unused", UNCHANGED fate
    PROVE  FateInv'
<1>1. \A c \in Browsers, q \in RoomIDs, x \in Roles :
        Bound(c, q, x)' => Bound(c, q, x) \/ (c = b /\ q = r /\ x = "answerer")
    BY GoBinds DEF Roles
<1>2. UNCHANGED line
    BY DEF GoTo
<1>3. ASSUME NEW q \in RoomIDs, q # r PROVE FateFits(q)'
    BY <1>1, <1>2, <1>3, FateSame DEF FateInv
<1>4. FateFits(r)'
    BY <1>1, <1>2 DEF FateInv, FateFits, Roles
<1> QED
    BY <1>3, <1>4 DEF FateInv

\* A socket opens in a room: the first to come decides its fate.
LEMMA FateEnter ==
    ASSUME SessionInv, NetInv, ReleasedInv, FateInv, NEW b \in Browsers, Enter(b)
    PROVE  FateInv'
<1>1. PICK q \in RoomIDs : q = seen[b].room
    BY NetEnter
<1> DEFINE l == Append(line[q], Sock(b))
           hosted == fate[q] = "made" /\ app[b].role = "offerer"
<1>2. /\ \A r \in RoomIDs : /\ line'[r] = IF r = q THEN l ELSE line[r]
                            /\ fate'[r] = IF r # q \/ Len(l) > 1 THEN fate[r]
                                          ELSE IF hosted THEN "hosted" ELSE "stray"
      /\ \A c \in Browsers : ws'[c] = IF c = b THEN "open" ELSE ws[c]
      /\ UNCHANGED <<app, seen>> /\ ws[b] = "connecting"
    BY <1>1 DEF Enter, SessionInv, HubType
<1>3. \A c \in Browsers, r \in RoomIDs, x \in Roles : Bound(c, r, x)' => Bound(c, r, x)
    BY <1>2 DEF Bound, BoundTo
<1>4. ASSUME NEW r \in RoomIDs, r # q PROVE FateFits(r)'
    BY <1>2, <1>3, <1>4, FateSame DEF FateInv
<1>5. l # <<>> /\ Len(l) = Len(line[q]) + 1 /\ line[q] \in Seq(Ids) /\ Len(line[q]) \in Nat
    BY <1>1, SockType, LineType, AppendNotEmpty, AppendProperties DEF SessionInv
<1> HIDE DEF l
<1>6. FateFits(q) /\ line'[q] # <<>>
    BY <1>2, <1>5 DEF FateInv
<1>7. ASSUME Len(l) > 1 PROVE FateFits(q)'
    <2>1. line[q] # <<>>
        BY <1>5, <1>7, EmptySeq
    <2>2. fate'[q] = fate[q]
        BY <1>2, <1>7
    <2> QED
        BY <1>3, <1>6, <2>1, <2>2 DEF FateFits, Roles
<1>8. ASSUME Len(l) <= 1, ~hosted PROVE FateFits(q)'
    <2>1. fate'[q] = "stray"
        BY <1>2, <1>5, <1>8
    <2> QED
        BY <1>3, <1>6, <2>1 DEF FateFits, Roles
<1>9. ASSUME Len(l) <= 1, hosted PROVE FateFits(q)'
    <2>1. WayFits(app[b], seen[b].room, ws[b], gen[b]) /\ Released1(app[b], pc[b])
        BY DEF SessionInv, ReleasedInv
    <2>2. app[b].room = q /\ app[b].joins = <<>>
        BY <1>1, <1>9, <2>1, NoRoomAssumption DEF WayFits, Released1
    <2>3. Bound(b, q, "offerer") /\ ~Bound(b, q, "offerer")'
        BY <1>1, <1>2, <1>9, <2>2 DEF Bound, BoundTo
    <2>4. \A c \in Browsers : ~Bound(c, q, "offerer")'
        BY <1>3, <1>6, <1>9, <2>3 DEF FateFits, Roles
    <2>5. fate'[q] = "hosted"
        BY <1>2, <1>5, <1>9
    <2> QED
        BY <1>3, <1>6, <2>4, <2>5 DEF FateFits, Roles
<1> QED
    BY <1>4, <1>5, <1>7, <1>8, <1>9 DEF FateInv

\* A socket leaves: the room that the last one leaves is hosted by nobody.
LEMMA FateLeave ==
    ASSUME SessionInv, FateInv, NEW q \in RoomIDs, NEW i \in DOMAIN line[q], HubLeave(q, i)
    PROVE  FateInv'
<1>1. /\ line[q] \in Seq(Ids) /\ Len(line[q]) \in Nat /\ i \in 1 .. Len(line[q])
    BY LineType DEF SessionInv
<1>2. \A r \in RoomIDs : /\ line'[r] = IF r = q THEN RemoveAt(line[q], i) ELSE line[r]
                         /\ fate'[r] = IF r = q /\ Len(line[q]) = 1 THEN "stray" ELSE fate[r]
    BY DEF HubLeave, SessionInv, HubType
<1>3. \A c \in Browsers, r \in RoomIDs, x \in Roles : Bound(c, r, x)' => Bound(c, r, x)
    BY DEF HubLeave, Bound
<1>4. ASSUME NEW r \in RoomIDs, r # q PROVE FateFits(r)'
    BY <1>2, <1>3, <1>4, FateSame DEF FateInv
<1>5. Len(line'[q]) = Len(line[q]) - 1 /\ line'[q] = RemoveAt(line[q], i)
      /\ line[q] # <<>> /\ FateFits(q)
    <2>1. Len(RemoveAt(line[q], i)) = Len(line[q]) - 1
        BY <1>1, RemoveAtProperties
    <2>2. line[q] # <<>>
        BY <1>1
    <2> QED
        BY <1>2, <2>1, <2>2 DEF FateInv
<1>6. FateFits(q)'
    <2>1. CASE Len(line[q]) = 1
        <3>1. fate'[q] = "stray"
            BY <1>2, <2>1
        <3> QED
            BY <1>3, <1>5, <3>1 DEF FateFits, Roles
    <2>2. CASE Len(line[q]) # 1
        <3>1. fate'[q] = fate[q]
            BY <1>2, <2>2
        <3>2. line'[q] # <<>>
            <4>1. Len(line'[q]) # 0
                BY <1>1, <1>5, <2>2
            <4> QED
                BY <4>1
        <3> QED
            BY <1>3, <1>5, <3>1, <3>2 DEF FateFits, Roles
    <2> QED
        BY <2>1, <2>2
<1> QED
    BY <1>4, <1>6 DEF FateInv

\* Nobody is bound by the steps of the pages that go nowhere.
LEMMA BoundCommit ==
    ASSUME SessionInv, NEW b \in Browsers, Commit(b)
    PROVE  \A c \in Browsers, r \in RoomIDs, x \in Roles : Bound(c, r, x)' => Bound(c, r, x)
<1> DEFINE y == Shown(app[b])
<1>1. /\ SignalingEffect(b, y) /\ app[b] \in AppStates /\ seen' = [seen EXCEPT ![b] = y]
      /\ ws \in [Browsers -> {"none", "connecting", "open", "lost"}]
      /\ seen \in [Browsers -> Views]
    BY DEF Commit, SessionInv, PageType, HubType
<1>2. y.room = app[b].room
    BY <1>1, ShownType
<1>3. /\ app'[b].room = app[b].room /\ app'[b].role = app[b].role /\ app'[b].joins = app[b].joins
      /\ \A c \in Browsers \ {b} : app'[c] = app[c]
    BY <1>1 DEF Commit, SessionInv, PageType, AppStates
<1> HIDE DEF y
<1>4. \A c \in Browsers \ {b} : ws'[c] = ws[c] /\ seen'[c] = seen[c]
    BY <1>1 DEF SignalingEffect
<1>5. seen'[b] = y /\ (seen[b].room = y.room => ws'[b] = ws[b])
    BY <1>1 DEF SignalingEffect
<1> SUFFICES ASSUME NEW c \in Browsers, NEW r \in RoomIDs, NEW x \in Roles, Bound(c, r, x)'
             PROVE  Bound(c, r, x)
    OBVIOUS
<1>6. CASE c # b
    BY <1>3, <1>4, <1>6 DEF Bound
<1>7. CASE c = b
    BY <1>2, <1>3, <1>5, <1>7 DEF Bound, BoundTo
<1> QED
    BY <1>6, <1>7

LEMMA BoundReset ==
    ASSUME SessionInv, NEW b \in Browsers, Disconnect(b)
    PROVE  \A c \in Browsers, r \in RoomIDs, x \in Roles : Bound(c, r, x)' => Bound(c, r, x)
<1>1. /\ app'[b].room = NoRoom /\ app'[b].joins = app[b].joins
      /\ \A c \in Browsers \ {b} : app'[c] = app[c]
      /\ UNCHANGED <<ws, seen>>
    BY DEF Disconnect, Reset, Start, SessionInv, PageType
<1> SUFFICES ASSUME NEW c \in Browsers, NEW r \in RoomIDs, NEW x \in Roles, Bound(c, r, x)'
             PROVE  Bound(c, r, x)
    OBVIOUS
<1>2. CASE c = b
    BY <1>1, <1>2, NoRoomAssumption DEF Bound, BoundTo
<1> QED
    BY <1>1, <1>2 DEF Bound

LEMMA BoundArrives ==
    ASSUME SessionInv, CallInv, NEW b \in Browsers, JoinTimer(b)
    PROVE  \A c \in Browsers, r \in RoomIDs, x \in Roles : Bound(c, r, x)' => Bound(c, r, x)
<1>1. /\ app[b] \in AppStates /\ app[b].joins \in Seq(Joins) /\ app[b].joins # <<>>
      /\ Len(app[b].joins) <= 1
    BY DEF JoinTimer, SessionInv, PageType, CallInv, CallFits
<1>2. PICK j \in Joins : j = Head(app[b].joins)
    BY <1>1
<1>3. Tail(app[b].joins) = <<>>
    BY <1>1
<1>4. /\ app'[b].room = j.room /\ app'[b].role = j.role /\ app'[b].joins = <<>>
      /\ \A c \in Browsers \ {b} : app'[c] = app[c]
      /\ UNCHANGED <<ws, seen>>
    BY <1>1, <1>2, <1>3 DEF JoinTimer, SessionInv, PageType, AppStates
<1>5. j = [room |-> j.room, role |-> j.role]
    BY DEF Joins
<1> SUFFICES ASSUME NEW c \in Browsers, NEW r \in RoomIDs, NEW x \in Roles, Bound(c, r, x)'
             PROVE  Bound(c, r, x)
    OBVIOUS
<1>6. CASE c = b
    <2>1. j.room = r /\ j.role = x
        BY <1>4, <1>6 DEF Bound, BoundTo
    <2> QED
        BY <1>1, <1>2, <1>5, <1>6, <2>1 DEF Bound, BoundTo
<1> QED
    BY <1>4, <1>6 DEF Bound

\* What the steps of a peer connection leave alone.
RtcPage(b) ==
    /\ UNCHANGED <<ws, seen, gen, line, fate>>
    /\ \A c \in Browsers \ {b} : app'[c] = app[c]
    /\ app'[b].room = app[b].room /\ app'[b].role = app[b].role
    /\ app'[b].joins = app[b].joins /\ app'[b].pos = app[b].pos
    /\ app'[b].status = app[b].status
    /\ app'[b].wasActive = app[b].wasActive \/ pc[b] # NoPC

LEMMA RtcTouches ==
    ASSUME SessionInv, NEW b \in Browsers, Rtc(b) \/ LinkBreaks(b)
    PROVE  RtcPage(b)
<1>0. app[b] \in AppStates /\ app \in [Browsers -> AppStates]
    BY DEF SessionInv, PageType
<1>1. CASE (\E role \in {"offerer", "answerer"} : FetchDone(b, role)) \/ SendOffer(b) \/ SendAnswer(b)
    BY <1>1 DEF FetchDone, SendOffer, SendAnswer, RtcPage, hubVars
<1>2. ASSUME NEW from, NEW to, Ice(b, from, to) PROVE RtcPage(b)
    BY <1>0, <1>2 DEF Ice, RtcPage, hubVars, AppStates
<1>3. CASE ChannelOpens(b)
    <2>1. pc[b] # NoPC
        BY <1>3 DEF ChannelOpens, Linked, NoPC
    <2> QED
        BY <1>0, <1>3, <2>1 DEF ChannelOpens, RtcPage, hubVars, AppStates
<1> QED
    BY <1>1, <1>2, <1>3 DEF Rtc, IceConnects, LinkDies, LinkBreaks

\* Every step keeps the fates, if React is quick.
LEMMA FateStep ==
    ASSUME Eager, SessionInv, CallInv, LeakInv, NetInv, ReleasedInv, FateInv, [Next]_vars
    PROVE  FateInv'
<1>0. ASSUME UNCHANGED <<line, fate>>,
             \A c \in Browsers, r \in RoomIDs, x \in Roles : Bound(c, r, x)' => Bound(c, r, x)
      PROVE  FateInv'
    BY <1>0, FateSame DEF FateInv
<1>1. CASE HubLeaves
    BY <1>1, FateLeave DEF HubLeaves
<1>2. ASSUME NEW b \in Browsers, User(b) PROVE FateInv'
    BY <1>0, <1>2, BoundReset, FateMake, FateJoin
    DEF User, PressDisconnect, Disconnect, hubVars, HandleCreate, HandleJoin, HandleCall,
        HandleAcceptInvite
<1>3. ASSUME NEW b \in Browsers, Timers(b) PROVE FateInv'
    BY <1>0, <1>3, BoundReset, BoundArrives
    DEF Timers, WatchdogFires, GraceExpires, Disconnect, JoinTimer, hubVars
<1>4. ASSUME NEW b \in Browsers, Commit(b) PROVE FateInv'
    BY <1>0, <1>4, BoundCommit DEF Commit
<1>5. ASSUME NEW b \in Browsers, Enter(b) PROVE FateInv'
    BY <1>5, FateEnter
<1>6. ASSUME NEW b \in Browsers, Receive(b) PROVE FateInv'
    <2>1. /\ Rendered(b) /\ app[b] \in AppStates /\ Head(down[b]) \in Messages
          /\ ws[b] = "open"
        BY <1>6 DEF Receive, MayHandle, SessionInv, PageType, HubType, NetInv
    <2>2. /\ app'[b] = OnNotice(app[b], Head(down[b]))
          /\ \A c \in Browsers \ {b} : app'[c] = app[c]
          /\ UNCHANGED <<ws, seen, line, fate>>
        BY <1>6 DEF Receive, SessionInv, PageType, hubVars
    <2>3. app'[b].room = app[b].room /\ app'[b].joins = app[b].joins /\ seen[b].room = app[b].room
        BY <2>1, <2>2, NoticeType, ShownType DEF Rendered
    <2>4. ASSUME NEW c \in Browsers, NEW r \in RoomIDs, NEW x \in Roles, Bound(c, r, x)'
          PROVE  Bound(c, r, x)
        <3>1. CASE c = b
            BY <2>1, <2>2, <2>3, <2>4, <3>1 DEF Bound, BoundTo
        <3> QED
            BY <2>2, <2>4, <3>1 DEF Bound
    <2> QED
        BY <1>0, <2>2, <2>4
<1>7. ASSUME NEW b \in Browsers, Rtc(b) \/ LinkBreaks(b) PROVE FateInv'
    <2>1. RtcPage(b)
        BY <1>7, RtcTouches
    <2> QED
        BY <1>0, <2>1 DEF RtcPage, Bound, BoundTo
<1>8. ASSUME NEW b \in Browsers, WsLost(b) PROVE FateInv'
    <2>1. /\ UNCHANGED <<app, seen, line, fate>>
          /\ \A c \in Browsers : ws'[c] = "connecting" => ws[c] = "connecting"
        BY <1>8 DEF WsLost, SessionInv, HubType, hubVars
    <2> QED
        BY <1>0, <2>1 DEF Bound, BoundTo
<1>9. CASE UNCHANGED vars
    BY <1>0, <1>9 DEF vars, hubVars, Bound
<1> QED
    BY <1>1, <1>2, <1>3, <1>4, <1>5, <1>6, <1>7, <1>8, <1>9 DEF Next, Calm, Browser, Trouble

\* The initial states satisfy both.
LEMMA FateInit == Init => FreshInv /\ FateInv
<1> SUFFICES ASSUME Init PROVE FreshInv /\ FateInv
    OBVIOUS
<1>1. \A b \in Browsers : app[b] = Start /\ pc[b] = NoPC
    BY DEF Init
<1>2. Start.pos = 0 /\ Start.status = "waiting" /\ Start.room = NoRoom /\ Start.joins = <<>>
    BY DEF Start
<1>3. \A b \in Browsers, r \in RoomIDs, role \in Roles : ~Bound(b, r, role)
    BY <1>1, <1>2, NoRoomAssumption DEF Bound, BoundTo
<1>4. \A r \in RoomIDs : line[r] = <<>> /\ fate[r] = "unused"
    BY DEF Init
<1> QED
    BY <1>1, <1>2, <1>3, <1>4 DEF FreshInv, FateInv, FateFits, Roles

-----------------------------------------------------------------------------
(***************************************************************************)
(* Every browser that stands in the line of its room is told, or will be,  *)
(* what its place there makes of it.                                       *)
(***************************************************************************)
Stands(b, r, k) ==
    ws[b] = "open" /\ seen[b].room = r /\ app[b].room = r /\ line[r][k] = Sock(b)

PhaseFits(b, r, k) ==
    Stands(b, r, k) =>
        /\ Told(app[b], down[b], k, Len(line[r]))
        /\ fate[r] = "hosted" => RolesTold(app[b], down[b], k, Len(line[r]))

PhaseInv == \A b \in Browsers, r \in RoomIDs : \A k \in 1 .. Len(line[r]) : PhaseFits(b, r, k)

\* Steps of a browser that leave sockets and lines alone, and after which it
\* stands nowhere or is told what it was.
LEMMA PhaseLocal ==
    ASSUME SessionInv, PhaseInv, UNCHANGED <<gen, line>>,
           \A r \in RoomIDs : fate'[r] = "hosted" => fate[r] = "hosted",
           \A c \in Browsers :
                \/ ws'[c] # "open" \/ app'[c].room = NoRoom \/ seen'[c].room = NoRoom
                \/ /\ ws'[c] = ws[c] /\ seen'[c].room = seen[c].room /\ app'[c].room = app[c].room
                   /\ \A k, n \in Nat : Told(app[c], down[c], k, n) =>
                        /\ Told(app'[c], down'[c], k, n)
                        /\ RolesTold(app[c], down[c], k, n) => RolesTold(app'[c], down'[c], k, n)
    PROVE  PhaseInv'
<1> SUFFICES ASSUME NEW c \in Browsers, NEW r \in RoomIDs, NEW k \in 1 .. Len(line[r])
             PROVE  PhaseFits(c, r, k)'
    BY DEF PhaseInv
<1>1. Sock(c)' = Sock(c) /\ line'[r] = line[r] /\ PhaseFits(c, r, k)
      /\ k \in Nat /\ Len(line[r]) \in Nat
    BY LineType DEF Sock, PhaseInv, SessionInv
<1> SUFFICES ASSUME Stands(c, r, k)'
             PROVE  /\ Told(app'[c], down'[c], k, Len(line[r]))
                    /\ fate'[r] = "hosted" => RolesTold(app'[c], down'[c], k, Len(line[r]))
    BY <1>1 DEF PhaseFits
<1>2. Stands(c, r, k)
      /\ \A n \in Nat : Told(app[c], down[c], k, n) =>
            /\ Told(app'[c], down'[c], k, n)
            /\ RolesTold(app[c], down[c], k, n) => RolesTold(app'[c], down'[c], k, n)
    BY <1>1, NoRoomAssumption DEF Stands
<1> QED
    BY <1>1, <1>2 DEF PhaseFits

\* disconnect, and going to a room.
LEMMA PhaseReset ==
    ASSUME SessionInv, PhaseInv, NEW b \in Browsers, app'[b].room = NoRoom,
           \A c \in Browsers \ {b} : app'[c] = app[c], UNCHANGED <<ws, seen, down, gen, line>>,
           \A r \in RoomIDs : fate'[r] = "hosted" => fate[r] = "hosted"
    PROVE  PhaseInv'
BY PhaseLocal

\* React renders.
LEMMA PhaseCommit ==
    ASSUME SessionInv, PhaseInv, NEW b \in Browsers, Commit(b)
    PROVE  PhaseInv'
<1> DEFINE y == Shown(app[b])
<1>1. /\ SignalingEffect(b, y) /\ app[b] \in AppStates /\ seen' = [seen EXCEPT ![b] = y]
      /\ ws \in [Browsers -> {"none", "connecting", "open", "lost"}]
      /\ down \in [Browsers -> Seq(Messages)]
      /\ seen \in [Browsers -> Views] /\ UNCHANGED <<line, fate>>
    BY DEF Commit, SessionInv, PageType, HubType
<1>2. y.room = app[b].room
    BY <1>1, ShownType
<1>3. /\ app'[b].room = app[b].room /\ app'[b].role = app[b].role /\ app'[b].pos = app[b].pos
      /\ app'[b].status = app[b].status /\ app'[b].wasActive = app[b].wasActive
      /\ \A c \in Browsers \ {b} : app'[c] = app[c]
    BY <1>1 DEF Commit, SessionInv, PageType, AppStates
<1> HIDE DEF y
<1>4. \A c \in Browsers \ {b} : ws'[c] = ws[c] /\ seen'[c] = seen[c] /\ down'[c] = down[c]
    BY <1>1 DEF SignalingEffect
<1>5. CASE seen[b].room = y.room
    <2>1. UNCHANGED <<ws, gen, down>> /\ seen'[b].room = seen[b].room
        BY <1>1, <1>5 DEF SignalingEffect
    <2>2. \A k, n \in Nat : Told(app[b], down[b], k, n) =>
            /\ Told(app'[b], down'[b], k, n)
            /\ RolesTold(app[b], down[b], k, n) => RolesTold(app'[b], down'[b], k, n)
        BY <1>3, <2>1, ToldTouch
    <2> QED
        BY <1>1, <1>3, <1>4, <2>1, <2>2, PhaseLocal
<1>6. CASE seen[b].room # y.room
    <2>1. ws'[b] # "open"
        BY <1>1, <1>6 DEF SignalingEffect
    <2>2. \A c \in Browsers \ {b} : Sock(c)' = Sock(c)
        BY <1>1 DEF SignalingEffect, Sock, SessionInv, HubType
    <2> QED
        BY <1>1, <1>3, <1>4, <2>1, <2>2, ZenonT(40) DEF PhaseInv, PhaseFits, Stands
<1> QED
    BY <1>5, <1>6

\* A signal is sent.
LEMMA PhaseSend ==
    ASSUME SessionInv, PhaseInv, NEW b \in Browsers, NEW m \in Offers \cup Answers,
           SendSignal(b, m), UNCHANGED <<app, seen, ws, hubVars>>
    PROVE  PhaseInv'
<1>1. m \in Messages /\ Signals(m)
    BY DEF Messages, Offers, Answers, Signals
<1>2. \A c \in Browsers : down[c] \in Seq(Messages) /\ down'[c] \in {down[c], down[c] \o <<m>>}
    BY DEF SendSignal, Deliver, SessionInv, HubType
<1>3. ASSUME NEW c \in Browsers, NEW k \in Nat, NEW n \in Nat, Told(app[c], down[c], k, n)
      PROVE  /\ Told(app'[c], down'[c], k, n)
             /\ RolesTold(app[c], down[c], k, n) => RolesTold(app'[c], down'[c], k, n)
    BY <1>1, <1>2, <1>3, ToldSignal
<1> QED
    BY <1>3, PhaseLocal DEF hubVars

\* A message is taken.
LEMMA PhaseReceive ==
    ASSUME SessionInv, PhaseInv, NEW b \in Browsers, Receive(b)
    PROVE  PhaseInv'
<1>1. /\ app[b] \in AppStates /\ down[b] \in Seq(Messages) /\ down[b] # <<>>
      /\ Head(down[b]) \in Messages
    BY DEF Receive, SessionInv, PageType, HubType
<1>2. /\ app'[b] = OnNotice(app[b], Head(down[b])) /\ down'[b] = Tail(down[b])
      /\ \A c \in Browsers \ {b} : app'[c] = app[c] /\ down'[c] = down[c]
      /\ UNCHANGED <<seen, ws, gen, line, fate>>
    BY DEF Receive, SessionInv, PageType, HubType, hubVars
<1>3. app'[b].room = app[b].room
    BY <1>1, <1>2, NoticeType
<1>4. \A k, n \in Nat : Told(app[b], down[b], k, n) =>
            /\ Told(app'[b], down'[b], k, n)
            /\ RolesTold(app[b], down[b], k, n) => RolesTold(app'[b], down'[b], k, n)
    BY <1>1, <1>2, ToldTake
<1> QED
    BY <1>2, <1>3, <1>4, PhaseLocal

\* Steps of a peer connection: what opens a channel belongs to one who joined.
LEMMA PhaseRtc ==
    ASSUME Eager, SessionInv, LeakInv, FreshInv, PhaseInv, NEW b \in Browsers,
           Rtc(b) \/ LinkBreaks(b)
    PROVE  PhaseInv'
<1>1. CASE SendOffer(b)
    <2>1. Offer(Id(b)) \in Offers \cup Answers
        BY SockType DEF SessionInv, Offer, Offers
    <2> QED
        BY <1>1, <2>1, PhaseSend DEF SendOffer
<1>2. CASE SendAnswer(b)
    <2>1. Answer(Id(b), pc[b].heard) \in Offers \cup Answers
        BY <1>2, SockType DEF SendAnswer, SessionInv, ConnFits, Answer, Answers
    <2> QED
        BY <1>2, <2>1, PhaseSend DEF SendAnswer
<1>3. CASE UNCHANGED down
    <2>1. RtcPage(b) /\ (pc[b] # NoPC => app[b].status = "joined")
        BY RtcTouches, RtcNeeds, InUse
    <2>2. \A k, n \in Nat : Told(app[b], down[b], k, n) =>
            /\ Told(app'[b], down'[b], k, n)
            /\ RolesTold(app[b], down[b], k, n) => RolesTold(app'[b], down'[b], k, n)
        BY <1>3, <2>1, ToldTouch DEF RtcPage
    <2> QED
        BY <1>3, <2>1, <2>2, PhaseLocal DEF RtcPage
<1> QED
    BY <1>1, <1>2, <1>3
    DEF Rtc, FetchDone, ChannelOpens, IceConnects, LinkDies, LinkBreaks, Ice

\* Where one stood who stands at a place of a line after a step of the hub, and
\* what he was told: nothing happened there; the line has grown behind him; he is
\* the new one; the one at place i has left the line.
Unmoved(c, r, k) ==
    /\ k \in 1 .. Len(line[r]) /\ Stands(c, r, k) /\ line'[r] = line[r]
    /\ down'[c] = down[c] /\ (fate'[r] = "hosted" => fate[r] = "hosted")
Followed(c, r, k) ==
    /\ k \in 1 .. Len(line[r]) /\ Stands(c, r, k) /\ Len(line'[r]) = Len(line[r]) + 1
    /\ \A j \in 1 .. Len(line[r]) : line'[r][j] = line[r][j]
    /\ down'[c] = down[c] \o EnterNote(k, Len(line[r]) + 1) /\ fate'[r] = fate[r]
Newest(c, r, k) ==
    /\ k = Len(line[r]) + 1 /\ Len(line'[r]) = k /\ ws[c] = "connecting" /\ app[c].room = r
    /\ down[c] = <<>> /\ down'[c] = down[c] \o EnterNote(k, k)
    /\ fate'[r] = "hosted" => IF Len(line[r]) > 0 THEN fate[r] = "hosted"
                              ELSE app[c].role = "offerer"
Remains(c, r, p, i) ==
    /\ i \in 1 .. Len(line[r]) /\ Len(line'[r]) = Len(line[r]) - 1
    /\ \E k \in 1 .. Len(line[r]) :
            k # i /\ p = (IF k < i THEN k ELSE k - 1) /\ Stands(c, r, k)
    /\ \A j \in 1 .. (Len(line[r]) - 1) : j < i => line'[r][j] = line[r][j]
    /\ down'[c] = down[c] \o LeaveNote(p, i, Len(line[r]) - 1)
    /\ fate'[r] = "hosted" => fate[r] = "hosted"

\* A socket opens.
LEMMA Entered ==
    ASSUME SessionInv, NetInv, NEW b \in Browsers, Enter(b),
           NEW c \in Browsers, NEW r \in RoomIDs, NEW k \in 1 .. Len(line'[r]), Stands(c, r, k)'
    PROVE  Unmoved(c, r, k) \/ Followed(c, r, k) \/ Newest(c, r, k)
<1>1. PICK q \in RoomIDs : q = seen[b].room
    BY NetEnter
<1>2. PICK l : l = Append(line[q], Sock(b))
    OBVIOUS
<1>3. PICK n : n = Len(line[q])
    OBVIOUS
<1>4. /\ line[q] \in Seq(Ids) /\ n \in Nat /\ Sock(b) \in Ids /\ l \in Seq(Ids)
      /\ Len(l) = n + 1 /\ l[n + 1] = Sock(b) /\ \A j \in 1 .. n : l[j] = line[q][j]
      /\ ToSet(l) = ToSet(line[q]) \cup {Sock(b)}
      /\ \A x \in RoomIDs : Sock(b) \notin ToSet(line[x])
    BY <1>2, <1>3, LineType, SockType, AppendProperties, ToSetAppend, NetEnter DEF SessionInv
<1>5. /\ \A x \in RoomIDs : /\ line'[x] = IF x = q THEN l ELSE line[x]
                            /\ fate'[x] = IF x # q \/ Len(l) > 1 THEN fate[x]
                                          ELSE IF fate[q] = "made" /\ app[b].role = "offerer"
                                               THEN "hosted" ELSE "stray"
      /\ \A x \in Browsers : ws'[x] = IF x = b THEN "open" ELSE ws[x]
      /\ UNCHANGED <<app, seen, gen>> /\ ws[b] = "connecting"
      /\ Deliver(EnterNotes(l), Open \cup {b})
    BY <1>1, <1>2 DEF Enter, SessionInv, HubType
<1>6. IsInjective(l)
    BY <1>5, NetEnter DEF NetInv
<1>7. /\ ws'[c] = "open" /\ seen[c].room = r /\ app[c].room = r /\ line'[r][k] = Sock(c)
      /\ Sock(c)[1] = c
    BY <1>5 DEF Stands, Sock
<1>8. down'[c] = IF c \in Open \cup {b} /\ Sock(c) \in ToSet(l)
                 THEN down[c] \o EnterNotes(l)[Sock(c)] ELSE down[c]
    BY <1>4, <1>5, NotesAre DEF Deliver
<1>9. ASSUME k \in 1 .. (n + 1), l[k] = Sock(c) PROVE down'[c] = down[c] \o EnterNote(k, n + 1)
    <2>1. Sock(c) \in ToSet(l) /\ PlaceIn(l, Sock(c)) = k
        BY <1>4, <1>6, <1>9, PlaceOf
    <2>2. EnterNotes(l)[Sock(c)] = EnterNote(k, n + 1)
        BY <1>4, <2>1, NotesAre
    <2>3. c \in Open \cup {b}
        BY <1>5, <1>7 DEF Open
    <2> QED
        BY <1>8, <2>1, <2>2, <2>3
<1>10. CASE r # q
    <2>1. c # b /\ line'[r] = line[r] /\ fate'[r] = fate[r] /\ ws[c] = "open"
        BY <1>1, <1>5, <1>7, <1>10
    <2>2. Sock(c) \notin ToSet(line[q])
        BY <1>7, <1>10, NoRoomAssumption DEF NetInv, LineFits
    <2>3. Sock(c) # Sock(b)
        BY <2>1 DEF Sock
    <2>4. down'[c] = down[c]
        BY <1>4, <1>8, <2>2, <2>3
    <2> QED
        BY <1>7, <2>1, <2>4 DEF Stands, Unmoved
<1>11. CASE r = q /\ k # n + 1
    <2>1. k \in 1 .. (n + 1) /\ k \in 1 .. n /\ line'[q] = l
        BY <1>4, <1>5, <1>11
    <2>2. l[k] = Sock(c) /\ line[q][k] = Sock(c)
        BY <1>4, <1>7, <1>11, <2>1
    <2>3. Sock(c) \in ToSet(line[q])
        BY <1>3, <1>4, <2>1, <2>2, LineType DEF SessionInv
    <2>4. c # b /\ ws[c] = "open"
        BY <1>4, <1>5, <1>7, <2>3
    <2>5. fate'[q] = fate[q] /\ Len(line'[q]) = n + 1
        BY <1>4, <1>5, <2>1
    <2>6. down'[c] = down[c] \o EnterNote(k, n + 1)
        BY <1>9, <2>1, <2>2
    <2>7. Stands(c, q, k)
        BY <1>7, <1>11, <2>2, <2>4 DEF Stands
    <2>8. \A j \in 1 .. n : line'[q][j] = line[q][j]
        BY <1>4, <2>1
    <2> QED
        BY <1>3, <1>11, <2>1, <2>5, <2>6, <2>7, <2>8 DEF Followed
<1>12. CASE r = q /\ k = n + 1
    <2>1. n + 1 \in 1 .. (n + 1) /\ l[n + 1] = Sock(c) /\ Sock(c) = Sock(b)
        BY <1>4, <1>5, <1>7, <1>12
    <2>2. c = b
        BY <2>1 DEF Sock
    <2>3. down'[b] = down[b] \o EnterNote(k, k)
        BY <1>9, <1>12, <2>1, <2>2
    <2>4. down[b] = <<>>
        BY <1>5 DEF NetInv
    <2>5. Len(line'[q]) = n + 1 /\ (Len(l) > 1 <=> n > 0)
        BY <1>4, <1>5
    <2>6. fate'[q] = "hosted" => IF n > 0 THEN fate[q] = "hosted" ELSE app[b].role = "offerer"
        BY <1>5, <2>5
    <2> QED
        BY <1>3, <1>5, <1>7, <1>12, <2>2, <2>3, <2>4, <2>5, <2>6 DEF Newest
<1> QED
    BY <1>10, <1>11, <1>12

LEMMA PhaseEnter ==
    ASSUME SessionInv, NetInv, FreshInv, FateInv, PhaseInv, NEW b \in Browsers, Enter(b)
    PROVE  PhaseInv'
<1> SUFFICES ASSUME NEW c \in Browsers, NEW r \in RoomIDs, NEW k \in 1 .. Len(line'[r]),
                    Stands(c, r, k)'
             PROVE  /\ Told(app[c], down'[c], k, Len(line'[r]))
                    /\ fate'[r] = "hosted" => RolesTold(app[c], down'[c], k, Len(line'[r]))
    BY DEF PhaseInv, PhaseFits, Enter
<1>1. PICK n, d : n = Len(line[r]) /\ d = down[c]
    OBVIOUS
<1>2. n \in Nat /\ d \in Seq(Messages)
    BY <1>1, LineType DEF SessionInv, HubType
<1>3. k \in 1 .. n /\ Stands(c, r, k) =>
        Told(app[c], d, k, n) /\ (fate[r] = "hosted" => RolesTold(app[c], d, k, n))
    BY <1>1 DEF PhaseInv, PhaseFits
<1>4. CASE Unmoved(c, r, k)
    BY <1>1, <1>3, <1>4 DEF Unmoved
<1>5. CASE Followed(c, r, k)
    <2>1. /\ k \in 1 .. n /\ Stands(c, r, k) /\ Len(line'[r]) = n + 1
          /\ fate'[r] = fate[r] /\ down'[c] = d \o EnterNote(k, n + 1)
        BY <1>1, <1>5 DEF Followed
    <2> QED
        BY <1>2, <1>3, <2>1, ToldEnter
<1>6. CASE Newest(c, r, k)
    <2>0. /\ k = n + 1 /\ Len(line'[r]) = n + 1 /\ d = <<>> /\ ws[c] = "connecting"
          /\ app[c].room = r /\ down'[c] = d \o EnterNote(n + 1, n + 1)
          /\ fate'[r] = "hosted" => IF n > 0 THEN fate[r] = "hosted"
                                    ELSE app[c].role = "offerer"
        BY <1>1, <1>6 DEF Newest
    <2>1. app[c].status = "waiting" /\ app[c].pos = 0
        BY <2>0 DEF FreshInv
    <2>2. ASSUME fate'[r] = "hosted", n = 0 PROVE app[c].role = "offerer"
        BY <2>0, <2>2
    <2>3. ASSUME fate'[r] = "hosted", n = 1 PROVE app[c].role = "answerer"
        <3>1. fate[r] = "hosted" /\ app[c].role \in Roles
            BY <2>0, <2>3 DEF SessionInv, PageType, AppStates
        <3>2. Bound(c, r, app[c].role)
            BY <2>0 DEF Bound, BoundTo
        <3> QED
            BY <3>1, <3>2 DEF FateInv, FateFits, Roles
    <2>4. /\ Told(app[c], d \o EnterNote(n + 1, n + 1), n + 1, n + 1)
          /\ fate'[r] = "hosted" =>
                RolesTold(app[c], d \o EnterNote(n + 1, n + 1), n + 1, n + 1)
        BY <1>2, <2>0, <2>1, <2>2, <2>3, ToldNew
    <2> QED
        BY <2>0, <2>4
<1> QED
    BY <1>4, <1>5, <1>6, Entered

\* A socket leaves.
LEMMA Shortened ==
    ASSUME SessionInv, NetInv, NEW q \in RoomIDs, NEW i \in DOMAIN line[q], HubLeave(q, i),
           NEW c \in Browsers, NEW r \in RoomIDs, NEW p \in 1 .. Len(line'[r]), Stands(c, r, p)'
    PROVE  Unmoved(c, r, p) \/ Remains(c, r, p, i)
<1>1. PICK n : n = Len(line[q])
    OBVIOUS
<1>2. PICK l : l = RemoveAt(line[q], i)
    OBVIOUS
<1>3. /\ line[q] \in Seq(Ids) /\ n \in Nat /\ i \in 1 .. n /\ IsInjective(line[q])
    BY <1>1, LineType DEF SessionInv, NetInv
<1>4. /\ l \in Seq(Ids) /\ Len(l) = n - 1 /\ n - 1 \in Nat
      /\ \A k \in 1 .. (n - 1) : l[k] = IF k < i THEN line[q][k] ELSE line[q][k + 1]
      /\ IsInjective(l) /\ ToSet(l) = ToSet(line[q]) \ {line[q][i]}
    <2>1. i \in 1 .. Len(line[q])
        BY <1>1, <1>3
    <2>2. IsInjective(l) /\ ToSet(l) = ToSet(line[q]) \ {line[q][i]}
        BY <1>2, <1>3, <2>1, RemoveAtInjective
    <2>3. /\ l \in Seq(Ids) /\ Len(l) = n - 1
          /\ \A k \in 1 .. (n - 1) : l[k] = IF k < i THEN line[q][k] ELSE line[q][k + 1]
        BY <1>1, <1>2, <1>3, <2>1, RemoveAtProperties
    <2>4. n - 1 \in Nat
        BY <1>3
    <2> QED
        BY <2>2, <2>3, <2>4
<1>5. /\ \A x \in RoomIDs : /\ line'[x] = IF x = q THEN l ELSE line[x]
                            /\ fate'[x] = "hosted" => fate[x] = "hosted"
      /\ UNCHANGED <<app, seen, ws, gen>>
      /\ Deliver(LeaveNotes(l, i), Open)
    BY <1>2 DEF HubLeave, SessionInv, HubType
<1>6. /\ ws[c] = "open" /\ seen[c].room = r /\ app[c].room = r /\ line'[r][p] = Sock(c)
      /\ Sock(c)[1] = c
    BY <1>5 DEF Stands, Sock
<1>7. down'[c] = IF c \in Open /\ Sock(c) \in ToSet(l)
                 THEN down[c] \o LeaveNotes(l, i)[Sock(c)] ELSE down[c]
    BY <1>4, <1>5, NotesAre DEF Deliver
<1>8. CASE r # q
    <2>1. line'[r] = line[r]
        BY <1>5, <1>8
    <2>2. Sock(c) \notin ToSet(line[q])
        BY <1>6, <1>8, NoRoomAssumption DEF NetInv, LineFits
    <2>3. down'[c] = down[c]
        BY <1>4, <1>7, <2>2
    <2> QED
        BY <1>5, <1>6, <2>1, <2>3 DEF Stands, Unmoved
<1>9. CASE r = q
    <2>1. p \in 1 .. (n - 1) /\ l[p] = Sock(c) /\ line'[r] = l
        BY <1>4, <1>5, <1>6, <1>9
    <2>2. PICK k \in 1 .. n : k # i /\ p = (IF k < i THEN k ELSE k - 1) /\ line[q][k] = Sock(c)
        <3>1. CASE p < i
            BY <1>3, <1>4, <2>1, <3>1
        <3>2. CASE ~(p < i)
            <4>1. p + 1 \in 1 .. n /\ line[q][p + 1] = Sock(c) /\ p + 1 # i /\ ~(p + 1 < i)
                  /\ p = (p + 1) - 1
                BY <1>3, <1>4, <2>1, <3>2
            <4> QED
                BY <4>1
        <3> QED
            BY <3>1, <3>2
    <2>3. Stands(c, q, k)
        BY <1>6, <1>9, <2>2 DEF Stands
    <2>4. Sock(c) \in ToSet(l) /\ PlaceIn(l, Sock(c)) = p
        BY <1>4, <2>1, PlaceOf
    <2>5. down'[c] = down[c] \o LeaveNote(p, i, n - 1)
        <3>1. LeaveNotes(l, i)[Sock(c)] = LeaveNote(p, i, n - 1)
            BY <1>4, <2>4, NotesAre
        <3> QED
            BY <1>6, <1>7, <2>4, <3>1 DEF Open
    <2>6. \A j \in 1 .. (n - 1) : j < i => line'[q][j] = line[q][j]
        BY <1>4, <1>9, <2>1
    <2> QED
        BY <1>1, <1>3, <1>4, <1>5, <1>9, <2>1, <2>2, <2>3, <2>5, <2>6 DEF Remains
<1> QED
    BY <1>8, <1>9

LEMMA PhaseLeave ==
    ASSUME SessionInv, NetInv, PhaseInv, NEW q \in RoomIDs, NEW i \in DOMAIN line[q],
           HubLeave(q, i)
    PROVE  PhaseInv'
<1> SUFFICES ASSUME NEW c \in Browsers, NEW r \in RoomIDs, NEW p \in 1 .. Len(line'[r]),
                    Stands(c, r, p)'
             PROVE  /\ Told(app[c], down'[c], p, Len(line'[r]))
                    /\ fate'[r] = "hosted" => RolesTold(app[c], down'[c], p, Len(line'[r]))
    BY DEF PhaseInv, PhaseFits, HubLeave
<1>1. PICK n, d : n = Len(line[r]) /\ d = down[c]
    OBVIOUS
<1>2. n \in Nat /\ d \in Seq(Messages)
    BY <1>1, LineType DEF SessionInv, HubType
<1>3. \A k \in 1 .. n : Stands(c, r, k) =>
        Told(app[c], d, k, n) /\ (fate[r] = "hosted" => RolesTold(app[c], d, k, n))
    BY <1>1 DEF PhaseInv, PhaseFits
<1>4. CASE Unmoved(c, r, p)
    BY <1>1, <1>3, <1>4 DEF Unmoved
<1>5. CASE Remains(c, r, p, i)
    <2>1. /\ i \in 1 .. n /\ Len(line'[r]) = n - 1 /\ down'[c] = d \o LeaveNote(p, i, n - 1)
          /\ fate'[r] = "hosted" => fate[r] = "hosted"
        BY <1>1, <1>5 DEF Remains
    <2>2. PICK k \in 1 .. n : k # i /\ p = (IF k < i THEN k ELSE k - 1) /\ Stands(c, r, k)
        BY <1>1, <1>5 DEF Remains
    <2>3. p \in Nat
        BY <1>2, <2>2
    <2>4. /\ Told(app[c], d \o LeaveNote(p, i, n - 1), p, n - 1)
          /\ fate[r] = "hosted" => RolesTold(app[c], d \o LeaveNote(p, i, n - 1), p, n - 1)
        BY <1>2, <1>3, <2>1, <2>2, <2>3, ToldLeave
    <2> QED
        BY <2>1, <2>4
<1> QED
    BY <1>4, <1>5, Shortened

\* Every step keeps it, if React is quick.
LEMMA PhaseStep ==
    ASSUME Eager, SessionInv, LeakInv, NetInv, FreshInv, FateInv, PhaseInv, [Next]_vars
    PROVE  PhaseInv'
<1>1. CASE HubLeaves
    BY <1>1, PhaseLeave DEF HubLeaves
<1>2. ASSUME NEW b \in Browsers, Disconnect(b) PROVE PhaseInv'
    BY <1>2, PhaseReset DEF Disconnect, Reset, Start, SessionInv, PageType, hubVars
<1>3. ASSUME NEW b \in Browsers, NEW r \in RoomIDs, NEW role, NEW call, GoTo(b, r, role, call),
             UNCHANGED fate \/ fate' = [fate EXCEPT ![r] = "made"]
      PROVE  PhaseInv'
    <2>1. \A q \in RoomIDs : fate'[q] = "hosted" => fate[q] = "hosted"
        BY <1>3 DEF SessionInv, HubType
    <2> QED
        BY <1>3, <2>1, PhaseReset DEF GoTo, Reset, Start, SessionInv, PageType
<1>4. ASSUME NEW b \in Browsers, JoinTimer(b) PROVE PhaseInv'
    <2>1. /\ seen'[b].room = NoRoom /\ \A c \in Browsers \ {b} : app'[c] = app[c]
          /\ UNCHANGED <<seen, ws, down, gen, line, fate>>
        BY <1>4 DEF JoinTimer, SessionInv, PageType, hubVars
    <2> QED
        BY <2>1, PhaseLocal
<1>5. ASSUME NEW b \in Browsers, WsLost(b) PROVE PhaseInv'
    <2>1. /\ ws'[b] # "open" /\ \A c \in Browsers \ {b} : ws'[c] = ws[c] /\ down'[c] = down[c]
          /\ UNCHANGED <<app, seen, gen, line, fate>>
        BY <1>5 DEF WsLost, SessionInv, HubType, hubVars
    <2> QED
        BY <2>1, PhaseLocal
<1>6. CASE UNCHANGED vars
    BY <1>6, PhaseLocal DEF vars, hubVars
<1>7. ASSUME NEW b \in Browsers, User(b) PROVE PhaseInv'
    BY <1>2, <1>3, <1>7
    DEF User, PressDisconnect, HandleCreate, HandleJoin, HandleCall, HandleAcceptInvite
<1>8. ASSUME NEW b \in Browsers, Timers(b) PROVE PhaseInv'
    BY <1>2, <1>4, <1>8 DEF Timers, WatchdogFires, GraceExpires
<1>9. ASSUME NEW b \in Browsers, Commit(b) \/ Enter(b) \/ Receive(b) PROVE PhaseInv'
    BY <1>9, PhaseCommit, PhaseEnter, PhaseReceive
<1>10. ASSUME NEW b \in Browsers, Rtc(b) \/ LinkBreaks(b) PROVE PhaseInv'
    BY <1>10, PhaseRtc
<1> QED
    BY <1>1, <1>5, <1>6, <1>7, <1>8, <1>9, <1>10 DEF Next, Calm, Browser, Trouble

\* In the initial states nobody stands anywhere.
LEMMA PhaseInit == Init => PhaseInv
BY DEF Init, PhaseInv, PhaseFits, Stands

\* All that holds when React is quick, with the places and the roles.
LEMMA RoomInvariant ==
    Eager => (Spec => [](SessionInv /\ LeakInv /\ NetInv /\ ReleasedInv
                            /\ FreshInv /\ FateInv /\ PhaseInv))
<1> SUFFICES ASSUME Eager
             PROVE  Spec => [](SessionInv /\ LeakInv /\ NetInv /\ ReleasedInv
                                    /\ FreshInv /\ FateInv /\ PhaseInv)
    OBVIOUS
<1>1. Init => FreshInv /\ FateInv /\ PhaseInv
    BY FateInit, PhaseInit
<1>2. ASSUME SessionInv, CallInv, LeakInv, NetInv, ReleasedInv, FreshInv, FateInv, PhaseInv,
             [Next]_vars
      PROVE  FreshInv' /\ FateInv' /\ PhaseInv'
    <2>1. FreshInv'
        BY <1>2, FreshStep
    <2>2. FateInv'
        BY <1>2, FateStep
    <2>3. PhaseInv'
        BY <1>2, PhaseStep
    <2> QED
        BY <2>1, <2>2, <2>3
<1> QED
    BY <1>1, <1>2, QuickInvariant, PTL DEF Spec

\* One who is in a line, and has rendered, stands in the line of his room.
LEMMA StandsThere ==
    ASSUME SessionInv, NetInv, NEW b \in Browsers, NEW r \in RoomIDs,
           NEW k \in 1 .. Len(line[r]), line[r][k] = Sock(b), Live(Sock(b)), Rendered(b)
    PROVE  Stands(b, r, k)
<1>1. ws[b] = "open" /\ Sock(b)[1] = b
    BY DEF Live, Sock
<1>2. Sock(b) \in ToSet(line[r])
    BY LineType DEF SessionInv
<1>3. seen[b].room = r
    BY <1>1, <1>2 DEF SessionInv, WayFits, NetInv, LineFits
<1>4. app[b].room = seen[b].room
    <2>1. app[b] \in AppStates
        BY DEF SessionInv, PageType
    <2> QED
        BY <2>1, ShownType DEF Rendered
<1> QED
    BY <1>1, <1>3, <1>4 DEF Stands

\* Who waits in the queue of a room is shown the place the hub has for him,
\* through all that leave before him, and who does not wait is shown none:
\* queued, queue-position and the messages that end the waiting reach the page
\* in the order in which the hub meant them (AppPage.jsx), if React renders
\* before the next event.
THEOREM PlacesAreShown == Eager => (Spec => []PlaceIsShown)
<1> SUFFICES ASSUME Eager PROVE Spec => []PlaceIsShown
    OBVIOUS
<1>1. ASSUME SessionInv, NetInv, PhaseInv PROVE PlaceIsShown
    <2> SUFFICES ASSUME NEW r \in RoomIDs, NEW i \in DOMAIN line[r], NEW b, b = line[r][i][1],
                        Live(line[r][i]), Caught(b)
                 PROVE  app[b].pos = (IF i > 2 THEN i - 2 ELSE 0)
        BY DEF PlaceIsShown
    <2>1. i \in 1 .. Len(line[r]) /\ b \in Browsers
        BY <1>1, LineType DEF SessionInv
    <2>2. line[r][i] = Sock(b) /\ Live(Sock(b)) /\ Rendered(b) /\ down[b] = <<>>
        BY DEF Live, Caught
    <2>3. Stands(b, r, i) /\ PhaseFits(b, r, i)
        BY <1>1, <2>1, <2>2, StandsThere DEF PhaseInv
    <2>4. Told(app[b], down[b], i, Len(line[r]))
        BY <2>3 DEF PhaseFits
    <2>5. Ends(app[b], down[b], IF i > 2 THEN i - 2 ELSE 0)
        BY <2>4 DEF Told
    <2>6. ASSUME NEW p, Ends(app[b], <<>>, p) PROVE app[b].pos = p
        <3>1. DOMAIN <<>> = {}
            OBVIOUS
        <3> QED
            BY <2>6, <3>1, Zenon DEF Ends
    <2> QED
        BY <2>2, <2>5, <2>6, Zenon
<1> QED
    BY <1>1, RoomInvariant, PTL

\* The role of one of a pair that has taken and rendered what it was told.
LEMMA RoleOfPlace ==
    ASSUME SessionInv, NetInv, PhaseInv, NEW b \in Browsers, NEW r \in RoomIDs,
           NEW k \in {1, 2}, Len(line[r]) >= 2, line[r][k] = Sock(b), Live(Sock(b)), Caught(b),
           fate[r] = "hosted"
    PROVE  ActiveRole(app[b]) = IF k = 1 THEN "offerer" ELSE "answerer"
<1>1. k \in 1 .. Len(line[r]) /\ Len(line[r]) # 1 /\ ~(k > 2)
    BY LineType DEF SessionInv
<1>2. Stands(b, r, k) /\ PhaseFits(b, r, k)
    BY <1>1, StandsThere DEF Caught, PhaseInv
<1>3. Joined(app[b], down[b]) /\ RoleJoined(app[b], down[b], k)
    BY <1>1, <1>2 DEF PhaseFits, Told, RolesTold
<1> QED
    BY <1>3 DEF Caught, Joined, RoleJoined, ActiveRole

\* In a room that its maker was the first to enter, one of the pair that may
\* talk offers and the other answers, through all departures, promotions and
\* returns (peer-left, peer-joined and queue-promoted in AppPage.jsx), if React
\* renders before the next event.
THEOREM RolesAlwaysFit == Eager => (Spec => []RolesFit)
<1> SUFFICES ASSUME Eager PROVE Spec => []RolesFit
    OBVIOUS
<1>1. ASSUME SessionInv, NetInv, PhaseInv PROVE RolesFit
    <2> SUFFICES ASSUME NEW r \in RoomIDs, NEW b \in Browsers, NEW c \in Browsers, b # c,
                        fate[r] = "hosted", Pair(r, b, c), Caught(b), Caught(c)
                 PROVE  {ActiveRole(app[b]), ActiveRole(app[c])} = {"offerer", "answerer"}
        BY DEF RolesFit
    <2>1. Len(line[r]) >= 2 /\ Live(Sock(b)) /\ Live(Sock(c))
        BY DEF Pair
    <2>2. Sock(b) # Sock(c)
        BY DEF Sock
    <2>3. \/ line[r][1] = Sock(b) /\ line[r][2] = Sock(c)
          \/ line[r][1] = Sock(c) /\ line[r][2] = Sock(b)
        BY <2>2 DEF Pair
    <2> QED
        BY <1>1, <2>1, <2>3, RoleOfPlace
<1> QED
    BY <1>1, RoomInvariant, PTL

-----------------------------------------------------------------------------
(***************************************************************************)
(* With whom a browser talks.  The signals on their way to it come from    *)
(* the one who is its partner, unless a later message says that he has     *)
(* left; and so does what its peer connection has heard, unless such a     *)
(* message is on its way or the connection is about to be closed.  A data  *)
(* channel belongs to the connection, and is given up before that closes.  *)
(***************************************************************************)
FromNow(d, S) ==
    \A j \in DOMAIN d :
        Signals(d[j]) /\ (\A i \in DOMAIN d : i > j => ~Left(d[i])) => d[j].by[1] \in S
HeardFrom(h, d, S) == (\A i \in DOMAIN d : ~Left(d[i])) => h = None \/ h[1] \in S

\* What a message that is sent, and one that is taken, makes of these.
LEMMA HeedGrow ==
    ASSUME NEW d, NEW e, NEW m, Grown(d, e, m), NEW S
    PROVE  /\ Left(m) => FromNow(e, S) /\ \A h : HeardFrom(h, e, S)
           /\ ~Left(m) /\ (Signals(m) => m.by[1] \in S) /\ FromNow(d, S) => FromNow(e, S)
           /\ \A h : ~Left(m) /\ HeardFrom(h, d, S) => HeardFrom(h, e, S)
<1> PICK n \in Nat : /\ DOMAIN d = 1 .. n /\ DOMAIN e = 1 .. (n + 1)
                     /\ e[n + 1] = m /\ \A i \in 1 .. n : e[i] = d[i]
    BY DEF Grown
<1>1. ASSUME Left(m) PROVE FromNow(e, S) /\ \A h : HeardFrom(h, e, S)
    <2>1. n + 1 \in DOMAIN e /\ Left(e[n + 1]) /\ ~Signals(e[n + 1])
        BY <1>1 DEF Left, Signals
    <2> QED
        BY <2>1 DEF FromNow, HeardFrom
<1>2. ASSUME ~Left(m), Signals(m) => m.by[1] \in S, FromNow(d, S) PROVE FromNow(e, S)
    <2> SUFFICES ASSUME NEW j \in DOMAIN e, Signals(e[j]),
                        \A i \in DOMAIN e : i > j => ~Left(e[i])
                 PROVE  e[j].by[1] \in S
        BY DEF FromNow
    <2>1. CASE j = n + 1
        BY <1>2, <2>1
    <2>2. CASE j \in 1 .. n
        <3>1. \A i \in DOMAIN d : i > j => ~Left(d[i])
            OBVIOUS
        <3> QED
            BY <1>2, <2>2, <3>1 DEF FromNow
    <2> QED
        BY <2>1, <2>2
<1>3. ASSUME NEW h, ~Left(m), HeardFrom(h, d, S) PROVE HeardFrom(h, e, S)
    BY <1>3 DEF HeardFrom
<1> QED
    BY <1>1, <1>2, <1>3

LEMMA HeedTake ==
    ASSUME NEW d, NEW e, NEW m, Shrunk(d, e, m), NEW S, FromNow(d, S)
    PROVE  /\ FromNow(e, S)
           /\ \A h : ~Left(m) /\ HeardFrom(h, d, S) => HeardFrom(h, e, S)
           /\ Signals(m) => HeardFrom(m.by, e, S)
<1> PICK n \in Nat : /\ DOMAIN d = 1 .. (n + 1) /\ DOMAIN e = 1 .. n
                     /\ d[1] = m /\ \A i \in 1 .. n : e[i] = d[i + 1]
    BY DEF Shrunk
<1>1. ASSUME NEW j \in DOMAIN e, \A i \in DOMAIN e : i >= j => ~Left(e[i])
      PROVE  \A i \in DOMAIN d : i > j => ~Left(d[i])
    <2> SUFFICES ASSUME NEW i \in DOMAIN d, i > j PROVE ~Left(d[i])
        OBVIOUS
    <2>1. i - 1 \in DOMAIN e /\ e[i - 1] = d[i] /\ i - 1 >= j
        OBVIOUS
    <2> QED
        BY <1>1, <2>1
<1>2. FromNow(e, S)
    <2> SUFFICES ASSUME NEW j \in DOMAIN e, Signals(e[j]),
                        \A i \in DOMAIN e : i > j => ~Left(e[i])
                 PROVE  e[j].by[1] \in S
        BY DEF FromNow
    <2>1. j + 1 \in DOMAIN d /\ d[j + 1] = e[j] /\ ~Left(e[j])
        BY DEF Signals, Left
    <2>2. \A i \in DOMAIN e : i >= j => ~Left(e[i])
        BY <2>1
    <2>3. \A i \in DOMAIN d : i > j + 1 => ~Left(d[i])
        BY <1>1, <2>2
    <2> QED
        BY <2>1, <2>3 DEF FromNow
<1>3. ASSUME \A i \in DOMAIN e : ~Left(e[i]) PROVE \A i \in DOMAIN d : i > 1 => ~Left(d[i])
    <2> SUFFICES ASSUME NEW i \in DOMAIN d, i > 1 PROVE ~Left(d[i])
        OBVIOUS
    <2>1. i - 1 \in DOMAIN e /\ e[i - 1] = d[i]
        OBVIOUS
    <2> QED
        BY <1>3, <2>1
<1>4. ASSUME NEW h, ~Left(m), HeardFrom(h, d, S) PROVE HeardFrom(h, e, S)
    BY <1>3, <1>4 DEF HeardFrom
<1>5. ASSUME Signals(m) PROVE HeardFrom(m.by, e, S)
    BY <1>3, <1>5 DEF HeardFrom, FromNow
<1> QED
    BY <1>2, <1>4, <1>5

\* The hub's notices are no signals; who is told that his partner has left
\* need not have heard from anybody.
LEMMA HeedNotes ==
    ASSUME NEW d \in Seq(Messages), NEW n \in Nat, NEW k \in 1 .. n, NEW i \in Nat, NEW S
    PROVE  /\ FromNow(d, S) => FromNow(d \o EnterNote(k, n), S)
           /\ \A h : HeardFrom(h, d, S) => HeardFrom(h, d \o EnterNote(k, n), S)
           /\ k # 1 \/ i > 2 =>
                /\ FromNow(d, S) => FromNow(d \o LeaveNote(k, i, n), S)
                /\ \A h : HeardFrom(h, d, S) => HeardFrom(h, d \o LeaveNote(k, i, n), S)
           /\ k = 1 /\ i <= 2 =>
                /\ FromNow(d \o LeaveNote(k, i, n), S)
                /\ \A h : HeardFrom(h, d \o LeaveNote(k, i, n), S)
<1>1. ASSUME NEW m \in Messages, ~Left(m), ~Signals(m)
      PROVE  /\ FromNow(d, S) => FromNow(d \o <<m>>, S)
             /\ \A h : HeardFrom(h, d, S) => HeardFrom(h, d \o <<m>>, S)
    <2> PICK e : e = d \o <<m>>
        OBVIOUS
    <2>1. Grown(d, e, m)
        BY SayOne
    <2> QED
        BY <1>1, <2>1, HeedGrow
<1>2. ASSUME NEW m \in Messages, Left(m)
      PROVE  /\ FromNow(d \o <<m>>, S)
             /\ \A h : HeardFrom(h, d \o <<m>>, S)
    <2> PICK e : e = d \o <<m>>
        OBVIOUS
    <2>1. Grown(d, e, m)
        BY SayOne
    <2> QED
        BY <1>2, <2>1, HeedGrow
<1>3. ASSUME NEW m \in Messages, Left(m), NEW q \in Messages, ~Left(q), ~Signals(q)
      PROVE  /\ FromNow(d \o <<m, q>>, S)
             /\ \A h : HeardFrom(h, d \o <<m, q>>, S)
    <2> PICK e, f : e = d \o <<m>> /\ f = d \o <<m, q>>
        OBVIOUS
    <2>1. Grown(e, f, q)
        BY SayTwo
    <2>2. FromNow(e, S) /\ \A h : HeardFrom(h, e, S)
        BY <1>2, <1>3
    <2> QED
        BY <1>3, <2>1, <2>2, HeedGrow
<1>4. d \o <<>> = d
    BY SayOne
<1>5. /\ \A t \in {"peer-joined", "room-ready", "queue-promoted"} :
            Msg(t) \in Messages /\ ~Left(Msg(t)) /\ ~Signals(Msg(t))
      /\ Msg("peer-left") \in Messages /\ Left(Msg("peer-left"))
    BY Noticed DEF Left, Signals
<1>6. \A t \in {"queued", "queue-position"} : k > 2 =>
            Place(t, k - 2) \in Messages /\ ~Left(Place(t, k - 2)) /\ ~Signals(Place(t, k - 2))
    BY Noticed DEF Left, Signals
<1>7. EnterNote(k, n) = <<>> \/ \E m \in Messages :
        EnterNote(k, n) = <<m>> /\ ~Left(m) /\ ~Signals(m)
    BY <1>5, <1>6 DEF EnterNote
<1>8. k # 1 \/ i > 2 => LeaveNote(k, i, n) = <<>> \/ \E m \in Messages :
        LeaveNote(k, i, n) = <<m>> /\ ~Left(m) /\ ~Signals(m)
    BY <1>5, <1>6 DEF LeaveNote
<1>9. k = 1 /\ i <= 2 => \E m, q \in Messages :
        /\ LeaveNote(k, i, n) \in {<<m>>, <<m, q>>} /\ Left(m) /\ ~Left(q) /\ ~Signals(q)
    BY <1>5 DEF LeaveNote
<1>10. /\ FromNow(d, S) => FromNow(d \o EnterNote(k, n), S)
       /\ \A h : HeardFrom(h, d, S) => HeardFrom(h, d \o EnterNote(k, n), S)
    BY <1>1, <1>4, <1>7
<1>11. ASSUME k # 1 \/ i > 2
       PROVE  /\ FromNow(d, S) => FromNow(d \o LeaveNote(k, i, n), S)
              /\ \A h : HeardFrom(h, d, S) => HeardFrom(h, d \o LeaveNote(k, i, n), S)
    BY <1>1, <1>4, <1>8, <1>11
<1>12. ASSUME k = 1, i <= 2
       PROVE  /\ FromNow(d \o LeaveNote(k, i, n), S)
              /\ \A h : HeardFrom(h, d \o LeaveNote(k, i, n), S)
    BY <1>2, <1>3, <1>9, <1>12
<1> QED
    BY <1>10, <1>11, <1>12

\* The effect that made the peer connection is about to close it.
Closing(a, role) == role # "none" /\ ActiveRole(a) # role

ChanFits(a, p, role) == a.chan \in {0, p.n} /\ (Closing(a, role) => a.chan = 0)
ChanInv == \A b \in Browsers : ChanFits(app[b], pc[b], seen[b].role)

\* Of the messages only peer-left makes the effect close the connection.
LEMMA OnlyLeftCloses ==
    ASSUME Eager, SessionInv, NetInv, PhaseInv, NEW b \in Browsers, Receive(b)
    PROVE  /\ Rendered(b) /\ ~Closing(app[b], seen[b].role)
           /\ ~Left(Head(down[b])) => ~Closing(app'[b], seen[b].role)
           /\ Left(Head(down[b])) /\ seen[b].role # "none" => Closing(app'[b], seen[b].role)
<1> PICK a, o, d, m : a = app[b] /\ o = app'[b] /\ d = down[b] /\ m = Head(down[b])
    OBVIOUS
<1>1. /\ a \in AppStates /\ d \in Seq(Messages) /\ d # <<>> /\ m \in Messages
      /\ Rendered(b) /\ ws[b] = "open" /\ o = OnNotice(a, m)
    BY DEF Receive, MayHandle, SessionInv, PageType, HubType, NetInv
<1>2. seen[b].role = ActiveRole(a) /\ seen[b].room = a.room
    BY <1>1, ShownType DEF Rendered
<1>3. m = d[1] /\ 1 \in DOMAIN d /\ \A k \in DOMAIN d : ~(k < 1)
    <2>1. Shrunk(d, Tail(d), m)
        BY <1>1, ShrunkBy
    <2> QED
        BY <2>1 DEF Shrunk
<1>4. Up(m) \/ m.type = "queued" => a.status = "waiting"
    <2>1. PICK r \in RoomIDs : r = seen[b].room
        BY <1>1 DEF SessionInv, WayFits, PageType, Views
    <2>2. PICK k \in 1 .. Len(line[r]) : line[r][k] = Sock(b)
        BY <1>1, <2>1, LineType, ZenonT(40) DEF SessionInv, NetInv
    <2>3. PhaseFits(b, r, k) /\ Stands(b, r, k)
        BY <1>1, <1>2, <2>1, <2>2 DEF PhaseInv, Stands
    <2>4. Waits(a, d) \/ Alternates(a, d)
        BY <2>3 DEF PhaseFits, Told, Lone, Joined
    <2>5. CASE Waits(a, d)
        BY <2>5 DEF Waits
    <2>6. CASE Alternates(a, d)
        BY <1>3, <2>6 DEF Alternates
    <2> QED
        BY <2>4, <2>5, <2>6
<1>5. CASE Up(m) \/ m.type = "queued"
    <2>1. seen[b].role = "none" /\ ~Left(m)
        BY <1>2, <1>4, <1>5 DEF ActiveRole, Up, Left
    <2> QED
        BY <1>1, <2>1 DEF Closing
<1>6. CASE Left(m)
    <2>1. ActiveRole(o) = "none"
        BY <1>1, <1>6, NoticeEffect DEF ActiveRole
    <2> QED
        BY <1>1, <1>2, <1>6, <2>1 DEF Closing
<1>7. CASE ~Moves(m) /\ m.type # "queued"
    <2>1. o.status = a.status /\ o.role = a.role
        BY <1>1, <1>7, NoticeEffect DEF Numbered
    <2>2. ActiveRole(o) = ActiveRole(a) /\ ~Left(m)
        BY <1>7, <2>1 DEF ActiveRole, Moves
    <2> QED
        BY <1>1, <1>2, <2>2 DEF Closing
<1> QED
    BY <1>5, <1>6, <1>7 DEF Moves

\* Steps that leave all browsers but one alone.
LEMMA ChanOne ==
    ASSUME ChanInv, NEW b \in Browsers,
           \A c \in Browsers \ {b} : app'[c] = app[c] /\ pc'[c] = pc[c] /\ seen'[c] = seen[c],
           ChanFits(app'[b], pc'[b], seen'[b].role)
    PROVE  ChanInv'
BY DEF ChanInv

\* React renders: a connection that is closed has no channel any more.
LEMMA ChanCommit ==
    ASSUME SessionInv, ChanInv, NEW b \in Browsers, Commit(b)
    PROVE  ChanInv'
<1> PICK y : y = Shown(app[b])
    OBVIOUS
<1>1. /\ WebRTCEffect(b, y) /\ app[b] \in AppStates /\ seen' = [seen EXCEPT ![b] = y]
      /\ pc \in [Browsers -> Conns] /\ seen \in [Browsers -> Views]
    BY DEF Commit, SessionInv, PageType, RtcType
<1>2. y.role = ActiveRole(app[b])
    BY <1>1, ShownType
<1>3. /\ app'[b].role = app[b].role /\ app'[b].status = app[b].status
      /\ app'[b].chan = app[b].chan /\ \A c \in Browsers \ {b} : app'[c] = app[c]
    BY <1>1 DEF Commit, SessionInv, PageType, AppStates
<1>4. /\ \A c \in Browsers \ {b} : pc'[c] = pc[c] /\ seen'[c] = seen[c]
      /\ seen'[b] = y
      /\ seen[b].role \in {y.role, "none"} => pc'[b] = pc[b]
      /\ seen[b].role \notin {y.role, "none"} => pc'[b] = NoPC
    BY <1>1 DEF WebRTCEffect, ClosePC, rtcVars
<1>5. ~Closing(app'[b], seen'[b].role)
    BY <1>2, <1>3, <1>4 DEF Closing, ActiveRole
<1>6. ChanFits(app[b], pc[b], seen[b].role)
    BY DEF ChanInv
<1>7. app'[b].chan \in {0, pc'[b].n}
    <2>1. CASE seen[b].role \in {y.role, "none"}
        BY <1>3, <1>4, <1>6, <2>1 DEF ChanFits
    <2>2. CASE seen[b].role \notin {y.role, "none"}
        BY <1>2, <1>3, <1>6, <2>2 DEF ChanFits, Closing
    <2> QED
        BY <2>1, <2>2
<1> QED
    BY <1>3, <1>4, <1>5, <1>7, ChanOne DEF ChanFits

\* Every step keeps it, if React is quick.
LEMMA ChanStep ==
    ASSUME Eager, SessionInv, LeakInv, NetInv, ReleasedInv, PhaseInv, ChanInv, [Next]_vars
    PROVE  ChanInv'
<1>1. ASSUME NEW b \in Browsers, app'[b].chan = 0, UNCHANGED seen,
             \A c \in Browsers \ {b} : app'[c] = app[c] /\ pc'[c] = pc[c]
      PROVE  ChanInv'
    BY <1>1, ChanOne DEF ChanFits
<1>2. ASSUME NEW b \in Browsers, Disconnect(b) PROVE ChanInv'
    BY <1>1, <1>2 DEF Disconnect, ClosePC, Reset, Start, SessionInv, PageType, RtcType
<1>3. ASSUME NEW b \in Browsers, NEW r \in RoomIDs, NEW role, NEW call, GoTo(b, r, role, call)
      PROVE  ChanInv'
    BY <1>1, <1>3 DEF GoTo, ClosePC, Reset, Start, SessionInv, PageType, RtcType
<1>4. ASSUME NEW b \in Browsers, JoinTimer(b) PROVE ChanInv'
    <2>1. app[b].room = NoRoom /\ app[b] \in AppStates
        BY <1>4 DEF JoinTimer, SessionInv, WayFits, PageType
    <2>2. app[b].chan = 0
        BY <2>1 DEF ReleasedInv, Released1
    <2>3. app'[b].chan = 0 /\ \A c \in Browsers \ {b} : app'[c] = app[c]
        BY <1>4, <2>1, <2>2 DEF JoinTimer, SessionInv, PageType, AppStates
    <2> QED
        BY <1>1, <1>4, <2>3 DEF JoinTimer, rtcVars
<1>5. ASSUME NEW b \in Browsers, Commit(b) PROVE ChanInv'
    BY <1>5, ChanCommit
<1>6. ASSUME NEW b \in Browsers, Receive(b) PROVE ChanInv'
    <2>1. /\ app'[b] = OnNotice(app[b], Head(down[b])) /\ app[b] \in AppStates
          /\ pc'[b] = HandleSignal(pc[b], Id(b), Head(down[b]))
          /\ \A c \in Browsers \ {b} : app'[c] = app[c] /\ pc'[c] = pc[c]
          /\ UNCHANGED seen
        BY <1>6 DEF Receive, SessionInv, PageType, RtcType
    <2>2. pc'[b].n = pc[b].n
        BY <2>1, SignalKeepsNumber DEF SessionInv, RtcType, Conns
    <2>3. CASE Left(Head(down[b]))
        <3>1. app'[b].chan = 0
            BY <2>1, <2>3, NoticeEffect
        <3> QED
            BY <1>1, <2>1, <3>1
    <2>4. CASE ~Left(Head(down[b]))
        <3>1. app'[b].chan = app[b].chan /\ ~Closing(app'[b], seen[b].role)
            BY <1>6, <2>1, <2>4, NoticeEffect, OnlyLeftCloses
        <3>2. ChanFits(app'[b], pc'[b], seen[b].role)
            BY <2>2, <3>1 DEF ChanInv, ChanFits
        <3> QED
            BY <2>1, <3>2, ChanOne
    <2> QED
        BY <2>3, <2>4
<1>7. ASSUME NEW b \in Browsers, Rtc(b) \/ LinkBreaks(b) PROVE ChanInv'
    <2>1. RtcPage(b) /\ MayHandle(b) /\ app[b] \in AppStates
        BY <1>7, RtcTouches, RtcNeeds DEF SessionInv, PageType
    <2>2. /\ ChanFits(app[b], pc[b], seen[b].role)
          /\ Closing(app'[b], seen[b].role) <=> Closing(app[b], seen[b].role)
          /\ UNCHANGED seen
        BY <2>1 DEF ChanInv, RtcPage, Closing, ActiveRole
    <2>3. \A c \in Browsers \ {b} : app'[c] = app[c] /\ pc'[c] = pc[c]
        BY <1>7, <2>1 DEF RtcPage, Rtc, FetchDone, SendOffer, SendAnswer, ChannelOpens,
                          IceConnects, LinkDies, LinkBreaks, Ice, rtcVars, SessionInv, RtcType
    <2>4. CASE \E role \in {"offerer", "answerer"} : FetchDone(b, role)
        <3>1. pc[b].n = 0 /\ app'[b] = app[b]
            BY <2>4 DEF FetchDone, LeakInv, OnePerEffect
        <3> QED
            BY <1>1, <2>2, <2>3, <3>1 DEF ChanFits
    <2>5. CASE SendOffer(b) \/ SendAnswer(b)
        <3>1. pc'[b].n = pc[b].n /\ app'[b] = app[b]
            BY <2>5 DEF SendOffer, SendAnswer, SessionInv, RtcType, Conns
        <3> QED
            BY <2>2, <2>3, <3>1, ChanOne DEF ChanFits
    <2>6. CASE ChannelOpens(b)
        <3>1. pc'[b].n = pc[b].n /\ app'[b].chan = pc[b].n
            BY <2>1, <2>6 DEF ChannelOpens, SessionInv, RtcType, PageType, Conns, AppStates
        <3>2. ~Closing(app[b], seen[b].role)
            BY <2>1, ShownType DEF MayHandle, Rendered, Closing
        <3> QED
            BY <2>2, <2>3, <3>1, <3>2, ChanOne DEF ChanFits
    <2>7. ASSUME NEW from, NEW to, Ice(b, from, to) PROVE ChanInv'
        <3>1. pc'[b] = pc[b] /\ app'[b].chan = app[b].chan
            BY <2>1, <2>7 DEF Ice, rtcVars, SessionInv, PageType, AppStates
        <3> QED
            BY <2>2, <2>3, <3>1, ChanOne DEF ChanFits
    <2> QED
        BY <1>7, <2>4, <2>5, <2>6, <2>7 DEF Rtc, IceConnects, LinkDies, LinkBreaks
<1>8. CASE UNCHANGED <<app, pc, seen>>
    BY <1>8 DEF ChanInv
<1> QED
    BY <1>2, <1>3, <1>4, <1>5, <1>6, <1>7, <1>8
    DEF Next, Calm, HubLeaves, HubLeave, User, PressDisconnect, HandleCreate, HandleJoin,
        HandleCall, HandleAcceptInvite, Browser, Timers, WatchdogFires, GraceExpires, Enter,
        Trouble, WsLost, vars, rtcVars

\* What a browser with the page a, the role rendered, and the messages d on
\* their way heeds of those in S, and has heard as h.
Heeds(a, role, h, d, S) ==
    FromNow(d, S) /\ (~Closing(a, role) => HeardFrom(h, d, S))

\* The one who stands beside the one at place k of a line, if both may talk.
Partners(l, k) == IF k <= 2 /\ Len(l) >= 2 THEN {l[3 - k][1]} ELSE {}

TalkInv ==
    \A b \in Browsers, r \in RoomIDs : \A k \in 1 .. Len(line[r]) :
        Stands(b, r, k) =>
            Heeds(app[b], seen[b].role, pc[b].heard, down[b], Partners(line[r], k))

\* Who heeds nobody may get a partner.
LEMMA HeedsMore ==
    ASSUME NEW a, NEW role, NEW h, NEW d, Heeds(a, role, h, d, {}), NEW S
    PROVE  Heeds(a, role, h, d, S)
BY DEF Heeds, FromNow, HeardFrom

\* Steps of browsers that leave sockets and lines alone, and after which each
\* stands nowhere or heeds those that it heeded.
LEMMA TalkLocal ==
    ASSUME SessionInv, TalkInv, UNCHANGED <<gen, line>>,
           \A c \in Browsers :
                \/ ws'[c] # "open" \/ app'[c].room = NoRoom \/ seen'[c].room = NoRoom
                \/ /\ ws'[c] = ws[c] /\ seen'[c].room = seen[c].room /\ app'[c].room = app[c].room
                   /\ \A S : Heeds(app[c], seen[c].role, pc[c].heard, down[c], S) =>
                             Heeds(app'[c], seen'[c].role, pc'[c].heard, down'[c], S)
    PROVE  TalkInv'
<1> SUFFICES ASSUME NEW c \in Browsers, NEW r \in RoomIDs, NEW k \in 1 .. Len(line[r]),
                    Stands(c, r, k)'
             PROVE  Heeds(app'[c], seen'[c].role, pc'[c].heard, down'[c], Partners(line[r], k))
    BY DEF TalkInv
<1>1. Sock(c)' = Sock(c) /\ line'[r] = line[r]
    BY DEF Sock
<1>2. Stands(c, r, k)
      /\ \A S : Heeds(app[c], seen[c].role, pc[c].heard, down[c], S) =>
                Heeds(app'[c], seen'[c].role, pc'[c].heard, down'[c], S)
    BY <1>1, NoRoomAssumption DEF Stands
<1>3. Heeds(app[c], seen[c].role, pc[c].heard, down[c], Partners(line[r], k))
    BY <1>2 DEF TalkInv
<1> QED
    BY <1>2, <1>3

\* disconnect, and going to a room.
LEMMA TalkReset ==
    ASSUME SessionInv, TalkInv, NEW b \in Browsers, app'[b].room = NoRoom,
           \A c \in Browsers \ {b} : app'[c] = app[c] /\ pc'[c] = pc[c],
           UNCHANGED <<ws, seen, down, gen, line>>
    PROVE  TalkInv'
BY TalkLocal

\* React renders: the connection of a role that is over is closed.
LEMMA TalkCommit ==
    ASSUME SessionInv, TalkInv, NEW b \in Browsers, Commit(b)
    PROVE  TalkInv'
<1> PICK y : y = Shown(app[b])
    OBVIOUS
<1>1. /\ SignalingEffect(b, y) /\ WebRTCEffect(b, y) /\ app[b] \in AppStates
      /\ seen' = [seen EXCEPT ![b] = y]
      /\ ws \in [Browsers -> {"none", "connecting", "open", "lost"}]
      /\ down \in [Browsers -> Seq(Messages)] /\ pc \in [Browsers -> Conns]
      /\ seen \in [Browsers -> Views] /\ UNCHANGED <<line, fate>>
    BY DEF Commit, SessionInv, PageType, HubType, RtcType
<1>2. y.room = app[b].room /\ y.role = ActiveRole(app[b])
    BY <1>1, ShownType
<1>3. /\ app'[b].room = app[b].room /\ app'[b].role = app[b].role
      /\ app'[b].status = app[b].status
      /\ \A c \in Browsers \ {b} : app'[c] = app[c]
    BY <1>1 DEF Commit, SessionInv, PageType, AppStates
<1>4. /\ \A c \in Browsers \ {b} : pc'[c] = pc[c] /\ seen'[c] = seen[c]
      /\ seen'[b] = y
      /\ seen[b].role \in {y.role, "none"} => pc'[b] = pc[b]
      /\ seen[b].role \notin {y.role, "none"} => pc'[b] = NoPC
    BY <1>1 DEF WebRTCEffect, ClosePC, rtcVars
<1>5. \A c \in Browsers \ {b} : ws'[c] = ws[c] /\ down'[c] = down[c]
    BY <1>1 DEF SignalingEffect
<1>6. CASE seen[b].room = y.room
    <2>1. UNCHANGED <<ws, gen, down>> /\ seen'[b].room = seen[b].room
        BY <1>1, <1>4, <1>6 DEF SignalingEffect
    <2>2. ASSUME NEW S, Heeds(app[b], seen[b].role, pc[b].heard, down[b], S)
          PROVE  Heeds(app'[b], seen'[b].role, pc'[b].heard, down'[b], S)
        <3>1. FromNow(down'[b], S)
            BY <2>1, <2>2 DEF Heeds
        <3>2. CASE seen[b].role \in {y.role, "none"}
            <4>1. ~Closing(app[b], seen[b].role)
                BY <1>2, <3>2 DEF Closing
            <4> QED
                BY <1>4, <2>1, <2>2, <3>1, <3>2, <4>1 DEF Heeds
        <3>3. CASE seen[b].role \notin {y.role, "none"}
            <4>1. pc'[b].heard = None
                BY <1>4, <3>3 DEF NoPC
            <4> QED
                BY <3>1, <4>1 DEF Heeds, HeardFrom
        <3> QED
            BY <3>2, <3>3
    <2> QED
        BY <1>1, <1>3, <1>4, <1>5, <2>1, <2>2, TalkLocal
<1>7. CASE seen[b].room # y.room
    <2>1. ws'[b] # "open"
        BY <1>1, <1>7 DEF SignalingEffect
    <2>2. \A c \in Browsers \ {b} : Sock(c)' = Sock(c)
        BY <1>1 DEF SignalingEffect, Sock, SessionInv, HubType
    <2> QED
        BY <1>1, <1>3, <1>4, <1>5, <2>1, <2>2, ZenonT(40) DEF TalkInv, Stands
<1> QED
    BY <1>6, <1>7

\* What a peer connection has heard after a message.
LEMMA HeardThen ==
    ASSUME NEW p \in Conns, NEW id, NEW m
    PROVE  /\ \/ HandleSignal(p, id, m).heard = p.heard
              \/ Signals(m) /\ HandleSignal(p, id, m).heard = m.by
           /\ p = NoPC => HandleSignal(p, id, m) = NoPC
BY DEF HandleSignal, Conns, Signals

\* A message is taken: by one whose connection is about to be closed, or who
\* heeds his partner.
LEMMA TalkReceive ==
    ASSUME Eager, SessionInv, LeakInv, NetInv, PhaseInv, TalkInv, NEW b \in Browsers, Receive(b)
    PROVE  TalkInv'
<1> PICK d, m, e : d = down[b] /\ m = Head(down[b]) /\ e = Tail(down[b])
    OBVIOUS
<1>1. /\ app[b] \in AppStates /\ d \in Seq(Messages) /\ d # <<>> /\ m \in Messages
      /\ pc[b] \in Conns
    BY DEF Receive, SessionInv, PageType, HubType, RtcType
<1>2. /\ app'[b] = OnNotice(app[b], m) /\ down'[b] = e /\ pc'[b] = HandleSignal(pc[b], Id(b), m)
      /\ \A c \in Browsers \ {b} : app'[c] = app[c] /\ pc'[c] = pc[c] /\ down'[c] = down[c]
      /\ UNCHANGED <<seen, ws, gen, line>>
    BY DEF Receive, SessionInv, PageType, HubType, RtcType, hubVars
<1>3. app'[b].room = app[b].room
    BY <1>1, <1>2, NoticeType
<1>4. Shrunk(d, e, m)
    BY <1>1, ShrunkBy
<1>5. /\ ~Closing(app[b], seen[b].role)
      /\ Left(m) /\ seen[b].role # "none" => Closing(app'[b], seen[b].role)
    BY OnlyLeftCloses
<1>6. pc'[b].heard = pc[b].heard \/ (Signals(m) /\ pc'[b].heard = m.by)
    BY <1>1, <1>2, HeardThen
<1>7. ASSUME NEW S, FromNow(d, S), HeardFrom(pc[b].heard, d, S)
      PROVE  FromNow(e, S) /\ (~Closing(app'[b], seen[b].role) => HeardFrom(pc'[b].heard, e, S))
    <2>1. CASE ~Left(m)
        BY <1>4, <1>6, <1>7, <2>1, HeedTake
    <2>2. CASE Left(m) /\ seen[b].role # "none"
        BY <1>4, <1>5, <1>7, <2>2, HeedTake
    <2>3. CASE seen[b].role = "none"
        <3>1. pc[b] = NoPC
            BY <2>3 DEF LeakInv, OnePerEffect, SessionInv, ConnFits
        <3>2. pc'[b] = NoPC
            BY <1>1, <1>2, <3>1, HeardThen
        <3> QED
            BY <1>4, <1>7, <3>2, HeedTake DEF HeardFrom, NoPC
    <2> QED
        BY <2>1, <2>2, <2>3
<1>8. \A S : Heeds(app[b], seen[b].role, pc[b].heard, d, S) =>
             Heeds(app'[b], seen'[b].role, pc'[b].heard, e, S)
    BY <1>2, <1>5, <1>7 DEF Heeds
<1> QED
    BY <1>2, <1>3, <1>8, TalkLocal

\* A signal is sent: it reaches the partner of the one who sends it, since who
\* waits has no connection.
LEMMA TalkSend ==
    ASSUME Eager, SessionInv, LeakInv, NetInv, FreshInv, PhaseInv, TalkInv,
           NEW b \in Browsers, NEW m \in Offers \cup Answers, m.by = Id(b),
           MayHandle(b), pc[b] # NoPC, SendSignal(b, m), UNCHANGED <<app, seen, ws, hubVars>>,
           \A c \in Browsers : pc'[c].heard = pc[c].heard
    PROVE  TalkInv'
<1>1. m \in Messages /\ Signals(m) /\ ~Left(m) /\ m.by[1] = b
    BY DEF Messages, Offers, Answers, Signals, Left, Id
<1> SUFFICES ASSUME NEW c \in Browsers, NEW r \in RoomIDs, NEW k \in 1 .. Len(line[r]),
                    Stands(c, r, k)
             PROVE  Heeds(app[c], seen[c].role, pc[c].heard, down'[c], Partners(line[r], k))
    BY DEF TalkInv, Stands, Sock, hubVars
<1> PICK d, e, S : d = down[c] /\ e = down'[c] /\ S = Partners(line[r], k)
    OBVIOUS
<1>2. d \in Seq(Messages) /\ Heeds(app[c], seen[c].role, pc[c].heard, d, S)
    BY DEF TalkInv, SessionInv, HubType
<1>3. e = d \/ (b \in S /\ e = d \o <<m>>)
    <2>0. /\ Len(line[r]) \in Nat /\ k \in Nat /\ DOMAIN line[r] = 1 .. Len(line[r])
          /\ Sock(c) = line[r][k]
        BY LineType DEF SessionInv, Stands
    <2> SUFFICES ASSUME e # d PROVE b \in S /\ e = d \o <<m>>
        OBVIOUS
    <2>1. PICK q \in RoomIDs : /\ Sock(b) \in ToSet(line[q]) /\ Live(Sock(b)) /\ Sock(c) # Sock(b)
                               /\ \E i \in DOMAIN line[q] \cap {1, 2} : Sock(c) = line[q][i]
                               /\ e = d \o <<m>>
        <3> PICK front : front =
                UNION {{line[x][i] : i \in DOMAIN line[x] \cap {1, 2}} :
                            x \in {y \in RoomIDs : Sock(b) \in ToSet(line[y])}}
            OBVIOUS
        <3> PICK said : said = [s \in front \ {Sock(b)} |-> <<m>>]
            OBVIOUS
        <3>1. Deliver(said, IF Live(Sock(b)) THEN Open ELSE {})
            BY DEF SendSignal
        <3>2. e = IF c \in (IF Live(Sock(b)) THEN Open ELSE {}) /\ Sock(c) \in DOMAIN said
                  THEN d \o said[Sock(c)] ELSE d
            BY <3>1 DEF Deliver
        <3>3. Live(Sock(b)) /\ Sock(c) \in front \ {Sock(b)} /\ e = d \o <<m>>
            BY <3>2
        <3> QED
            BY <3>3
    <2>2. PICK i \in DOMAIN line[q] : i \in {1, 2} /\ Sock(c) = line[q][i]
        BY <2>1
    <2>3. Sock(c) \in ToSet(line[q]) /\ Sock(c)[1] = c
        BY <2>2, LineType DEF SessionInv, Sock
    <2>4. q = r
        BY <2>3, NoRoomAssumption DEF NetInv, LineFits, Stands
    <2>5. k = i
        BY <2>0, <2>2, <2>4 DEF NetInv, IsInjective
    <2>6. PICK j \in 1 .. Len(line[r]) : line[r][j] = Sock(b)
        BY <2>1, <2>4, LineType DEF SessionInv
    <2>7. app[b].status = "joined" /\ Rendered(b)
        BY InUse
    <2>8. Stands(b, r, j)
        BY <2>1, <2>6, <2>7, StandsThere
    <2>9. ~(j > 2)
        BY <2>7, <2>8 DEF PhaseInv, PhaseFits, Told, Waits
    <2>10. j # k /\ j \in Nat
        <3>1. Sock(c) # Sock(b)
            BY <2>1
        <3> QED
            BY <2>0, <2>6, <3>1
    <2>11. j = 3 - k /\ k <= 2 /\ Len(line[r]) >= 2
        BY <2>0, <2>2, <2>5, <2>6, <2>9, <2>10
    <2>12. line[r][3 - k][1] = b
        BY <2>6, <2>11 DEF Sock
    <2> QED
        BY <2>1, <2>11, <2>12 DEF Partners
<1>4. ASSUME b \in S, e = d \o <<m>> PROVE Heeds(app[c], seen[c].role, pc[c].heard, e, S)
    <2>1. Grown(d, e, m)
        BY <1>1, <1>2, <1>4, SayOne
    <2> QED
        BY <1>1, <1>2, <1>4, <2>1, HeedGrow DEF Heeds
<1> QED
    BY <1>2, <1>3, <1>4

\* Steps of a peer connection: one that is made has heard nobody.
LEMMA TalkRtc ==
    ASSUME Eager, SessionInv, LeakInv, NetInv, FreshInv, PhaseInv, TalkInv, NEW b \in Browsers,
           Rtc(b) \/ LinkBreaks(b)
    PROVE  TalkInv'
<1>1. CASE SendOffer(b)
    <2>1. Offer(Id(b)) \in Offers \cup Answers /\ Offer(Id(b)).by = Id(b)
        BY SockType DEF SessionInv, Offer, Offers
    <2>2. pc[b] # NoPC /\ \A c \in Browsers : pc'[c].heard = pc[c].heard
        BY <1>1 DEF SendOffer, NoPC, SessionInv, RtcType, Conns
    <2> QED
        BY <1>1, <2>1, <2>2, TalkSend DEF SendOffer
<1>2. CASE SendAnswer(b)
    <2>1. /\ Answer(Id(b), pc[b].heard) \in Offers \cup Answers
          /\ Answer(Id(b), pc[b].heard).by = Id(b)
        BY <1>2, SockType DEF SendAnswer, SessionInv, ConnFits, Answer, Answers
    <2>2. pc[b] # NoPC /\ \A c \in Browsers : pc'[c].heard = pc[c].heard
        BY <1>2 DEF SendAnswer, NoPC, SessionInv, RtcType, Conns
    <2> QED
        BY <1>2, <2>1, <2>2, TalkSend DEF SendAnswer
<1>3. CASE /\ UNCHANGED down /\ \A c \in Browsers \ {b} : pc'[c] = pc[c]
           /\ pc'[b].heard \in {pc[b].heard, None}
    <2>1. RtcPage(b)
        BY RtcTouches
    <2>2. seen'[b] = seen[b] /\ (Closing(app'[b], seen[b].role) <=> Closing(app[b], seen[b].role))
        BY <2>1 DEF RtcPage, Closing, ActiveRole
    <2>3. \A S : Heeds(app[b], seen[b].role, pc[b].heard, down[b], S) =>
                 Heeds(app'[b], seen'[b].role, pc'[b].heard, down'[b], S)
        BY <1>3, <2>2 DEF Heeds, HeardFrom
    <2> QED
        BY <1>3, <2>1, <2>3, TalkLocal DEF RtcPage
<1>4. CASE \E role \in {"offerer", "answerer"} : FetchDone(b, role)
    <2>1. UNCHANGED down /\ pc'[b].heard = None /\ \A c \in Browsers \ {b} : pc'[c] = pc[c]
        BY <1>4 DEF FetchDone, NoPC, SessionInv, RtcType
    <2> QED
        BY <1>3, <2>1
<1>5. CASE ChannelOpens(b) \/ IceConnects(b) \/ LinkDies(b) \/ LinkBreaks(b)
    <2>1. /\ UNCHANGED down /\ pc'[b].heard = pc[b].heard
          /\ \A c \in Browsers \ {b} : pc'[c] = pc[c]
        BY <1>5 DEF ChannelOpens, IceConnects, LinkDies, LinkBreaks, Ice, rtcVars,
                    SessionInv, RtcType, Conns
    <2> QED
        BY <1>3, <2>1
<1> QED
    BY <1>1, <1>2, <1>4, <1>5 DEF Rtc

\* A socket opens: who was alone gets a partner.
LEMMA TalkEnter ==
    ASSUME SessionInv, NetInv, FreshInv, TalkInv, NEW b \in Browsers, Enter(b)
    PROVE  TalkInv'
<1> SUFFICES ASSUME NEW c \in Browsers, NEW r \in RoomIDs, NEW k \in 1 .. Len(line'[r]),
                    Stands(c, r, k)'
             PROVE  Heeds(app[c], seen[c].role, pc[c].heard, down'[c], Partners(line'[r], k))
    BY DEF TalkInv, Enter, rtcVars
<1> PICK a, role, h, d : a = app[c] /\ role = seen[c].role /\ h = pc[c].heard /\ d = down[c]
    OBVIOUS
<1> PICK l, o, e : l = line[r] /\ o = line'[r] /\ e = down'[c]
    OBVIOUS
<1>1. d \in Seq(Messages) /\ Len(l) \in Nat
    BY LineType DEF SessionInv, HubType
<1>2. k \in 1 .. Len(l) /\ Stands(c, r, k) => Heeds(a, role, h, d, Partners(l, k))
    BY DEF TalkInv
<1>3. CASE Unmoved(c, r, k)
    BY <1>2, <1>3 DEF Unmoved
<1>4. CASE Followed(c, r, k)
    <2>1. /\ k \in 1 .. Len(l) /\ Stands(c, r, k) /\ Len(o) = Len(l) + 1
          /\ \A j \in 1 .. Len(l) : o[j] = l[j]
          /\ e = d \o EnterNote(k, Len(l) + 1)
        BY <1>4 DEF Followed
    <2>2. Heeds(a, role, h, d, Partners(o, k))
        <3>1. CASE Len(l) >= 2
            <4>1. k <= 2 => 3 - k \in 1 .. Len(l)
                BY <1>1, <2>1, <3>1
            <4>2. k <= 2 => o[3 - k] = l[3 - k]
                BY <2>1, <4>1
            <4>3. Len(o) >= 2
                BY <1>1, <2>1, <3>1
            <4>4. Partners(o, k) = Partners(l, k)
                BY <3>1, <4>2, <4>3 DEF Partners
            <4> QED
                BY <1>2, <2>1, <4>4
        <3>2. CASE ~(Len(l) >= 2)
            BY <1>2, <2>1, <3>2, HeedsMore DEF Partners
        <3> QED
            BY <3>1, <3>2
    <2>3. PICK S : S = Partners(o, k)
        OBVIOUS
    <2>4. Heeds(a, role, h, d \o EnterNote(k, Len(l) + 1), S)
        <3>1. k \in 1 .. (Len(l) + 1) /\ Len(l) + 1 \in Nat
            BY <1>1, <2>1
        <3>2. /\ FromNow(d, S) => FromNow(d \o EnterNote(k, Len(l) + 1), S)
              /\ HeardFrom(h, d, S) => HeardFrom(h, d \o EnterNote(k, Len(l) + 1), S)
            BY <1>1, <3>1, HeedNotes, 0 \in Nat
        <3> QED
            BY <2>2, <2>3, <3>2 DEF Heeds
    <2> QED
        BY <2>1, <2>3, <2>4
<1>5. CASE Newest(c, r, k)
    <2>1. d = <<>> /\ e = d \o EnterNote(k, k) /\ ws[c] = "connecting" /\ k \in 1 .. k /\ k \in Nat
        BY <1>1, <1>5 DEF Newest
    <2>2. pc[c] = NoPC
        BY <2>1 DEF FreshInv
    <2>3. h = None
        BY <2>2 DEF NoPC
    <2>4. PICK S : S = Partners(o, k)
        OBVIOUS
    <2>5. FromNow(d, S)
        BY <2>1 DEF FromNow
    <2>6. FromNow(d \o EnterNote(k, k), S)
        BY <1>1, <2>1, <2>5, HeedNotes, 0 \in Nat
    <2> QED
        BY <2>1, <2>3, <2>4, <2>6 DEF Heeds, HeardFrom
<1> QED
    BY <1>3, <1>4, <1>5, Entered

\* A socket leaves: who loses his partner is told so, and who comes into his
\* place has heard nobody.
LEMMA TalkLeave ==
    ASSUME SessionInv, NetInv, TalkInv, NEW q \in RoomIDs, NEW i \in DOMAIN line[q],
           HubLeave(q, i)
    PROVE  TalkInv'
<1> SUFFICES ASSUME NEW c \in Browsers, NEW r \in RoomIDs, NEW p \in 1 .. Len(line'[r]),
                    Stands(c, r, p)'
             PROVE  Heeds(app[c], seen[c].role, pc[c].heard, down'[c], Partners(line'[r], p))
    BY DEF TalkInv, HubLeave, rtcVars
<1> PICK a, role, h, d : a = app[c] /\ role = seen[c].role /\ h = pc[c].heard /\ d = down[c]
    OBVIOUS
<1> PICK l, o, e : l = line[r] /\ o = line'[r] /\ e = down'[c]
    OBVIOUS
<1>1. d \in Seq(Messages) /\ Len(l) \in Nat
    BY LineType DEF SessionInv, HubType
<1>2. \A k \in 1 .. Len(l) : Stands(c, r, k) => Heeds(a, role, h, d, Partners(l, k))
    BY DEF TalkInv
<1>3. CASE Unmoved(c, r, p)
    BY <1>2, <1>3 DEF Unmoved
<1>4. CASE Remains(c, r, p, i)
    <2>1. /\ i \in 1 .. Len(l) /\ Len(o) = Len(l) - 1 /\ e = d \o LeaveNote(p, i, Len(l) - 1)
          /\ \A j \in 1 .. (Len(l) - 1) : j < i => o[j] = l[j]
        BY <1>4 DEF Remains
    <2>2. PICK k \in 1 .. Len(l) : k # i /\ p = (IF k < i THEN k ELSE k - 1) /\ Stands(c, r, k)
        BY <1>4 DEF Remains
    <2>3. Heeds(a, role, h, d, Partners(l, k))
        BY <1>2, <2>2
    <2>4. PICK n, S : n = Len(l) - 1 /\ S = Partners(o, p)
        OBVIOUS
    <2>5. n \in Nat /\ p \in 1 .. n /\ i \in Nat
        BY <1>1, <2>1, <2>2, <2>4
    <2>6. CASE p = 1 /\ i <= 2
        <3>1. FromNow(d \o LeaveNote(p, i, n), S) /\ HeardFrom(h, d \o LeaveNote(p, i, n), S)
            BY <1>1, <2>5, <2>6, HeedNotes
        <3>2. Heeds(a, role, h, d \o LeaveNote(p, i, n), S)
            BY <3>1 DEF Heeds
        <3> QED
            BY <2>1, <2>4, <3>2
    <2>7. CASE p # 1 \/ i > 2
        <3>1. Heeds(a, role, h, d, S)
            <4>1. CASE k > 2
                BY <2>3, <2>4, <4>1, HeedsMore DEF Partners
            <4>2. CASE k <= 2 /\ Len(l) >= 2
                <5>1. i > 2 /\ p = k /\ n >= 2 /\ Len(o) = n
                    BY <1>1, <2>1, <2>2, <2>4, <2>5, <2>7, <4>2
                <5>2. o[3 - k] = l[3 - k]
                    BY <2>1, <2>2, <2>4, <2>5, <4>2, <5>1
                <5>3. Partners(o, p) = Partners(l, k)
                    BY <4>2, <5>1, <5>2 DEF Partners
                <5> QED
                    BY <2>3, <2>4, <5>3
            <4>3. CASE Len(l) < 2
                BY <1>1, <2>1, <2>2, <4>3
            <4> QED
                BY <1>1, <2>2, <4>1, <4>2, <4>3
        <3>2. /\ FromNow(d, S) => FromNow(d \o LeaveNote(p, i, n), S)
              /\ HeardFrom(h, d, S) => HeardFrom(h, d \o LeaveNote(p, i, n), S)
            BY <1>1, <2>5, <2>7, HeedNotes
        <3>3. Heeds(a, role, h, d \o LeaveNote(p, i, n), S)
            BY <3>1, <3>2 DEF Heeds
        <3> QED
            BY <2>1, <2>4, <3>3
    <2> QED
        BY <2>5, <2>6, <2>7
<1> QED
    BY <1>3, <1>4, Shortened

\* Every step keeps it, if React is quick.
LEMMA TalkStep ==
    ASSUME Eager, SessionInv, LeakInv, NetInv, FreshInv, PhaseInv, TalkInv, [Next]_vars
    PROVE  TalkInv'
<1>1. CASE HubLeaves
    BY <1>1, TalkLeave DEF HubLeaves
<1>2. ASSUME NEW b \in Browsers, Disconnect(b) PROVE TalkInv'
    BY <1>2, TalkReset
    DEF Disconnect, ClosePC, Reset, Start, SessionInv, PageType, RtcType, hubVars
<1>3. ASSUME NEW b \in Browsers, NEW r \in RoomIDs, NEW role, NEW call, GoTo(b, r, role, call)
      PROVE  TalkInv'
    BY <1>3, TalkReset DEF GoTo, ClosePC, Reset, Start, SessionInv, PageType, RtcType
<1>4. ASSUME NEW b \in Browsers, JoinTimer(b) PROVE TalkInv'
    <2>1. /\ seen'[b].room = NoRoom /\ \A c \in Browsers \ {b} : app'[c] = app[c]
          /\ UNCHANGED <<seen, ws, down, gen, line, pc>>
        BY <1>4 DEF JoinTimer, SessionInv, PageType, hubVars, rtcVars
    <2> QED
        BY <2>1, TalkLocal
<1>5. ASSUME NEW b \in Browsers, WsLost(b) PROVE TalkInv'
    <2>1. /\ ws'[b] # "open" /\ \A c \in Browsers \ {b} : ws'[c] = ws[c] /\ down'[c] = down[c]
          /\ UNCHANGED <<app, seen, gen, line, pc>>
        BY <1>5 DEF WsLost, SessionInv, HubType, hubVars, rtcVars
    <2> QED
        BY <2>1, TalkLocal
<1>6. CASE UNCHANGED vars
    BY <1>6, TalkLocal DEF vars, hubVars, rtcVars
<1>7. ASSUME NEW b \in Browsers, User(b) PROVE TalkInv'
    BY <1>2, <1>3, <1>7
    DEF User, PressDisconnect, HandleCreate, HandleJoin, HandleCall, HandleAcceptInvite
<1>8. ASSUME NEW b \in Browsers, Timers(b) PROVE TalkInv'
    BY <1>2, <1>4, <1>8 DEF Timers, WatchdogFires, GraceExpires
<1>9. ASSUME NEW b \in Browsers, Commit(b) \/ Enter(b) \/ Receive(b) PROVE TalkInv'
    BY <1>9, TalkCommit, TalkEnter, TalkReceive
<1>10. ASSUME NEW b \in Browsers, Rtc(b) \/ LinkBreaks(b) PROVE TalkInv'
    BY <1>10, TalkRtc
<1> QED
    BY <1>1, <1>5, <1>6, <1>7, <1>8, <1>9, <1>10 DEF Next, Calm, Browser, Trouble

\* In the initial states there is nobody to talk to, and no channel.
LEMMA TalkInit == Init => ChanInv /\ TalkInv
BY DEF Init, ChanInv, ChanFits, Closing, ActiveRole, Shown, Start, NoPC, TalkInv, Stands

\* One of a pair has heard his partner, and nobody else.
LEMMA HeardPartner ==
    ASSUME SessionInv, NetInv, ChanInv, TalkInv, NEW r \in RoomIDs, NEW b \in Browsers,
           NEW c \in Browsers, b # c, Pair(r, b, c), Caught(b)
    PROVE  pc[b].heard \in {None} \cup ({c} \X Nat) /\ app[b].chan \in {0, pc[b].n}
<1>1. /\ Len(line[r]) >= 2 /\ Len(line[r]) \in Nat
      /\ Live(Sock(b)) /\ Rendered(b) /\ down[b] = <<>>
    BY LineType DEF Pair, Caught, SessionInv
<1>2. Sock(b) # Sock(c) /\ Sock(c)[1] = c
    BY DEF Sock
<1>3. PICK k \in {1, 2} : line[r][k] = Sock(b) /\ line[r][3 - k] = Sock(c)
    <2>1. \/ line[r][1] = Sock(b) /\ line[r][2] = Sock(c)
          \/ line[r][1] = Sock(c) /\ line[r][2] = Sock(b)
        BY <1>2 DEF Pair
    <2> QED
        BY <2>1
<1>4. Stands(b, r, k) /\ k \in 1 .. Len(line[r])
    BY <1>1, <1>3, StandsThere
<1>5. Partners(line[r], k) = {c}
    BY <1>1, <1>2, <1>3 DEF Partners
<1>6. Heeds(app[b], seen[b].role, pc[b].heard, down[b], {c})
    BY <1>4, <1>5 DEF TalkInv
<1>7. ~Closing(app[b], seen[b].role)
    <2>1. app[b] \in AppStates
        BY DEF SessionInv, PageType
    <2> QED
        BY <1>1, <2>1, ShownType DEF Rendered, Closing
<1>8. pc[b].heard = None \/ pc[b].heard[1] \in {c}
    <2> PICK h, d : h = pc[b].heard /\ d = down[b]
        OBVIOUS
    <2>1. HeardFrom(h, d, {c}) /\ DOMAIN d = {}
        BY <1>1, <1>6, <1>7 DEF Heeds
    <2> QED
        BY <2>1 DEF HeardFrom
<1>9. pc[b].heard \in Ids \cup {None}
    BY DEF SessionInv, RtcType, Conns
<1> QED
    BY <1>8, <1>9 DEF Ids, ChanInv, ChanFits

\* One of a pair that may talk, who has taken and rendered all he was told, has
\* heard the partner he has now or nobody, though signals of earlier partners
\* were on their way when the pair changed; and the data channel he uses, if
\* any, is the one of that connection (useWebRTC.js makes a new one when the
\* role goes, which peer-left brings about; AppPage.jsx clears the channel), if
\* React renders before the next event.
THEOREM HearsOnlyThePartner == Eager => (Spec => []TalksToPartner)
<1> SUFFICES ASSUME Eager PROVE Spec => []TalksToPartner
    OBVIOUS
<1>1. Init => ChanInv /\ TalkInv
    BY TalkInit
<1>2. ASSUME SessionInv, LeakInv, NetInv, ReleasedInv, FreshInv, PhaseInv, ChanInv, TalkInv,
             [Next]_vars
      PROVE  ChanInv' /\ TalkInv'
    <2>1. ChanInv'
        BY <1>2, ChanStep
    <2>2. TalkInv'
        BY <1>2, TalkStep
    <2> QED
        BY <2>1, <2>2
<1>3. SessionInv /\ NetInv /\ ChanInv /\ TalkInv => TalksToPartner
    BY HeardPartner DEF TalksToPartner
<1> QED
    BY <1>1, <1>2, <1>3, RoomInvariant, PTL DEF Spec

-----------------------------------------------------------------------------
(***************************************************************************)
(* The hub as the browsers here have it is the line that Hub implements:   *)
(* RoomLine is what both modules mean by a room.                           *)
(***************************************************************************)
Sockets == Browsers \X (0 .. MaxJoins)

\* Those of a room a signal may reach, as SendSignal has them.
AtFront(l) == {l[i] : i \in DOMAIN l \cap {1, 2}}

Rooms == INSTANCE RoomLine WITH Clients <- Sockets, talking <- [r \in RoomIDs |-> AtFront(line[r])]

\* A line that becomes l becomes so with its pair.
LEMMA LineBecomes ==
    ASSUME SessionInv, NEW r \in RoomIDs, NEW l, line' = [line EXCEPT ![r] = l]
    PROVE  Rooms!LineUp(r, l)
<1>1. DOMAIN line = RoomIDs
    BY DEF SessionInv, HubType
<1>2. \A q \in RoomIDs : line'[q] = IF q = r THEN l ELSE line[q]
    BY <1>1
<1>3. Rooms!FirstTwo(l) = AtFront(l)
    BY DEF Rooms!FirstTwo, AtFront
<1>4. [q \in RoomIDs |-> AtFront(line'[q])] =
        [[q \in RoomIDs |-> AtFront(line[q])] EXCEPT ![r] = Rooms!FirstTwo(l)]
    <2> PICK f, p : f = [q \in RoomIDs |-> AtFront(line[q])] /\ p = AtFront(l)
        OBVIOUS
    <2>1. \A q \in RoomIDs : AtFront(line'[q]) = [f EXCEPT ![r] = p][q]
        BY <1>2
    <2>2. DOMAIN [f EXCEPT ![r] = p] = RoomIDs
        OBVIOUS
    <2> QED
        BY <1>3, <2>1, <2>2
<1> QED
    BY <1>4 DEF Rooms!LineUp

LEMMA LineStep ==
    SessionInv /\ NetInv /\ [Next]_vars => [Rooms!LineNext]_(Rooms!lineVars)
<1> SUFFICES ASSUME SessionInv, NetInv, [Next]_vars
             PROVE  [Rooms!LineNext]_(Rooms!lineVars)
    OBVIOUS
<1>1. ASSUME NEW b \in Browsers, Enter(b) PROVE Rooms!LineNext
    <2>1. PICK q \in RoomIDs : q = seen[b].room
        BY <1>1, NetEnter
    <2>2. Sock(b) \in Sockets
        BY DEF Sockets, Sock, SessionInv, HubType
    <2>3. ~Rooms!InLine(Sock(b))
        <3>1. ASSUME NEW r \in RoomIDs, NEW i \in DOMAIN line[r], line[r][i] = Sock(b) PROVE FALSE
            <4>1. Sock(b) \in ToSet(line[r])
                BY <3>1, LineType DEF SessionInv
            <4> QED
                BY <1>1, <4>1, NetEnter
        <3> QED
            BY <3>1 DEF Rooms!InLine
    <2>4. line' = [line EXCEPT ![q] = Append(line[q], Sock(b))]
        BY <1>1, <2>1 DEF Enter
    <2>5. Rooms!Enter(q, Sock(b))
        BY <2>3, <2>4, LineBecomes DEF Rooms!Enter
    <2> QED
        BY <2>2, <2>5 DEF Rooms!LineNext
<1>2. ASSUME NEW q \in RoomIDs, NEW i \in DOMAIN line[q], HubLeave(q, i) PROVE Rooms!LineNext
    <2>1. line' = [line EXCEPT ![q] = RemoveAt(line[q], i)]
        BY <1>2 DEF HubLeave
    <2>2. Rooms!Exit(q, i)
        <3>1. Rooms!LineUp(q, RemoveAt(line[q], i))
            BY <2>1, LineBecomes
        <3>2. RemoveAt(line[q], i) = Rooms!RemoveAt(line[q], i)
            BY DEF RemoveAt, Rooms!RemoveAt
        <3> QED
            BY <3>1, <3>2 DEF Rooms!Exit
    <2> QED
        BY <2>2 DEF Rooms!LineNext
<1>3. CASE UNCHANGED line
    BY <1>3 DEF Rooms!lineVars
<1>4. ASSUME NEW b \in Browsers, User(b) \/ Timers(b) \/ Commit(b) \/ Receive(b) \/ Rtc(b)
                                    \/ Trouble(b)
      PROVE  UNCHANGED line
    BY <1>4 DEF User, PressDisconnect, HandleCreate, HandleJoin, HandleCall, HandleAcceptInvite,
                GoTo, Timers, WatchdogFires, GraceExpires, JoinTimer, Disconnect, Commit,
                Receive, Rtc, FetchDone, SendOffer, SendAnswer, ChannelOpens, IceConnects,
                LinkDies, LinkBreaks, Ice, Trouble, WsLost, hubVars
<1> QED
    BY <1>1, <1>2, <1>3, <1>4 DEF Next, Calm, HubLeaves, Browser, vars, hubVars

\* A room that browsers enter, lose their sockets of, leave and come back to is
\* first come, first served, and signals reach the first two of it, as the hub
\* has it (Hub implements RoomLine, too): a socket enters once, at the end, and
\* nobody overtakes anybody (ws.onopen and cleanup in useSignaling.js, and
\* hub.go), rendered eagerly or late.
THEOREM RoomsAreLines == Spec => Rooms!LineSpec
<1>1. Init => Rooms!LineInit
    <2> SUFFICES ASSUME Init PROVE Rooms!LineInit
        OBVIOUS
    <2>1. line = [r \in RoomIDs |-> <<>>]
        BY DEF Init
    <2>2. AtFront(<<>>) = {}
        BY DEF AtFront
    <2>3. [r \in RoomIDs |-> AtFront(line[r])] = [r \in RoomIDs |-> {}]
        BY <2>1, <2>2
    <2> QED
        BY <2>1, <2>3 DEF Rooms!LineInit
<1> QED
    BY <1>1, LineStep, SessionInvariant, NetInit, NetStep, PTL DEF Spec, Rooms!LineSpec

=============================================================================
