-------------------------------- MODULE Hub --------------------------------
(***************************************************************************)
(* The signaling hub: backend/hub.go with the goroutines that call it,     *)
(* backend/client.go (ReadPump, WritePump) and wsHandler of                *)
(* backend/handlers.go.                                                    *)
(*                                                                         *)
(* A client is one WebSocket connection.  Its handler goroutine joins it   *)
(* to a room and starts two pumps: ReadPump relays what the browser sends  *)
(* and leaves the room when reading fails, WritePump drains the buffered   *)
(* channel c.send.  The hub's methods run inside one RWMutex; while they   *)
(* hold it they put messages into the channels of several clients, and the *)
(* WritePumps of those clients, which take no lock, run between two such   *)
(* sends.  A send never blocks: it is dropped when the channel is full.    *)
(*                                                                         *)
(* A critical section is therefore modelled by its first step, which does  *)
(* everything to the hub's state and notes in owed[c] the sends it is      *)
(* going to make, and one SendMsg step per send.  The lock is held exactly *)
(* as long as owed[c] is not empty: in write mode when it holds the hub's  *)
(* own notices, in read mode when it holds relayed signals.                *)
(***************************************************************************)
EXTENDS Naturals, Sequences, SequencesExt

CONSTANTS
    Clients,    \* WebSocket connections; one is used again when it is over
    RoomIDs,    \* the room names of the ?room= parameter
    NoRoom,     \* the roomID of a connection that never joined
    SendBuf     \* capacity of Client.send (32 in NewClient)

ASSUME NoRoomAssumption == NoRoom \notin RoomIDs
ASSUME SendBufAssumption == SendBuf \in Nat \ {0}

VARIABLES
    rooms,      \* the keys of Hub.rooms
    peers,      \* Room.peers, the active clients, by room
    queue,      \* Room.queue, the waiting clients, by room
    room,       \* Client.roomID
    pc,         \* where the goroutine of a client that calls the hub is
    writer,     \* where its WritePump is
    conn,       \* its connection: open, gone (the browser left), closed by us
    send,       \* Client.send, the buffered channel
    owed,       \* the <<client, message>> sends left in its critical section
    told,       \* the last notice of the hub put into send (for Standing)
    missed      \* the last notice of the hub was dropped (for Standing)

hubVars == <<rooms, peers, queue, room, send, owed, told, missed>>
vars == <<rooms, peers, queue, room, pc, writer, conn, send, owed, told, missed>>

-----------------------------------------------------------------------------
(***************************************************************************)
(* Messages: the hub's notices, the two that carry a queue position, and   *)
(* the signals a ReadPump relays.  The seven kinds a ReadPump lets through *)
(* (offer, answer, ice-candidate, call-...) are relayed in the same way.   *)
(***************************************************************************)
Notice(t) == [type |-> t]
Place(t, n) == [type |-> t, position |-> n]
Signal == [type |-> "signal"]

Message ==
    [type : {"peer-joined", "room-ready", "peer-left", "queue-promoted", "signal"}]
        \cup [type : {"queued", "queue-position"}, position : Nat \ {0}]

\* told[c] of a client the hub has said nothing to.
Nothing == [type |-> "nothing"]

\* The index a search loop of Leave ends with, when it finds c in s.
Idx(s, c) == CHOOSE i \in DOMAIN s : s[i] = c

\* Slip: the head goes, whoever leaves.
WithoutHead(s, c) == IF c \in ToSet(s) THEN Tail(s) ELSE s

\* append(s[:i], s[i+1:]...) for the index of c, when it is there.
Without(s, c) == IF c \in ToSet(s) THEN RemoveAt(s, Idx(s, c)) ELSE s

\* One send of m to every client of s, in order.
ToAll(s, m) == [i \in DOMAIN s |-> <<s[i], m>>]

\* broadcastQueuePositions: every waiting client its number.
Positions(q) == [i \in DOMAIN q |-> <<q[i], Place("queue-position", i)>>]

\* h.mu is held: in write mode by Join or Leave, or in any mode.
Holds(c) == owed[c] # <<>>
WriteHeld == \E c \in Clients : Holds(c) /\ Head(owed[c])[2] # Signal
\* Slip: Join and Leave take the lock in read mode.
FreeToRead == ~WriteHeld
Free == \A c \in Clients : ~Holds(c)

\* RLock is granted: nobody writes, and no Leave waits in Lock (sync.RWMutex
\* blocks new readers behind a waiting writer).
MayRead == ~WriteHeld /\ \A c \in Clients : pc[c] # "leaving"

Members(r) == ToSet(peers[r]) \cup ToSet(queue[r])

Init ==
    /\ rooms = {}
    /\ peers = [r \in RoomIDs |-> <<>>]
    /\ queue = [r \in RoomIDs |-> <<>>]
    /\ room = [c \in Clients |-> NoRoom]
    /\ pc = [c \in Clients |-> "none"]
    /\ writer = [c \in Clients |-> "none"]
    /\ conn = [c \in Clients |-> "closed"]
    /\ send = [c \in Clients |-> <<>>]
    /\ owed = [c \in Clients |-> <<>>]
    /\ told = [c \in Clients |-> Nothing]
    /\ missed = {}

-----------------------------------------------------------------------------
(***************************************************************************)
(* wsHandler: a fresh connection, NewClient, Hub.Join, then the pumps.     *)
(***************************************************************************)

\* Slip: a third peer gets in.
HasPlaceThree(p) == Len(p) <= 2

\* The active pair of a room is not complete.
HasPlace(p) == Len(p) < 2

\* Slip: offerer and answerer are mixed up.
JoinSendsSwapped(p, q, c) ==
    IF c \in ToSet(q) THEN <<<<c, Place("queued", Len(q))>>>>
    ELSE IF Len(p) = 2
         THEN <<<<p[1], Notice("room-ready")>>, <<p[2], Notice("peer-joined")>>>>
         ELSE <<>>

\* Slip: the place is the length of the queue before the client is in it.
JoinSendsFromZero(p, q, c) ==
    IF c \in ToSet(q) THEN <<<<c, Place("queued", Len(q) - 1)>>>>
    ELSE IF Len(p) = 2
         THEN <<<<p[1], Notice("peer-joined")>>, <<p[2], Notice("room-ready")>>>>
         ELSE <<>>

\* What Join tells whom, once the room has the peers p and the queue q.
JoinSends(p, q, c) ==
    IF c \in ToSet(q) THEN <<<<c, Place("queued", Len(q))>>>>
    ELSE IF Len(p) = 2
         THEN <<<<p[1], Notice("peer-joined")>>, <<p[2], Notice("room-ready")>>>>
         ELSE <<>>

Join(c, r) ==
    LET old == IF r \in rooms THEN [peers |-> peers[r], queue |-> queue[r]]
                              ELSE [peers |-> <<>>, queue |-> <<>>]
        active == HasPlace(old.peers)
        p == IF active THEN Append(old.peers, c) ELSE old.peers
        q == IF active THEN old.queue ELSE Append(old.queue, c)
    IN  /\ pc[c] = "none" /\ writer[c] = "none"
        /\ Free
        /\ rooms' = rooms \cup {r}
        /\ peers' = [peers EXCEPT ![r] = p]
        /\ queue' = [queue EXCEPT ![r] = q]
        /\ room' = [room EXCEPT ![c] = r]
        /\ pc' = [pc EXCEPT ![c] = "joined"]
        /\ conn' = [conn EXCEPT ![c] = "open"]
        /\ send' = [send EXCEPT ![c] = <<>>]
        /\ owed' = [owed EXCEPT ![c] = JoinSends(p, q, c)]
        /\ told' = [told EXCEPT ![c] = Nothing]
        /\ missed' = missed \ {c}
        /\ UNCHANGED writer

\* Join has returned and RoomCount has been logged: the two go statements.
StartPumps(c) ==
    /\ pc[c] = "joined" /\ ~Holds(c)
    /\ MayRead
    /\ pc' = [pc EXCEPT ![c] = "reading"]
    /\ writer' = [writer EXCEPT ![c] = "writing"]
    /\ UNCHANGED <<conn, hubVars>>

-----------------------------------------------------------------------------
(***************************************************************************)
(* The select of sendMsg and of Relay: put the message into the channel,   *)
(* or drop it when the channel is full.                                    *)
(***************************************************************************)
SendMsg(c) ==
    LET d == Head(owed[c])[1]
        m == Head(owed[c])[2]
        full == Len(send[d]) >= SendBuf
    IN  /\ Holds(c)
        /\ owed' = [owed EXCEPT ![c] = Tail(@)]
        /\ send' = IF full THEN send ELSE [send EXCEPT ![d] = Append(@, m)]
        /\ told' = IF full \/ m = Signal THEN told ELSE [told EXCEPT ![d] = m]
        /\ missed' = IF m = Signal THEN missed
                     ELSE IF full THEN missed \cup {d} ELSE missed \ {d}
        /\ UNCHANGED <<rooms, peers, queue, room, pc, writer, conn>>

-----------------------------------------------------------------------------
(***************************************************************************)
(* ReadPump.                                                               *)
(***************************************************************************)

\* Relay sends to every active peer that is not the sender (who is among them
\* at most once: OnePlace).  Frames that do not parse or are of another type
\* change nothing.
Relay(c) ==
    /\ pc[c] = "reading" /\ ~Holds(c)
    /\ MayRead
    /\ room[c] \in rooms
    /\ LET others == Without(peers[room[c]], c)
       IN  others # <<>> /\ owed' = [owed EXCEPT ![c] = ToAll(others, Signal)]
    /\ UNCHANGED <<rooms, peers, queue, room, pc, writer, conn, send, told, missed>>

\* What Leave tells whom: p and q are the room's peers and queue after it.
LeaveSends(wasPeer, promote, p, q) ==
    LET survivors == IF promote THEN SubSeq(p, 1, Len(p) - 1) ELSE p
        paired == IF promote /\ Len(p) = 2
                  THEN <<<<p[1], Notice("peer-joined")>>,
                         <<p[2], Notice("queue-promoted")>>>>
                  ELSE <<>>
    IN  IF wasPeer
        THEN ToAll(survivors, Notice("peer-left")) \o paired
                \o (IF promote THEN Positions(q) ELSE <<>>)
        ELSE Positions(q)

\* Slip: a room is deleted as soon as nobody waits in it.
EmptiedNoQueue(p, q) == q = <<>>

\* Nobody is left in the room.
Emptied(p, q) == p = <<>> /\ q = <<>>

\* Slip: the deferred function does not call Leave.
ReadFailNoLeave(c) ==
    /\ pc[c] = "reading" /\ ~Holds(c)
    /\ conn[c] # "open"
    /\ pc' = [pc EXCEPT ![c] = "left"]
    /\ UNCHANGED <<writer, conn, hubVars>>

\* Reading fails: the browser has gone (or nothing was heard from it for
\* pongWait), or WritePump closed the connection.  The deferred function
\* calls Leave, which waits for the lock.
ReadFail(c) ==
    /\ pc[c] = "reading" /\ ~Holds(c)
    /\ conn[c] # "open"
    /\ pc' = [pc EXCEPT ![c] = "leaving"]
    /\ UNCHANGED <<writer, conn, hubVars>>

\* Leave has the lock.
Leave(c) ==
    LET r == room[c]
        wasPeer == c \in ToSet(peers[r])
        wasQueued == ~wasPeer /\ c \in ToSet(queue[r])
        promote == wasPeer /\ queue[r] # <<>>
        p == IF promote THEN Append(Without(peers[r], c), Head(queue[r]))
                        ELSE Without(peers[r], c)
        q == IF promote THEN Tail(queue[r])
             ELSE IF wasQueued THEN Without(queue[r], c) ELSE queue[r]
    IN  /\ pc[c] = "leaving"
        /\ Free
        /\ pc' = [pc EXCEPT ![c] = "left"]
        /\ IF r \in rooms
           THEN /\ peers' = [peers EXCEPT ![r] = p]
                /\ queue' = [queue EXCEPT ![r] = q]
                /\ rooms' = IF Emptied(p, q) THEN rooms \ {r} ELSE rooms
                /\ owed' = IF wasPeer \/ wasQueued
                           THEN [owed EXCEPT ![c] = LeaveSends(wasPeer, promote, p, q)]
                           ELSE owed
           ELSE UNCHANGED <<rooms, peers, queue, owed>>
        /\ UNCHANGED <<room, writer, conn, send, told, missed>>

\* Slip: it does not close the connection.
CloseConnNot(c) ==
    /\ pc[c] = "left" /\ ~Holds(c)
    /\ pc' = [pc EXCEPT ![c] = "none"]
    /\ UNCHANGED <<conn, writer, hubVars>>

\* The second half of ReadPump's deferred function.
CloseConn(c) ==
    /\ pc[c] = "left" /\ ~Holds(c)
    /\ pc' = [pc EXCEPT ![c] = "none"]
    /\ conn' = [conn EXCEPT ![c] = "closed"]
    /\ UNCHANGED <<writer, hubVars>>

-----------------------------------------------------------------------------
(***************************************************************************)
(* WritePump, and the browser at the other end.                            *)
(***************************************************************************)

\* WriteJSON succeeds; towards a browser that is gone it still can.
WriteMsg(c) ==
    /\ writer[c] = "writing" /\ send[c] # <<>>
    /\ conn[c] # "closed"
    /\ send' = [send EXCEPT ![c] = Tail(@)]
    /\ UNCHANGED <<rooms, peers, queue, room, pc, writer, conn, owed, told, missed>>

\* WriteJSON fails: the message is out of the channel, and the pump ends.
WriteFail(c) ==
    /\ writer[c] = "writing" /\ send[c] # <<>>
    /\ conn[c] # "open"
    /\ send' = [send EXCEPT ![c] = Tail(@)]
    /\ writer' = [writer EXCEPT ![c] = "none"]
    /\ conn' = [conn EXCEPT ![c] = "closed"]
    /\ UNCHANGED <<rooms, peers, queue, room, pc, owed, told, missed>>

\* The ticker's ping fails.
PingFail(c) ==
    /\ writer[c] = "writing"
    /\ conn[c] # "open"
    /\ writer' = [writer EXCEPT ![c] = "none"]
    /\ conn' = [conn EXCEPT ![c] = "closed"]
    /\ UNCHANGED <<pc, hubVars>>

\* The browser closes the socket, or the network takes it away.
Drop(c) ==
    /\ conn[c] = "open"
    /\ conn' = [conn EXCEPT ![c] = "gone"]
    /\ UNCHANGED <<pc, writer, hubVars>>

-----------------------------------------------------------------------------
Reader(c) == (\E r \in RoomIDs : Join(c, r)) \/ StartPumps(c) \/ SendMsg(c)
                \/ Relay(c) \/ ReadFail(c) \/ Leave(c) \/ CloseConn(c)
Writer(c) == WriteMsg(c) \/ WriteFail(c) \/ PingFail(c)

Next == \E c \in Clients : Reader(c) \/ Writer(c) \/ Drop(c)

Spec == Init /\ [][Next]_vars

(***************************************************************************)
(* Fairness: a goroutine that can go on does.  A goroutine that waits for  *)
(* h.mu gets it, although others take it in between: sync.RWMutex wakes    *)
(* those who wait in order.  A read on a connection that is gone or closed *)
(* fails: after the few frames that were under way, and within pongWait    *)
(* (60s) at the latest.  A ping on a connection we closed fails; nothing   *)
(* is assumed of writes to one that is merely gone, and nothing makes a    *)
(* browser connect, speak or go.                                           *)
(***************************************************************************)
Fairness ==
    \A c \in Clients :
        /\ WF_vars(SendMsg(c))
        /\ SF_vars(StartPumps(c))
        /\ SF_vars(ReadFail(c))
        /\ SF_vars(Leave(c))
        /\ WF_vars(CloseConn(c))
        /\ WF_vars(conn[c] = "closed" /\ (WriteFail(c) \/ PingFail(c)))

FairSpec == Spec /\ Fairness

-----------------------------------------------------------------------------
(***************************************************************************)
(* Properties.                                                             *)
(***************************************************************************)

\* The type invariant of the hub, its clients and their goroutines.
TypeOK ==
    /\ rooms \subseteq RoomIDs
    /\ peers \in [RoomIDs -> Seq(Clients)]
    /\ queue \in [RoomIDs -> Seq(Clients)]
    /\ room \in [Clients -> RoomIDs \cup {NoRoom}]
    /\ pc \in [Clients -> {"none", "joined", "reading", "leaving", "left"}]
    /\ writer \in [Clients -> {"none", "writing"}]
    /\ conn \in [Clients -> {"open", "gone", "closed"}]
    /\ send \in [Clients -> Seq(Message)]
    /\ owed \in [Clients -> Seq(Clients \X Message)]
    /\ told \in [Clients -> Message \cup {Nothing}]
    /\ missed \subseteq Clients

Line(r) == peers[r] \o queue[r]
InRoom(c) == pc[c] \in {"joined", "reading", "leaving"}

\* Nobody is in two places: a client stands in the line of its own room,
\* once, from Join to Leave, and in no other line at any other time.
OnePlace ==
    \A r \in RoomIDs :
        /\ IsInjective(Line(r))
        /\ \A c \in Clients : c \in ToSet(Line(r)) <=> InRoom(c) /\ room[c] = r

\* Somebody waits only behind a full pair (so the "no surviving peer" branch
\* of Leave is never taken), and there are never three peers.
PairBeforeQueue ==
    \A r \in RoomIDs : Len(peers[r]) <= 2 /\ (queue[r] # <<>> => Len(peers[r]) = 2)

\* The hub's map holds exactly the rooms somebody is in: no room is leaked
\* by the cleanup of Leave, none is deleted while in use.
NoRoomLeaked == \A r \in RoomIDs : r \in rooms <=> Line(r) # <<>>

\* Every send a goroutine still has to make inside its critical section goes
\* to somebody who is in the sender's room at that moment: a signal to an
\* active peer that is not the sender, a notice to any member.  This is what
\* the lock is for: no Join or Leave of others gets between the lookup of
\* the recipients and the sends to them.
SendsToMembers ==
    \A c \in Clients : \A i \in DOMAIN owed[c] :
        LET d == owed[c][i][1]
            r == room[c]
        IN  IF owed[c][i][2] = Signal
            THEN d \in ToSet(peers[r]) \ {c}
            ELSE d \in Members(r)

\* Between two critical sections the last notice each client was sent tells
\* it where it stands - unless that very notice was dropped: a waiting client
\* knows its place in the queue, of a pair one was told to offer and the
\* other to answer, and one alone was not told that somebody is there.
Standing ==
    Free => \A r \in RoomIDs :
        LET knows(c, types) == c \in missed \/ told[c].type \in types
        IN  /\ \A i \in DOMAIN queue[r] :
                LET c == queue[r][i]
                IN  /\ knows(c, {"queued", "queue-position"})
                    /\ c \in missed \/ told[c].position = i
            /\ Len(peers[r]) = 2 =>
                /\ knows(peers[r][1], {"peer-joined"})
                /\ knows(peers[r][2], {"room-ready", "queue-promoted"})
            /\ Len(peers[r]) = 1 => knows(peers[r][1], {"nothing", "peer-left"})

\* The hub implements the line of RoomLine: whatever the two slices of a room
\* go through, clients are served in the order they came, and exactly the two
\* at the front are active.
TheLine == INSTANCE RoomLine
    WITH line <- [r \in RoomIDs |-> Line(r)],
         talking <- [r \in RoomIDs |-> ToSet(peers[r])]

LineSpec == TheLine!LineSpec

-----------------------------------------------------------------------------
\* A connection that is lost while in a room is taken out of it in the end
\* (ReadPump's deferred Leave): no ghost keeps a place for ever.
GhostLeaves ==
    \A c \in Clients, r \in RoomIDs :
        (c \in Members(r) /\ conn[c] # "open") ~> (c \notin Members(r))

\* When one of the pair is lost, whoever is first in the queue does not wait
\* for ever: the place becomes theirs (or they give up themselves).
PlaceIsTaken ==
    \A r \in RoomIDs, c \in Clients :
        (/\ queue[r] # <<>> /\ Head(queue[r]) = c
         /\ \E d \in ToSet(peers[r]) : conn[d] # "open")
        ~> (c \notin ToSet(queue[r]))

\* Both pumps of a connection that is gone end: no goroutine is leaked.
PumpsEnd ==
    \A c \in Clients :
        (conn[c] # "open" /\ pc[c] # "none") ~> (pc[c] = "none" /\ writer[c] = "none")

-----------------------------------------------------------------------------
(***************************************************************************)
(* What the comments of hub.go say and the code does not do.               *)
(***************************************************************************)

\* "Relay forwards a message from one client to the other ACTIVE peer": the
\* one who speaks is one of the pair, and one other client hears it.
RelayWithinPair ==
    \A c \in Clients :
        (Holds(c) /\ Head(owed[c])[2] = Signal) =>
            c \in ToSet(peers[room[c]]) /\ Len(owed[c]) = 1

\* "Channel full - peer has gone away, drop silently": a signal is dropped
\* only when the connection of the peer it is for is no longer there.
DropsOnlyForGone ==
    [][\A c \in Clients :
         (/\ Holds(c) /\ Head(owed[c])[2] = Signal
          /\ owed'[c] = Tail(owed[c]) /\ send' = send)
         => conn[Head(owed[c])[1]] # "open"]_vars

=============================================================================
