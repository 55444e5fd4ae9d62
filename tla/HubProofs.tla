------------------------------ MODULE HubProofs ------------------------------
(***************************************************************************)
(* Proofs about Hub, for any clients, rooms and capacity of the channels:  *)
(* its type invariant, that nobody is in two places, that it implements    *)
(* the line of RoomLine, and that everybody was told where it stands.      *)
(***************************************************************************)
EXTENDS Hub, SeqLemmas

\* What the hub says itself, rather than relays.
Own == Message \ {Signal}

-----------------------------------------------------------------------------
(***************************************************************************)
(* Types of what the operators build.                                      *)
(***************************************************************************)

\* The four notices and every place are the hub's own messages.
LEMMA MessageTypes ==
    /\ Notice("peer-joined") \in Own
    /\ Notice("room-ready") \in Own
    /\ Notice("peer-left") \in Own
    /\ Notice("queue-promoted") \in Own
    /\ Signal \in Message
    /\ \A n \in Nat \ {0} : /\ Place("queued", n) \in Own
                            /\ Place("queue-position", n) \in Own
<1>1. /\ Notice("peer-joined") \in Own
      /\ Notice("room-ready") \in Own
      /\ Notice("peer-left") \in Own
      /\ Notice("queue-promoted") \in Own
      /\ Signal \in Message
  BY DEF Own, Message, Notice, Signal
<1>2. ASSUME NEW n \in Nat \ {0}, NEW t \in {"queued", "queue-position"}
      PROVE  Place(t, n) \in Own
  <2>1. Place(t, n) \in Message
    BY DEF Message, Place
  <2>2. Place(t, n).type = t /\ Signal.type = "signal"
    BY DEF Place, Signal
  <2>3. Place(t, n) # Signal
    BY <2>2
  <2> QED BY <2>1, <2>3 DEF Own
<1> QED BY <1>1, <1>2

\* Sends of the hub's own messages are sends of messages.
LEMMA OwnSends == Seq(Clients \X Own) \subseteq Seq(Clients \X Message)
<1>1. Clients \X Own \subseteq Clients \X Message
  BY DEF Own
<1> QED BY <1>1, SeqMonotonic

\* A function on 1..n is a sequence.
LEMMA FunctionIsSeq ==
    ASSUME NEW S, NEW n \in Nat, NEW f \in [1..n -> S]
    PROVE  f \in Seq(S)
BY SeqDef

\* Sequences of one and of two elements.
LEMMA PairIsSeq ==
    ASSUME NEW S, NEW a \in S, NEW b \in S
    PROVE  <<a>> \in Seq(S) /\ <<a, b>> \in Seq(S)
OBVIOUS

\* One send to each client of a sequence.
LEMMA ToAllType ==
    ASSUME NEW M, NEW T, NEW s \in Seq(M), NEW m \in T
    PROVE  ToAll(s, m) \in Seq(M \X T)
<1>1. DOMAIN s = 1..Len(s) /\ Len(s) \in Nat /\ \A i \in 1..Len(s) : s[i] \in M
  BY LenProperties, ElementOfSeq
<1>2. ToAll(s, m) \in [1..Len(s) -> M \X T]
  BY <1>1 DEF ToAll
<1> QED BY <1>1, <1>2, FunctionIsSeq

\* The positions broadcastQueuePositions sends.
LEMMA PositionsType ==
    ASSUME NEW M, NEW q \in Seq(M)
    PROVE  Positions(q) \in Seq(M \X Own)
<1>1. DOMAIN q = 1..Len(q) /\ Len(q) \in Nat /\ \A i \in 1..Len(q) : q[i] \in M
  BY LenProperties, ElementOfSeq
<1>2. \A i \in 1..Len(q) : Place("queue-position", i) \in Own
  BY <1>1, MessageTypes
<1>3. Positions(q) \in [1..Len(q) -> M \X Own]
  BY <1>1, <1>2 DEF Positions
<1> QED BY <1>1, <1>3, FunctionIsSeq

\* Taking a client out of a slice.
LEMMA WithoutType ==
    ASSUME NEW s \in Seq(Clients), NEW c
    PROVE  /\ Without(s, c) \in Seq(Clients)
           /\ c \notin ToSet(s) => Without(s, c) = s
           /\ c \in ToSet(s) => /\ Idx(s, c) \in 1..Len(s)
                                /\ s[Idx(s, c)] = c
                                /\ Without(s, c) = RemoveAt(s, Idx(s, c))
<1>1. DOMAIN s = 1..Len(s)
  BY LenProperties
<1>2. CASE c \notin ToSet(s)
  BY <1>2 DEF Without
<1>3. CASE c \in ToSet(s)
  <2>1. \E i \in 1..Len(s) : s[i] = c
    BY <1>3, ToSetProperties
  <2>2. Idx(s, c) \in 1..Len(s) /\ s[Idx(s, c)] = c
    BY <2>1, <1>1 DEF Idx
  <2>3. Without(s, c) = RemoveAt(s, Idx(s, c))
    BY <1>3 DEF Without
  <2> QED BY <1>3, <2>2, <2>3, RemoveAtProperties
<1> QED BY <1>2, <1>3

\* What Join and Leave send is the hub's own and goes to clients of the room
\* (M may be any set that holds the room's clients).
LEMMA JoinSendsType ==
    ASSUME NEW M, NEW p \in Seq(M), NEW q \in Seq(M), NEW c \in M
    PROVE  JoinSends(p, q, c) \in Seq(M \X Own)
<1>1. CASE c \in ToSet(q)
  <2>1. Len(q) \in Nat \ {0}
    BY <1>1, ToSetProperties, EmptySeq
  <2>2. <<c, Place("queued", Len(q))>> \in M \X Own
    BY <2>1, MessageTypes
  <2> QED BY <1>1, <2>2, PairIsSeq DEF JoinSends
<1>2. CASE c \notin ToSet(q) /\ Len(p) = 2
  <2>1. p[1] \in M /\ p[2] \in M
    <3>1. 1 \in 1..Len(p) /\ 2 \in 1..Len(p)
      BY <1>2
    <3> QED BY <3>1, ElementOfSeq
  <2>2. <<p[1], Notice("peer-joined")>> \in M \X Own /\ <<p[2], Notice("room-ready")>> \in M \X Own
    BY <2>1, MessageTypes
  <2>3. <<<<p[1], Notice("peer-joined")>>, <<p[2], Notice("room-ready")>>>> \in Seq(M \X Own)
    BY <2>2, PairIsSeq
  <2> QED BY <1>2, <2>3 DEF JoinSends
<1>3. CASE c \notin ToSet(q) /\ Len(p) # 2
  BY <1>3, EmptySeq DEF JoinSends
<1> QED BY <1>1, <1>2, <1>3

\* What Leave tells, it tells members of the room, in messages of its own.
LEMMA LeaveSendsType ==
    ASSUME NEW M, NEW w \in BOOLEAN, NEW promote \in BOOLEAN, promote => w,
           NEW p \in Seq(M), NEW q \in Seq(M), promote => p # <<>>
    PROVE  LeaveSends(w, promote, p, q) \in Seq(M \X Own)
<1> DEFINE survivors == IF promote THEN SubSeq(p, 1, Len(p) - 1) ELSE p
           paired == IF promote /\ Len(p) = 2
                     THEN <<<<p[1], Notice("peer-joined")>>,
                            <<p[2], Notice("queue-promoted")>>>>
                     ELSE <<>>
           places == IF promote THEN Positions(q) ELSE <<>>
<1>1. survivors \in Seq(M)
  <2>1. Len(p) \in Nat /\ \A i \in 1..Len(p) : p[i] \in M
    BY LenProperties, ElementOfSeq
  <2>2. \A i \in 1..(Len(p) - 1) : p[i] \in M
    BY <2>1
  <2>3. SubSeq(p, 1, Len(p) - 1) \in Seq(M)
    BY <2>1, <2>2, SubSeqProperties
  <2> QED BY <2>3
<1>2. paired \in Seq(M \X Own)
  <2>1. CASE promote /\ Len(p) = 2
    <3>1. p[1] \in M /\ p[2] \in M
      <4>1. 1 \in 1..Len(p) /\ 2 \in 1..Len(p)
        BY <2>1
      <4> QED BY <4>1, ElementOfSeq
    <3>2. <<p[1], Notice("peer-joined")>> \in M \X Own /\ <<p[2], Notice("queue-promoted")>> \in M \X Own
      BY <3>1, MessageTypes
    <3> QED BY <2>1, <3>2, PairIsSeq
  <2>2. CASE ~(promote /\ Len(p) = 2)
    BY <2>2, EmptySeq
  <2> QED BY <2>1, <2>2
<1>3. places \in Seq(M \X Own) /\ Positions(q) \in Seq(M \X Own)
  BY PositionsType, EmptySeq
<1>4. ToAll(survivors, Notice("peer-left")) \in Seq(M \X Own)
  BY <1>1, ToAllType, MessageTypes
<1>5. LeaveSends(w, promote, p, q) =
        IF w THEN ToAll(survivors, Notice("peer-left")) \o paired \o places
             ELSE Positions(q)
  BY DEF LeaveSends
<1> HIDE DEF survivors, paired, places
<1>6. ToAll(survivors, Notice("peer-left")) \o paired \in Seq(M \X Own)
  BY <1>2, <1>4, ConcatProperties
<1>7. ToAll(survivors, Notice("peer-left")) \o paired \o places \in Seq(M \X Own)
  BY <1>3, <1>6, ConcatProperties
<1> QED BY <1>3, <1>5, <1>7

-----------------------------------------------------------------------------
(***************************************************************************)
(* Type correctness.                                                       *)
(***************************************************************************)

\* Each action preserves the types.
LEMMA TypeStep == TypeOK /\ [Next]_vars => TypeOK'
<1> SUFFICES ASSUME TypeOK, [Next]_vars PROVE TypeOK'
  OBVIOUS
<1> USE NoRoomAssumption, SendBufAssumption
<1>1. ASSUME NEW c \in Clients, NEW r \in RoomIDs, Join(c, r)
      PROVE  TypeOK'
  <2> DEFINE oldP == IF r \in rooms THEN peers[r] ELSE <<>>
             oldQ == IF r \in rooms THEN queue[r] ELSE <<>>
             p == IF HasPlace(oldP) THEN Append(oldP, c) ELSE oldP
             q == IF HasPlace(oldP) THEN oldQ ELSE Append(oldQ, c)
  <2>1. oldP \in Seq(Clients) /\ oldQ \in Seq(Clients)
    BY EmptySeq DEF TypeOK
  <2>2. p \in Seq(Clients) /\ q \in Seq(Clients)
    BY <2>1, AppendProperties
  <2>3. /\ rooms' = rooms \cup {r}
        /\ peers' = [peers EXCEPT ![r] = p]
        /\ queue' = [queue EXCEPT ![r] = q]
        /\ owed' = [owed EXCEPT ![c] = JoinSends(p, q, c)]
    BY <1>1 DEF Join
  <2>4. /\ room' = [room EXCEPT ![c] = r]
        /\ pc' = [pc EXCEPT ![c] = "joined"]
        /\ conn' = [conn EXCEPT ![c] = "open"]
        /\ send' = [send EXCEPT ![c] = <<>>]
        /\ told' = [told EXCEPT ![c] = Nothing]
        /\ missed' = missed \ {c}
        /\ writer' = writer
    BY <1>1 DEF Join
  <2> HIDE DEF p, q, oldP, oldQ
  <2>5. JoinSends(p, q, c) \in Seq(Clients \X Message)
    BY <2>2, JoinSendsType, OwnSends
  <2>6. <<>> \in Seq(Message)
    BY EmptySeq
  <2> QED BY <2>2, <2>3, <2>4, <2>5, <2>6 DEF TypeOK
<1>2. ASSUME NEW c \in Clients, StartPumps(c)
      PROVE  TypeOK'
  BY <1>2 DEF TypeOK, StartPumps, hubVars
<1>3. ASSUME NEW c \in Clients, SendMsg(c)
      PROVE  TypeOK'
  <2>1. owed[c] \in Seq(Clients \X Message) /\ owed[c] # <<>>
    BY <1>3 DEF TypeOK, SendMsg, Holds
  <2>2. Head(owed[c]) \in Clients \X Message /\ Tail(owed[c]) \in Seq(Clients \X Message)
    BY <2>1, HeadTailProperties
  <2> DEFINE d == Head(owed[c])[1]
             m == Head(owed[c])[2]
  <2>3. d \in Clients /\ m \in Message
    BY <2>2
  <2>4. /\ owed' = [owed EXCEPT ![c] = Tail(owed[c])]
        /\ \/ send' = send
           \/ send' = [send EXCEPT ![d] = Append(send[d], m)]
        /\ \/ told' = told
           \/ told' = [told EXCEPT ![d] = m]
        /\ missed' = missed \/ missed' = missed \cup {d} \/ missed' = missed \ {d}
        /\ UNCHANGED <<rooms, peers, queue, room, pc, writer, conn>>
    BY <1>3, <2>3 DEF SendMsg, TypeOK
  <2> HIDE DEF d, m
  <2>5. Append(send[d], m) \in Seq(Message)
    BY <2>3, AppendProperties DEF TypeOK
  <2>6. owed' \in [Clients -> Seq(Clients \X Message)]
    BY <2>2, <2>4 DEF TypeOK
  <2>7. send' \in [Clients -> Seq(Message)]
    BY <2>3, <2>4, <2>5 DEF TypeOK
  <2>8. told' \in [Clients -> Message \cup {Nothing}]
    BY <2>3, <2>4 DEF TypeOK
  <2>9. missed' \subseteq Clients
    BY <2>3, <2>4 DEF TypeOK
  <2> QED BY <2>4, <2>6, <2>7, <2>8, <2>9 DEF TypeOK
<1>4. ASSUME NEW c \in Clients, Relay(c)
      PROVE  TypeOK'
  <2> DEFINE others == Without(peers[room[c]], c)
  <2>1. room[c] \in RoomIDs
    BY <1>4 DEF Relay, TypeOK
  <2>2. peers[room[c]] \in Seq(Clients)
    BY <2>1 DEF TypeOK
  <2>3. others \in Seq(Clients)
    BY <2>2, WithoutType
  <2>4. ToAll(others, Signal) \in Seq(Clients \X Message)
    BY <2>3, ToAllType, MessageTypes
  <2>5. owed' = [owed EXCEPT ![c] = ToAll(others, Signal)]
    BY <1>4 DEF Relay
  <2> HIDE DEF others
  <2> QED BY <1>4, <2>4, <2>5 DEF TypeOK, Relay
<1>5. ASSUME NEW c \in Clients, ReadFail(c)
      PROVE  TypeOK'
  BY <1>5 DEF TypeOK, ReadFail, hubVars
<1>6. ASSUME NEW c \in Clients, Leave(c)
      PROVE  TypeOK'
  <2>1. CASE room[c] \in rooms
    <3> DEFINE r == room[c]
               wasPeer == c \in ToSet(peers[r])
               wasQueued == ~wasPeer /\ c \in ToSet(queue[r])
               promote == wasPeer /\ queue[r] # <<>>
               p == IF promote THEN Append(Without(peers[r], c), Head(queue[r]))
                               ELSE Without(peers[r], c)
               q == IF promote THEN Tail(queue[r])
                    ELSE IF wasQueued THEN Without(queue[r], c) ELSE queue[r]
    <3>1. r \in RoomIDs /\ peers[r] \in Seq(Clients) /\ queue[r] \in Seq(Clients)
      BY <2>1 DEF TypeOK
    <3>2. /\ Without(peers[r], c) \in Seq(Clients)
          /\ Without(queue[r], c) \in Seq(Clients)
          /\ queue[r] # <<>> => Head(queue[r]) \in Clients /\ Tail(queue[r]) \in Seq(Clients)
      BY <3>1, WithoutType, HeadTailProperties
    <3>3. p \in Seq(Clients) /\ q \in Seq(Clients) /\ (promote => p # <<>>)
      BY <3>1, <3>2, AppendProperties
    <3>4. wasPeer \in BOOLEAN /\ promote \in BOOLEAN /\ (promote => wasPeer)
      OBVIOUS
    <3>5. /\ peers' = [peers EXCEPT ![r] = p]
          /\ queue' = [queue EXCEPT ![r] = q]
          /\ rooms' = rooms \ {r} \/ rooms' = rooms
          /\ \/ owed' = [owed EXCEPT ![c] = LeaveSends(wasPeer, promote, p, q)]
             \/ owed' = owed
      BY <1>6, <2>1 DEF Leave
    <3>6. /\ pc' = [pc EXCEPT ![c] = "left"]
          /\ UNCHANGED <<room, writer, conn, send, told, missed>>
      BY <1>6 DEF Leave
    <3> HIDE DEF p, q, promote, wasPeer, wasQueued, r
    <3>7. LeaveSends(wasPeer, promote, p, q) \in Seq(Clients \X Message)
      BY <3>3, <3>4, LeaveSendsType, OwnSends
    <3>8. /\ peers' \in [RoomIDs -> Seq(Clients)]
          /\ queue' \in [RoomIDs -> Seq(Clients)]
          /\ rooms' \subseteq RoomIDs
      BY <3>1, <3>3, <3>5 DEF TypeOK
    <3>9. owed' \in [Clients -> Seq(Clients \X Message)]
      BY <3>5, <3>7 DEF TypeOK
    <3>10. pc' \in [Clients -> {"none", "joined", "reading", "leaving", "left"}]
      BY <3>6 DEF TypeOK
    <3> QED BY <3>6, <3>8, <3>9, <3>10 DEF TypeOK
  <2>2. CASE room[c] \notin rooms
    BY <1>6, <2>2 DEF Leave, TypeOK
  <2> QED BY <2>1, <2>2
<1>7. ASSUME NEW c \in Clients, CloseConn(c)
      PROVE  TypeOK'
  BY <1>7 DEF TypeOK, CloseConn, hubVars
<1>8. ASSUME NEW c \in Clients, WriteMsg(c) \/ WriteFail(c)
      PROVE  TypeOK'
  <2>1. send[c] \in Seq(Message) /\ send[c] # <<>>
    BY <1>8 DEF TypeOK, WriteMsg, WriteFail
  <2>2. Tail(send[c]) \in Seq(Message)
    BY <2>1, HeadTailProperties
  <2>3. /\ send' = [send EXCEPT ![c] = Tail(send[c])]
        /\ writer' = writer \/ writer' = [writer EXCEPT ![c] = "none"]
        /\ conn' = conn \/ conn' = [conn EXCEPT ![c] = "closed"]
        /\ UNCHANGED <<rooms, peers, queue, room, pc, owed, told, missed>>
    BY <1>8 DEF WriteMsg, WriteFail
  <2>4. send' \in [Clients -> Seq(Message)]
    BY <2>2, <2>3 DEF TypeOK
  <2>5. /\ writer' \in [Clients -> {"none", "writing"}]
        /\ conn' \in [Clients -> {"open", "gone", "closed"}]
    BY <2>3 DEF TypeOK
  <2> QED BY <2>3, <2>4, <2>5 DEF TypeOK
<1>9. ASSUME NEW c \in Clients, PingFail(c) \/ Drop(c)
      PROVE  TypeOK'
  BY <1>9 DEF TypeOK, PingFail, Drop, hubVars
<1>10. CASE UNCHANGED vars
  BY <1>10 DEF TypeOK, vars
<1> QED
  BY <1>1, <1>2, <1>3, <1>4, <1>5, <1>6, <1>7, <1>8, <1>9, <1>10 DEF Next, Reader, Writer

\* The hub's state, its messages and its goroutines have their types.
THEOREM TypeCorrect == Spec => []TypeOK
<1>1. Init => TypeOK
  <2> SUFFICES ASSUME Init PROVE TypeOK
    OBVIOUS
  <2>1. /\ <<>> \in Seq(Clients) /\ <<>> \in Seq(Message)
        /\ <<>> \in Seq(Clients \X Message)
    BY EmptySeq
  <2> QED BY <2>1 DEF Init, TypeOK
<1> QED BY <1>1, TypeStep, PTL DEF Spec

-----------------------------------------------------------------------------
(***************************************************************************)
(* Who stands where.  The three invariants below need each other: Leave    *)
(* promotes into a place only because somebody waits only behind a full    *)
(* pair, and Join finds a joining client in no line because clients are in *)
(* a line exactly from Join to Leave.                                      *)
(***************************************************************************)
Places == OnePlace /\ PairBeforeQueue /\ NoRoomLeaked
Inv == TypeOK /\ Places

\* A room with the peers P and the queue Q is shaped as PairBeforeQueue says.
Shaped(P, Q) == Len(P) <= 2 /\ (Q # <<>> => Len(P) = 2)

\* The rest of Hub's state does not matter to Places.
LEMMA PlacesFrame ==
    ASSUME Places, UNCHANGED <<rooms, peers, queue, room>>,
           \A d \in Clients : InRoom(d)' <=> InRoom(d)
    PROVE  Places'
<1>1. \A r \in RoomIDs : Line(r)' = Line(r)
  BY DEF Line
<1>2. OnePlace'
  BY <1>1 DEF Places, OnePlace
<1>3. PairBeforeQueue' /\ NoRoomLeaked'
  BY <1>1 DEF Places, PairBeforeQueue, NoRoomLeaked
<1> QED BY <1>2, <1>3 DEF Places

\* Rewriting one room moves its line and no other.
LEMMA OneLine ==
    ASSUME TypeOK, NEW r \in RoomIDs, NEW P \in Seq(Clients), NEW Q \in Seq(Clients),
           peers' = [peers EXCEPT ![r] = P], queue' = [queue EXCEPT ![r] = Q]
    PROVE  /\ peers'[r] = P /\ queue'[r] = Q
           /\ Line(r)' = P \o Q
           /\ \A x \in RoomIDs \ {r} : /\ Line(x)' = Line(x)
                                       /\ peers'[x] = peers[x] /\ queue'[x] = queue[x]
BY DEF TypeOK, Line

\* The line of a room is a sequence of clients, and its parts are.
LEMMA LineType ==
    ASSUME TypeOK, NEW r \in RoomIDs
    PROVE  /\ peers[r] \in Seq(Clients) /\ queue[r] \in Seq(Clients)
           /\ Line(r) \in Seq(Clients)
           /\ Line(r) = <<>> <=> peers[r] = <<>> /\ queue[r] = <<>>
           /\ ToSet(Line(r)) = ToSet(peers[r]) \cup ToSet(queue[r])
<1>1. peers[r] \in Seq(Clients) /\ queue[r] \in Seq(Clients)
  BY DEF TypeOK
<1> QED BY <1>1, ConcatProperties, ConcatEqualIffEmpty, ConcatSimplifications,
           ConcatEmptySeq, EmptySeq, ToSetConcat DEF Line

\* The two slices of a room after Join, and the line they make.
NewPeers(A, c) == IF HasPlace(A) THEN Append(A, c) ELSE A
NewQueue(A, B, c) == IF HasPlace(A) THEN B ELSE Append(B, c)

\* Join keeps the pair before the queue, and puts the client at the end of the
\* line.
LEMMA JoinSlices ==
    ASSUME NEW A \in Seq(Clients), NEW B \in Seq(Clients), Shaped(A, B), NEW c \in Clients
    PROVE  /\ NewPeers(A, c) \in Seq(Clients)
           /\ NewQueue(A, B, c) \in Seq(Clients)
           /\ NewPeers(A, c) \o NewQueue(A, B, c) = Append(A \o B, c)
           /\ Shaped(NewPeers(A, c), NewQueue(A, B, c))
<1>1. Len(A) \in Nat /\ Len(A) <= 2 /\ (B # <<>> => Len(A) = 2)
  BY LenProperties DEF Shaped
<1>2. CASE Len(A) < 2
  <2>1. B = <<>> /\ NewPeers(A, c) = Append(A, c) /\ NewQueue(A, B, c) = B
    <3>1. Len(A) # 2
      BY <1>1, <1>2
    <3>2. B = <<>>
      BY <1>1, <3>1
    <3>3. NewPeers(A, c) = Append(A, c) /\ NewQueue(A, B, c) = B
      BY <1>2, Zenon DEF NewPeers, NewQueue, HasPlace
    <3> QED BY <3>2, <3>3
  <2>2. Append(A, c) \in Seq(Clients) /\ Len(Append(A, c)) = Len(A) + 1
    BY AppendProperties
  <2>3. Append(A, c) \o B = Append(A, c) /\ A \o B = A
    BY <2>1, <2>2, ConcatEmptySeq
  <2>4. Shaped(Append(A, c), B)
    BY <1>1, <1>2, <2>1, <2>2 DEF Shaped
  <2> QED BY <2>1, <2>2, <2>3, <2>4
<1>3. CASE ~(Len(A) < 2)
  <2>1. Len(A) = 2 /\ NewPeers(A, c) = A /\ NewQueue(A, B, c) = Append(B, c)
    BY <1>1, <1>3 DEF NewPeers, NewQueue, HasPlace
  <2>2. Append(B, c) \in Seq(Clients)
    BY AppendProperties
  <2>3. A \o Append(B, c) = Append(A \o B, c)
    BY AppendRight
  <2>4. Shaped(A, Append(B, c))
    BY <2>1 DEF Shaped
  <2> QED BY <2>1, <2>2, <2>3, <2>4
<1> QED BY <1>2, <1>3

\* The two slices of a room after Leave, and the line they make: it lost its
\* k-th place, where c stood.
Promotes(A, B, c) == c \in ToSet(A) /\ B # <<>>
LeftPeers(A, B, c) ==
    IF Promotes(A, B, c) THEN Append(Without(A, c), Head(B)) ELSE Without(A, c)
LeftQueue(A, B, c) ==
    IF Promotes(A, B, c) THEN Tail(B)
    ELSE IF c \notin ToSet(A) /\ c \in ToSet(B) THEN Without(B, c) ELSE B

\* Leave keeps the pair before the queue, and takes the client out of the line.
LEMMA LeaveSlices ==
    ASSUME NEW A \in Seq(Clients), NEW B \in Seq(Clients), Shaped(A, B), NEW c \in Clients,
           c \in ToSet(A) \cup ToSet(B)
    PROVE  /\ LeftPeers(A, B, c) \in Seq(Clients)
           /\ LeftQueue(A, B, c) \in Seq(Clients)
           /\ Shaped(LeftPeers(A, B, c), LeftQueue(A, B, c))
           /\ \E k \in 1..Len(A \o B) :
                /\ (A \o B)[k] = c
                /\ LeftPeers(A, B, c) \o LeftQueue(A, B, c) = RemoveAt(A \o B, k)
<1>1. /\ Len(A) \in Nat /\ Len(A) <= 2 /\ (B # <<>> => Len(A) = 2)
      /\ Len(B) \in Nat
  BY LenProperties DEF Shaped
<1>2. /\ Len(A \o B) = Len(A) + Len(B)
      /\ \A i \in 1..(Len(A) + Len(B)) :
            (A \o B)[i] = IF i <= Len(A) THEN A[i] ELSE B[i - Len(A)]
  BY ConcatProperties
<1>3. CASE c \in ToSet(A)
  <2>0. PICK k \in 1..Len(A) : A[k] = c /\ Without(A, c) = RemoveAt(A, k)
    BY <1>3, WithoutType
  <2>1. PICK W \in Seq(Clients) : W = Without(A, c) /\ W = RemoveAt(A, k)
    BY <2>0, WithoutType
  <2>2. Len(W) = Len(A) - 1
    BY <2>1, RemoveAtProperties
  <2>3. k \in 1..Len(A \o B) /\ (A \o B)[k] = c
    <3>1. k \in 1..(Len(A) + Len(B)) /\ k <= Len(A)
      BY <1>1
    <3> QED BY <3>1, <2>0, <1>2
  <2>4. W \o B = RemoveAt(A \o B, k)
    BY <2>1, RemoveAtLeft
  <2>5. CASE B # <<>>
    <3>1. LeftPeers(A, B, c) = Append(W, Head(B)) /\ LeftQueue(A, B, c) = Tail(B)
      BY <1>3, <2>1, <2>5 DEF LeftPeers, LeftQueue, Promotes
    <3>2. Head(B) \in Clients /\ Tail(B) \in Seq(Clients)
      BY <2>5, HeadTailProperties
    <3>3. Append(W, Head(B)) \in Seq(Clients) /\ Len(Append(W, Head(B))) = Len(W) + 1
      BY <3>2, AppendProperties
    <3>4. Append(W, Head(B)) \o Tail(B) = W \o B
      BY <2>5, MoveHead
    <3>5. Shaped(Append(W, Head(B)), Tail(B))
      BY <1>1, <3>3, <2>2, <2>5 DEF Shaped
    <3> QED BY <2>3, <2>4, <3>1, <3>2, <3>3, <3>4, <3>5
  <2>6. CASE B = <<>>
    <3>1. LeftPeers(A, B, c) = W /\ LeftQueue(A, B, c) = B
      BY <1>3, <2>1, <2>6 DEF LeftPeers, LeftQueue, Promotes
    <3>2. Shaped(W, B)
      BY <1>1, <2>2, <2>6 DEF Shaped
    <3> QED BY <2>3, <2>4, <3>1, <3>2
  <2> QED BY <2>5, <2>6
<1>4. CASE c \notin ToSet(A)
  <2>0. PICK i \in 1..Len(B) : B[i] = c /\ Without(B, c) = RemoveAt(B, i)
    BY <1>4, WithoutType
  <2>1. LeftPeers(A, B, c) = A /\ LeftQueue(A, B, c) = RemoveAt(B, i)
    BY <1>4, <2>0, WithoutType DEF LeftPeers, LeftQueue, Promotes
  <2>2. RemoveAt(B, i) \in Seq(Clients)
    BY RemoveAtProperties
  <2>3. Len(B) # 0 /\ B # <<>>
    BY EmptySeq
  <2>4. Len(A) + i \in 1..Len(A \o B) /\ (A \o B)[Len(A) + i] = c
    <3>1. /\ Len(A) + i \in 1..(Len(A) + Len(B)) /\ ~(Len(A) + i <= Len(A))
          /\ (Len(A) + i) - Len(A) = i
      BY <1>1
    <3> QED BY <3>1, <2>0, <1>2
  <2>5. A \o RemoveAt(B, i) = RemoveAt(A \o B, Len(A) + i)
    BY RemoveAtRight
  <2>6. Shaped(A, RemoveAt(B, i))
    BY <1>1, <2>3 DEF Shaped
  <2> QED BY <2>1, <2>2, <2>4, <2>5, <2>6
<1> QED BY <1>3, <1>4

\* Join puts the client at the end of the line of its room.
LEMMA JoinLine ==
    ASSUME Inv, NEW c \in Clients, NEW r \in RoomIDs, Join(c, r)
    PROVE  \E P, Q \in Seq(Clients) :
             /\ peers' = [peers EXCEPT ![r] = P]
             /\ queue' = [queue EXCEPT ![r] = Q]
             /\ P \o Q = Append(Line(r), c)
             /\ Shaped(P, Q)
             /\ owed' = [owed EXCEPT ![c] = JoinSends(P, Q, c)]
             /\ rooms' = rooms \cup {r}
             /\ room' = [room EXCEPT ![c] = r]
             /\ pc[c] = "none" /\ pc' = [pc EXCEPT ![c] = "joined"]
<1>1. peers[r] \in Seq(Clients) /\ queue[r] \in Seq(Clients)
  BY LineType DEF Inv
<1>2. /\ peers[r] = IF r \in rooms THEN peers[r] ELSE <<>>
      /\ queue[r] = IF r \in rooms THEN queue[r] ELSE <<>>
  BY LineType DEF Inv, Places, NoRoomLeaked
<1>3. Shaped(peers[r], queue[r])
  BY DEF Inv, Places, PairBeforeQueue, Shaped
<1>4. /\ peers' = [peers EXCEPT ![r] = NewPeers(peers[r], c)]
      /\ queue' = [queue EXCEPT ![r] = NewQueue(peers[r], queue[r], c)]
      /\ owed' = [owed EXCEPT ![c] =
                    JoinSends(NewPeers(peers[r], c), NewQueue(peers[r], queue[r], c), c)]
  BY <1>2 DEF Join, NewPeers, NewQueue
<1>5. /\ rooms' = rooms \cup {r}
      /\ room' = [room EXCEPT ![c] = r]
      /\ pc[c] = "none" /\ pc' = [pc EXCEPT ![c] = "joined"]
  BY DEF Join
<1> QED BY <1>1, <1>3, <1>4, <1>5, JoinSlices DEF Line

\* Leave takes the client out of the line of its room; the others keep their
\* order, and the head of the queue moves up when a peer is gone.
LEMMA LeaveLine ==
    ASSUME Inv, NEW c \in Clients, Leave(c), room[c] \in RoomIDs
    PROVE  \E P, Q \in Seq(Clients), k \in 1..Len(Line(room[c])) :
             /\ Line(room[c])[k] = c
             /\ peers' = [peers EXCEPT ![room[c]] = P]
             /\ queue' = [queue EXCEPT ![room[c]] = Q]
             /\ P \o Q = RemoveAt(Line(room[c]), k)
             /\ Shaped(P, Q)
             /\ \E w, promote \in BOOLEAN :
                  /\ (promote => w) /\ (promote => P # <<>>)
                  /\ owed' = [owed EXCEPT ![c] = LeaveSends(w, promote, P, Q)]
             /\ rooms' = IF P = <<>> /\ Q = <<>> THEN rooms \ {room[c]} ELSE rooms
             /\ room' = room
             /\ pc[c] = "leaving" /\ pc' = [pc EXCEPT ![c] = "left"]
<1>0. PICK r \in RoomIDs : r = room[c]
  OBVIOUS
<1>1. peers[r] \in Seq(Clients) /\ queue[r] \in Seq(Clients) /\ Line(r) \in Seq(Clients)
  BY LineType DEF Inv
<1>2. pc[c] = "leaving" /\ pc' = [pc EXCEPT ![c] = "left"] /\ room' = room
  BY DEF Leave
<1>3. c \in ToSet(Line(r))
  BY <1>0, <1>2 DEF Inv, Places, OnePlace, InRoom
<1>4. r \in rooms
  BY <1>1, <1>3, ToSetProperties DEF Inv, Places, NoRoomLeaked
<1>5. c \in ToSet(peers[r]) \cup ToSet(queue[r])
  BY <1>3, LineType DEF Inv
<1>6. PICK P, Q : P = LeftPeers(peers[r], queue[r], c) /\ Q = LeftQueue(peers[r], queue[r], c)
  OBVIOUS
<1>7. /\ peers' = [peers EXCEPT ![r] = P]
      /\ queue' = [queue EXCEPT ![r] = Q]
      /\ rooms' = IF P = <<>> /\ Q = <<>> THEN rooms \ {r} ELSE rooms
  BY <1>0, <1>4, <1>6 DEF Leave, Emptied, LeftPeers, LeftQueue, Promotes
<1>8. Shaped(peers[r], queue[r])
  BY DEF Inv, Places, PairBeforeQueue, Shaped
<1>9. P \in Seq(Clients) /\ Q \in Seq(Clients) /\ Shaped(P, Q)
  BY <1>1, <1>5, <1>6, <1>8, LeaveSlices
<1>10. \E w, promote \in BOOLEAN :
         /\ (promote => w) /\ (promote => P # <<>>)
         /\ owed' = [owed EXCEPT ![c] = LeaveSends(w, promote, P, Q)]
  <2> DEFINE w == c \in ToSet(peers[r])
             promote == Promotes(peers[r], queue[r], c)
  <2>1. w \in BOOLEAN /\ promote \in BOOLEAN /\ (promote => w)
    BY DEF Promotes
  <2>2. owed' = [owed EXCEPT ![c] = LeaveSends(w, promote, P, Q)]
    BY <1>0, <1>4, <1>5, <1>6 DEF Leave, LeftPeers, LeftQueue, Promotes
  <2>3. promote => P # <<>>
    <3>1. SUFFICES ASSUME promote PROVE P # <<>>
      OBVIOUS
    <3>2. Head(queue[r]) \in Clients /\ Without(peers[r], c) \in Seq(Clients)
      BY <3>1, <1>1, HeadTailProperties, WithoutType DEF Promotes
    <3> QED BY <3>1, <3>2, <1>6, AppendProperties DEF LeftPeers
  <2> HIDE DEF w, promote
  <2> QED BY <2>1, <2>2, <2>3
<1>11. \E k \in 1..Len(Line(r)) : Line(r)[k] = c /\ P \o Q = RemoveAt(Line(r), k)
  <2>1. \E k \in 1..Len(peers[r] \o queue[r]) :
          /\ (peers[r] \o queue[r])[k] = c
          /\ P \o Q = RemoveAt(peers[r] \o queue[r], k)
    <3> DEFINE A == peers[r]
               B == queue[r]
    <3>1. /\ A \in Seq(Clients) /\ B \in Seq(Clients) /\ Shaped(A, B)
          /\ c \in ToSet(A) \cup ToSet(B)
          /\ P = LeftPeers(A, B, c) /\ Q = LeftQueue(A, B, c)
      BY <1>1, <1>5, <1>6, <1>8
    <3> HIDE DEF A, B
    <3>2. \E k \in 1..Len(A \o B) : (A \o B)[k] = c /\ P \o Q = RemoveAt(A \o B, k)
      BY <3>1, LeaveSlices
    <3> QED BY <3>2 DEF A, B
  <2> QED BY <2>1 DEF Line
<1> QED BY <1>0, <1>2, <1>7, <1>9, <1>11, <1>10

-----------------------------------------------------------------------------
\* Places after Join.
LEMMA JoinPlaces ==
    ASSUME Inv, NEW c \in Clients, NEW r \in RoomIDs, Join(c, r)
    PROVE  Places'
<1>1. PICK P \in Seq(Clients), Q \in Seq(Clients) :
        /\ peers' = [peers EXCEPT ![r] = P]
        /\ queue' = [queue EXCEPT ![r] = Q]
        /\ P \o Q = Append(Line(r), c)
        /\ Shaped(P, Q)
        /\ rooms' = rooms \cup {r}
        /\ room' = [room EXCEPT ![c] = r]
        /\ pc[c] = "none" /\ pc' = [pc EXCEPT ![c] = "joined"]
  BY JoinLine, ZenonT(40)
<1>2. /\ peers'[r] = P /\ queue'[r] = Q /\ Line(r)' = Append(Line(r), c)
      /\ \A x \in RoomIDs \ {r} : /\ Line(x)' = Line(x)
                                  /\ peers'[x] = peers[x] /\ queue'[x] = queue[x]
  BY <1>1, OneLine, ZenonT(40) DEF Inv
<1>3. /\ \A d \in Clients \ {c} : (InRoom(d)' <=> InRoom(d)) /\ room'[d] = room[d]
      /\ ~InRoom(c) /\ InRoom(c)' /\ room'[c] = r
  BY <1>1 DEF Inv, TypeOK, InRoom
<1>4. Line(r) \in Seq(Clients) /\ \A x \in RoomIDs : c \notin ToSet(Line(x))
  BY <1>3, LineType DEF Inv, Places, OnePlace
<1>5. /\ ToSet(Append(Line(r), c)) = ToSet(Line(r)) \cup {c}
      /\ IsInjective(Append(Line(r), c))
      /\ Append(Line(r), c) # <<>>
  <2>1. IsInjective(Line(r))
    BY DEF Inv, Places, OnePlace
  <2> QED BY <2>1, <1>4, ToSetAppend, AppendIsInjective, AppendProperties
<1>6. OnePlace'
  <2> SUFFICES ASSUME NEW x \in RoomIDs
               PROVE  /\ IsInjective(Line(x)')
                      /\ \A d \in Clients :
                           d \in ToSet(Line(x)') <=> InRoom(d)' /\ room'[d] = x
    BY DEF OnePlace
  <2>1. CASE x = r
    BY <2>1, <1>2, <1>3, <1>5 DEF Inv, Places, OnePlace
  <2>2. CASE x # r
    BY <2>2, <1>2, <1>3, <1>4 DEF Inv, Places, OnePlace
  <2> QED BY <2>1, <2>2
<1>7. PairBeforeQueue'
  BY <1>1, <1>2 DEF Inv, Places, PairBeforeQueue, Shaped
<1>8. NoRoomLeaked'
  BY <1>1, <1>2, <1>5 DEF Inv, Places, NoRoomLeaked
<1> QED BY <1>6, <1>7, <1>8 DEF Places

\* Places after Leave.
LEMMA LeavePlaces ==
    ASSUME Inv, NEW c \in Clients, Leave(c)
    PROVE  Places'
<1>1. CASE room[c] \notin RoomIDs
  <2>1. UNCHANGED <<rooms, peers, queue, room>>
    BY <1>1 DEF Inv, TypeOK, Leave
  <2>2. pc' = [pc EXCEPT ![c] = "left"] /\ pc \in [Clients -> {"none", "joined", "reading", "leaving", "left"}]
    BY DEF Leave, Inv, TypeOK
  <2>3. \A d \in Clients \ {c} : InRoom(d)' <=> InRoom(d)
    BY <2>2 DEF InRoom
  <2>4. \A x \in RoomIDs : Line(x)' = Line(x)
    BY <2>1 DEF Line
  <2>5. OnePlace'
    BY <1>1, <2>1, <2>3, <2>4 DEF Inv, Places, OnePlace
  <2>6. PairBeforeQueue' /\ NoRoomLeaked'
    BY <2>1, <2>4 DEF Inv, Places, PairBeforeQueue, NoRoomLeaked
  <2> QED BY <2>5, <2>6 DEF Places
<1>2. CASE room[c] \in RoomIDs
  <2>0. PICK r \in RoomIDs : r = room[c]
    BY <1>2
  <2>1. PICK P \in Seq(Clients), Q \in Seq(Clients), k \in 1..Len(Line(r)) :
          /\ Line(r)[k] = c
          /\ peers' = [peers EXCEPT ![r] = P]
          /\ queue' = [queue EXCEPT ![r] = Q]
          /\ P \o Q = RemoveAt(Line(r), k)
          /\ Shaped(P, Q)
          /\ rooms' = IF P = <<>> /\ Q = <<>> THEN rooms \ {r} ELSE rooms
          /\ room' = room
          /\ pc[c] = "leaving" /\ pc' = [pc EXCEPT ![c] = "left"]
    BY <2>0, LeaveLine
  <2>2. /\ peers'[r] = P /\ queue'[r] = Q /\ Line(r)' = RemoveAt(Line(r), k)
        /\ \A x \in RoomIDs \ {r} : /\ Line(x)' = Line(x)
                                    /\ peers'[x] = peers[x] /\ queue'[x] = queue[x]
    BY <2>1, OneLine, ZenonT(40) DEF Inv
  <2>3. /\ \A d \in Clients \ {c} : InRoom(d)' <=> InRoom(d)
        /\ InRoom(c) /\ ~InRoom(c)'
    BY <2>1 DEF Inv, TypeOK, InRoom
  <2>4. Line(r) \in Seq(Clients) /\ IsInjective(Line(r))
    BY LineType DEF Inv, Places, OnePlace
  <2>5. /\ IsInjective(RemoveAt(Line(r), k))
        /\ ToSet(RemoveAt(Line(r), k)) = ToSet(Line(r)) \ {c}
    BY <2>1, <2>4, RemoveAtInjective
  <2>6. OnePlace'
    <3> SUFFICES ASSUME NEW x \in RoomIDs
                 PROVE  /\ IsInjective(Line(x)')
                        /\ \A d \in Clients :
                             d \in ToSet(Line(x)') <=> InRoom(d)' /\ room'[d] = x
      BY DEF OnePlace
    <3>1. CASE x = r
      BY <3>1, <2>1, <2>2, <2>3, <2>5 DEF Inv, Places, OnePlace
    <3>2. CASE x # r
      BY <3>2, <2>0, <2>1, <2>2, <2>3 DEF Inv, Places, OnePlace
    <3> QED BY <3>1, <3>2
  <2>7. PairBeforeQueue'
    BY <2>1, <2>2 DEF Inv, Places, PairBeforeQueue, Shaped
  <2>8. NoRoomLeaked'
    <3>1. r \in rooms
      <4>1. Line(r) # <<>>
        BY <2>4, EmptySeq
      <4> QED BY <4>1 DEF Inv, Places, NoRoomLeaked
    <3>2. Line(r)' = <<>> <=> P = <<>> /\ Q = <<>>
      BY <2>1, <2>2, ConcatSimplifications, ConcatEqualIffEmpty, ConcatEmptySeq, EmptySeq
    <3> QED BY <3>1, <3>2, <2>1, <2>2 DEF Inv, Places, NoRoomLeaked
  <2> QED BY <2>6, <2>7, <2>8 DEF Places
<1> QED BY <1>1, <1>2

\* The inductive step: only Join and Leave move anybody.
LEMMA InvStep == Inv /\ [Next]_vars => Inv'
<1> SUFFICES ASSUME Inv, [Next]_vars PROVE Inv'
  OBVIOUS
<1>0. TypeOK'
  BY TypeStep DEF Inv
<1>1. ASSUME NEW c \in Clients, NEW r \in RoomIDs, Join(c, r)
      PROVE  Places'
  BY <1>1, JoinPlaces
<1>2. ASSUME NEW c \in Clients, Leave(c)
      PROVE  Places'
  BY <1>2, LeavePlaces
<1>3. ASSUME NEW c \in Clients,
             StartPumps(c) \/ ReadFail(c) \/ CloseConn(c)
      PROVE  Places'
  <2>1. UNCHANGED <<rooms, peers, queue, room>>
    BY <1>3 DEF StartPumps, ReadFail, CloseConn, hubVars
  <2>2. \A d \in Clients : InRoom(d)' <=> InRoom(d)
    BY <1>3 DEF StartPumps, ReadFail, CloseConn, InRoom, Inv, TypeOK
  <2> QED BY <2>1, <2>2, PlacesFrame DEF Inv
<1>4. ASSUME NEW c \in Clients,
             SendMsg(c) \/ Relay(c) \/ WriteMsg(c) \/ WriteFail(c) \/ PingFail(c) \/ Drop(c)
      PROVE  Places'
  <2>1. UNCHANGED <<rooms, peers, queue, room, pc>>
    BY <1>4 DEF SendMsg, Relay, WriteMsg, WriteFail, PingFail, Drop, hubVars
  <2>2. \A d \in Clients : InRoom(d)' <=> InRoom(d)
    BY <2>1 DEF InRoom
  <2> QED BY <2>1, <2>2, PlacesFrame DEF Inv
<1>5. ASSUME UNCHANGED vars
      PROVE  Places'
  <2>1. UNCHANGED <<rooms, peers, queue, room>> /\ \A d \in Clients : InRoom(d)' <=> InRoom(d)
    BY <1>5 DEF vars, InRoom
  <2> QED BY <2>1, PlacesFrame DEF Inv
<1>6. Places'
  BY <1>1, <1>2, <1>3, <1>4, <1>5 DEF Next, Reader, Writer
<1> QED BY <1>0, <1>6 DEF Inv

\* The initial states satisfy the invariant.
LEMMA InvInit == Init => Inv
<1> SUFFICES ASSUME Init PROVE Inv
  OBVIOUS
<1>1. TypeOK
  <2>1. <<>> \in Seq(Clients) /\ <<>> \in Seq(Message) /\ <<>> \in Seq(Clients \X Message)
    BY EmptySeq
  <2> QED BY <2>1 DEF Init, TypeOK
<1>2. \A r \in RoomIDs : peers[r] = <<>> /\ queue[r] = <<>> /\ Line(r) = <<>> /\ r \notin rooms
  BY EmptySeq, ConcatEmptySeq DEF Init, Line
<1>3. ToSet(<<>>) = {} /\ IsInjective(<<>>)
  <2>1. <<>> \in Seq(Clients) /\ DOMAIN <<>> = {}
    OBVIOUS
  <2> QED BY <2>1, ToSetProperties DEF IsInjective
<1>4. \A c \in Clients : ~InRoom(c)
  BY DEF Init, InRoom
<1>5. OnePlace /\ PairBeforeQueue /\ NoRoomLeaked
  BY <1>2, <1>3, <1>4, EmptySeq DEF OnePlace, PairBeforeQueue, NoRoomLeaked
<1> QED BY <1>1, <1>5 DEF Inv, Places

\* The invariant holds in every state.
LEMMA Invariant == Spec => []Inv
BY InvInit, InvStep, PTL DEF Spec

\* A client is in the line of its room, once, from Join to Leave, and in no
\* other line: no peer or queue entry outlives its connection's goroutine, and
\* no connection is served in two places.
THEOREM ClientsInOnePlace == Spec => []OnePlace
<1>1. Inv => OnePlace
  BY DEF Inv, Places
<1> QED BY <1>1, Invariant, PTL

\* There are never more than two peers, and nobody waits while a place of the
\* pair is free.
THEOREM NobodyWaitsForAFreePlace == Spec => []PairBeforeQueue
<1>1. Inv => PairBeforeQueue
  BY DEF Inv, Places
<1> QED BY <1>1, Invariant, PTL

\* The hub's map holds exactly the rooms somebody is in.
THEOREM MapHoldsUsedRooms == Spec => []NoRoomLeaked
<1>1. Inv => NoRoomLeaked
  BY DEF Inv, Places
<1> QED BY <1>1, Invariant, PTL

-----------------------------------------------------------------------------
(***************************************************************************)
(* The lock discipline: the recipients looked up at the start of a         *)
(* critical section are still there when its last send is made.            *)
(***************************************************************************)

\* SendsToMembers, for the sends s of one client in a room with the peers A
\* and the queue B.
Addressed(c, s, A, B) ==
    \A i \in DOMAIN s :
        IF s[i][2] = Signal THEN s[i][1] \in ToSet(A) \ {c}
                            ELSE s[i][1] \in ToSet(A) \cup ToSet(B)

\* SendsToMembers, client by client.
LEMMA SendsToMembersDef ==
    SendsToMembers <=> \A c \in Clients : Addressed(c, owed[c], peers[room[c]], queue[room[c]])
BY DEF SendsToMembers, Addressed, Members

\* The hub's own messages to clients of the room are well addressed.
LEMMA OwnAddressed ==
    ASSUME NEW c, NEW A \in Seq(Clients), NEW B \in Seq(Clients),
           NEW s \in Seq((ToSet(A) \cup ToSet(B)) \X Own)
    PROVE  Addressed(c, s, A, B)
<1>1. \A i \in DOMAIN s : s[i] \in (ToSet(A) \cup ToSet(B)) \X Own
  BY LenProperties, ElementOfSeq
<1> QED BY <1>1 DEF Addressed, Own

\* A sequence is one of its own elements.
LEMMA SeqOfToSet ==
    ASSUME NEW A \in Seq(Clients), NEW M, ToSet(A) \subseteq M
    PROVE  A \in Seq(M)
<1>1. DOMAIN A = 1..Len(A) /\ Len(A) \in Nat /\ A \in [1..Len(A) -> Clients]
  BY LenProperties
<1>2. \A i \in 1..Len(A) : A[i] \in M
  BY ToSetProperties
<1>3. A \in [1..Len(A) -> M]
  BY <1>1, <1>2
<1> QED BY <1>1, <1>3, FunctionIsSeq

\* Who has nothing to send sends nothing to a stranger.
LEMMA NothingAddressed ==
    ASSUME NEW c, NEW A, NEW B
    PROVE  Addressed(c, <<>>, A, B)
<1>1. DOMAIN <<>> = {}
  OBVIOUS
<1> QED BY <1>1 DEF Addressed

\* After Join or Leave, which found the lock free, one client has sends to
\* make, all of them its own and to clients of its room.
LEMMA AddressedAnew ==
    ASSUME TypeOK, Free, NEW c \in Clients, NEW r \in RoomIDs, room'[c] = r,
           NEW P \in Seq(Clients), NEW Q \in Seq(Clients),
           peers' = [peers EXCEPT ![r] = P], queue' = [queue EXCEPT ![r] = Q],
           NEW s \in Seq((ToSet(P) \cup ToSet(Q)) \X Own),
           owed' = [owed EXCEPT ![c] = s]
    PROVE  SendsToMembers'
<1>1. peers'[r] = P /\ queue'[r] = Q /\ owed'[c] = s
  BY DEF TypeOK
<1>2. \A d \in Clients \ {c} : owed'[d] = <<>>
  BY DEF TypeOK, Free, Holds
<1>3. Addressed(c, owed'[c], peers'[room'[c]], queue'[room'[c]])
  BY <1>1, OwnAddressed
<1>4. \A d \in Clients \ {c} : Addressed(d, owed'[d], peers'[room'[d]], queue'[room'[d]])
  BY <1>2, NothingAddressed
<1> QED BY <1>3, <1>4 DEF SendsToMembers, Addressed, Members

\* Every step keeps the sends that are still to be made within the room: while
\* there are any, nobody joins or leaves.
LEMMA SendsStep == Inv /\ SendsToMembers /\ [Next]_vars => SendsToMembers'
<1> SUFFICES ASSUME Inv, SendsToMembers, [Next]_vars PROVE SendsToMembers'
  OBVIOUS
<1>0. TypeOK
  BY DEF Inv
<1>1. ASSUME NEW c \in Clients, NEW r \in RoomIDs, Join(c, r)
      PROVE  SendsToMembers'
  <2>1. PICK P \in Seq(Clients), Q \in Seq(Clients) :
          /\ peers' = [peers EXCEPT ![r] = P]
          /\ queue' = [queue EXCEPT ![r] = Q]
          /\ P \o Q = Append(Line(r), c)
          /\ Shaped(P, Q)
          /\ owed' = [owed EXCEPT ![c] = JoinSends(P, Q, c)]
          /\ rooms' = rooms \cup {r}
          /\ room' = [room EXCEPT ![c] = r]
          /\ pc[c] = "none" /\ pc' = [pc EXCEPT ![c] = "joined"]
    BY <1>1, JoinLine, Zenon
  <2>2. Free /\ room'[c] = r
    BY <1>1, <2>1, <1>0 DEF Join, TypeOK
  <2>3. PICK M : M = ToSet(P) \cup ToSet(Q)
    OBVIOUS
  <2>4. P \in Seq(M) /\ Q \in Seq(M)
    BY <2>3, SeqOfToSet
  <2>5. c \in M
    <3>1. Line(r) \in Seq(Clients)
      BY <1>0, LineType
    <3>2. c \in ToSet(P \o Q)
      BY <2>1, <3>1, ToSetAppend
    <3> QED BY <2>3, <3>2, ToSetConcat
  <2>6. JoinSends(P, Q, c) \in Seq(M \X Own)
    BY <2>4, <2>5, JoinSendsType
  <2> QED BY <1>0, <2>1, <2>2, <2>3, <2>6, AddressedAnew
<1>2. ASSUME NEW c \in Clients, Leave(c), room[c] \in RoomIDs
      PROVE  SendsToMembers'
  <2>0. PICK r \in RoomIDs : r = room[c]
    BY <1>2
  <2>1. PICK P \in Seq(Clients), Q \in Seq(Clients) :
          /\ peers' = [peers EXCEPT ![r] = P]
          /\ queue' = [queue EXCEPT ![r] = Q]
          /\ \E w, promote \in BOOLEAN :
               /\ (promote => w) /\ (promote => P # <<>>)
               /\ owed' = [owed EXCEPT ![c] = LeaveSends(w, promote, P, Q)]
          /\ room' = room
    BY <1>2, <2>0, LeaveLine
  <2>2. PICK w \in BOOLEAN, promote \in BOOLEAN :
          /\ (promote => w) /\ (promote => P # <<>>)
          /\ owed' = [owed EXCEPT ![c] = LeaveSends(w, promote, P, Q)]
    BY <2>1
  <2>3. Free /\ room'[c] = r
    BY <1>2, <2>0, <2>1 DEF Leave
  <2>4. PICK M : M = ToSet(P) \cup ToSet(Q)
    OBVIOUS
  <2>5. P \in Seq(M) /\ Q \in Seq(M)
    BY <2>4, SeqOfToSet
  <2>6. LeaveSends(w, promote, P, Q) \in Seq(M \X Own)
    BY <2>2, <2>5, LeaveSendsType
  <2> QED BY <1>0, <2>1, <2>2, <2>3, <2>4, <2>6, AddressedAnew
<1>3. ASSUME NEW c \in Clients, Leave(c), room[c] \notin RoomIDs
      PROVE  UNCHANGED <<peers, queue, room, owed>>
  BY <1>3, <1>0 DEF TypeOK, Leave
<1>4. ASSUME NEW c \in Clients, SendMsg(c)
      PROVE  SendsToMembers'
  <2>1. /\ owed' = [owed EXCEPT ![c] = Tail(owed[c])]
        /\ UNCHANGED <<peers, queue, room>>
        /\ owed[c] \in Seq(Clients \X Message) /\ owed[c] # <<>>
    BY <1>4, <1>0 DEF SendMsg, Holds, TypeOK
  <2>2. PICK s \in Seq(Clients \X Message) : s = owed[c] /\ s # <<>>
    BY <2>1
  <2>3. /\ Tail(s) \in Seq(Clients \X Message) /\ Len(Tail(s)) = Len(s) - 1
        /\ Len(s) \in Nat
        /\ \A i \in 1..Len(Tail(s)) : Tail(s)[i] = s[i+1]
    BY <2>2, HeadTailProperties, LenProperties
  <2>4. DOMAIN s = 1..Len(s) /\ DOMAIN Tail(s) = 1..Len(Tail(s))
    BY <2>3, LenProperties
  <2>5. \A i \in DOMAIN Tail(s) : i + 1 \in DOMAIN s /\ Tail(s)[i] = s[i+1]
    BY <2>3, <2>4
  <2>6. Addressed(c, s, peers[room[c]], queue[room[c]])
    BY <2>2, SendsToMembersDef
  <2>7. Addressed(c, Tail(s), peers[room[c]], queue[room[c]])
    BY <2>5, <2>6 DEF Addressed
  <2>8. /\ owed'[c] = Tail(s)
        /\ \A d \in Clients \ {c} : owed'[d] = owed[d]
    BY <2>1, <2>2, <1>0 DEF TypeOK
  <2>9. \A d \in Clients : Addressed(d, owed'[d], peers[room[d]], queue[room[d]])
    BY <2>7, <2>8, SendsToMembersDef
  <2> QED BY <2>1, <2>9 DEF SendsToMembers, Addressed, Members
<1>5. ASSUME NEW c \in Clients, Relay(c)
      PROVE  SendsToMembers'
  <2>1. PICK r \in RoomIDs : r = room[c]
    BY <1>5, <1>0 DEF Relay, TypeOK
  <2>2. peers[r] \in Seq(Clients) /\ IsInjective(peers[r])
    <3>1. /\ peers[r] \in Seq(Clients) /\ queue[r] \in Seq(Clients)
          /\ IsInjective(Line(r))
      BY <1>0, LineType DEF Inv, Places, OnePlace
    <3> QED BY <3>1, InjectiveLeft DEF Line
  <2>3. PICK W \in Seq(Clients) : W = Without(peers[r], c) /\ ToSet(W) = ToSet(peers[r]) \ {c}
    BY <2>2, WithoutType, RemoveAtInjective
  <2>4. /\ owed' = [owed EXCEPT ![c] = ToAll(W, Signal)]
        /\ UNCHANGED <<peers, queue, room>>
    BY <1>5, <2>1, <2>3 DEF Relay
  <2>5. DOMAIN ToAll(W, Signal) = DOMAIN W
           /\ \A i \in DOMAIN W : ToAll(W, Signal)[i] = <<W[i], Signal>>
    BY DEF ToAll
  <2>6. \A i \in DOMAIN W : W[i] \in ToSet(peers[r]) \ {c}
    BY <2>3 DEF ToSet
  <2>7. Addressed(c, ToAll(W, Signal), peers[r], queue[r])
    BY <2>5, <2>6 DEF Addressed
  <2>8. /\ owed'[c] = ToAll(W, Signal)
        /\ \A d \in Clients \ {c} : owed'[d] = owed[d]
    BY <2>4, <1>0 DEF TypeOK
  <2>9. \A d \in Clients : Addressed(d, owed'[d], peers[room[d]], queue[room[d]])
    BY <2>1, <2>7, <2>8, SendsToMembersDef
  <2> QED BY <2>4, <2>9 DEF SendsToMembers, Addressed, Members
<1>6. ASSUME NEW c \in Clients,
             \/ StartPumps(c) \/ ReadFail(c) \/ CloseConn(c)
             \/ WriteMsg(c) \/ WriteFail(c) \/ PingFail(c) \/ Drop(c)
      PROVE  UNCHANGED <<peers, queue, room, owed>>
  BY <1>6 DEF StartPumps, ReadFail, CloseConn, WriteMsg, WriteFail, PingFail, Drop, hubVars
<1>7. ASSUME UNCHANGED vars
      PROVE  UNCHANGED <<peers, queue, room, owed>>
  BY <1>7 DEF vars
<1>8. CASE UNCHANGED <<peers, queue, room, owed>>
  BY <1>8 DEF SendsToMembers, Members
<1> QED BY <1>1, <1>2, <1>3, <1>4, <1>5, <1>6, <1>7, <1>8 DEF Next, Reader, Writer

\* A signal goes to an active peer other than its sender, a notice to somebody
\* in the room, at the moment it is put into the channel - although the sends
\* of one critical section are separate steps and others run between them.
THEOREM LockProtectsSends == Spec => []SendsToMembers
<1>1. Init => SendsToMembers
  <2> SUFFICES ASSUME Init PROVE SendsToMembers
    OBVIOUS
  <2>1. \A c \in Clients : owed[c] = <<>>
    BY DEF Init
  <2> QED BY <2>1, NothingAddressed, SendsToMembersDef
<1> QED BY <1>1, SendsStep, Invariant, PTL DEF Spec

-----------------------------------------------------------------------------
(***************************************************************************)
(* The hub implements RoomLine.                                            *)
(***************************************************************************)

\* The pair of a well-shaped room is the first two of its line.
LEMMA PairIsFirstTwo ==
    ASSUME NEW P \in Seq(Clients), NEW Q \in Seq(Clients), Shaped(P, Q)
    PROVE  TheLine!FirstTwo(P \o Q) = ToSet(P)
<1>1. /\ Len(P) \in Nat /\ Len(Q) \in Nat /\ Len(P) <= 2
      /\ (Q # <<>> => Len(P) = 2)
      /\ P \o Q \in Seq(Clients) /\ Len(P \o Q) = Len(P) + Len(Q)
      /\ \A i \in 1..(Len(P) + Len(Q)) :
            (P \o Q)[i] = IF i <= Len(P) THEN P[i] ELSE Q[i - Len(P)]
  BY LenProperties, ConcatProperties DEF Shaped
<1>2. DOMAIN (P \o Q) = 1..(Len(P) + Len(Q)) /\ DOMAIN P = 1..Len(P)
  BY <1>1, LenProperties
<1>3. (1..(Len(P) + Len(Q))) \cap {1, 2} = 1..Len(P)
  <2>1. CASE Q = <<>>
    <3>1. Len(Q) = 0
      BY <2>1, EmptySeq
    <3> QED BY <3>1, <1>1
  <2>2. CASE Q # <<>>
    <3>1. Len(P) = 2
      BY <2>2, <1>1
    <3> QED BY <3>1, <1>1
  <2> QED BY <2>1, <2>2
<1>4. \A i \in 1..Len(P) : (P \o Q)[i] = P[i]
  BY <1>1
<1>5. TheLine!FirstTwo(P \o Q) = {(P \o Q)[i] : i \in 1..Len(P)}
  BY <1>2, <1>3 DEF TheLine!FirstTwo
<1>6. ToSet(P) = {P[i] : i \in 1..Len(P)}
  BY <1>2 DEF ToSet
<1> QED BY <1>4, <1>5, <1>6

\* Rewriting one room lines it up anew.
LEMMA LineUpStep ==
    ASSUME TypeOK, NEW r \in RoomIDs, NEW P \in Seq(Clients), NEW Q \in Seq(Clients),
           peers' = [peers EXCEPT ![r] = P], queue' = [queue EXCEPT ![r] = Q],
           Shaped(P, Q)
    PROVE  TheLine!LineUp(r, P \o Q)
<1>1. /\ peers'[r] = P /\ Line(r)' = P \o Q
      /\ \A x \in RoomIDs \ {r} : Line(x)' = Line(x) /\ peers'[x] = peers[x]
  BY OneLine
<1>2. [x \in RoomIDs |-> Line(x)]' = [[x \in RoomIDs |-> Line(x)] EXCEPT ![r] = P \o Q]
  BY <1>1
<1>3. [x \in RoomIDs |-> ToSet(peers[x])]' =
        [[x \in RoomIDs |-> ToSet(peers[x])] EXCEPT ![r] = TheLine!FirstTwo(P \o Q)]
  <2>1. TheLine!FirstTwo(P \o Q) = ToSet(P)
    BY PairIsFirstTwo
  <2>2. /\ ToSet(peers'[r]) = TheLine!FirstTwo(P \o Q)
        /\ \A x \in RoomIDs \ {r} : ToSet(peers'[x]) = ToSet(peers[x])
    BY <1>1, <2>1
  <2> QED BY <2>2
<1> QED BY <1>2, <1>3 DEF TheLine!LineUp

\* What the other rooms' lines and pairs are made of did not change.
LEMMA LineFrame ==
    ASSUME UNCHANGED <<peers, queue>>
    PROVE  UNCHANGED TheLine!lineVars
<1>1. \A r \in RoomIDs : Line(r)' = Line(r) /\ ToSet(peers[r])' = ToSet(peers[r])
  BY DEF Line
<1> QED BY <1>1 DEF TheLine!lineVars

\* Join enters the line, Leave exits it, and no other step touches it.
LEMMA LineStep == Inv /\ [Next]_vars => [TheLine!LineNext]_(TheLine!lineVars)
<1> SUFFICES ASSUME Inv, [Next]_vars PROVE [TheLine!LineNext]_(TheLine!lineVars)
  OBVIOUS
<1>1. ASSUME NEW c \in Clients, NEW r \in RoomIDs, Join(c, r)
      PROVE  TheLine!LineNext
  <2>1. PICK P \in Seq(Clients), Q \in Seq(Clients) :
          /\ peers' = [peers EXCEPT ![r] = P]
          /\ queue' = [queue EXCEPT ![r] = Q]
          /\ P \o Q = Append(Line(r), c)
          /\ Shaped(P, Q)
          /\ pc[c] = "none"
    BY <1>1, JoinLine, ZenonT(40)
  <2>2. TheLine!LineUp(r, Append(Line(r), c))
    BY <2>1, LineUpStep DEF Inv
  <2>3. ~TheLine!InLine(c)
    <3>1. \A x \in RoomIDs : c \notin ToSet(Line(x))
      BY <2>1 DEF Inv, Places, OnePlace, InRoom
    <3>2. \A x \in RoomIDs : ~\E i \in DOMAIN Line(x) : Line(x)[i] = c
      BY <3>1 DEF ToSet
    <3> QED BY <3>2 DEF TheLine!InLine
  <2>4. TheLine!Enter(r, c)
    BY <2>2, <2>3 DEF TheLine!Enter
  <2> QED BY <2>4 DEF TheLine!LineNext
<1>2. ASSUME NEW c \in Clients, Leave(c), room[c] \in RoomIDs
      PROVE  TheLine!LineNext
  <2>0. PICK r \in RoomIDs : r = room[c]
    BY <1>2
  <2>1. PICK P \in Seq(Clients), Q \in Seq(Clients), k \in 1..Len(Line(r)) :
          /\ peers' = [peers EXCEPT ![r] = P]
          /\ queue' = [queue EXCEPT ![r] = Q]
          /\ P \o Q = RemoveAt(Line(r), k)
          /\ Shaped(P, Q)
    BY <1>2, <2>0, LeaveLine
  <2>2. TheLine!LineUp(r, RemoveAt(Line(r), k))
    BY <2>1, LineUpStep DEF Inv
  <2>3. k \in DOMAIN Line(r)
    BY LineType, LenProperties DEF Inv
  <2>4. TheLine!Exit(r, k)
    BY <2>2, <2>3 DEF TheLine!Exit, TheLine!RemoveAt, RemoveAt
  <2> QED BY <2>3, <2>4 DEF TheLine!LineNext
<1>3. ASSUME NEW c \in Clients, Leave(c), room[c] \notin RoomIDs
      PROVE  UNCHANGED <<peers, queue>>
  BY <1>3 DEF Inv, TypeOK, Leave
<1>4. ASSUME NEW c \in Clients,
             \/ StartPumps(c) \/ ReadFail(c) \/ CloseConn(c) \/ SendMsg(c) \/ Relay(c)
             \/ WriteMsg(c) \/ WriteFail(c) \/ PingFail(c) \/ Drop(c)
      PROVE  UNCHANGED <<peers, queue>>
  BY <1>4 DEF StartPumps, ReadFail, CloseConn, SendMsg, Relay, WriteMsg, WriteFail,
              PingFail, Drop, hubVars
<1>5. ASSUME UNCHANGED vars
      PROVE  UNCHANGED <<peers, queue>>
  BY <1>5 DEF vars
<1>6. CASE UNCHANGED <<peers, queue>>
  BY <1>6, LineFrame
<1> QED BY <1>1, <1>2, <1>3, <1>4, <1>5, <1>6 DEF Next, Reader, Writer

\* Whatever the goroutines do, a room is a line: newcomers at the end, nobody
\* overtakes anybody, and the first two of it are the pair.
THEOREM HubImplementsLine == Spec => LineSpec
<1>1. Init => TheLine!LineInit
  <2> SUFFICES ASSUME Init PROVE TheLine!LineInit
    OBVIOUS
  <2>1. \A r \in RoomIDs : Line(r) = <<>> /\ ToSet(peers[r]) = {}
    <3>1. ToSet(<<>>) = {}
      <4>1. DOMAIN <<>> = {}
        OBVIOUS
      <4> QED BY <4>1 DEF ToSet
    <3> QED BY <3>1, EmptySeq, ConcatEmptySeq DEF Init, Line
  <2> QED BY <2>1 DEF TheLine!LineInit
<1>2. Inv /\ [Next]_vars => [TheLine!LineNext]_(TheLine!lineVars)
  BY LineStep
<1> QED BY <1>1, <1>2, Invariant, PTL DEF Spec, LineSpec, TheLine!LineSpec

-----------------------------------------------------------------------------
(***************************************************************************)
(* What the clients know.  When the lock is free the last notice a client  *)
(* was sent fits its place, or was dropped.  In between, the last notice   *)
(* that the critical section under way still has to send does: the         *)
(* invariant is about the sends to come, and about who can have any.       *)
(***************************************************************************)

\* The message m fits the place that d has among the peers P and the queue Q.
Says(P, Q, d, m) ==
    /\ \A i \in DOMAIN Q : Q[i] = d => m.type \in {"queued", "queue-position"} /\ m.position = i
    /\ Len(P) = 2 => /\ P[1] = d => m.type = "peer-joined"
                     /\ P[2] = d => m.type \in {"room-ready", "queue-promoted"}
    /\ Len(P) = 1 => (P[1] = d => m.type \in {"nothing", "peer-left"})

\* Of the sends s none is a notice to d; or m is the last one to d.
Silent(s, d) == \A i \in DOMAIN s : s[i][1] = d => s[i][2] = Signal
Tells(s, d, m) ==
    \E i \in DOMAIN s : /\ s[i] = <<d, m>> /\ m # Signal
                        /\ \A j \in DOMAIN s : j > i => s[j][1] # d

\* d knows its place, or will when the lock is free.
Knows(d, P, Q) ==
    \/ /\ \A c \in Clients : Silent(owed[c], d)
       /\ d \in missed \/ Says(P, Q, d, told[d])
    \/ \E c \in Clients : \E m \in Message : Tells(owed[c], d, m) /\ Says(P, Q, d, m)

\* A critical section relays signals, or it is the only one and sends notices.
Sections ==
    \A c \in Clients :
        \/ \A i \in DOMAIN owed[c] : owed[c][i][2] = Signal
        \/ /\ \A i \in DOMAIN owed[c] : owed[c][i][2] # Signal
           /\ \A d \in Clients \ {c} : owed[d] = <<>>

StandInv ==
    /\ Sections
    /\ \A r \in RoomIDs : \A d \in ToSet(Line(r)) : Knows(d, peers[r], queue[r])

\* None of the sends s is to d.
NoneTo(s, d) == \A i \in DOMAIN s : s[i][1] # d

\* The last of the sends s to d stays it when others are sent after it, or
\* before.
LEMMA TellsConcat ==
    ASSUME NEW S, NEW s \in Seq(S), NEW t \in Seq(S), NEW d, NEW m
    PROVE  /\ Tells(s, d, m) /\ NoneTo(t, d) => Tells(s \o t, d, m)
           /\ Tells(t, d, m) => Tells(s \o t, d, m)
<1>1. PICK u : u = s \o t
  OBVIOUS
<1>2. /\ Len(s) \in Nat /\ Len(t) \in Nat
      /\ DOMAIN s = 1..Len(s) /\ DOMAIN t = 1..Len(t) /\ DOMAIN u = 1..(Len(s) + Len(t))
      /\ \A i \in 1..(Len(s) + Len(t)) : u[i] = IF i <= Len(s) THEN s[i] ELSE t[i - Len(s)]
  BY <1>1, LenProperties, ConcatProperties
<1>3. ASSUME Tells(s, d, m), NoneTo(t, d) PROVE Tells(u, d, m)
  <2>1. PICK i \in DOMAIN s : s[i] = <<d, m>> /\ m # Signal /\ \A j \in DOMAIN s : j > i => s[j][1] # d
    BY <1>3 DEF Tells
  <2>2. i \in DOMAIN u /\ u[i] = <<d, m>>
    BY <1>2, <2>1
  <2>3. ASSUME NEW j \in DOMAIN u, j > i PROVE u[j][1] # d
    <3>1. CASE j <= Len(s)
      BY <1>2, <2>1, <2>3, <3>1
    <3>2. CASE ~(j <= Len(s))
      <4>1. j - Len(s) \in DOMAIN t /\ u[j] = t[j - Len(s)]
        BY <1>2, <2>3, <3>2
      <4> QED BY <1>3, <4>1 DEF NoneTo
    <3> QED BY <3>1, <3>2
  <2> QED BY <2>1, <2>2, <2>3 DEF Tells
<1>4. ASSUME Tells(t, d, m) PROVE Tells(u, d, m)
  <2>1. PICK i \in DOMAIN t : t[i] = <<d, m>> /\ m # Signal /\ \A j \in DOMAIN t : j > i => t[j][1] # d
    BY <1>4 DEF Tells
  <2>2. PICK k : k = Len(s) + i
    OBVIOUS
  <2>3. k \in DOMAIN u /\ k - Len(s) = i /\ ~(k <= Len(s))
    BY <1>2, <2>1, <2>2
  <2>4. u[k] = <<d, m>>
    BY <1>2, <2>1, <2>3
  <2>5. ASSUME NEW j \in DOMAIN u, j > k PROVE u[j][1] # d
    <3>1. j - Len(s) \in DOMAIN t /\ u[j] = t[j - Len(s)] /\ j - Len(s) > i
      BY <1>2, <2>1, <2>2, <2>3, <2>5
    <3> QED BY <2>1, <3>1
  <2> QED BY <2>1, <2>3, <2>4, <2>5 DEF Tells
<1> QED BY <1>1, <1>3, <1>4

\* The same for sends to nobody.
LEMMA NoneConcat ==
    ASSUME NEW S, NEW s \in Seq(S), NEW t \in Seq(S), NEW d, NoneTo(s, d), NoneTo(t, d)
    PROVE  NoneTo(s \o t, d)
<1>1. PICK u : u = s \o t
  OBVIOUS
<1>2. /\ Len(s) \in Nat /\ Len(t) \in Nat
      /\ DOMAIN s = 1..Len(s) /\ DOMAIN t = 1..Len(t) /\ DOMAIN u = 1..(Len(s) + Len(t))
      /\ \A i \in 1..(Len(s) + Len(t)) : u[i] = IF i <= Len(s) THEN s[i] ELSE t[i - Len(s)]
  BY <1>1, LenProperties, ConcatProperties
<1>3. ASSUME NEW j \in DOMAIN u PROVE u[j][1] # d
  <2>1. CASE j <= Len(s)
    BY <1>2, <2>1 DEF NoneTo
  <2>2. CASE ~(j <= Len(s))
    <3>1. j - Len(s) \in DOMAIN t /\ u[j] = t[j - Len(s)]
      BY <1>2, <1>3, <2>2
    <3> QED BY <3>1 DEF NoneTo
  <2> QED BY <2>1, <2>2
<1> QED BY <1>1, <1>3 DEF NoneTo

\* One send to each of different clients tells it to each of them.
LEMMA PositionsTell ==
    ASSUME NEW M, NEW q \in Seq(M), IsInjective(q)
    PROVE  /\ \A i \in 1..Len(q) : Tells(Positions(q), q[i], Place("queue-position", i))
           /\ \A d : d \notin ToSet(q) => NoneTo(Positions(q), d)
<1>1. PICK u : u = Positions(q)
  OBVIOUS
<1>2. /\ Len(q) \in Nat /\ DOMAIN q = 1..Len(q) /\ DOMAIN u = 1..Len(q)
      /\ \A i \in 1..Len(q) : u[i] = <<q[i], Place("queue-position", i)>>
  BY <1>1, LenProperties DEF Positions
<1>3. ASSUME NEW i \in 1..Len(q) PROVE Tells(u, q[i], Place("queue-position", i))
  <2>1. Place("queue-position", i) # Signal
    BY <1>2, MessageTypes DEF Own
  <2>2. \A j \in 1..Len(q) : j > i => u[j][1] # q[i]
    BY <1>2 DEF IsInjective
  <2> QED BY <1>2, <2>1, <2>2 DEF Tells
<1>4. ASSUME NEW d, d \notin ToSet(q) PROVE NoneTo(u, d)
  BY <1>2, <1>4, ToSetProperties DEF NoneTo
<1> QED BY <1>1, <1>3, <1>4

\* Two sends, to two clients.
LEMMA TwoTell ==
    ASSUME NEW M, NEW a \in M, NEW b \in M, NEW m \in Own, NEW n \in Own, a # b
    PROVE  /\ <<<<a, m>>, <<b, n>>>> \in Seq(M \X Own)
           /\ Tells(<<<<a, m>>, <<b, n>>>>, a, m)
           /\ Tells(<<<<a, m>>, <<b, n>>>>, b, n)
           /\ \A d : d # a /\ d # b => NoneTo(<<<<a, m>>, <<b, n>>>>, d)
<1>1. <<<<a, m>>, <<b, n>>>> \in Seq(M \X Own)
  BY PairIsSeq
<1>2. PICK u : u = <<<<a, m>>, <<b, n>>>>
  OBVIOUS
<1>3. DOMAIN u = {1, 2} /\ u[1] = <<a, m>> /\ u[2] = <<b, n>>
  BY <1>2
<1>4. m # Signal /\ n # Signal
  BY DEF Own
<1>5. Tells(u, a, m) /\ Tells(u, b, n)
  BY <1>3, <1>4 DEF Tells
<1>6. \A d : d # a /\ d # b => NoneTo(u, d)
  BY <1>3 DEF NoneTo
<1> QED BY <1>1, <1>2, <1>5, <1>6

\* One send to one client.
LEMMA OneTells ==
    ASSUME NEW M, NEW a \in M, NEW m \in Own
    PROVE  /\ <<<<a, m>>>> \in Seq(M \X Own)
           /\ Tells(<<<<a, m>>>>, a, m)
           /\ \A d : d # a => NoneTo(<<<<a, m>>>>, d)
<1>1. <<<<a, m>>>> \in Seq(M \X Own)
  BY PairIsSeq
<1>2. PICK u : u = <<<<a, m>>>>
  OBVIOUS
<1>3. DOMAIN u = {1} /\ u[1] = <<a, m>> /\ m # Signal
  BY <1>2 DEF Own
<1>4. Tells(u, a, m) /\ \A d : d # a => NoneTo(u, d)
  BY <1>3 DEF Tells, NoneTo
<1> QED BY <1>1, <1>2, <1>4

\* What the messages of the hub say.
LEMMA MessageFields ==
    /\ Notice("peer-joined").type = "peer-joined" /\ Notice("room-ready").type = "room-ready"
    /\ Notice("peer-left").type = "peer-left"
    /\ Notice("queue-promoted").type = "queue-promoted"
    /\ Nothing.type = "nothing"
    /\ \A n : /\ Place("queued", n).type = "queued" /\ Place("queued", n).position = n
              /\ Place("queue-position", n).type = "queue-position"
              /\ Place("queue-position", n).position = n
BY DEF Notice, Place, Nothing

\* The line of the peers P and the queue Q, in whose parts nobody is twice.
LEMMA Apart ==
    ASSUME NEW P \in Seq(Clients), NEW Q \in Seq(Clients), IsInjective(P \o Q)
    PROVE  /\ IsInjective(P) /\ IsInjective(Q)
           /\ \A i \in 1..Len(P) : \A j \in 1..Len(Q) : P[i] # Q[j]
<1>1. PICK u : u = P \o Q
  OBVIOUS
<1>2. /\ Len(P) \in Nat /\ Len(Q) \in Nat /\ DOMAIN Q = 1..Len(Q) /\ DOMAIN P = 1..Len(P)
      /\ DOMAIN u = 1..(Len(P) + Len(Q))
      /\ \A i \in 1..(Len(P) + Len(Q)) : u[i] = IF i <= Len(P) THEN P[i] ELSE Q[i - Len(P)]
  BY <1>1, LenProperties, ConcatProperties
<1>3. IsInjective(P)
  BY InjectiveLeft
<1>4. \A j \in 1..Len(Q) : j + Len(P) \in DOMAIN u /\ u[j + Len(P)] = Q[j]
  BY <1>2
<1>5. \A i \in 1..Len(P) : i \in DOMAIN u /\ u[i] = P[i]
  BY <1>2
<1>6. IsInjective(u)
  BY <1>1
<1>7. ASSUME NEW i \in 1..Len(Q), NEW j \in 1..Len(Q), Q[i] = Q[j] PROVE i = j
  <2>1. u[i + Len(P)] = u[j + Len(P)]
    BY <1>4, <1>7
  <2>2. i + Len(P) = j + Len(P)
    BY <1>4, <1>6, <2>1 DEF IsInjective
  <2> QED BY <1>2, <2>2
<1>8. ASSUME NEW i \in 1..Len(P), NEW j \in 1..Len(Q) PROVE P[i] # Q[j]
  <2>1. i # j + Len(P)
    BY <1>2
  <2> QED BY <1>4, <1>5, <1>6, <2>1 DEF IsInjective
<1> QED BY <1>2, <1>3, <1>7, <1>8 DEF IsInjective

\* What fits who waits, and who is one of the pair or alone.
LEMMA SaysWaiting ==
    ASSUME NEW P \in Seq(Clients), NEW Q \in Seq(Clients), IsInjective(P \o Q),
           NEW i \in 1..Len(Q), NEW m,
           m.type \in {"queued", "queue-position"}, m.position = i, Len(P) = 2
    PROVE  Says(P, Q, Q[i], m)
<1>0. 1 \in 1..Len(P) /\ 2 \in 1..Len(P)
  OBVIOUS
<1>1. /\ IsInjective(Q) /\ DOMAIN Q = 1..Len(Q)
      /\ P[1] # Q[i] /\ P[2] # Q[i]
  <2>1. IsInjective(Q) /\ \A k \in 1..Len(P) : \A j \in 1..Len(Q) : P[k] # Q[j]
    BY Apart, Zenon
  <2> QED BY <1>0, <2>1, LenProperties
<1>2. \A j \in DOMAIN Q : Q[j] = Q[i] => j = i
  BY <1>1 DEF IsInjective
<1> QED BY <1>1, <1>2 DEF Says

LEMMA SaysPeer ==
    ASSUME NEW P \in Seq(Clients), NEW Q \in Seq(Clients), IsInjective(P \o Q),
           NEW i \in 1..Len(P), NEW m, Len(P) <= 2,
           Len(P) = 2 /\ i = 1 => m.type = "peer-joined",
           Len(P) = 2 /\ i = 2 => m.type \in {"room-ready", "queue-promoted"},
           Len(P) = 1 => m.type \in {"nothing", "peer-left"}
    PROVE  Says(P, Q, P[i], m)
<1>1. /\ IsInjective(P) /\ DOMAIN Q = 1..Len(Q) /\ DOMAIN P = 1..Len(P) /\ Len(P) \in Nat
      /\ \A j \in DOMAIN Q : Q[j] # P[i]
  BY Apart, LenProperties
<1>2. ASSUME Len(P) = 2, P[1] = P[i] PROVE i = 1
  BY <1>1, <1>2 DEF IsInjective
<1>3. ASSUME Len(P) = 2, P[2] = P[i] PROVE i = 2
  BY <1>1, <1>3 DEF IsInjective
<1> QED BY <1>1, <1>2, <1>3 DEF Says

\* What fits the two of a pair.
LEMMA SaysPair ==
    ASSUME NEW P \in Seq(Clients), NEW Q \in Seq(Clients), IsInjective(P \o Q), Len(P) = 2,
           NEW a, a = P[1], NEW b, b = P[2], NEW m, m.type = "peer-joined",
           NEW n, n.type \in {"room-ready", "queue-promoted"}
    PROVE  Says(P, Q, a, m) /\ Says(P, Q, b, n)
<1>1. 1 \in 1..Len(P) /\ 2 \in 1..Len(P) /\ Len(P) <= 2 /\ Len(P) # 1 /\ ~(1 = 2)
  OBVIOUS
<1>2. Says(P, Q, P[1], m) /\ Says(P, Q, P[2], n)
  BY <1>1, SaysPeer, Zenon
<1> QED BY <1>2

\* Join of c makes P and Q of the slices A and B, and sends s.
Joined(A, B, c, P, Q, s) ==
    /\ P = NewPeers(A, c) /\ Q = NewQueue(A, B, c)
    /\ s = JoinSends(P, Q, c)

\* After Join: who is told, is told its place; who is not, keeps it, or is the
\* newcomer and alone.
LEMMA JoinSays ==
    ASSUME NEW A \in Seq(Clients), NEW B \in Seq(Clients), Shaped(A, B),
           IsInjective(A \o B), NEW c \in Clients, c \notin ToSet(A \o B),
           NEW P, NEW Q, NEW s, Joined(A, B, c, P, Q, s), NEW x \in ToSet(P \o Q)
    PROVE  \/ \E m \in Message : Tells(s, x, m) /\ Says(P, Q, x, m)
           \/ NoneTo(s, x) /\ x = c /\ Says(P, Q, x, Nothing)
           \/ /\ NoneTo(s, x) /\ x # c /\ x \in ToSet(A \o B)
              /\ \A m : Says(A, B, x, m) => Says(P, Q, x, m)
<1>1. /\ P \in Seq(Clients) /\ Q \in Seq(Clients) /\ P \o Q = Append(A \o B, c) /\ Shaped(P, Q)
  BY JoinSlices DEF Joined
<1>2. A \o B \in Seq(Clients) /\ IsInjective(P \o Q) /\ ToSet(P \o Q) = ToSet(A \o B) \cup {c}
  <2>1. PICK l \in Seq(Clients) : l = A \o B
    BY ConcatProperties
  <2>2. IsInjective(l) /\ c \notin ToSet(l)
    BY <2>1
  <2>3. IsInjective(Append(l, c)) /\ ToSet(Append(l, c)) = ToSet(l) \cup {c}
    BY <2>2, AppendIsInjective, ToSetAppend
  <2> QED BY <1>1, <2>1, <2>3
<1>3. /\ Len(A) \in Nat /\ Len(A) <= 2 /\ (B # <<>> => Len(A) = 2) /\ Len(B) \in Nat
      /\ DOMAIN B = 1..Len(B) /\ DOMAIN A = 1..Len(A)
  BY LenProperties DEF Shaped
<1>0. P \in Seq(Clients) /\ Q \in Seq(Clients) /\ IsInjective(P \o Q)
  BY <1>1, <1>2
<1>4. ToSet(P \o Q) = ToSet(P) \cup ToSet(Q)
  BY <1>0, ToSetConcat
<1>5. CASE Len(A) < 2
  <2>1. B = <<>> /\ P = Append(A, c) /\ Q = <<>>
    <3>1. B = <<>>
      BY <1>3, <1>5
    <3> QED BY <3>1, <1>5 DEF Joined, NewPeers, NewQueue, HasPlace
  <2>2. Len(P) = Len(A) + 1 /\ P[Len(A) + 1] = c
    BY <2>1, AppendProperties
  <2>3. ToSet(Q) = {} /\ c \notin ToSet(Q) /\ x \in ToSet(P)
    BY <1>1, <1>4, <2>1, ToSetProperties
  <2>4. CASE Len(A) = 0
    <3>1. Len(P) = 1 /\ P[1] = c
      BY <2>2, <2>4
    <3>2. x = c
      BY <1>1, <2>3, <3>1, ToSetProperties
    <3>3. s = <<>>
      BY <2>3, <3>1 DEF Joined, JoinSends
    <3>4. Says(P, Q, c, Nothing)
      <4>1. 1 \in 1..Len(P) /\ Len(P) <= 2 /\ Len(P) # 2 /\ Nothing.type \in {"nothing", "peer-left"}
        BY <3>1, MessageFields
      <4>2. Says(P, Q, P[1], Nothing)
        BY <1>1, <1>2, <4>1, SaysPeer, Zenon
      <4> QED BY <3>1, <4>2
    <3> QED BY <3>2, <3>3, <3>4 DEF NoneTo
  <2>5. CASE Len(A) = 1
    <3>1. Len(P) = 2
      BY <2>2, <2>5
    <3>0. 1 \in 1..Len(P) /\ 2 \in 1..Len(P) /\ DOMAIN P = 1..Len(P) /\ ~(1 = 2)
      BY <1>1, <3>1, LenProperties
    <3>2. PICK a \in Clients, b \in Clients : a = P[1] /\ b = P[2]
      <4>1. P[1] \in Clients /\ P[2] \in Clients
        BY <1>1, <3>0, ElementOfSeq
      <4> QED BY <4>1
    <3>3. a # b
      <4>1. IsInjective(P)
        BY <1>1, <1>2, Apart, Zenon
      <4> QED BY <3>0, <3>2, <4>1 DEF IsInjective
    <3>4. s = <<<<a, Notice("peer-joined")>>, <<b, Notice("room-ready")>>>>
      BY <2>3, <3>1, <3>2 DEF Joined, JoinSends
    <3>5. Tells(s, a, Notice("peer-joined")) /\ Tells(s, b, Notice("room-ready"))
      BY <3>3, <3>4, TwoTell, MessageTypes
    <3>6. Says(P, Q, a, Notice("peer-joined")) /\ Says(P, Q, b, Notice("room-ready"))
      BY <1>0, <3>1, <3>2, SaysPair, MessageFields
    <3>7. x = a \/ x = b
      <4>1. PICK i \in 1..Len(P) : P[i] = x
        BY <1>1, <2>3, ToSetProperties
      <4>2. i = 1 \/ i = 2
        BY <3>1
      <4> QED BY <3>2, <4>1, <4>2
    <3> QED BY <3>5, <3>6, <3>7, MessageTypes DEF Own
  <2> QED BY <1>3, <1>5, <2>4, <2>5
<1>6. CASE ~(Len(A) < 2)
  <2>1. Len(A) = 2 /\ P = A /\ Q = Append(B, c)
    BY <1>3, <1>6 DEF Joined, NewPeers, NewQueue, HasPlace
  <2>2. PICK n \in Nat \ {0} : n = Len(Q) /\ n = Len(B) + 1 /\ Q[n] = c
    BY <1>3, <2>1, AppendProperties
  <2>3. c \in ToSet(Q)
    BY <2>1, ToSetAppend
  <2>4. s = <<<<c, Place("queued", n)>>>>
    BY <2>2, <2>3 DEF Joined, JoinSends
  <2>5. Tells(s, c, Place("queued", n)) /\ \A d : d # c => NoneTo(s, d)
    <3>1. Place("queued", n) \in Own
      BY MessageTypes
    <3>2. /\ Tells(<<<<c, Place("queued", n)>>>>, c, Place("queued", n))
          /\ \A d : d # c => NoneTo(<<<<c, Place("queued", n)>>>>, d)
      BY <3>1, OneTells, Zenon
    <3> QED BY <2>4, <3>2, Zenon
  <2>6. Says(P, Q, c, Place("queued", n))
    <3>1. PICK m : m = Place("queued", n)
      OBVIOUS
    <3>2. m.type \in {"queued", "queue-position"} /\ m.position = n /\ n \in 1..Len(Q) /\ Len(P) = 2
      BY <2>1, <2>2, <3>1, MessageFields
    <3>3. Says(P, Q, Q[n], m)
      BY <1>0, <3>2, SaysWaiting
    <3> QED BY <2>2, <3>1, <3>3
  <2>7. ASSUME x # c, NEW m, Says(A, B, x, m) PROVE Says(P, Q, x, m)
    <3>1. \A i \in DOMAIN Q : Q[i] = x => i \in DOMAIN B /\ B[i] = x
      BY <1>1, <1>3, <2>1, <2>2, <2>7, AppendProperties, LenProperties
    <3> QED BY <2>1, <2>7, <3>1 DEF Says
  <2>8. CASE x = c
    BY <2>2, <2>5, <2>6, <2>8, MessageTypes DEF Own
  <2>9. CASE x # c
    BY <1>2, <2>5, <2>7, <2>9
  <2> QED BY <2>8, <2>9
<1> QED BY <1>5, <1>6

\* Leave of c makes P and Q of the slices A and B, and sends s.
LeftBehind(A, B, c, P, Q, s) ==
    /\ P = LeftPeers(A, B, c) /\ Q = LeftQueue(A, B, c)
    /\ s = LeaveSends(c \in ToSet(A), Promotes(A, B, c), P, Q)

\* What the promotion of b to the side of a tells the pair and those who wait.
LEMMA PromotionTells ==
    ASSUME NEW a \in Clients, NEW b \in Clients, NEW P \in Seq(Clients),
           Len(P) = 2, P[1] = a, P[2] = b,
           NEW Q \in Seq(Clients), IsInjective(P \o Q),
           NEW s, s = LeaveSends(TRUE, TRUE, P, Q)
    PROVE  /\ Tells(s, a, Notice("peer-joined")) /\ Tells(s, b, Notice("queue-promoted"))
           /\ \A i \in 1..Len(Q) : Tells(s, Q[i], Place("queue-position", i))
<1>1. 1 \in 1..Len(P) /\ 2 \in 1..Len(P) /\ DOMAIN P = 1..Len(P) /\ ~(1 = 2)
  BY LenProperties
<1>2. /\ IsInjective(P) /\ IsInjective(Q)
      /\ \A i \in 1..Len(P) : \A j \in 1..Len(Q) : P[i] # Q[j]
  BY Apart
<1>3. a # b
  BY <1>1, <1>2 DEF IsInjective
<1>4. a \notin ToSet(Q) /\ b \notin ToSet(Q)
  BY <1>1, <1>2, ToSetProperties
<1>5. PICK one \in Seq(Clients) : one = SubSeq(P, 1, Len(P) - 1)
  <2>1. \A i \in 1..(Len(P) - 1) : P[i] \in Clients
    BY ElementOfSeq
  <2>2. SubSeq(P, 1, Len(P) - 1) \in Seq(Clients)
    BY <2>1, SubSeqProperties
  <2> QED BY <2>2
<1>6. PICK bye \in Seq(Clients \X Own) : bye = ToAll(one, Notice("peer-left"))
  BY ToAllType, MessageTypes
<1>7. PICK two \in Seq(Clients \X Own) :
        two = <<<<a, Notice("peer-joined")>>, <<b, Notice("queue-promoted")>>>>
  BY PairIsSeq, MessageTypes
<1>8. PICK places \in Seq(Clients \X Own) : places = Positions(Q)
  BY PositionsType
<1>9. s = bye \o two \o places
  BY <1>5, <1>6, <1>7, <1>8 DEF LeaveSends
<1>10. Tells(two, a, Notice("peer-joined")) /\ Tells(two, b, Notice("queue-promoted"))
  BY <1>3, <1>7, TwoTell, MessageTypes
<1>11. PICK front \in Seq(Clients \X Own) : front = bye \o two
  BY ConcatProperties
<1>12. Tells(front, a, Notice("peer-joined")) /\ Tells(front, b, Notice("queue-promoted"))
  BY <1>10, <1>11, TellsConcat
<1>13. /\ NoneTo(places, a) /\ NoneTo(places, b)
       /\ \A i \in 1..Len(Q) : Tells(places, Q[i], Place("queue-position", i))
  BY <1>2, <1>4, <1>8, PositionsTell
<1>14. s = front \o places
  BY <1>9, <1>11
<1> QED BY <1>12, <1>13, <1>14, TellsConcat

\* After Leave: who is told, is told its place; who is not, keeps it.
LEMMA LeaveSays ==
    ASSUME NEW A \in Seq(Clients), NEW B \in Seq(Clients), Shaped(A, B),
           IsInjective(A \o B), NEW c \in Clients, c \in ToSet(A) \cup ToSet(B),
           NEW P, NEW Q, NEW s, LeftBehind(A, B, c, P, Q, s), NEW x \in ToSet(P \o Q)
    PROVE  \/ \E m \in Message : Tells(s, x, m) /\ Says(P, Q, x, m)
           \/ /\ NoneTo(s, x) /\ x # c /\ x \in ToSet(A \o B)
              /\ \A m : Says(A, B, x, m) => Says(P, Q, x, m)
<1>1. /\ P \in Seq(Clients) /\ Q \in Seq(Clients) /\ Shaped(P, Q)
      /\ \E k \in 1..Len(A \o B) : (A \o B)[k] = c /\ P \o Q = RemoveAt(A \o B, k)
  BY LeaveSlices DEF LeftBehind
<1>2. IsInjective(P \o Q) /\ ToSet(P \o Q) = ToSet(A \o B) \ {c}
  <2>1. PICK l \in Seq(Clients) : l = A \o B
    BY ConcatProperties
  <2>2. PICK k \in 1..Len(l) : l[k] = c /\ P \o Q = RemoveAt(l, k)
    BY <1>1, <2>1
  <2>3. IsInjective(RemoveAt(l, k)) /\ ToSet(RemoveAt(l, k)) = ToSet(l) \ {l[k]}
    BY <2>1, RemoveAtInjective
  <2> QED BY <2>1, <2>2, <2>3
<1>3. P \in Seq(Clients) /\ Q \in Seq(Clients) /\ IsInjective(P \o Q)
  BY <1>1, <1>2
<1>4. ToSet(P \o Q) = ToSet(P) \cup ToSet(Q)
  BY <1>3, ToSetConcat
<1>5. /\ Len(A) \in Nat /\ Len(A) <= 2 /\ (B # <<>> => Len(A) = 2) /\ Len(B) \in Nat
      /\ DOMAIN B = 1..Len(B) /\ DOMAIN A = 1..Len(A)
  BY LenProperties DEF Shaped
<1>6. \A i \in 1..Len(Q) : /\ Place("queue-position", i) \in Message
                           /\ Place("queue-position", i).type \in {"queued", "queue-position"}
                           /\ Place("queue-position", i).position = i
  BY <1>3, MessageTypes, MessageFields, LenProperties DEF Own
<1>7. ASSUME Len(P) = 2, NEW i \in 1..Len(Q), Tells(s, Q[i], Place("queue-position", i))
      PROVE  \E m \in Message : Tells(s, Q[i], m) /\ Says(P, Q, Q[i], m)
  <2>1. PICK m \in Message : m = Place("queue-position", i)
    BY <1>6
  <2>2. m.type \in {"queued", "queue-position"} /\ m.position = i
    BY <1>6, <2>1
  <2>3. Says(P, Q, Q[i], m)
    BY <1>3, <1>7, <2>2, SaysWaiting
  <2> QED BY <1>7, <2>1, <2>3
<1>8. CASE c \in ToSet(A) /\ B # <<>>
  <2>1. /\ P = Append(Without(A, c), Head(B)) /\ Q = Tail(B)
        /\ s = LeaveSends(TRUE, TRUE, P, Q)
    BY <1>8 DEF LeftBehind, LeftPeers, LeftQueue, Promotes
  <2>2. Len(P) = 2
    <3>1. PICK W \in Seq(Clients) : W = Without(A, c) /\ Len(W) = Len(A) - 1
      BY <1>8, WithoutType, RemoveAtProperties
    <3>2. PICK h \in Clients : h = Head(B)
      BY <1>8, HeadTailProperties
    <3>3. Len(Append(W, h)) = Len(W) + 1
      BY AppendProperties
    <3> QED BY <1>5, <1>8, <2>1, <3>1, <3>2, <3>3
  <2>3. PICK a \in Clients, b \in Clients : a = P[1] /\ b = P[2]
    <3>1. 1 \in 1..Len(P) /\ 2 \in 1..Len(P)
      BY <2>2
    <3>2. P[1] \in Clients /\ P[2] \in Clients
      BY <1>3, <3>1, ElementOfSeq
    <3> QED BY <3>2
  <2>4. s = LeaveSends(TRUE, TRUE, P, Q)
    BY <2>1
  <2>5. /\ Tells(s, a, Notice("peer-joined")) /\ Tells(s, b, Notice("queue-promoted"))
        /\ \A i \in 1..Len(Q) : Tells(s, Q[i], Place("queue-position", i))
    BY <1>3, <2>2, <2>3, <2>4, PromotionTells
  <2>6. Says(P, Q, a, Notice("peer-joined")) /\ Says(P, Q, b, Notice("queue-promoted"))
    BY <1>3, <2>2, <2>3, SaysPair, MessageFields
  <2>7. CASE x \in ToSet(Q)
    <3>1. PICK i \in 1..Len(Q) : Q[i] = x
      BY <1>3, <2>7, ToSetProperties
    <3> QED BY <1>7, <2>2, <2>5, <3>1
  <2>8. CASE x \in ToSet(P)
    <3>1. PICK i \in 1..Len(P) : P[i] = x
      BY <1>3, <2>8, ToSetProperties
    <3>2. i = 1 \/ i = 2
      BY <2>2
    <3>3. x = a \/ x = b
      BY <2>3, <3>1, <3>2
    <3> QED BY <2>5, <2>6, <3>3, MessageTypes DEF Own
  <2> QED BY <1>4, <2>7, <2>8
<1>9. CASE c \in ToSet(A) /\ B = <<>>
  <2>1. P = Without(A, c) /\ Q = <<>> /\ s = LeaveSends(TRUE, FALSE, P, Q)
    BY <1>9 DEF LeftBehind, LeftPeers, LeftQueue, Promotes
  <2>2. Len(P) = Len(A) - 1
    BY <1>9, <2>1, WithoutType, RemoveAtProperties
  <2>3. x \in ToSet(P)
    BY <1>3, <1>4, <2>1, ToSetProperties
  <2>4. PICK i \in 1..Len(P) : P[i] = x
    BY <1>3, <2>3, ToSetProperties
  <2>5. Len(P) = 1 /\ i = 1
    BY <1>5, <2>2
  <2>6. PICK bye \in Seq(Clients \X Own) : bye = ToAll(P, Notice("peer-left"))
    BY <1>3, ToAllType, MessageTypes
  <2>7. s = bye
    <3>1. s = bye \o <<>> \o <<>>
      BY <2>1, <2>6 DEF LeaveSends
    <3> QED BY <2>6, <3>1, ConcatEmptySeq
  <2>8. DOMAIN bye = {1} /\ bye[1] = <<x, Notice("peer-left")>>
    BY <1>3, <2>4, <2>5, <2>6, LenProperties DEF ToAll
  <2>9. Notice("peer-left") # Signal /\ Notice("peer-left") \in Message
    BY MessageTypes DEF Own
  <2>10. Tells(s, x, Notice("peer-left"))
    BY <2>7, <2>8, <2>9 DEF Tells
  <2>11. Says(P, Q, x, Notice("peer-left"))
    <3>1. PICK m : m = Notice("peer-left")
      OBVIOUS
    <3>2. m.type \in {"nothing", "peer-left"} /\ Len(P) <= 2 /\ Len(P) # 2
      BY <2>5, <3>1, MessageFields
    <3>3. Says(P, Q, P[i], m)
      BY <1>3, <3>2, SaysPeer
    <3> QED BY <2>4, <3>1, <3>3
  <2> QED BY <2>9, <2>10, <2>11
<1>10. CASE c \notin ToSet(A)
  <2>1. c \in ToSet(B) /\ P = A /\ Q = Without(B, c) /\ s = Positions(Q)
    <3>1. c \in ToSet(B) /\ Without(A, c) = A /\ ~Promotes(A, B, c)
      BY <1>10, WithoutType DEF Promotes
    <3>2. P = A /\ Q = Without(B, c)
      BY <1>10, <3>1 DEF LeftBehind, LeftPeers, LeftQueue
    <3>3. s = Positions(Q)
      BY <1>10, <3>1 DEF LeftBehind, LeaveSends
    <3> QED BY <3>1, <3>2, <3>3
  <2>2. Len(P) = 2 /\ s = Positions(Q)
    BY <1>5, <2>1, ToSetProperties
  <2>3. /\ \A i \in 1..Len(Q) : Tells(s, Q[i], Place("queue-position", i))
        /\ \A d : d \notin ToSet(Q) => NoneTo(s, d)
    <3>1. IsInjective(Q)
      BY <1>3, Apart
    <3> QED BY <1>3, <2>2, <3>1, PositionsTell
  <2>4. CASE x \in ToSet(Q)
    <3>1. PICK i \in 1..Len(Q) : Q[i] = x
      BY <1>3, <2>4, ToSetProperties
    <3> QED BY <1>7, <2>2, <2>3, <3>1
  <2>5. CASE x \notin ToSet(Q)
    <3>1. \A i \in DOMAIN Q : Q[i] # x
      BY <2>5 DEF ToSet
    <3>2. \A m : Says(A, B, x, m) => Says(P, Q, x, m)
      BY <2>1, <3>1 DEF Says
    <3> QED BY <1>2, <2>3, <2>5, <3>2
  <2> QED BY <2>4, <2>5
<1> QED BY <1>8, <1>9, <1>10

\* With the lock free everybody was told, or was not reached.
LEMMA FreeTold ==
    ASSUME StandInv, Free, NEW r \in RoomIDs, NEW d \in ToSet(Line(r))
    PROVE  d \in missed \/ Says(peers[r], queue[r], d, told[d])
<1>1. \A c \in Clients : DOMAIN owed[c] = {}
  BY DEF Free, Holds
<1>2. Knows(d, peers[r], queue[r])
  BY DEF StandInv
<1> QED BY <1>1, <1>2 DEF Knows, Tells

\* What d knows when nobody but c has sends to make.
LEMMA KnowsAlone ==
    ASSUME NEW c \in Clients, NEW s, owed'[c] = s, \A e \in Clients \ {c} : owed'[e] = <<>>,
           NEW d, NEW P, NEW Q,
           \/ \E m \in Message : Tells(s, d, m) /\ Says(P, Q, d, m)
           \/ NoneTo(s, d) /\ (d \in missed' \/ Says(P, Q, d, told'[d]))
    PROVE  Knows(d, P, Q)'
<1>1. CASE \E m \in Message : Tells(s, d, m) /\ Says(P, Q, d, m)
  BY <1>1 DEF Knows
<1>2. CASE NoneTo(s, d) /\ (d \in missed' \/ Says(P, Q, d, told'[d]))
  <2>1. ASSUME NEW e \in Clients PROVE Silent(owed'[e], d)
    <3>1. CASE e = c
      BY <1>2, <3>1 DEF NoneTo, Silent
    <3>2. CASE e # c
      <4>1. DOMAIN owed'[e] = {}
        BY <3>2
      <4> QED BY <4>1 DEF Silent
    <3> QED BY <3>1, <3>2
  <2> QED BY <1>2, <2>1 DEF Knows
<1> QED BY <1>1, <1>2

\* After Join or Leave of c, which found the lock free, in the room r.
LEMMA StandAnew ==
    ASSUME Inv, Places', StandInv, Free, NEW c \in Clients, NEW r \in RoomIDs,
           NEW P \in Seq(Clients), NEW Q \in Seq(Clients),
           peers' = [peers EXCEPT ![r] = P], queue' = [queue EXCEPT ![r] = Q],
           NEW s \in Seq((ToSet(P) \cup ToSet(Q)) \X Own), owed' = [owed EXCEPT ![c] = s],
           \A x \in RoomIDs \ {r} : c \notin ToSet(Line(x)'),
           \A d \in Clients \ {c} : told'[d] = told[d] /\ (d \in missed => d \in missed'),
           \A d \in ToSet(P \o Q) :
              \/ \E m \in Message : Tells(s, d, m) /\ Says(P, Q, d, m)
              \/ NoneTo(s, d) /\ (d \in missed' \/ Says(P, Q, d, told'[d]))
    PROVE  StandInv'
<1>0. TypeOK
  BY DEF Inv
<1>1. /\ peers'[r] = P /\ queue'[r] = Q /\ Line(r)' = P \o Q
      /\ \A x \in RoomIDs \ {r} : /\ Line(x)' = Line(x)
                                  /\ peers'[x] = peers[x] /\ queue'[x] = queue[x]
  <2>1. /\ peers'[r] = P /\ queue'[r] = Q
        /\ \A x \in RoomIDs \ {r} : peers'[x] = peers[x] /\ queue'[x] = queue[x]
    BY <1>0 DEF TypeOK
  <2> QED BY <2>1 DEF Line
<1>2. owed'[c] = s /\ \A e \in Clients \ {c} : owed'[e] = <<>>
  BY <1>0 DEF TypeOK, Free, Holds
<1>3. \A i \in DOMAIN s : s[i][1] \in ToSet(P \o Q) /\ s[i][2] # Signal
  <2>1. \A i \in DOMAIN s : s[i] \in (ToSet(P) \cup ToSet(Q)) \X Own
    BY LenProperties, ElementOfSeq
  <2>2. ToSet(P \o Q) = ToSet(P) \cup ToSet(Q)
    BY ToSetConcat
  <2> QED BY <2>1, <2>2 DEF Own
<1>4. Sections'
  <2>1. \A e \in Clients \ {c} : DOMAIN owed'[e] = {}
    BY <1>2
  <2> QED BY <1>2, <1>3, <2>1 DEF Sections
<1>5. ASSUME NEW d \in ToSet(Line(r)') PROVE Knows(d, peers[r], queue[r])'
  <2>1. Knows(d, P, Q)'
    BY <1>1, <1>2, <1>5, KnowsAlone
  <2> QED BY <1>1, <2>1 DEF Knows
<1>6. ASSUME NEW x \in RoomIDs \ {r}, NEW d \in ToSet(Line(x)')
      PROVE  Knows(d, peers[x], queue[x])'
  <2>1. d \in Clients \ {c} /\ d \notin ToSet(Line(r)') /\ d \in ToSet(Line(x))
    <3>1. d \in ToSet(Line(x)) /\ Line(x) \in Seq(Clients)
      BY <1>0, <1>1, <1>6, LineType
    <3>2. d \in Clients
      BY <3>1, ToSetProperties
    <3> QED BY <1>6, <3>1, <3>2 DEF Places, OnePlace
  <2>2. NoneTo(s, d)
    BY <1>1, <1>3, <2>1 DEF NoneTo
  <2>3. d \in missed' \/ Says(peers[x], queue[x], d, told'[d])
    BY <1>6, <2>1, FreeTold
  <2>4. Knows(d, peers[x], queue[x])'
    <3>1. PICK A, B : A = peers[x] /\ B = queue[x] /\ A = peers'[x] /\ B = queue'[x]
      BY <1>1, <1>6
    <3>2. Knows(d, A, B)'
      BY <1>2, <2>2, <2>3, <3>1, KnowsAlone
    <3> QED BY <3>1, <3>2 DEF Knows
  <2> QED BY <2>4
<1> QED BY <1>4, <1>5, <1>6 DEF StandInv

\* A step that neither moves nor tells anybody.
LEMMA StandFrame ==
    ASSUME StandInv, UNCHANGED <<peers, queue, owed, told, missed>>
    PROVE  StandInv'
<1>1. \A r \in RoomIDs : Line(r)' = Line(r)
  BY DEF Line
<1> QED BY <1>1 DEF StandInv, Sections, Knows

\* What c sends to clients of the room.
LEMMA ToRoom ==
    ASSUME NEW P \in Seq(Clients), NEW Q \in Seq(Clients)
    PROVE  /\ P \in Seq(ToSet(P) \cup ToSet(Q)) /\ Q \in Seq(ToSet(P) \cup ToSet(Q))
           /\ ToSet(P \o Q) = ToSet(P) \cup ToSet(Q)
<1>1. PICK M : M = ToSet(P) \cup ToSet(Q)
  OBVIOUS
<1>2. P \in Seq(M) /\ Q \in Seq(M)
  BY <1>1, SeqOfToSet
<1> QED BY <1>1, <1>2, ToSetConcat

LEMMA StandJoin ==
    ASSUME Inv, StandInv, NEW c \in Clients, NEW r \in RoomIDs, Join(c, r)
    PROVE  StandInv'
<1>0. TypeOK /\ Free /\ Places'
  BY JoinPlaces DEF Inv, Join
<1>1. PICK A \in Seq(Clients), B \in Seq(Clients) : A = peers[r] /\ B = queue[r]
  BY LineType DEF Inv
<1>2. /\ A = IF r \in rooms THEN peers[r] ELSE <<>>
      /\ B = IF r \in rooms THEN queue[r] ELSE <<>>
  BY <1>1, LineType DEF Inv, Places, NoRoomLeaked
<1>3. Shaped(A, B) /\ IsInjective(A \o B) /\ A \o B = Line(r)
  BY <1>1 DEF Inv, Places, PairBeforeQueue, OnePlace, Shaped, Line
<1>4. PICK P, Q, s : Joined(A, B, c, P, Q, s)
  BY DEF Joined
<1>5. P \in Seq(Clients) /\ Q \in Seq(Clients) /\ P \o Q = Append(A \o B, c)
  BY <1>3, <1>4, JoinSlices DEF Joined
<1>6. /\ peers' = [peers EXCEPT ![r] = P]
      /\ queue' = [queue EXCEPT ![r] = Q]
      /\ owed' = [owed EXCEPT ![c] = s]
  BY <1>2, <1>4 DEF Join, Joined, NewPeers, NewQueue
<1>7. /\ room'[c] = r /\ pc[c] = "none"
      /\ told' = [told EXCEPT ![c] = Nothing] /\ missed' = missed \ {c}
  BY <1>0 DEF Join, TypeOK
<1>8. c \notin ToSet(A \o B)
  BY <1>3, <1>7 DEF Inv, Places, OnePlace, InRoom
<1>9. c \in ToSet(P) \cup ToSet(Q)
  <2>1. PICK l \in Seq(Clients) : l = A \o B
    BY ConcatProperties
  <2>2. c \in ToSet(Append(l, c))
    BY ToSetAppend
  <2>3. c \in ToSet(P \o Q)
    BY <1>5, <2>1, <2>2
  <2> QED BY <1>5, <2>3, ToRoom
<1>10. s \in Seq((ToSet(P) \cup ToSet(Q)) \X Own)
  <2>1. PICK M : M = ToSet(P) \cup ToSet(Q)
    OBVIOUS
  <2>2. P \in Seq(M) /\ Q \in Seq(M) /\ c \in M
    BY <1>5, <1>9, <2>1, ToRoom
  <2>3. JoinSends(P, Q, c) \in Seq(M \X Own)
    BY <2>2, JoinSendsType
  <2> QED BY <1>4, <2>1, <2>3 DEF Joined
<1>11. \A x \in RoomIDs \ {r} : c \notin ToSet(Line(x)')
  BY <1>0, <1>7 DEF Places, OnePlace
<1>12. /\ told'[c] = Nothing
       /\ \A d \in Clients \ {c} : told'[d] = told[d] /\ (d \in missed => d \in missed')
  BY <1>0, <1>7 DEF TypeOK
<1>13. ASSUME NEW d \in ToSet(P \o Q)
       PROVE  \/ \E m \in Message : Tells(s, d, m) /\ Says(P, Q, d, m)
              \/ NoneTo(s, d) /\ (d \in missed' \/ Says(P, Q, d, told'[d]))
  <2>1. \/ \E m \in Message : Tells(s, d, m) /\ Says(P, Q, d, m)
        \/ NoneTo(s, d) /\ d = c /\ Says(P, Q, d, Nothing)
        \/ /\ NoneTo(s, d) /\ d # c /\ d \in ToSet(A \o B)
           /\ \A m : Says(A, B, d, m) => Says(P, Q, d, m)
    <3>1. Shaped(A, B) /\ IsInjective(A \o B)
      BY <1>3
    <3> QED BY <3>1, <1>4, <1>8, JoinSays
  <2>2. CASE NoneTo(s, d) /\ d = c /\ Says(P, Q, d, Nothing)
    BY <1>12, <2>2
  <2>3. CASE /\ NoneTo(s, d) /\ d # c /\ d \in ToSet(A \o B)
             /\ \A m : Says(A, B, d, m) => Says(P, Q, d, m)
    <3>1. d \in Clients
      <4>1. PICK l \in Seq(Clients) : l = P \o Q
        BY <1>5, ConcatProperties
      <4> QED BY <4>1, ToSetProperties
    <3>2. d \in missed \/ Says(A, B, d, told[d])
      BY <1>0, <1>1, <1>3, <2>3, FreeTold
    <3> QED BY <1>12, <2>3, <3>1, <3>2
  <2> QED BY <2>1, <2>2, <2>3
<1> QED BY <1>0, <1>5, <1>6, <1>10, <1>11, <1>12, <1>13, StandAnew

LEMMA StandLeave ==
    ASSUME Inv, StandInv, NEW c \in Clients, Leave(c)
    PROVE  StandInv'
<1>0. TypeOK /\ Free /\ Places' /\ pc[c] = "leaving"
  BY LeavePlaces DEF Inv, Leave
<1>1. CASE room[c] \notin RoomIDs
  <2>1. UNCHANGED <<peers, queue, owed, told, missed>>
    BY <1>0, <1>1 DEF TypeOK, Leave
  <2> QED BY <2>1, StandFrame
<1>2. ASSUME NEW r \in RoomIDs, r = room[c] PROVE StandInv'
  <2>1. PICK A \in Seq(Clients), B \in Seq(Clients) : A = peers[r] /\ B = queue[r]
    BY LineType DEF Inv
  <2>2. Shaped(A, B) /\ IsInjective(A \o B) /\ A \o B = Line(r)
    BY <2>1 DEF Inv, Places, PairBeforeQueue, OnePlace, Shaped, Line
  <2>3. c \in ToSet(Line(r)) /\ c \in ToSet(A) \cup ToSet(B) /\ r \in rooms
    <3>1. c \in ToSet(Line(r))
      BY <1>0, <1>2 DEF Inv, Places, OnePlace, InRoom
    <3>2. c \in ToSet(A) \cup ToSet(B)
      BY <2>1, <3>1, LineType DEF Inv
    <3>3. r \in rooms
      BY <1>0, <3>1, LineType, ToSetProperties DEF Inv, Places, NoRoomLeaked
    <3> QED BY <3>1, <3>2, <3>3
  <2>4. PICK P, Q, s : LeftBehind(A, B, c, P, Q, s)
    BY DEF LeftBehind
  <2>5. P \in Seq(Clients) /\ Q \in Seq(Clients)
    BY <2>2, <2>3, <2>4, LeaveSlices DEF LeftBehind
  <2>6. /\ peers' = [peers EXCEPT ![r] = P]
        /\ queue' = [queue EXCEPT ![r] = Q]
    BY <1>2, <2>1, <2>3, <2>4 DEF Leave, LeftBehind, LeftPeers, LeftQueue, Promotes
  <2>7. owed' = [owed EXCEPT ![c] = s]
    BY <1>2, <2>1, <2>3, <2>4 DEF Leave, LeftBehind, LeftPeers, LeftQueue, Promotes
  <2>8. UNCHANGED <<told, missed>> /\ pc' = [pc EXCEPT ![c] = "left"]
    BY DEF Leave
  <2>9. s \in Seq((ToSet(P) \cup ToSet(Q)) \X Own)
    <3>1. PICK M : M = ToSet(P) \cup ToSet(Q)
      OBVIOUS
    <3>2. P \in Seq(M) /\ Q \in Seq(M)
      BY <2>5, <3>1, ToRoom
    <3> DEFINE w == c \in ToSet(A)
               promote == Promotes(A, B, c)
    <3>3. w \in BOOLEAN /\ promote \in BOOLEAN /\ s = LeaveSends(w, promote, P, Q)
      BY <2>4 DEF LeftBehind, Promotes
    <3>4. ASSUME promote PROVE w /\ P # <<>>
      <4>1. Head(B) \in Clients /\ Without(A, c) \in Seq(Clients)
        BY <3>4, HeadTailProperties, WithoutType DEF Promotes
      <4>2. P = Append(Without(A, c), Head(B))
        BY <2>4, <3>4 DEF LeftBehind, LeftPeers
      <4> QED BY <3>4, <4>1, <4>2, AppendProperties DEF Promotes
    <3> HIDE DEF w, promote
    <3>5. LeaveSends(w, promote, P, Q) \in Seq(M \X Own)
      BY <3>2, <3>3, <3>4, LeaveSendsType
    <3> QED BY <3>1, <3>3, <3>5
  <2>10. \A x \in RoomIDs \ {r} : c \notin ToSet(Line(x)')
    BY <1>0, <2>8 DEF Places, OnePlace, InRoom, TypeOK
  <2>11. \A d \in Clients \ {c} : told'[d] = told[d] /\ (d \in missed => d \in missed')
    BY <2>8
  <2>12. ASSUME NEW d \in ToSet(P \o Q)
         PROVE  \/ \E m \in Message : Tells(s, d, m) /\ Says(P, Q, d, m)
                \/ NoneTo(s, d) /\ (d \in missed' \/ Says(P, Q, d, told'[d]))
    <3>1. \/ \E m \in Message : Tells(s, d, m) /\ Says(P, Q, d, m)
          \/ /\ NoneTo(s, d) /\ d # c /\ d \in ToSet(A \o B)
             /\ \A m : Says(A, B, d, m) => Says(P, Q, d, m)
      <4>1. Shaped(A, B) /\ IsInjective(A \o B) /\ c \in ToSet(A) \cup ToSet(B)
        BY <2>2, <2>3
      <4> QED BY <4>1, <2>4, LeaveSays
    <3>2. CASE /\ NoneTo(s, d) /\ d # c /\ d \in ToSet(A \o B)
               /\ \A m : Says(A, B, d, m) => Says(P, Q, d, m)
      <4>1. d \in missed \/ Says(A, B, d, told[d])
        BY <1>0, <2>1, <2>2, <3>2, FreeTold
      <4> QED BY <2>8, <3>2, <4>1
    <3> QED BY <3>1, <3>2
  <2> QED BY <1>0, <2>5, <2>6, <2>7, <2>9, <2>10, <2>11, <2>12, StandAnew
<1> QED BY <1>1, <1>2

\* A send within a critical section: whom it reaches knows, whom it does not
\* reach is missed, and for the others nothing changes.
LEMMA StandSend ==
    ASSUME Inv, StandInv, NEW c \in Clients, SendMsg(c)
    PROVE  StandInv'
<1>0. TypeOK
  BY DEF Inv
<1>1. PICK s \in Seq(Clients \X Message) : s = owed[c] /\ s # <<>>
  BY <1>0 DEF SendMsg, Holds, TypeOK
<1>2. PICK t \in Seq(Clients \X Message) : t = Tail(s)
  BY <1>1, HeadTailProperties
<1>3. /\ Len(s) \in Nat /\ Len(t) = Len(s) - 1 /\ 1 \in DOMAIN s
      /\ DOMAIN s = 1..Len(s) /\ DOMAIN t = 1..Len(t)
      /\ \A i \in 1..Len(t) : t[i] = s[i+1]
  BY <1>1, <1>2, HeadTailProperties, LenProperties
<1>4. PICK d \in Clients, m \in Message : s[1] = <<d, m>> /\ Head(s) = <<d, m>>
  <2>1. Head(s) \in Clients \X Message /\ Head(s) = s[1]
    BY <1>1, HeadTailProperties
  <2> QED BY <2>1
<1>5. /\ owed'[c] = t /\ \A e \in Clients \ {c} : owed'[e] = owed[e]
      /\ UNCHANGED <<peers, queue>>
  BY <1>0, <1>1, <1>2 DEF SendMsg, TypeOK
<1>6. /\ m = Signal => told' = told /\ missed' = missed
      /\ m # Signal => /\ d \in missed' \/ told'[d] = m
                       /\ \A x : x # d => (x \in missed => x \in missed')
                       /\ \A x \in Clients \ {d} : told'[x] = told[x]
  <2>1. Head(owed[c])[1] = d /\ Head(owed[c])[2] = m
    BY <1>1, <1>4
  <2>2. /\ m = Signal => told' = told /\ missed' = missed
        /\ m # Signal => \/ told' = told /\ missed' = missed \cup {d}
                         \/ told' = [told EXCEPT ![d] = m] /\ missed' = missed \ {d}
    BY <2>1 DEF SendMsg
  <2> QED BY <1>0, <2>2 DEF TypeOK
<1>7. \A i \in DOMAIN t : i + 1 \in DOMAIN s /\ t[i] = s[i+1]
  BY <1>3
<1>8. \A i \in DOMAIN s : i # 1 => i - 1 \in DOMAIN t /\ t[i-1] = s[i]
  BY <1>3
<1>9. Sections'
  <2>1. \/ \A i \in DOMAIN s : s[i][2] = Signal
        \/ (\A i \in DOMAIN s : s[i][2] # Signal) /\ \A e \in Clients \ {c} : owed[e] = <<>>
    BY <1>1 DEF StandInv, Sections
  <2>2. \/ \A i \in DOMAIN t : t[i][2] = Signal
        \/ (\A i \in DOMAIN t : t[i][2] # Signal) /\ \A e \in Clients \ {c} : owed'[e] = <<>>
    BY <1>5, <1>7, <2>1
  <2>3. ASSUME NEW e \in Clients \ {c}
        PROVE  \/ \A i \in DOMAIN owed'[e] : owed'[e][i][2] = Signal
               \/ /\ \A i \in DOMAIN owed'[e] : owed'[e][i][2] # Signal
                  /\ \A f \in Clients \ {e} : owed'[f] = <<>>
    <3>1. CASE \A i \in DOMAIN owed[e] : owed[e][i][2] = Signal
      BY <1>5, <3>1
    <3>2. CASE owed[c] = <<>>
      BY <1>1, <3>2
    <3> QED BY <3>1, <3>2 DEF StandInv, Sections
  <2> QED BY <1>5, <2>2, <2>3 DEF Sections
<1>10. ASSUME NEW x \in Clients, NEW P, NEW Q, Knows(x, P, Q)
       PROVE  Knows(x, P, Q)'
  <2>1. CASE /\ \A e \in Clients : Silent(owed[e], x)
             /\ x \in missed \/ Says(P, Q, x, told[x])
    <3>1. ASSUME NEW e \in Clients PROVE Silent(owed'[e], x)
      <4>1. Silent(s, x) /\ Silent(owed[e], x)
        BY <1>1, <2>1
      <4>2. Silent(t, x)
        BY <1>7, <4>1 DEF Silent
      <4> QED BY <1>5, <4>1, <4>2
    <3>2. m = Signal \/ x # d
      BY <1>1, <1>3, <1>4, <2>1 DEF Silent
    <3>3. x \in missed' \/ Says(P, Q, x, told'[x])
      BY <1>6, <2>1, <3>2
    <3> QED BY <3>1, <3>3 DEF Knows
  <2>2. ASSUME NEW e \in Clients, NEW n \in Message, Tells(owed[e], x, n), Says(P, Q, x, n)
        PROVE  Knows(x, P, Q)'
    <3>1. CASE e # c
      BY <1>5, <2>2, <3>1 DEF Knows
    <3>2. CASE e = c
      <4>1. PICK i \in DOMAIN s : /\ s[i] = <<x, n>> /\ n # Signal
                                  /\ \A j \in DOMAIN s : j > i => s[j][1] # x
        BY <1>1, <2>2, <3>2 DEF Tells
      <4>2. CASE i # 1
        <5>1. i - 1 \in DOMAIN t /\ t[i-1] = <<x, n>>
          BY <1>8, <4>1, <4>2
        <5>2. \A j \in DOMAIN t : j > i - 1 => t[j][1] # x
          BY <1>3, <1>7, <4>1
        <5>3. Tells(owed'[c], x, n)
          BY <1>5, <4>1, <5>1, <5>2 DEF Tells
        <5> QED BY <2>2, <5>3 DEF Knows
      <4>3. CASE i = 1
        <5>1. x = d /\ n = m
          BY <1>4, <4>1, <4>3
        <5>2. \A j \in DOMAIN t : t[j][1] # x
          BY <1>3, <1>7, <4>1, <4>3
        <5>3. \A f \in Clients \ {c} : owed'[f] = <<>>
          BY <1>1, <1>3, <1>4, <1>5, <4>1, <5>1 DEF StandInv, Sections
        <5>4. d \in missed' \/ told'[d] = m
          BY <1>6, <4>1, <5>1
        <5>5. NoneTo(t, x) /\ (x \in missed' \/ Says(P, Q, x, told'[x]))
          BY <2>2, <5>1, <5>2, <5>4 DEF NoneTo
        <5> QED BY <1>5, <5>3, <5>5, KnowsAlone
      <4> QED BY <4>2, <4>3
    <3> QED BY <3>1, <3>2
  <2> QED BY <1>10, <2>1, <2>2 DEF Knows
<1>11. ASSUME NEW r \in RoomIDs, NEW x \in ToSet(Line(r)')
       PROVE  Knows(x, peers[r], queue[r])'
  <2>1. PICK P, Q : P = peers[r] /\ Q = queue[r] /\ P = peers'[r] /\ Q = queue'[r]
    BY <1>5
  <2>2. x \in ToSet(Line(r)) /\ Line(r) \in Seq(Clients)
    BY <1>0, <1>5, <1>11, LineType DEF Line
  <2>3. x \in Clients /\ Knows(x, P, Q)
    <3>1. x \in Clients
      BY <2>2, ToSetProperties
    <3>2. Knows(x, peers[r], queue[r])
      BY <2>2 DEF StandInv
    <3> QED BY <2>1, <3>1, <3>2 DEF Knows
  <2>4. Knows(x, P, Q)'
    BY <1>10, <2>3
  <2> QED BY <2>1, <2>4 DEF Knows
<1> QED BY <1>9, <1>11 DEF StandInv

\* A signal says nothing of places, and nobody relays while a notice is owed.
LEMMA StandRelay ==
    ASSUME Inv, StandInv, NEW c \in Clients, Relay(c)
    PROVE  StandInv'
<1>0. TypeOK
  BY DEF Inv
<1>1. PICK t : owed' = [owed EXCEPT ![c] = ToAll(t, Signal)]
  BY DEF Relay
<1>2. \A i \in DOMAIN ToAll(t, Signal) : ToAll(t, Signal)[i][2] = Signal
  BY DEF ToAll
<1>3. ASSUME NEW e \in Clients PROVE \A i \in DOMAIN owed[e] : owed[e][i][2] = Signal
  <2>1. CASE owed[e] = <<>>
    <3>1. DOMAIN owed[e] = {}
      BY <2>1
    <3> QED BY <3>1
  <2>2. CASE owed[e] # <<>>
    <3>1. Head(owed[e])[2] = Signal
      BY <2>2 DEF Relay, MayRead, WriteHeld, Holds
    <3>2. owed[e] \in Seq(Clients \X Message)
      BY <1>0 DEF TypeOK
    <3>3. owed[e][1][2] = Signal /\ 1 \in DOMAIN owed[e]
      BY <2>2, <3>1, <3>2, HeadTailProperties, LenProperties
    <3> QED BY <3>3 DEF StandInv, Sections
  <2> QED BY <2>1, <2>2
<1>4. \A e \in Clients : \A i \in DOMAIN owed'[e] : owed'[e][i][2] = Signal
  BY <1>0, <1>1, <1>2, <1>3 DEF TypeOK
<1>5. Sections'
  BY <1>4 DEF Sections
<1>6. UNCHANGED <<peers, queue, told, missed>>
  BY DEF Relay
<1>7. ASSUME NEW r \in RoomIDs, NEW x \in ToSet(Line(r)')
      PROVE  Knows(x, peers[r], queue[r])'
  <2>1. x \in ToSet(Line(r))
    BY <1>6, <1>7 DEF Line
  <2>2. \A e \in Clients : \A m \in Message : ~Tells(owed[e], x, m)
    BY <1>3 DEF Tells
  <2>3. x \in missed \/ Says(peers[r], queue[r], x, told[x])
    BY <2>1, <2>2 DEF StandInv, Knows
  <2>4. \A e \in Clients : Silent(owed'[e], x)
    BY <1>4 DEF Silent
  <2> QED BY <1>6, <2>3, <2>4 DEF Knows
<1> QED BY <1>5, <1>7 DEF StandInv

LEMMA StandStep == Inv /\ StandInv /\ [Next]_vars => StandInv'
<1> SUFFICES ASSUME Inv, StandInv, [Next]_vars PROVE StandInv'
  OBVIOUS
<1>1. ASSUME NEW c \in Clients, NEW r \in RoomIDs, Join(c, r) PROVE StandInv'
  BY <1>1, StandJoin
<1>2. ASSUME NEW c \in Clients, Leave(c) \/ SendMsg(c) \/ Relay(c) PROVE StandInv'
  BY <1>2, StandLeave, StandSend, StandRelay
<1>3. ASSUME NEW c \in Clients,
             \/ StartPumps(c) \/ ReadFail(c) \/ CloseConn(c)
             \/ WriteMsg(c) \/ WriteFail(c) \/ PingFail(c) \/ Drop(c)
      PROVE  UNCHANGED <<peers, queue, owed, told, missed>>
  BY <1>3 DEF StartPumps, ReadFail, CloseConn, WriteMsg, WriteFail, PingFail, Drop, hubVars
<1>4. ASSUME UNCHANGED vars PROVE UNCHANGED <<peers, queue, owed, told, missed>>
  BY <1>4 DEF vars
<1> QED BY <1>1, <1>2, <1>3, <1>4, StandFrame DEF Next, Reader, Writer

\* Whenever the lock is free, the last notice of every client says where it
\* stands, unless that notice was dropped - for any number of clients in the
\* line, and although Leave tells them one after the other.
THEOREM EverybodyKnowsItsPlace == Spec => []Standing
<1>1. Init => StandInv
  <2> SUFFICES ASSUME Init PROVE StandInv
    OBVIOUS
  <2>1. \A c \in Clients : owed[c] = <<>> /\ DOMAIN owed[c] = {}
    BY DEF Init
  <2>2. \A r \in RoomIDs : ToSet(Line(r)) = {}
    <3>1. \A r \in RoomIDs : peers[r] = <<>> /\ queue[r] = <<>> /\ TypeOK
      BY InvInit DEF Init, Inv
    <3>2. \A r \in RoomIDs : Line(r) = <<>> /\ Line(r) \in Seq(Clients)
      BY <3>1, LineType
    <3> QED BY <3>2, ToSetProperties
  <2> QED BY <2>1, <2>2 DEF StandInv, Sections
<1>2. Inv /\ StandInv => Standing
  <2> SUFFICES ASSUME Inv, StandInv, Free, NEW r \in RoomIDs
               PROVE  LET knows(c, types) == c \in missed \/ told[c].type \in types
                      IN  /\ \A i \in DOMAIN queue[r] :
                                LET c == queue[r][i]
                                IN  /\ knows(c, {"queued", "queue-position"})
                                    /\ c \in missed \/ told[c].position = i
                          /\ Len(peers[r]) = 2 =>
                                /\ knows(peers[r][1], {"peer-joined"})
                                /\ knows(peers[r][2], {"room-ready", "queue-promoted"})
                          /\ Len(peers[r]) = 1 =>
                                knows(peers[r][1], {"nothing", "peer-left"})
    BY DEF Standing
  <2>1. \A d \in ToSet(Line(r)) : d \in missed \/ Says(peers[r], queue[r], d, told[d])
    BY FreeTold
  <2>2. /\ ToSet(Line(r)) = ToSet(peers[r]) \cup ToSet(queue[r])
        /\ DOMAIN peers[r] = 1..Len(peers[r])
    BY LineType, LenProperties DEF Inv
  <2>3. \A i \in DOMAIN queue[r] : queue[r][i] \in ToSet(Line(r))
    BY <2>2 DEF ToSet
  <2>4. \A i \in 1..Len(peers[r]) : peers[r][i] \in ToSet(Line(r))
    BY <2>2 DEF ToSet
  <2>5. Len(peers[r]) = 2 => 1 \in 1..Len(peers[r]) /\ 2 \in 1..Len(peers[r])
    OBVIOUS
  <2>6. Len(peers[r]) = 1 => 1 \in 1..Len(peers[r])
    OBVIOUS
  <2> QED BY <2>1, <2>3, <2>4, <2>5, <2>6 DEF Says
<1>3. Spec => []StandInv
  BY <1>1, StandStep, Invariant, PTL DEF Spec
<1> QED BY <1>2, <1>3, Invariant, PTL

=============================================================================
