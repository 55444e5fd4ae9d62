------------------------------- MODULE MCHub -------------------------------
(***************************************************************************)
(* Hub on small instances.                                                 *)
(***************************************************************************)
EXTENDS Hub, TLC

Symmetry == Permutations(Clients) \cup Permutations(RoomIDs)

\* What is left of a connection whose goroutines have ended is garbage: Join
\* overwrites it before anything reads it.
Over(c) == pc[c] = "none" /\ writer[c] = "none"

View ==
    <<rooms, peers, queue,
      [c \in Clients |->
        IF Over(c) THEN <<>>
        ELSE <<room[c], pc[c], writer[c], conn[c], send[c], owed[c], told[c], c \in missed>>]>>

NoSignals == \A c \in Clients : Holds(c) => Head(owed[c])[2] # Signal

\* Clients that have left and whose goroutines are still to end.  Nothing
\* that the others see happens in them any more.
Ending == {c \in Clients :
    \/ pc[c] = "left" /\ ~Holds(c)
    \/ pc[c] = "none" /\ writer[c] = "writing"}

\* They end at once.
Tidy == Ending # {} => \E c \in Ending : CloseConn(c) \/ PingFail(c)

\* And every goroutine keeps up: messages are written at once, and while one
\* client is in a critical section no other starts one or waits for it.
Backlog == {c \in Clients : writer[c] = "writing" /\ conn[c] # "closed" /\ send[c] # <<>>}
Leaving == {c \in Clients : pc[c] = "leaving"}
Prompt ==
    /\ Tidy
    /\ Ending = {} =>
        IF Backlog # {} THEN \E c \in Backlog : WriteMsg(c)
        ELSE IF Free /\ Leaving # {} THEN \E c \in Leaving : Leave(c)
        ELSE ~Free => \E c \in Clients : SendMsg(c) \/ Drop(c) \/ WriteFail(c) \/ PingFail(c)

\* Every client connects once, says nothing, and the goroutines keep up: small
\* enough for liveness with a queue.  Such a behaviour is finite, so it is
\* enough that the goroutines as a whole go on while one of them can.
Goroutines(c) ==
    \/ StartPumps(c) \/ SendMsg(c) \/ ReadFail(c) \/ Leave(c) \/ CloseConn(c)
    \/ WriteMsg(c)
    \/ conn[c] = "closed" /\ (WriteFail(c) \/ PingFail(c))

OnceNext ==
    /\ Prompt
    /\ \E c \in Clients :
        \/ room[c] = NoRoom /\ \E r \in RoomIDs : Join(c, r)
        \/ Goroutines(c) \/ WriteFail(c) \/ PingFail(c) \/ Drop(c)

OnceSpec ==
    /\ Init /\ [][OnceNext]_vars
    /\ WF_vars(Prompt /\ \E c \in Clients : Goroutines(c))

=============================================================================
