------------------------------ MODULE RoomLine ------------------------------
(***************************************************************************)
(* What a signaling room promises to the people who open it: it is a line. *)
(* Newcomers stand at the end, anybody may walk away, nobody overtakes     *)
(* anybody, and the ones who may talk are the first two of the line.       *)
(*                                                                         *)
(* Hub.tla, the model of backend/hub.go, implements this specification.    *)
(***************************************************************************)
EXTENDS Naturals, Sequences, SequencesExt

CONSTANTS
    Clients,    \* the WebSocket connections
    RoomIDs     \* the room names of the ?room= parameter

VARIABLES
    line,       \* line[r]: the clients of room r, in the order they came
    talking     \* talking[r]: the clients of room r that are paired up

lineVars == <<line, talking>>

\* The two (or fewer) clients at the front of a line.
FirstTwo(l) == {l[i] : i \in DOMAIN l \cap {1, 2}}

InLine(c) == \E r \in RoomIDs : \E i \in DOMAIN line[r] : line[r][i] = c

LineInit ==
    /\ line = [r \in RoomIDs |-> <<>>]
    /\ talking = [r \in RoomIDs |-> {}]

\* The line of r becomes l, and with it the pair that talks.
LineUp(r, l) ==
    /\ line' = [line EXCEPT ![r] = l]
    /\ talking' = [talking EXCEPT ![r] = FirstTwo(l)]

\* A client who stands in no line joins the end of one.
Enter(r, c) ==
    /\ ~InLine(c)
    /\ LineUp(r, Append(line[r], c))

\* The client at place i walks away; the others close up.
Exit(r, i) ==
    /\ i \in DOMAIN line[r]
    /\ LineUp(r, RemoveAt(line[r], i))

LineNext ==
    \E r \in RoomIDs :
        \/ \E c \in Clients : Enter(r, c)
        \/ \E i \in DOMAIN line[r] : Exit(r, i)

LineSpec == LineInit /\ [][LineNext]_lineVars

=============================================================================
