-------------------------------- MODULE Voice --------------------------------
(***************************************************************************)
(* Voice calls between the two browsers of a connection:                   *)
(* frontend/src/hooks/useVoice.js with the buttons of VoicePanel.jsx and   *)
(* the pending calls of AppPage.jsx.                                       *)
(*                                                                         *)
(* The end that made the connection's offer ("offerer") is the only one    *)
(* that offers again, so a track of the other end ("answerer") is heard    *)
(* only when the answerer has added it before it answers.  Signals between *)
(* the two pass through the hub, in order: wire[e] is on its way to e.     *)
(*                                                                         *)
(* The dialog for the microphone is open between two steps: dialogs[e] are *)
(* the functions that wait in _requestMicrophone, in the order they asked, *)
(* and everything else may happen before they go on.                       *)
(***************************************************************************)
EXTENDS Naturals, Sequences

CONSTANTS
    MaxCalls,   \* bound: how often calls are started or asked for
    MaxBlips    \* bound: how often an end loses its connection

ASSUME MaxCallsAssumption == MaxCalls \in Nat \ {0}     \* a pending call is one
ASSUME MaxBlipsAssumption == MaxBlips \in Nat

End == {"offerer", "answerer"}
Other(e) == IF e = "offerer" THEN "answerer" ELSE "offerer"

VARIABLES
    state,      \* callState
    dialogs,    \* the functions that wait for the microphone
    mic,        \* localStreamRef: the number of the stream, or 0
    streams,    \* how many an end has got
    leaked,     \* streams that were replaced in localStreamRef and run on
    muted,      \* isMuted
    enabled,    \* the track of the stream is enabled
    track,      \* the stream whose track is in the peer connection, or 0
    awaits,     \* the offerer waits for an answer
    heard,      \* the last stream of the other that ontrack has brought
    plays,      \* the stream of the other in the audio element, or 0
    connected,  \* isConnected
    pending,    \* the pending call of AppPage
    wire,       \* the signals on their way to an end
    calls, blips,
    raced       \* an end did something while the other did (for Agree...)

micVars == <<mic, leaked, muted, enabled>>
uiVars == <<state, micVars, plays>>
pcVars == <<track, awaits, heard>>
netVars == <<connected, pending, calls, blips>>
vars == <<uiVars, dialogs, streams, pcVars, netVars, wire, raced>>

\* No signal is on its way and no dialog is open.
Quiet == \A e \in End : wire[e] = <<>> /\ dialogs[e] = <<>>

\* Either both have a pending call when they get connected, or they are.
Init ==
    \E direct \in BOOLEAN :
    /\ connected = [e \in End |-> ~direct]
    /\ pending = [e \in End |-> direct]
    /\ raced = direct
    /\ state = [e \in End |-> "idle"]
    /\ dialogs = [e \in End |-> <<>>]
    /\ mic = [e \in End |-> 0]
    /\ streams = [e \in End |-> 0]
    /\ leaked = [e \in End |-> 0]
    /\ muted = [e \in End |-> FALSE]
    /\ enabled = [e \in End |-> FALSE]
    /\ track = [e \in End |-> 0]
    /\ awaits = FALSE
    /\ heard = [e \in End |-> 0]
    /\ plays = [e \in End |-> 0]
    /\ wire = [e \in End |-> <<>>]
    /\ calls = IF direct THEN 1 ELSE 0
    /\ blips = 0

-----------------------------------------------------------------------------
(***************************************************************************)
(* The helpers.  A step of e leaves the signals in on their way to e, and  *)
(* sends the signals ms.                                                   *)
(***************************************************************************)
Call(t) == [type |-> t]
Offer(audio) == [type |-> "offer", audio |-> audio]
Answer(audio) == [type |-> "answer", audio |-> audio]

Goes(e, s) == state' = [state EXCEPT ![e] = s]
Says(e, in, ms) == wire' = [wire EXCEPT ![e] = in, ![Other(e)] = @ \o ms]

\* _requestMicrophone, for the function f.
Asks(e, f) ==
    /\ dialogs' = [dialogs EXCEPT ![e] = Append(@, f)]
    /\ Goes(e, "requesting")
    /\ UNCHANGED <<micVars, plays, streams, pcVars>>

\* Slip: the offer is made before the track is added.
ActivateOffersFirst(e, n, in, ms) ==
    IF n = 0 THEN Says(e, in, ms) /\ UNCHANGED <<state, pcVars>>
    ELSE /\ Goes(e, "active")
         /\ track' = [track EXCEPT ![e] = n]
         /\ awaits' = (awaits \/ e = "offerer")
         /\ Says(e, in, IF e = "offerer" THEN Append(ms, Offer(track[e])) ELSE ms)
         /\ UNCHANGED heard

\* _activateCall, with the stream n.
Activate(e, n, in, ms) ==
    IF n = 0 THEN Says(e, in, ms) /\ UNCHANGED <<state, pcVars>>
    ELSE /\ Goes(e, "active")
         /\ track' = [track EXCEPT ![e] = n]
         /\ awaits' = (awaits \/ e = "offerer")
         /\ Says(e, in, IF e = "offerer" THEN Append(ms, Offer(n)) ELSE ms)
         /\ UNCHANGED heard

\* Slip: the stream runs on.
StopMicNot(e) ==
    muted' = [muted EXCEPT ![e] = FALSE] /\ UNCHANGED <<mic, enabled, leaked>>

\* The tracks of the stream are stopped.
StopMic(e) ==
    /\ mic' = [mic EXCEPT ![e] = 0] /\ enabled' = [enabled EXCEPT ![e] = FALSE]
    /\ muted' = [muted EXCEPT ![e] = FALSE]
    /\ UNCHANGED leaked

\* Slip: the track stays in the peer connection.
RemoveTrackNot(e) == UNCHANGED track

\* The sender of the stream's track is removed.
RemoveTrack(e) == track' = [track EXCEPT ![e] = IF @ = mic[e] THEN 0 ELSE @]

\* endCall, with s as the state at the end.
EndCall(e, s, in, ms) ==
    LET again == mic[e] # 0 /\ e = "offerer" /\ state[e] \in {"active", "calling"}
    IN  /\ Goes(e, s)
        /\ StopMic(e)
        /\ RemoveTrack(e)
        /\ plays' = [plays EXCEPT ![e] = 0]
        /\ awaits' = (awaits \/ again)
        /\ Says(e, in, IF again THEN Append(ms, Offer(0)) ELSE ms)
        /\ UNCHANGED <<dialogs, streams, heard>>

-----------------------------------------------------------------------------
(***************************************************************************)
(* The buttons of VoicePanel, and the effects of AppPage.                  *)
(***************************************************************************)
StartCall(e) ==
    /\ state[e] \in {"idle", "error"} /\ connected[e]
    /\ calls < MaxCalls
    /\ calls' = calls + 1
    /\ Asks(e, "start")
    /\ UNCHANGED <<connected, pending, blips, wire>>

AcceptCall(e) ==
    /\ state[e] = "incoming"
    /\ Asks(e, "accept")
    /\ UNCHANGED <<netVars, wire>>

\* Slip: the caller is not told.
RejectCallSilently(e) ==
    /\ state[e] = "incoming"
    /\ EndCall(e, "idle", wire[e], <<>>)
    /\ UNCHANGED netVars

RejectCall(e) ==
    /\ state[e] = "incoming"
    /\ EndCall(e, "idle", wire[e], <<Call("call-rejected")>>)
    /\ UNCHANGED netVars

\* End Call, and Cancel while it rings.
PressEnd(e) ==
    /\ state[e] \in {"calling", "active"}
    /\ EndCall(e, "idle", wire[e], <<Call("call-ended")>>)
    /\ UNCHANGED netVars

ToggleMute(e) ==
    /\ state[e] = "active" /\ mic[e] # 0
    /\ muted' = [muted EXCEPT ![e] = ~@]
    /\ enabled' = [enabled EXCEPT ![e] = muted[e]]
    /\ UNCHANGED <<state, dialogs, mic, streams, leaked, plays, pcVars, netVars, wire>>

\* The end is connected, at first or again; a pending call then calls
\* directConnect, which does nothing unless idle.
Connects(e) ==
    /\ ~connected[e]
    /\ connected' = [connected EXCEPT ![e] = TRUE]
    /\ pending' = [pending EXCEPT ![e] = FALSE]
    /\ IF pending[e] /\ state[e] = "idle" THEN Asks(e, "direct")
                                          ELSE UNCHANGED <<uiVars, dialogs, streams, pcVars>>
    /\ UNCHANGED <<calls, blips, wire>>

-----------------------------------------------------------------------------
(***************************************************************************)
(* The dialog closes, and the function goes on, whatever has happened.     *)
(***************************************************************************)
Granted(e) ==
    LET f == Head(dialogs[e])
        n == streams[e] + 1
    IN  /\ dialogs[e] # <<>>
        /\ dialogs' = [dialogs EXCEPT ![e] = Tail(@)]
        /\ streams' = [streams EXCEPT ![e] = n]
        /\ mic' = [mic EXCEPT ![e] = n]
        /\ enabled' = [enabled EXCEPT ![e] = TRUE]
        /\ leaked' = [leaked EXCEPT ![e] = IF mic[e] # 0 THEN @ + 1 ELSE @]
        /\ \/ /\ f = "start"
              /\ Goes(e, "calling")
              /\ Says(e, wire[e], <<Call("call-invite")>>)
              /\ UNCHANGED pcVars
           \/ f = "accept" /\ Activate(e, n, wire[e], <<Call("call-accepted")>>)
           \/ f = "direct" /\ Activate(e, n, wire[e], <<>>)
        /\ UNCHANGED <<muted, plays, netVars>>

Denied(e) ==
    /\ dialogs[e] # <<>>
    /\ dialogs' = [dialogs EXCEPT ![e] = Tail(@)]
    /\ Goes(e, "error")
    /\ Says(e, wire[e], IF Head(dialogs[e]) = "accept" THEN <<Call("call-rejected")>> ELSE <<>>)
    /\ UNCHANGED <<micVars, streams, plays, pcVars, netVars>>

-----------------------------------------------------------------------------
(***************************************************************************)
(* handleCallSignal.                                                       *)
(***************************************************************************)
Gets(e, t) == wire[e] # <<>> /\ Head(wire[e]).type = t
Rest(e) == Tail(wire[e])
Still == UNCHANGED <<micVars, plays, dialogs, streams>>

GetInvite(e) ==
    /\ Gets(e, "call-invite")
    /\ \/ state[e] = "idle" /\ Goes(e, "incoming") /\ Says(e, Rest(e), <<>>) /\ UNCHANGED pcVars
       \/ /\ state[e] \in {"active", "requesting"}
          /\ Says(e, Rest(e), <<>>) /\ UNCHANGED <<state, pcVars>>
       \/ state[e] = "calling" /\ Activate(e, mic[e], Rest(e), <<>>)
       \/ /\ state[e] \in {"incoming", "error"}
          /\ Says(e, Rest(e), <<Call("call-rejected")>>) /\ UNCHANGED <<state, pcVars>>
    /\ Still /\ UNCHANGED netVars

GetAccepted(e) ==
    /\ Gets(e, "call-accepted")
    /\ Activate(e, mic[e], Rest(e), <<>>)
    /\ Still /\ UNCHANGED netVars

GetRejected(e) ==
    /\ Gets(e, "call-rejected")
    /\ IF state[e] = "active"
       THEN Says(e, Rest(e), <<>>) /\ Still /\ UNCHANGED <<state, pcVars>>
       ELSE EndCall(e, "idle", Rest(e), <<>>)
    /\ UNCHANGED netVars

GetEnded(e) ==
    /\ Gets(e, "call-ended")
    /\ EndCall(e, "idle", Rest(e), <<>>)
    /\ UNCHANGED netVars

-----------------------------------------------------------------------------
(***************************************************************************)
(* handleSignal of useWebRTC, and ontrack, which is called for a stream    *)
(* that was not there before.                                              *)
(***************************************************************************)
\* Slip: a state that does not exist.
OnTrackLive(e, n) ==
    IF n \in {0, heard[e]} THEN UNCHANGED <<state, plays>>
    ELSE Goes(e, "live") /\ plays' = [plays EXCEPT ![e] = n]

OnTrack(e, n) ==
    IF n \in {0, heard[e]} THEN UNCHANGED <<state, plays>>
    ELSE Goes(e, "active") /\ plays' = [plays EXCEPT ![e] = n]

\* The other's stream has been described to e: n, or 0 for none.
Hears(e, n) ==
    /\ OnTrack(e, n)
    /\ heard' = [heard EXCEPT ![e] = n]
    /\ UNCHANGED <<micVars, dialogs, streams, track, netVars>>

GetOffer ==
    LET e == "answerer"
        n == Head(wire[e]).audio
    IN  /\ Gets(e, "offer")
        /\ Hears(e, n)
        /\ Says(e, Rest(e), <<Answer(IF n = 0 THEN 0 ELSE track[e])>>)
        /\ UNCHANGED awaits

\* Only the first answer to several offers is taken.
GetAnswer ==
    LET e == "offerer"
    IN  /\ Gets(e, "answer")
        /\ awaits' = FALSE
        /\ Hears(e, IF awaits THEN Head(wire[e]).audio ELSE heard[e])
        /\ Says(e, Rest(e), <<>>)

-----------------------------------------------------------------------------
(***************************************************************************)
(* The connection.                                                         *)
(***************************************************************************)
Blips(e) ==
    /\ connected[e] /\ blips < MaxBlips
    /\ connected' = [connected EXCEPT ![e] = FALSE]
    /\ blips' = blips + 1
    /\ UNCHANGED <<uiVars, dialogs, streams, pcVars, pending, calls, wire>>

\* Slip: only active calls are watched.
WatcherFiresActive(e) ==
    /\ ~connected[e] /\ state[e] = "active"
    /\ EndCall(e, "error", wire[e], <<>>)
    /\ UNCHANGED netVars

\* The 3 s of the watcher are over.
WatcherFires(e) ==
    /\ ~connected[e] /\ state[e] # "idle"
    /\ EndCall(e, "error", wire[e], <<>>)
    /\ UNCHANGED netVars

-----------------------------------------------------------------------------
User(e) == StartCall(e) \/ AcceptCall(e) \/ RejectCall(e) \/ PressEnd(e) \/ ToggleMute(e)
Dialog(e) == Granted(e) \/ Denied(e)
Signal(e) == GetInvite(e) \/ GetAccepted(e) \/ GetRejected(e) \/ GetEnded(e)

Next ==
    \/ \E e \in End :
        \/ /\ StartCall(e) \/ PressEnd(e) \/ AcceptCall(e)
           /\ raced' = (raced \/ ~Quiet)
        \/ WatcherFires(e) /\ raced' = TRUE
        \/ /\ \/ RejectCall(e) \/ ToggleMute(e) \/ Dialog(e)
              \/ Signal(e) \/ Connects(e) \/ Blips(e)
           /\ UNCHANGED raced
    \/ (GetOffer \/ GetAnswer) /\ UNCHANGED raced

Spec == Init /\ [][Next]_vars

(***************************************************************************)
(* Fairness: signals arrive, timers go off, and users close the dialogs of *)
(* their browsers.                                                         *)
(***************************************************************************)
Same(A) == A /\ UNCHANGED raced
FairSpec ==
    /\ Spec /\ WF_vars(Same(GetOffer)) /\ WF_vars(Same(GetAnswer))
    /\ \A e \in End : /\ WF_vars(Same(Signal(e))) /\ WF_vars(Same(Dialog(e)))
                      /\ WF_vars(WatcherFires(e) /\ raced' = TRUE)

-----------------------------------------------------------------------------
(***************************************************************************)
(* Properties.                                                             *)
(***************************************************************************)
States == {"idle", "requesting", "calling", "incoming", "active", "error"}
Ends(S) == [End -> S]

TypeOK ==
    /\ state \in Ends(States)
    /\ dialogs \in Ends(Seq({"start", "accept", "direct"}))
    /\ mic \in Ends(Nat) /\ streams \in Ends(Nat) /\ leaked \in Ends(Nat)
    /\ muted \in Ends(BOOLEAN)
    /\ track \in Ends(Nat) /\ heard \in Ends(Nat) /\ plays \in Ends(Nat) /\ awaits \in BOOLEAN
    /\ connected \in Ends(BOOLEAN) /\ pending \in Ends(BOOLEAN)
    /\ wire \in Ends(Seq([type : {"call-invite", "call-accepted", "call-rejected", "call-ended"}]
                            \cup [type : {"offer", "answer"}, audio : Nat]))
    /\ calls \in 0 .. MaxCalls /\ blips \in 0 .. MaxBlips

Rests == ~raced /\ Quiet /\ \A e \in End : connected[e]

\* What the two ends may show at the same time.
Fits(s, t) ==
    \/ s = "active" /\ t = "active"
    \/ {s, t} = {"calling", "incoming"}
    \/ s \in {"idle", "error"} /\ t \in {"idle", "error"}

\* When all signals and dialogs are through, both ends show the same call, or
\* none; nobody rings for a caller who has gone.
AgreeAtRest == Rests => Fits(state["offerer"], state["answerer"])

\* The two of a call hear each other.
BothHear ==
    Rests /\ (\A e \in End : state[e] = "active") =>
        \A e \in End : mic[e] # 0 /\ plays[e] = mic[Other(e)]

\* Without a call the microphone is off and the other is not heard.
Released ==
    \A e \in End :
        /\ (state[e] = "idle" /\ dialogs[e] = <<>>) => mic[e] = 0
        /\ (~raced /\ state[e] \in {"idle", "error"}) => (mic[e] = 0 /\ plays[e] = 0)

\* No stream is left running, none but the present one is sent, and not while
\* the user is told that he is muted.
OneStream ==
    ~raced => \A e \in End :
        /\ leaked[e] = 0 /\ track[e] \in {0, mic[e]}
        /\ muted[e] => ~enabled[e]

\* Whoever stays without a connection is not left in a call, or ringing.
LossEnds == \A e \in End : <>[]~connected[e] => <>[](state[e] \in {"idle", "error"})

\* Both sides initiated simultaneously: activate directly.
GlareConnects ==
    Quiet /\ state["offerer"] \in {"calling", "active"} /\ state["answerer"] \in {"calling", "active"}
        => state["offerer"] = state["answerer"]

=============================================================================
