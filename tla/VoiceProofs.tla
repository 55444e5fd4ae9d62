----------------------------- MODULE VoiceProofs -----------------------------
(***************************************************************************)
(* Proofs about Voice, for any number of calls and of lost connections.    *)
(***************************************************************************)
EXTENDS Voice, SeqLemmas

-----------------------------------------------------------------------------
(***************************************************************************)
(* The invariant.  As long as an end starts, accepts or ends a call only   *)
(* when nothing is on its way, the two are in one of the phases below.     *)
(***************************************************************************)
Off == "offerer"
Ans == "answerer"

\* e has no microphone and hears nobody; e shows no call.
Calm(e) == mic[e] = 0 /\ track[e] = 0 /\ plays[e] = 0
Out(e) == state[e] \in {"idle", "error"}
Wires(wo, wa) == wire[Off] = wo /\ wire[Ans] = wa
NoDialogs == dialogs[Off] = <<>> /\ dialogs[Ans] = <<>>
NoneHeard == heard[Off] = 0 /\ heard[Ans] = 0

\* e, who calls, answers the dialog for the microphone.
Asking(e) ==
    /\ state[e] = "requesting" /\ Out(Other(e)) /\ Calm(e) /\ Calm(Other(e))
    /\ NoneHeard /\ ~awaits
    /\ dialogs[e] = <<"start">> /\ dialogs[Other(e)] = <<>> /\ Wires(<<>>, <<>>)

\* e calls: the other is invited, is rung, answers the dialog, has refused.
Calling(e) ==
    /\ state[e] = "calling" /\ mic[e] # 0 /\ track[e] = 0 /\ plays[e] = 0 /\ Calm(Other(e))
    /\ NoneHeard /\ ~awaits /\ dialogs[e] = <<>>
Invited(e) ==
    /\ Calling(e) /\ Out(Other(e)) /\ dialogs[Other(e)] = <<>>
    /\ wire[e] = <<>> /\ wire[Other(e)] = <<Call("call-invite")>>
Rung(e) ==
    /\ Calling(e) /\ state[Other(e)] = "incoming" /\ dialogs[Other(e)] = <<>>
    /\ Wires(<<>>, <<>>)
Accepting(e) ==
    /\ Calling(e) /\ state[Other(e)] = "requesting" /\ dialogs[Other(e)] = <<"accept">>
    /\ Wires(<<>>, <<>>)
Refused(e) ==
    /\ Calling(e) /\ Out(Other(e)) /\ dialogs[Other(e)] = <<>>
    /\ wire[e] = <<Call("call-rejected")>> /\ wire[Other(e)] = <<>>

\* The other has accepted the call of the answerer, and that of the offerer.
OffAccepted ==
    /\ state[Off] = "active" /\ state[Ans] = "calling" /\ mic[Off] # 0 /\ mic[Ans] # 0
    /\ track[Off] = mic[Off] /\ track[Ans] = 0 /\ plays[Off] = 0 /\ plays[Ans] = 0
    /\ NoneHeard /\ awaits
    /\ NoDialogs /\ Wires(<<>>, <<Call("call-accepted"), Offer(mic[Off])>>)
AnsAccepted ==
    /\ state[Off] = "calling" /\ state[Ans] = "active" /\ mic[Off] # 0 /\ mic[Ans] # 0
    /\ track[Off] = 0 /\ track[Ans] = mic[Ans] /\ plays[Off] = 0 /\ plays[Ans] = 0
    /\ NoneHeard /\ ~awaits
    /\ NoDialogs /\ Wires(<<Call("call-accepted")>>, <<>>)

\* Both are in the call: the offer is on its way, the answer is, none is.
InCall ==
    /\ state[Off] = "active" /\ state[Ans] = "active" /\ mic[Off] # 0 /\ mic[Ans] # 0
    /\ track[Off] = mic[Off] /\ track[Ans] = mic[Ans] /\ NoDialogs
Offered ==
    /\ InCall /\ NoneHeard /\ plays[Off] = 0 /\ plays[Ans] = 0 /\ awaits
    /\ Wires(<<>>, <<Offer(mic[Off])>>)
Answered ==
    /\ InCall /\ heard[Off] = 0 /\ plays[Off] = 0 /\ heard[Ans] = mic[Off]
    /\ plays[Ans] = mic[Off] /\ awaits /\ Wires(<<Answer(mic[Ans])>>, <<>>)
Talking ==
    /\ InCall /\ plays[Off] = mic[Ans] /\ plays[Ans] = mic[Off] /\ ~awaits
    /\ Wires(<<>>, <<>>)

\* The offerer has ended the call, and the answerer has.
OffEnded ==
    /\ state[Off] = "idle" /\ state[Ans] = "active" /\ Calm(Off)
    /\ mic[Ans] # 0 /\ track[Ans] = mic[Ans] /\ awaits
    /\ NoDialogs /\ Wires(<<>>, <<Call("call-ended"), Offer(0)>>)
AnsEnded ==
    /\ state[Off] = "active" /\ state[Ans] = "idle" /\ Calm(Ans)
    /\ mic[Off] # 0 /\ track[Off] = mic[Off] /\ ~awaits
    /\ NoDialogs /\ Wires(<<Call("call-ended")>>, <<>>)

\* The offerer no longer calls: the answerer still rings, or has refused.
OffCancelled ==
    /\ state[Off] = "idle" /\ state[Ans] = "incoming" /\ Calm(Off) /\ Calm(Ans) /\ awaits
    /\ NoDialogs /\ Wires(<<>>, <<Call("call-ended"), Offer(0)>>)
\* After that, and after every call, the offerer offers a last time.
Leaving ==
    /\ Out(Off) /\ Out(Ans) /\ Calm(Off) /\ Calm(Ans) /\ awaits /\ NoDialogs
    /\ \/ /\ wire[Off] \in {<<>>, <<Call("call-rejected")>>}
          /\ wire[Ans] \in {<<Call("call-ended"), Offer(0)>>, <<Offer(0)>>}
       \/ /\ wire[Off] \in {<<Call("call-rejected"), Answer(0)>>, <<Answer(0)>>}
          /\ wire[Ans] = <<>> /\ heard[Ans] = 0

\* The answerer no longer calls, and the offerer still rings.
AnsCancelled ==
    /\ state[Off] = "incoming" /\ state[Ans] = "idle" /\ Calm(Off) /\ Calm(Ans)
    /\ NoneHeard /\ ~awaits /\ NoDialogs /\ Wires(<<Call("call-ended")>>, <<>>)

\* No call, and nothing of an earlier one is left but what crosses when a call
\* is cancelled and refused at a time.
Apart ==
    /\ Out(Off) /\ Out(Ans) /\ Calm(Off) /\ Calm(Ans) /\ NoneHeard /\ ~awaits /\ NoDialogs
    /\ wire[Off] \in {<<>>, <<Call("call-ended")>>}
    /\ wire[Ans] \in {<<>>, <<Call("call-rejected")>>}

Phase ==
    \/ \E e \in End : Asking(e) \/ Invited(e) \/ Rung(e) \/ Accepting(e) \/ Refused(e)
    \/ OffAccepted \/ AnsAccepted \/ Offered \/ Answered \/ Talking
    \/ OffEnded \/ AnsEnded \/ OffCancelled \/ Leaving \/ AnsCancelled \/ Apart

\* The streams: none runs on, a muted one is not sent.
Sound ==
    \A e \in End :
        /\ leaked[e] = 0 /\ ~pending[e]
        /\ muted[e] => ~enabled[e] /\ mic[e] # 0

OrderedInv == ~raced => Sound /\ Phase

\* Without a call, and without a dialog for one, there is no microphone.
IdleIsOff == \A e \in End : state[e] = "idle" /\ dialogs[e] = <<>> => mic[e] = 0

-----------------------------------------------------------------------------
(***************************************************************************)
(* Types, and what the helpers of Voice do to each end.                    *)
(***************************************************************************)
Signals ==
    [type : {"call-invite", "call-accepted", "call-rejected", "call-ended"}]
        \cup [type : {"offer", "answer"}, audio : Nat]
Asked == {"start", "accept", "direct"}

VoiceInv == TypeOK /\ enabled \in Ends(BOOLEAN) /\ raced \in BOOLEAN

LEMMA EndParts ==
    /\ End = {Off, Ans} /\ Off # Ans /\ Other(Off) = Ans /\ Other(Ans) = Off
    /\ \A e \in End : Other(e) \in End /\ Other(e) # e /\ Other(Other(e)) = e
    /\ \A e, x \in End : x = e \/ x = Other(e)
BY DEF End, Off, Ans, Other

LEMMA SignalParts ==
    /\ \A t \in {"call-invite", "call-accepted", "call-rejected", "call-ended"} :
        Call(t) \in Signals /\ Call(t).type = t
    /\ \A n \in Nat : Offer(n) \in Signals /\ Answer(n) \in Signals
    /\ \A n : /\ Offer(n).type = "offer" /\ Offer(n).audio = n
             /\ Answer(n).type = "answer" /\ Answer(n).audio = n
BY DEF Signals, Call, Offer, Answer

LEMMA SignalAudio ==
    ASSUME NEW m \in Signals, m.type \in {"offer", "answer"}
    PROVE  m.audio \in Nat
BY DEF Signals

LEMMA GoesProperties ==
    ASSUME state \in Ends(States), NEW e \in End, NEW s \in States, Goes(e, s)
    PROVE  state' \in Ends(States) /\ state'[e] = s /\ state'[Other(e)] = state[Other(e)]
BY EndParts DEF Goes, Ends

LEMMA SaysProperties ==
    ASSUME wire \in Ends(Seq(Signals)), NEW e \in End, NEW in \in Seq(Signals),
           NEW ms \in Seq(Signals), Says(e, in, ms)
    PROVE  /\ wire' \in Ends(Seq(Signals))
           /\ wire'[e] = in /\ wire'[Other(e)] = wire[Other(e)] \o ms
<1> PICK x : x = Other(e)
    OBVIOUS
<1>1. x \in End /\ x # e /\ \A y \in End : y = e \/ y = x
    BY EndParts
<1>2. wire[x] \in Seq(Signals) /\ wire[x] \o ms \in Seq(Signals)
    BY <1>1, ConcatProperties DEF Ends
<1>3. wire' = [wire EXCEPT ![e] = in, ![x] = wire[x] \o ms]
    BY <1>1 DEF Says, Ends
<1>4. wire'[e] = in /\ wire'[x] = wire[x] \o ms /\ wire' = [y \in End |-> wire'[y]]
    BY <1>1, <1>3 DEF Ends
<1>5. \A y \in End : wire'[y] \in Seq(Signals)
    BY <1>1, <1>2, <1>4
<1> QED
    BY <1>4, <1>5 DEF Ends

LEMMA AsksProperties ==
    ASSUME VoiceInv, NEW e \in End, NEW f \in Asked, Asks(e, f)
    PROVE  /\ state' \in Ends(States) /\ state'[e] = "requesting"
           /\ state'[Other(e)] = state[Other(e)]
           /\ dialogs' \in Ends(Seq(Asked)) /\ dialogs'[e] = Append(dialogs[e], f)
           /\ dialogs'[Other(e)] = dialogs[Other(e)]
           /\ UNCHANGED <<mic, leaked, muted, enabled, plays, streams, track, awaits, heard>>
<1>1. state' \in Ends(States) /\ state'[e] = "requesting" /\ state'[Other(e)] = state[Other(e)]
    BY GoesProperties DEF VoiceInv, TypeOK, Asks, States
<1>2. dialogs \in Ends(Seq(Asked)) /\ dialogs[e] \in Seq(Asked)
    BY DEF VoiceInv, TypeOK, Asked, Ends
<1>3. Append(dialogs[e], f) \in Seq(Asked) /\ dialogs' = [dialogs EXCEPT ![e] = Append(dialogs[e], f)]
    BY <1>2, AppendProperties DEF Asks
<1>4. /\ dialogs' \in Ends(Seq(Asked)) /\ dialogs'[e] = Append(dialogs[e], f)
      /\ dialogs'[Other(e)] = dialogs[Other(e)]
    BY <1>2, <1>3, EndParts DEF Ends
<1> QED
    BY <1>1, <1>4 DEF Asks, micVars, pcVars

LEMMA ActivateProperties ==
    ASSUME VoiceInv, NEW e \in End, NEW n \in Nat, NEW in \in Seq(Signals),
           NEW ms \in Seq(Signals), Activate(e, n, in, ms)
    PROVE  /\ state' \in Ends(States) /\ track' \in Ends(Nat) /\ wire' \in Ends(Seq(Signals))
           /\ awaits' \in BOOLEAN /\ UNCHANGED heard /\ wire'[e] = in
           /\ n = 0 => /\ UNCHANGED <<state, track, awaits>>
                       /\ wire'[Other(e)] = wire[Other(e)] \o ms
           /\ n # 0 => /\ state'[e] = "active" /\ state'[Other(e)] = state[Other(e)]
                       /\ track'[e] = n /\ track'[Other(e)] = track[Other(e)]
                       /\ e = Off =>
                            /\ awaits'
                            /\ wire'[Other(e)] = wire[Other(e)] \o Append(ms, Offer(n))
                       /\ e # Off =>
                            awaits' = awaits /\ wire'[Other(e)] = wire[Other(e)] \o ms
<1> PICK x : x = Other(e)
    OBVIOUS
<1>1. /\ state \in Ends(States) /\ track \in Ends(Nat) /\ wire \in Ends(Seq(Signals))
      /\ awaits \in BOOLEAN
    BY DEF VoiceInv, TypeOK, Signals
<1>2. CASE n = 0
    <2>1. Says(e, in, ms) /\ UNCHANGED <<state, track, awaits, heard>>
        BY <1>2 DEF Activate, pcVars
    <2> QED
        BY <1>1, <1>2, <2>1, SaysProperties
<1>3. CASE n # 0
    <2>1. /\ Goes(e, "active") /\ track' = [track EXCEPT ![e] = n] /\ UNCHANGED heard
        BY <1>3 DEF Activate
    <2>2. /\ state' \in Ends(States) /\ state'[e] = "active" /\ state'[x] = state[x]
        BY <1>1, <2>1, GoesProperties DEF States
    <2>3. /\ track' \in Ends(Nat) /\ track'[e] = n /\ track'[x] = track[x]
        BY <1>1, <2>1, EndParts DEF Ends
    <2>4. CASE e = Off
        <3>1. awaits' = TRUE /\ Says(e, in, Append(ms, Offer(n)))
            BY <1>1, <1>3, <2>4 DEF Activate, Off
        <3>2. Append(ms, Offer(n)) \in Seq(Signals)
            BY SignalParts, AppendProperties
        <3>3. /\ wire' \in Ends(Seq(Signals)) /\ wire'[e] = in
              /\ wire'[x] = wire[x] \o Append(ms, Offer(n))
            BY <1>1, <3>1, <3>2, SaysProperties
        <3> QED
            BY <1>3, <2>1, <2>2, <2>3, <2>4, <3>1, <3>3
    <2>5. CASE e # Off
        <3>1. awaits' = awaits /\ Says(e, in, ms)
            BY <1>1, <1>3, <2>5 DEF Activate, Off
        <3>2. wire' \in Ends(Seq(Signals)) /\ wire'[e] = in /\ wire'[x] = wire[x] \o ms
            BY <1>1, <3>1, SaysProperties
        <3> QED
            BY <1>1, <1>3, <2>1, <2>2, <2>3, <2>5, <3>1, <3>2
    <2> QED
        BY <2>4, <2>5
<1> QED
    BY <1>2, <1>3

\* With a stream.
LEMMA ActivateNow ==
    ASSUME VoiceInv, NEW e \in End, NEW n \in Nat, n # 0, NEW in \in Seq(Signals),
           NEW ms \in Seq(Signals), Activate(e, n, in, ms)
    PROVE  /\ state'[e] = "active" /\ state'[Other(e)] = state[Other(e)] /\ wire'[e] = in
           /\ track'[e] = n /\ track'[Other(e)] = track[Other(e)] /\ UNCHANGED heard
BY ActivateProperties

LEMMA ActivateOff ==
    ASSUME VoiceInv, NEW n \in Nat, n # 0, NEW in \in Seq(Signals),
           NEW ms \in Seq(Signals), Activate(Off, n, in, ms)
    PROVE  awaits' /\ wire'[Ans] = wire[Ans] \o Append(ms, Offer(n))
<1>1. wire \in Ends(Seq(Signals)) /\ Append(ms, Offer(n)) \in Seq(Signals) /\ Off \in End
    BY EndParts, SignalParts, AppendProperties DEF VoiceInv, TypeOK, Signals
<1>2. awaits' /\ Says(Off, in, Append(ms, Offer(n)))
    BY DEF Activate, Off
<1>3. wire'[Other(Off)] = wire[Other(Off)] \o Append(ms, Offer(n))
    BY <1>1, <1>2, SaysProperties
<1> QED
    BY <1>2, <1>3, EndParts

LEMMA ActivateAns ==
    ASSUME VoiceInv, NEW n \in Nat, n # 0, NEW in \in Seq(Signals),
           NEW ms \in Seq(Signals), Activate(Ans, n, in, ms)
    PROVE  awaits' = awaits /\ wire'[Off] = wire[Off] \o ms
BY ActivateProperties, EndParts

\* endCall: when the other is offered nothing, and when it is not.
LEMMA EndCallAgain ==
    ASSUME VoiceInv, NEW e \in End, NEW s \in States, NEW in \in Seq(Signals),
           NEW ms \in Seq(Signals), EndCall(e, s, in, ms),
           mic[e] # 0, e = Off, state[e] \in {"active", "calling"}
    PROVE  /\ wire' \in Ends(Seq(Signals)) /\ wire'[e] = in
           /\ wire'[Other(e)] = wire[Other(e)] \o Append(ms, Offer(0)) /\ awaits'
<1>1. wire \in Ends(Seq(Signals)) /\ Append(ms, Offer(0)) \in Seq(Signals)
    BY SignalParts, AppendProperties DEF VoiceInv, TypeOK, Signals
<1>2. awaits' /\ Says(e, in, Append(ms, Offer(0)))
    BY DEF EndCall, Off
<1> QED
    BY <1>1, <1>2, SaysProperties

LEMMA EndCallAlone ==
    ASSUME VoiceInv, NEW e \in End, NEW s \in States, NEW in \in Seq(Signals),
           NEW ms \in Seq(Signals), EndCall(e, s, in, ms),
           mic[e] = 0 \/ e # Off \/ state[e] \notin {"active", "calling"}
    PROVE  /\ wire' \in Ends(Seq(Signals)) /\ wire'[e] = in
           /\ wire'[Other(e)] = wire[Other(e)] \o ms /\ awaits' = awaits
<1>1. wire \in Ends(Seq(Signals)) /\ awaits \in BOOLEAN
    BY DEF VoiceInv, TypeOK, Signals
<1>2. awaits' = awaits /\ Says(e, in, ms)
    BY <1>1 DEF EndCall, Off
<1> QED
    BY <1>1, <1>2, SaysProperties

LEMMA EndCallProperties ==
    ASSUME VoiceInv, NEW e \in End, NEW s \in States, NEW in \in Seq(Signals),
           NEW ms \in Seq(Signals), EndCall(e, s, in, ms)
    PROVE  LET x == Other(e)
           IN  /\ state' \in Ends(States) /\ mic' \in Ends(Nat) /\ enabled' \in Ends(BOOLEAN)
               /\ muted' \in Ends(BOOLEAN) /\ track' \in Ends(Nat) /\ plays' \in Ends(Nat)
               /\ wire' \in Ends(Seq(Signals)) /\ awaits' \in BOOLEAN
               /\ state'[e] = s /\ mic'[e] = 0 /\ ~muted'[e] /\ plays'[e] = 0
               /\ track'[e] = IF track[e] = mic[e] THEN 0 ELSE track[e]
               /\ state'[x] = state[x] /\ mic'[x] = mic[x] /\ muted'[x] = muted[x]
               /\ enabled'[x] = enabled[x] /\ plays'[x] = plays[x] /\ track'[x] = track[x]
               /\ wire'[e] = in
               /\ UNCHANGED <<dialogs, streams, heard, leaked>>
<1> PICK x : x = Other(e)
    OBVIOUS
<1>1. /\ state \in Ends(States) /\ track \in Ends(Nat) /\ wire \in Ends(Seq(Signals))
      /\ awaits \in BOOLEAN /\ mic \in Ends(Nat) /\ enabled \in Ends(BOOLEAN)
      /\ muted \in Ends(BOOLEAN) /\ plays \in Ends(Nat)
    BY DEF VoiceInv, TypeOK, Signals
<1>3. /\ Goes(e, s) /\ UNCHANGED <<dialogs, streams, heard, leaked>>
      /\ mic' = [mic EXCEPT ![e] = 0] /\ enabled' = [enabled EXCEPT ![e] = FALSE]
      /\ muted' = [muted EXCEPT ![e] = FALSE] /\ plays' = [plays EXCEPT ![e] = 0]
    BY DEF EndCall, StopMic
<1>4. state' \in Ends(States) /\ state'[e] = s /\ state'[x] = state[x]
    BY <1>1, <1>3, GoesProperties
<1>5. /\ mic' \in Ends(Nat) /\ mic'[e] = 0 /\ mic'[x] = mic[x]
      /\ plays' \in Ends(Nat) /\ plays'[e] = 0 /\ plays'[x] = plays[x]
    BY <1>1, <1>3, EndParts DEF Ends
<1>6. /\ muted' \in Ends(BOOLEAN) /\ muted'[e] = FALSE /\ muted'[x] = muted[x]
      /\ enabled' \in Ends(BOOLEAN) /\ enabled'[x] = enabled[x]
    BY <1>1, <1>3, EndParts DEF Ends
<1>7. /\ track' \in Ends(Nat) /\ track'[x] = track[x]
      /\ track'[e] = IF track[e] = mic[e] THEN 0 ELSE track[e]
    <2> PICK v : v = IF track[e] = mic[e] THEN 0 ELSE track[e]
        OBVIOUS
    <2>1. v \in Nat /\ track' = [track EXCEPT ![e] = v]
        BY <1>1 DEF EndCall, RemoveTrack, Ends
    <2> QED
        BY <1>1, <2>1, EndParts DEF Ends
<1>8. wire' \in Ends(Seq(Signals)) /\ wire'[e] = in /\ awaits' \in BOOLEAN
    <2>1. CASE mic[e] # 0 /\ e = Off /\ state[e] \in {"active", "calling"}
        BY <2>1, EndCallAgain DEF EndCall
    <2>2. CASE mic[e] = 0 \/ e # Off \/ state[e] \notin {"active", "calling"}
        BY <1>1, <2>2, EndCallAlone
    <2> QED
        BY <2>1, <2>2
<1> QED
    BY <1>3, <1>4, <1>5, <1>6, <1>7, <1>8

-----------------------------------------------------------------------------
(***************************************************************************)
(* Every step keeps the types.                                             *)
(***************************************************************************)
NetType ==
    /\ connected \in Ends(BOOLEAN) /\ pending \in Ends(BOOLEAN)
    /\ calls \in 0 .. MaxCalls /\ blips \in 0 .. MaxBlips /\ raced \in BOOLEAN
EndType ==
    /\ state \in Ends(States) /\ dialogs \in Ends(Seq(Asked))
    /\ mic \in Ends(Nat) /\ streams \in Ends(Nat) /\ leaked \in Ends(Nat)
    /\ muted \in Ends(BOOLEAN) /\ enabled \in Ends(BOOLEAN)
    /\ track \in Ends(Nat) /\ heard \in Ends(Nat) /\ plays \in Ends(Nat) /\ awaits \in BOOLEAN
    /\ wire \in Ends(Seq(Signals))

LEMMA TypeSplit == VoiceInv <=> NetType /\ EndType
BY DEF VoiceInv, TypeOK, NetType, EndType, Asked, Signals

LEMMA TypeSplitNext == VoiceInv' <=> NetType' /\ EndType'
BY TypeSplit, PTL

LEMMA VoiceInit == Init => VoiceInv
<1> SUFFICES ASSUME Init PROVE VoiceInv
    OBVIOUS
<1>1. PICK direct \in BOOLEAN :
        /\ connected = [e \in End |-> ~direct] /\ pending = [e \in End |-> direct]
        /\ raced = direct /\ calls = IF direct THEN 1 ELSE 0
        /\ blips = 0
    BY DEF Init
<1>2. connected \in Ends(BOOLEAN) /\ pending \in Ends(BOOLEAN) /\ raced \in BOOLEAN
    BY <1>1 DEF Ends
<1>3. NetType
    BY <1>1, <1>2, MaxCallsAssumption, MaxBlipsAssumption DEF NetType
<1>4. /\ state \in Ends(States) /\ dialogs \in Ends(Seq(Asked)) /\ wire \in Ends(Seq(Signals))
    BY DEF Init, Ends, States
<1>5. /\ mic \in Ends(Nat) /\ streams \in Ends(Nat) /\ leaked \in Ends(Nat)
      /\ track \in Ends(Nat) /\ heard \in Ends(Nat) /\ plays \in Ends(Nat)
    BY DEF Init, Ends
<1>6. muted \in Ends(BOOLEAN) /\ enabled \in Ends(BOOLEAN) /\ awaits \in BOOLEAN
    BY DEF Init, Ends
<1> QED
    BY <1>3, <1>4, <1>5, <1>6, TypeSplit DEF EndType

\* The head of the signals to e is handled.
LEMMA GetsProperties ==
    ASSUME VoiceInv, NEW e \in End, NEW t, Gets(e, t)
    PROVE  /\ wire[e] \in Seq(Signals) /\ wire[e] # <<>> /\ Head(wire[e]) \in Signals
           /\ Rest(e) \in Seq(Signals) /\ Head(wire[e]).type = t
<1>1. wire[e] \in Seq(Signals) /\ wire[e] # <<>>
    BY TypeSplit DEF EndType, Ends, Gets
<1> QED
    BY <1>1, HeadTailProperties DEF Gets, Rest

LEMMA DialogProperties ==
    ASSUME VoiceInv, NEW e \in End, dialogs[e] # <<>>,
           dialogs' = [dialogs EXCEPT ![e] = Tail(@)]
    PROVE  /\ dialogs' \in Ends(Seq(Asked)) /\ Head(dialogs[e]) \in Asked
           /\ dialogs[e] \in Seq(Asked) /\ dialogs'[e] = Tail(dialogs[e])
           /\ dialogs'[Other(e)] = dialogs[Other(e)]
<1>1. dialogs \in Ends(Seq(Asked)) /\ dialogs[e] \in Seq(Asked)
    BY TypeSplit DEF EndType, Ends
<1>2. Tail(dialogs[e]) \in Seq(Asked) /\ Head(dialogs[e]) \in Asked
    BY <1>1, HeadTailProperties
<1> QED
    BY <1>1, <1>2, EndParts DEF Ends

LEMMA GrantedProperties ==
    ASSUME VoiceInv, NEW e \in End, Granted(e)
    PROVE  LET n == streams[e] + 1
               x == Other(e)
               f == Head(dialogs[e])
           IN  /\ EndType' /\ UNCHANGED netVars /\ n \in Nat /\ n # 0 /\ f \in Asked
               /\ dialogs[e] # <<>> /\ dialogs'[e] = Tail(dialogs[e])
               /\ dialogs'[x] = dialogs[x]
               /\ mic'[e] = n /\ mic'[x] = mic[x]
               /\ leaked'[e] = (IF mic[e] # 0 THEN leaked[e] + 1 ELSE leaked[e])
               /\ leaked'[x] = leaked[x] /\ enabled'[x] = enabled[x]
               /\ UNCHANGED <<muted, plays, heard>>
               /\ \/ /\ f = "start" /\ state'[e] = "calling" /\ state'[x] = state[x]
                     /\ wire'[e] = wire[e] /\ wire'[x] = wire[x] \o <<Call("call-invite")>>
                     /\ UNCHANGED <<track, awaits>>
                  \/ f = "accept" /\ Activate(e, n, wire[e], <<Call("call-accepted")>>)
                  \/ f = "direct" /\ Activate(e, n, wire[e], <<>>)
<1> PICK n : n = streams[e] + 1
    OBVIOUS
<1> PICK x : x = Other(e)
    OBVIOUS
<1>1. EndType /\ wire[e] \in Seq(Signals) /\ n \in Nat /\ n # 0
    BY TypeSplit, SMTT(30) DEF EndType, Ends
<1>2. /\ dialogs[e] # <<>> /\ dialogs' \in Ends(Seq(Asked)) /\ Head(dialogs[e]) \in Asked
      /\ dialogs'[e] = Tail(dialogs[e]) /\ dialogs'[x] = dialogs[x]
    BY DialogProperties DEF Granted
<1>3. /\ streams' = [streams EXCEPT ![e] = n] /\ mic' = [mic EXCEPT ![e] = n]
      /\ enabled' = [enabled EXCEPT ![e] = TRUE]
      /\ UNCHANGED <<muted, plays>> /\ UNCHANGED netVars
    BY DEF Granted
<1>4. /\ streams' \in Ends(Nat) /\ mic' \in Ends(Nat) /\ mic'[e] = n /\ mic'[x] = mic[x]
    BY <1>1, <1>3, EndParts DEF EndType, Ends
<1>5. enabled' \in Ends(BOOLEAN) /\ enabled'[x] = enabled[x]
    BY <1>1, <1>3, EndParts DEF EndType, Ends
<1>6. /\ leaked' \in Ends(Nat) /\ leaked'[x] = leaked[x]
      /\ leaked'[e] = IF mic[e] # 0 THEN leaked[e] + 1 ELSE leaked[e]
    <2> PICK v : v = IF mic[e] # 0 THEN leaked[e] + 1 ELSE leaked[e]
        OBVIOUS
    <2>1. v \in Nat
        BY <1>1 DEF EndType, Ends
    <2>2. leaked' = [leaked EXCEPT ![e] = v]
        BY <1>1 DEF Granted, EndType, Ends
    <2> QED
        BY <1>1, <2>1, <2>2, EndParts DEF EndType, Ends
<1>7. /\ <<Call("call-invite")>> \in Seq(Signals) /\ <<Call("call-accepted")>> \in Seq(Signals)
      /\ <<>> \in Seq(Signals)
    BY SignalParts
<1>8. CASE /\ Head(dialogs[e]) = "start" /\ Goes(e, "calling")
           /\ Says(e, wire[e], <<Call("call-invite")>>) /\ UNCHANGED pcVars
    <2>1. /\ state' \in Ends(States) /\ state'[e] = "calling" /\ state'[x] = state[x]
        BY <1>1, <1>8, GoesProperties DEF EndType, States
    <2>2. /\ wire' \in Ends(Seq(Signals)) /\ wire'[e] = wire[e]
          /\ wire'[x] = wire[x] \o <<Call("call-invite")>>
        BY <1>1, <1>7, <1>8, SaysProperties DEF EndType
    <2>3. UNCHANGED <<track, awaits, heard>>
        BY <1>8 DEF pcVars
    <2>4. EndType'
        BY <1>1, <1>2, <1>3, <1>4, <1>5, <1>6, <2>1, <2>2, <2>3 DEF EndType
    <2> QED
        BY <1>1, <1>2, <1>3, <1>4, <1>5, <1>6, <1>8, <2>1, <2>2, <2>3, <2>4
<1>9. ASSUME NEW ms \in Seq(Signals), Activate(e, n, wire[e], ms)
      PROVE  EndType' /\ UNCHANGED heard
    <2>1. /\ state' \in Ends(States) /\ track' \in Ends(Nat) /\ wire' \in Ends(Seq(Signals))
          /\ awaits' \in BOOLEAN /\ UNCHANGED heard
        BY <1>1, <1>9, ActivateProperties
    <2> QED
        BY <1>1, <1>2, <1>3, <1>4, <1>5, <1>6, <2>1 DEF EndType
<1>10. CASE Head(dialogs[e]) = "accept" /\ Activate(e, n, wire[e], <<Call("call-accepted")>>)
    BY <1>1, <1>2, <1>3, <1>4, <1>5, <1>6, <1>7, <1>9, <1>10
<1>11. CASE Head(dialogs[e]) = "direct" /\ Activate(e, n, wire[e], <<>>)
    BY <1>1, <1>2, <1>3, <1>4, <1>5, <1>6, <1>7, <1>9, <1>11
<1> QED
    BY <1>8, <1>10, <1>11 DEF Granted

LEMMA DeniedProperties ==
    ASSUME VoiceInv, NEW e \in End, Denied(e)
    PROVE  LET x == Other(e)
           IN  /\ EndType' /\ UNCHANGED netVars
               /\ dialogs[e] # <<>> /\ dialogs'[e] = Tail(dialogs[e])
               /\ dialogs'[x] = dialogs[x] /\ state'[e] = "error" /\ state'[x] = state[x]
               /\ wire'[e] = wire[e]
               /\ wire'[x] = wire[x] \o (IF Head(dialogs[e]) = "accept"
                                         THEN <<Call("call-rejected")>> ELSE <<>>)
               /\ UNCHANGED <<mic, leaked, muted, enabled, streams, plays, track, awaits, heard>>
<1> PICK x : x = Other(e)
    OBVIOUS
<1> PICK ms : ms = IF Head(dialogs[e]) = "accept" THEN <<Call("call-rejected")>> ELSE <<>>
    OBVIOUS
<1>1. EndType /\ wire[e] \in Seq(Signals) /\ ms \in Seq(Signals)
    BY TypeSplit, SignalParts DEF EndType, Ends
<1>2. /\ dialogs[e] # <<>> /\ dialogs' \in Ends(Seq(Asked))
      /\ dialogs'[e] = Tail(dialogs[e]) /\ dialogs'[x] = dialogs[x]
    BY DialogProperties DEF Denied
<1>3. /\ state' \in Ends(States) /\ state'[e] = "error" /\ state'[x] = state[x]
    BY <1>1, GoesProperties DEF EndType, States, Denied
<1>4. /\ wire' \in Ends(Seq(Signals)) /\ wire'[e] = wire[e] /\ wire'[x] = wire[x] \o ms
    BY <1>1, SaysProperties DEF EndType, Denied
<1>5. /\ UNCHANGED <<mic, leaked, muted, enabled, streams, plays, track, awaits, heard>>
      /\ UNCHANGED netVars
    BY DEF Denied, micVars, pcVars
<1>6. EndType'
    BY <1>1, <1>2, <1>3, <1>4, <1>5 DEF EndType
<1> QED
    BY <1>2, <1>3, <1>4, <1>5, <1>6

LEMMA UserType ==
    ASSUME VoiceInv, NEW e \in End,
           StartCall(e) \/ AcceptCall(e) \/ RejectCall(e) \/ PressEnd(e) \/ ToggleMute(e)
    PROVE  EndType' /\ UNCHANGED <<connected, pending, blips>> /\ calls' \in 0 .. MaxCalls
<1>1. EndType /\ NetType /\ wire[e] \in Seq(Signals)
    BY TypeSplit DEF EndType, Ends
<1>2. /\ <<Call("call-rejected")>> \in Seq(Signals) /\ <<Call("call-ended")>> \in Seq(Signals)
    BY SignalParts
<1>3. CASE StartCall(e) \/ AcceptCall(e)
    <2>1. PICK f \in Asked : Asks(e, f)
        BY <1>3 DEF StartCall, AcceptCall, Asked
    <2>2. /\ state' \in Ends(States) /\ dialogs' \in Ends(Seq(Asked))
          /\ UNCHANGED <<mic, leaked, muted, enabled, plays, streams, track, awaits, heard>>
        BY <2>1, AsksProperties
    <2>3. UNCHANGED wire /\ UNCHANGED <<connected, pending, blips>> /\ calls' \in 0 .. MaxCalls
        BY <1>1, <1>3, MaxCallsAssumption DEF StartCall, AcceptCall, netVars, NetType
    <2> QED
        BY <1>1, <2>2, <2>3 DEF EndType
<1>4. CASE RejectCall(e) \/ PressEnd(e)
    <2>1. PICK ms \in Seq(Signals) : EndCall(e, "idle", wire[e], ms)
        BY <1>2, <1>4 DEF RejectCall, PressEnd
    <2>2. UNCHANGED netVars
        BY <1>4 DEF RejectCall, PressEnd
    <2>3. EndType'
        BY <1>1, <2>1, EndCallProperties DEF EndType, States
    <2> QED
        BY <1>1, <2>2, <2>3 DEF netVars, NetType
<1>5. CASE ToggleMute(e)
    <2>1. muted' \in Ends(BOOLEAN)
        BY <1>1, <1>5, EndParts DEF EndType, Ends, ToggleMute
    <2>2. enabled' \in Ends(BOOLEAN)
        BY <1>1, <1>5, EndParts DEF EndType, Ends, ToggleMute
    <2>3. /\ UNCHANGED <<state, dialogs, mic, streams, leaked, plays, track, awaits, heard, wire>>
          /\ UNCHANGED <<connected, pending, calls, blips>>
        BY <1>5 DEF ToggleMute, pcVars, netVars
    <2> QED
        BY <1>1, <2>1, <2>2, <2>3 DEF EndType, NetType
<1> QED
    BY <1>3, <1>4, <1>5

LEMMA ConnectionType ==
    ASSUME VoiceInv, NEW e \in End, Connects(e) \/ Blips(e) \/ WatcherFires(e)
    PROVE  /\ EndType' /\ connected' \in Ends(BOOLEAN) /\ pending' \in Ends(BOOLEAN)
           /\ calls' = calls /\ blips' \in 0 .. MaxBlips
<1>1. EndType /\ NetType /\ wire[e] \in Seq(Signals) /\ <<>> \in Seq(Signals)
    BY TypeSplit DEF EndType, Ends
<1>2. CASE Connects(e)
    <2>1. /\ connected' = [connected EXCEPT ![e] = TRUE] /\ pending' = [pending EXCEPT ![e] = FALSE]
          /\ UNCHANGED <<calls, blips, wire>>
        BY <1>2 DEF Connects
    <2>2. connected' \in Ends(BOOLEAN) /\ pending' \in Ends(BOOLEAN)
        BY <1>1, <2>1 DEF NetType, Ends
    <2>3. CASE Asks(e, "direct")
        <3>1. /\ state' \in Ends(States) /\ dialogs' \in Ends(Seq(Asked))
              /\ UNCHANGED <<mic, leaked, muted, enabled, plays, streams, track, awaits, heard>>
            BY <2>3, AsksProperties DEF Asked
        <3> QED
            BY <1>1, <2>1, <2>2, <3>1 DEF EndType, NetType
    <2>4. CASE UNCHANGED <<uiVars, dialogs, streams, pcVars>>
        BY <1>1, <2>1, <2>2, <2>4 DEF EndType, NetType, uiVars, micVars, pcVars
    <2> QED
        BY <1>2, <2>3, <2>4 DEF Connects
<1>3. CASE Blips(e)
    <2>1. connected' \in Ends(BOOLEAN) /\ blips' \in 0 .. MaxBlips
        BY <1>1, <1>3, MaxBlipsAssumption DEF Blips, NetType, Ends
    <2> QED
        BY <1>1, <1>3, <2>1 DEF Blips, EndType, NetType, uiVars, micVars, pcVars
<1>4. CASE WatcherFires(e)
    <2>1. EndType'
        BY <1>1, <1>4, EndCallProperties DEF EndType, States, WatcherFires
    <2> QED
        BY <1>1, <1>4, <2>1 DEF WatcherFires, netVars, NetType
<1> QED
    BY <1>2, <1>3, <1>4

LEMMA SignalType ==
    ASSUME VoiceInv, NEW e \in End, Signal(e)
    PROVE  EndType' /\ UNCHANGED netVars
<1>0. UNCHANGED netVars
    BY DEF Signal, GetInvite, GetAccepted, GetRejected, GetEnded
<1>1. EndType /\ Rest(e) \in Seq(Signals) /\ mic[e] \in Nat /\ <<>> \in Seq(Signals)
    BY TypeSplit, GetsProperties DEF EndType, Ends, Signal, GetInvite, GetAccepted, GetRejected, GetEnded
<1>2. <<Call("call-rejected")>> \in Seq(Signals)
    BY SignalParts
<1>3. ASSUME Activate(e, mic[e], Rest(e), <<>>), Still PROVE EndType'
    <2>1. /\ state' \in Ends(States) /\ track' \in Ends(Nat) /\ wire' \in Ends(Seq(Signals))
          /\ awaits' \in BOOLEAN /\ UNCHANGED heard
        BY <1>1, <1>3, ActivateProperties
    <2> QED
        BY <1>1, <1>3, <2>1 DEF EndType, Still, micVars
<1>4. ASSUME NEW ms \in Seq(Signals), Says(e, Rest(e), ms), Still, UNCHANGED pcVars,
             state' \in Ends(States)
      PROVE  EndType'
    <2>1. wire' \in Ends(Seq(Signals))
        BY <1>1, <1>4, SaysProperties DEF EndType
    <2> QED
        BY <1>1, <1>4, <2>1 DEF EndType, Still, micVars, pcVars
<1>5. CASE EndCall(e, "idle", Rest(e), <<>>)
    BY <1>0, <1>1, <1>5, EndCallProperties DEF EndType, States
<1>6. Goes(e, "incoming") => state' \in Ends(States)
    BY <1>1, GoesProperties DEF EndType, States
<1>7. CASE GetInvite(e)
    <2>1. Still
        BY <1>7 DEF GetInvite
    <2>2. UNCHANGED state => state' \in Ends(States)
        BY <1>1 DEF EndType
    <2>3. CASE \/ Goes(e, "incoming") /\ Says(e, Rest(e), <<>>) /\ UNCHANGED pcVars
               \/ Says(e, Rest(e), <<>>) /\ UNCHANGED <<state, pcVars>>
        BY <1>0, <1>1, <1>4, <1>6, <2>1, <2>2, <2>3
    <2>4. CASE Activate(e, mic[e], Rest(e), <<>>)
        BY <1>0, <1>3, <2>1, <2>4
    <2>5. CASE Says(e, Rest(e), <<Call("call-rejected")>>) /\ UNCHANGED <<state, pcVars>>
        BY <1>0, <1>2, <1>4, <2>1, <2>2, <2>5
    <2> QED
        BY <1>7, <2>3, <2>4, <2>5 DEF GetInvite
<1>8. CASE GetAccepted(e)
    BY <1>3, <1>8 DEF GetAccepted
<1>9. CASE GetRejected(e) \/ GetEnded(e)
    <2>1. UNCHANGED state => state' \in Ends(States)
        BY <1>1 DEF EndType
    <2> QED
        BY <1>1, <1>4, <1>5, <1>9, <2>1 DEF GetRejected, GetEnded
<1> QED
    BY <1>0, <1>7, <1>8, <1>9 DEF Signal

\* ontrack: what is heard of the other is played.
LEMMA HearsProperties ==
    ASSUME VoiceInv, NEW e \in End, NEW n \in Nat, Hears(e, n)
    PROVE  LET x == Other(e)
               new == n # 0 /\ n # heard[e]
           IN  /\ state' \in Ends(States) /\ plays' \in Ends(Nat) /\ heard' \in Ends(Nat)
               /\ heard'[e] = n /\ heard'[x] = heard[x]
               /\ state'[e] = (IF new THEN "active" ELSE state[e]) /\ state'[x] = state[x]
               /\ plays'[e] = (IF new THEN n ELSE plays[e]) /\ plays'[x] = plays[x]
               /\ UNCHANGED <<mic, leaked, muted, enabled, dialogs, streams, track>>
               /\ UNCHANGED netVars
<1>1. EndType
    BY TypeSplit
<1>2. heard' \in Ends(Nat) /\ heard'[e] = n /\ heard'[Other(e)] = heard[Other(e)]
    BY <1>1, EndParts DEF EndType, Ends, Hears
<1>3. UNCHANGED <<mic, leaked, muted, enabled, dialogs, streams, track>> /\ UNCHANGED netVars
    BY DEF Hears, micVars
<1>4. CASE n = 0 \/ n = heard[e]
    <2>1. UNCHANGED <<state, plays>>
        BY <1>4 DEF Hears, OnTrack
    <2> QED
        BY <1>1, <1>2, <1>3, <1>4, <2>1 DEF EndType
<1>5. CASE n # 0 /\ n # heard[e]
    <2>1. Goes(e, "active") /\ plays' = [plays EXCEPT ![e] = n]
        BY <1>5 DEF Hears, OnTrack
    <2>2. /\ state' \in Ends(States) /\ state'[e] = "active"
          /\ state'[Other(e)] = state[Other(e)]
        BY <1>1, <2>1, GoesProperties DEF EndType, States
    <2>3. plays' \in Ends(Nat) /\ plays'[e] = n /\ plays'[Other(e)] = plays[Other(e)]
        BY <1>1, <2>1, EndParts DEF EndType, Ends
    <2> QED
        BY <1>2, <1>3, <1>5, <2>2, <2>3
<1> QED
    BY <1>4, <1>5

LEMMA OfferProperties ==
    ASSUME VoiceInv, GetOffer
    PROVE  LET n == Head(wire[Ans]).audio
           IN  /\ EndType' /\ UNCHANGED netVars /\ n \in Nat /\ Gets(Ans, "offer")
               /\ Hears(Ans, n) /\ UNCHANGED awaits
               /\ wire'[Ans] = Rest(Ans)
               /\ wire'[Off] = wire[Off] \o <<Answer(IF n = 0 THEN 0 ELSE track[Ans])>>
<1> PICK n : n = Head(wire[Ans]).audio
    OBVIOUS
<1> PICK a : a = IF n = 0 THEN 0 ELSE track[Ans]
    OBVIOUS
<1>1. /\ Gets(Ans, "offer") /\ Hears(Ans, n) /\ UNCHANGED awaits
      /\ Says(Ans, Rest(Ans), <<Answer(a)>>)
    BY DEF GetOffer, Ans
<1>2. EndType /\ n \in Nat /\ a \in Nat /\ Rest(Ans) \in Seq(Signals)
    BY <1>1, EndParts, TypeSplit, GetsProperties, SignalAudio DEF EndType, Ends
<1>3. <<Answer(a)>> \in Seq(Signals)
    BY <1>2, SignalParts
<1>4. /\ wire' \in Ends(Seq(Signals)) /\ wire'[Ans] = Rest(Ans)
      /\ wire'[Off] = wire[Off] \o <<Answer(a)>>
    BY <1>1, <1>2, <1>3, EndParts, SaysProperties DEF EndType
<1>5. EndType' /\ UNCHANGED netVars
    BY <1>1, <1>2, <1>4, EndParts, HearsProperties DEF EndType
<1> QED
    BY <1>1, <1>2, <1>4, <1>5

LEMMA AnswerProperties ==
    ASSUME VoiceInv, GetAnswer
    PROVE  LET n == IF awaits THEN Head(wire[Off]).audio ELSE heard[Off]
           IN  /\ EndType' /\ UNCHANGED netVars /\ n \in Nat /\ Gets(Off, "answer")
               /\ Hears(Off, n) /\ ~awaits'
               /\ wire'[Off] = Rest(Off) /\ wire'[Ans] = wire[Ans]
<1> PICK n : n = IF awaits THEN Head(wire[Off]).audio ELSE heard[Off]
    OBVIOUS
<1>1. /\ Gets(Off, "answer") /\ Hears(Off, n) /\ awaits' = FALSE
      /\ Says(Off, Rest(Off), <<>>)
    BY DEF GetAnswer, Off
<1>2. EndType /\ n \in Nat /\ Rest(Off) \in Seq(Signals) /\ wire[Ans] \in Seq(Signals)
    BY <1>1, EndParts, TypeSplit, GetsProperties, SignalAudio DEF EndType, Ends
<1>3. /\ wire' \in Ends(Seq(Signals)) /\ wire'[Off] = Rest(Off)
      /\ wire'[Ans] = wire[Ans]
    <2> PICK ms : ms = <<>>
        OBVIOUS
    <2>0. ms \in Seq(Signals)
        OBVIOUS
    <2>1. wire[Ans] \o ms = wire[Ans]
        BY <1>2
    <2>2. Says(Off, Rest(Off), ms)
        BY <1>1
    <2> QED
        BY <1>2, <2>0, <2>1, <2>2, EndParts, SaysProperties DEF EndType
<1>4. EndType' /\ UNCHANGED netVars
    BY <1>1, <1>2, <1>3, EndParts, HearsProperties DEF EndType
<1> QED
    BY <1>1, <1>2, <1>3, <1>4

LEMMA VoiceStep == VoiceInv /\ [Next]_vars => VoiceInv'
<1> SUFFICES ASSUME VoiceInv, [Next]_vars PROVE EndType' /\ NetType'
    BY TypeSplitNext
<1>0. NetType /\ EndType
    BY TypeSplit
<1>1. CASE UNCHANGED vars
    BY <1>0, <1>1 DEF vars, uiVars, micVars, pcVars, netVars, NetType, EndType
<1>2. CASE (GetOffer \/ GetAnswer) /\ UNCHANGED raced
    <2>1. EndType' /\ UNCHANGED netVars
        BY <1>2, OfferProperties, AnswerProperties
    <2> QED
        BY <1>0, <1>2, <2>1 DEF netVars, NetType
<1>3. ASSUME NEW e \in End, Signal(e) \/ Dialog(e), UNCHANGED raced
      PROVE  EndType' /\ NetType'
    <2>1. EndType' /\ UNCHANGED netVars
        BY <1>3, SignalType, GrantedProperties, DeniedProperties DEF Dialog
    <2> QED
        BY <1>0, <1>3, <2>1 DEF netVars, NetType
<1>4. ASSUME NEW e \in End, raced' \in BOOLEAN,
             StartCall(e) \/ AcceptCall(e) \/ RejectCall(e) \/ PressEnd(e) \/ ToggleMute(e)
      PROVE  EndType' /\ NetType'
    BY <1>0, <1>4, UserType DEF NetType
<1>5. ASSUME NEW e \in End, raced' \in BOOLEAN, Connects(e) \/ Blips(e) \/ WatcherFires(e)
      PROVE  EndType' /\ NetType'
    BY <1>0, <1>5, ConnectionType DEF NetType
<1>6. (raced' = (raced \/ ~Quiet) \/ raced' = TRUE \/ UNCHANGED raced) => raced' \in BOOLEAN
    BY <1>0 DEF NetType
<1> QED
    BY <1>1, <1>2, <1>3, <1>4, <1>5, <1>6 DEF Next

\* What the state of both ends is made of (useVoice.js, VoicePanel.jsx).
THEOREM VoiceTypeCorrect == Spec => []TypeOK
<1>1. VoiceInv => TypeOK
    BY DEF VoiceInv
<1> QED
    BY <1>1, VoiceInit, VoiceStep, PTL DEF Spec

-----------------------------------------------------------------------------
(***************************************************************************)
(* The microphone.                                                         *)
(***************************************************************************)
LEMMA OffInit == Init => IdleIsOff
BY DEF Init, IdleIsOff

LEMMA OffKeeps ==
    ASSUME VoiceInv, IdleIsOff, NEW e \in End,
           state'[Other(e)] = state[Other(e)], dialogs'[Other(e)] = dialogs[Other(e)],
           mic'[Other(e)] = mic[Other(e)],
           state'[e] = "idle" /\ dialogs'[e] = <<>> => mic'[e] = 0
    PROVE  IdleIsOff'
BY EndParts DEF IdleIsOff

LEMMA OffEndCall ==
    ASSUME VoiceInv, IdleIsOff, NEW e \in End, NEW s \in States, NEW in \in Seq(Signals),
           NEW ms \in Seq(Signals), EndCall(e, s, in, ms)
    PROVE  IdleIsOff'
<1>1. /\ state'[Other(e)] = state[Other(e)] /\ mic'[Other(e)] = mic[Other(e)] /\ mic'[e] = 0
      /\ UNCHANGED dialogs
    BY EndCallProperties
<1> QED
    BY <1>1, OffKeeps

LEMMA OffActivate ==
    ASSUME VoiceInv, IdleIsOff, NEW e \in End, NEW n \in Nat, NEW in \in Seq(Signals),
           NEW ms \in Seq(Signals), Activate(e, n, in, ms), UNCHANGED <<mic, dialogs>>
    PROVE  IdleIsOff'
<1>1. /\ n = 0 => UNCHANGED state
      /\ n # 0 => state'[e] = "active" /\ state'[Other(e)] = state[Other(e)]
    BY ActivateProperties
<1>2. CASE n = 0
    BY <1>1, <1>2 DEF IdleIsOff
<1>3. CASE n # 0
    BY <1>1, <1>3, OffKeeps
<1> QED
    BY <1>2, <1>3

LEMMA OffStep == VoiceInv /\ IdleIsOff /\ [Next]_vars => IdleIsOff'
<1> SUFFICES ASSUME VoiceInv, IdleIsOff, [Next]_vars PROVE IdleIsOff'
    OBVIOUS
<1>0. /\ \A e \in End : wire[e] \in Seq(Signals) /\ mic[e] \in Nat /\ dialogs[e] \in Seq(Asked)
      /\ state \in Ends(States)
      /\ <<>> \in Seq(Signals) /\ <<Call("call-rejected")>> \in Seq(Signals)
      /\ <<Call("call-ended")>> \in Seq(Signals) /\ <<Call("call-accepted")>> \in Seq(Signals)
      /\ "idle" \in States /\ "error" \in States
    BY TypeSplit, SignalParts DEF EndType, Ends, States
<1>1. CASE UNCHANGED <<state, dialogs, mic>>
    BY <1>1 DEF IdleIsOff
<1>2. ASSUME NEW e \in End, NEW f \in Asked, Asks(e, f) PROVE IdleIsOff'
    BY <1>2, AsksProperties, OffKeeps
<1>3. ASSUME NEW e \in End, StartCall(e) \/ AcceptCall(e) \/ Connects(e) PROVE IdleIsOff'
    <2>1. CASE \E f \in Asked : Asks(e, f)
        BY <1>2, <2>1
    <2>2. CASE UNCHANGED <<uiVars, dialogs, streams, pcVars>>
        BY <1>1, <2>2 DEF uiVars, micVars
    <2> QED
        BY <1>3, <2>1, <2>2 DEF StartCall, AcceptCall, Connects, Asked
<1>4. ASSUME NEW e \in End, RejectCall(e) \/ PressEnd(e) \/ WatcherFires(e) PROVE IdleIsOff'
    BY <1>0, <1>4, OffEndCall DEF RejectCall, PressEnd, WatcherFires
<1>5. ASSUME NEW e \in End, ToggleMute(e) \/ Blips(e) PROVE IdleIsOff'
    BY <1>1, <1>5 DEF ToggleMute, Blips, uiVars, micVars
<1>6. ASSUME NEW e \in End, Granted(e) PROVE IdleIsOff'
    <2> PICK n : n = streams[e] + 1
        OBVIOUS
    <2>1. /\ n \in Nat /\ n # 0 /\ mic'[Other(e)] = mic[Other(e)]
          /\ dialogs'[Other(e)] = dialogs[Other(e)]
          /\ \/ state'[e] = "calling" /\ state'[Other(e)] = state[Other(e)]
             \/ Activate(e, n, wire[e], <<Call("call-accepted")>>)
             \/ Activate(e, n, wire[e], <<>>)
        BY <1>6, GrantedProperties
    <2>2. state'[e] # "idle" /\ state'[Other(e)] = state[Other(e)]
        <3> PICK ms \in Seq(Signals) :
                \/ state'[e] = "calling" /\ state'[Other(e)] = state[Other(e)]
                \/ Activate(e, n, wire[e], ms)
            BY <1>0, <2>1
        <3> QED
            BY <1>0, <2>1, ActivateProperties
    <2> QED
        BY <2>1, <2>2, OffKeeps
<1>7. ASSUME NEW e \in End, Denied(e) PROVE IdleIsOff'
    BY <1>7, DeniedProperties, OffKeeps
<1>8. ASSUME NEW e \in End, Signal(e) PROVE IdleIsOff'
    <2>1. Rest(e) \in Seq(Signals)
        BY <1>8, GetsProperties DEF Signal, GetInvite, GetAccepted, GetRejected, GetEnded
    <2>2. CASE EndCall(e, "idle", Rest(e), <<>>)
        BY <1>0, <2>1, <2>2, OffEndCall
    <2>3. CASE Activate(e, mic[e], Rest(e), <<>>) /\ Still
        BY <1>0, <2>1, <2>3, OffActivate DEF Still, micVars
    <2>4. CASE Still /\ UNCHANGED state
        BY <1>1, <2>4 DEF Still, micVars
    <2>5. CASE Still /\ Goes(e, "incoming")
        <3>1. state'[e] = "incoming" /\ state'[Other(e)] = state[Other(e)]
            BY <1>0, <2>5, GoesProperties DEF States
        <3> QED
            BY <2>5, <3>1, OffKeeps DEF Still, micVars
    <2> QED
        BY <1>8, <2>2, <2>3, <2>4, <2>5
            DEF Signal, GetInvite, GetAccepted, GetRejected, GetEnded
<1>9. CASE GetOffer \/ GetAnswer
    <2>1. PICK e \in End, n \in Nat : Hears(e, n)
        BY <1>9, EndParts, OfferProperties, AnswerProperties
    <2>2. /\ state'[e] = "active" \/ state'[e] = state[e]
          /\ state'[Other(e)] = state[Other(e)] /\ UNCHANGED <<mic, dialogs>>
        BY <2>1, HearsProperties
    <2> QED
        BY <2>2, OffKeeps DEF IdleIsOff
<1> QED
    BY <1>1, <1>3, <1>4, <1>5, <1>6, <1>7, <1>8, <1>9
        DEF Next, Signal, Dialog, vars, uiVars, micVars

-----------------------------------------------------------------------------
(***************************************************************************)
(* The phases.                                                             *)
(***************************************************************************)
\* Short sequences.
LEMMA Short ==
    /\ \A m : <<m>> # <<>> /\ Head(<<m>>) = m /\ Tail(<<m>>) = <<>>
    /\ \A m, n : <<m, n>> # <<>> /\ Head(<<m, n>>) = m /\ Tail(<<m, n>>) = <<n>>
    /\ \A m : <<>> \o <<m>> = <<m>> /\ Append(<<>>, m) = <<m>> /\ <<m>> \o <<>> = <<m>>
    /\ \A m, n : /\ <<m>> \o <<n>> = <<m, n>> /\ Append(<<m>>, n) = <<m, n>>
                 /\ <<>> \o <<m, n>> = <<m, n>> /\ <<m, n>> \o <<>> = <<m, n>>
    /\ <<>> \o <<>> = <<>>
<1>1. \A m : <<m>> # <<>> /\ Head(<<m>>) = m /\ Tail(<<m>>) = <<>>
    OBVIOUS
<1>2. \A m, n : <<m, n>> # <<>> /\ Head(<<m, n>>) = m
    OBVIOUS
<1>3. \A m, n : Tail(<<m, n>>) = <<n>>
    OBVIOUS
<1>4. \A m : <<>> \o <<m>> = <<m>> /\ Append(<<>>, m) = <<m>>
    OBVIOUS
<1>5. \A m : <<m>> \o <<>> = <<m>>
    OBVIOUS
<1>6. ASSUME NEW m, NEW n, NEW s \in Seq({m, n}), Len(s) = 2, s[1] = m, s[2] = n
      PROVE  s = <<m, n>>
    <2>1. s = [i \in 1..2 |-> s[i]] /\ \A i \in 1..2 : i = 1 \/ i = 2
        BY <1>6
    <2> QED
        BY <1>6, <2>1
<1>7. ASSUME NEW m, NEW n PROVE <<m>> \o <<n>> = <<m, n>> /\ Append(<<m>>, n) = <<m, n>>
    <2>1. <<m>> \in Seq({m, n}) /\ <<n>> \in Seq({m, n}) /\ Len(<<m>>) = 1 /\ Len(<<n>>) = 1
        OBVIOUS
    <2>2. /\ <<m>> \o <<n>> \in Seq({m, n}) /\ Len(<<m>> \o <<n>>) = 2
          /\ (<<m>> \o <<n>>)[1] = m /\ (<<m>> \o <<n>>)[2] = n
        BY <2>1, ConcatProperties
    <2>3. /\ Append(<<m>>, n) \in Seq({m, n}) /\ Len(Append(<<m>>, n)) = 2
          /\ Append(<<m>>, n)[1] = m /\ Append(<<m>>, n)[2] = n
        BY <2>1, AppendProperties
    <2> QED
        BY <1>6, <2>2, <2>3
<1>8. \A m, n : <<>> \o <<m, n>> = <<m, n>>
    OBVIOUS
<1>9. \A m, n : <<m, n>> \o <<>> = <<m, n>>
    OBVIOUS
<1>10. <<>> \o <<>> = <<>>
    OBVIOUS
<1> QED
    BY <1>1, <1>2, <1>3, <1>4, <1>5, <1>7, <1>8, <1>9, <1>10

\* The head of one or two signals.
LEMMA Kind ==
    ASSUME NEW e \in End, NEW t, Gets(e, t)
    PROVE  /\ wire[e] # <<>>
           /\ \A m : wire[e] = <<m>> => t = m.type
           /\ \A m, n : wire[e] = <<m, n>> => t = m.type
BY Short DEF Gets

LEMMA RestOf ==
    ASSUME NEW e \in End, NEW t, Gets(e, t)
    PROVE  /\ wire[e] # <<>>
           /\ \A m : wire[e] = <<m>> => m.type = t /\ Rest(e) = <<>>
           /\ \A m, n : wire[e] = <<m, n>> => m.type = t /\ Rest(e) = <<n>>
<1>1. wire[e] # <<>> /\ Head(wire[e]).type = t /\ Rest(e) = Tail(wire[e])
    BY DEF Gets, Rest
<1>2. ASSUME NEW m, wire[e] = <<m>> PROVE m.type = t /\ Rest(e) = <<>>
    BY <1>1, <1>2, Short
<1>3. ASSUME NEW m, NEW n, wire[e] = <<m, n>> PROVE m.type = t /\ Rest(e) = <<n>>
    BY <1>1, <1>3, Short
<1> QED
    BY <1>1, <1>2, <1>3

\* Which phase it is when a signal arrives.
LEMMA WhoGets ==
    ASSUME Phase, NEW e \in End, NEW t, Gets(e, t)
    PROVE  \/ t = "call-invite" /\ Invited(Other(e))
           \/ t = "call-accepted" /\ ((e = Ans /\ OffAccepted) \/ (e = Off /\ AnsAccepted))
           \/ t = "call-rejected" /\ Refused(e)
           \/ t = "call-rejected" /\ ((e = Off /\ Leaving) \/ (e = Ans /\ Apart))
           \/ t = "call-ended" /\ e = Ans /\ (OffEnded \/ OffCancelled \/ Leaving)
           \/ t = "call-ended" /\ e = Off /\ (AnsEnded \/ AnsCancelled \/ Apart)
           \/ t = "offer" /\ e = Ans /\ (Offered \/ Leaving)
           \/ t = "answer" /\ e = Off /\ (Answered \/ Leaving)
<1>1. /\ wire[e] # <<>>
      /\ \A m : wire[e] = <<m>> => t = m.type
      /\ \A m, n : wire[e] = <<m, n>> => t = m.type
    BY Kind
<1>2. e = Off \/ e = Ans
    BY EndParts
<1>3. ASSUME NEW c \in End, Asking(c) \/ Rung(c) \/ Accepting(c) PROVE FALSE
    BY <1>1, <1>2, <1>3 DEF Asking, Rung, Accepting, Wires
<1>4. ASSUME NEW c \in End, Invited(c) PROVE t = "call-invite" /\ Invited(Other(e))
    <2>1. e # c
        BY <1>1, <1>4 DEF Invited
    <2>2. e = Other(c) /\ c = Other(e)
        BY <2>1, EndParts
    <2> QED
        BY <1>1, <1>4, <2>2, SignalParts DEF Invited
<1>5. ASSUME NEW c \in End, Refused(c) PROVE t = "call-rejected" /\ Refused(e)
    <2>1. e # Other(c)
        BY <1>1, <1>5 DEF Refused
    <2>2. e = c
        BY <2>1, EndParts
    <2> QED
        BY <1>1, <1>5, <2>2, SignalParts DEF Refused
<1>6. OffAccepted => t = "call-accepted" /\ e = Ans
    BY <1>1, <1>2, SignalParts DEF OffAccepted, Wires
<1>7. AnsAccepted => t = "call-accepted" /\ e = Off
    BY <1>1, <1>2, SignalParts DEF AnsAccepted, Wires
<1>8. Offered => t = "offer" /\ e = Ans
    BY <1>1, <1>2, SignalParts DEF Offered, Wires
<1>9. Answered => t = "answer" /\ e = Off
    BY <1>1, <1>2, SignalParts DEF Answered, Wires
<1>10. ~Talking
    BY <1>1, <1>2 DEF Talking, Wires
<1>11. OffEnded \/ OffCancelled => t = "call-ended" /\ e = Ans
    BY <1>1, <1>2, SignalParts DEF OffEnded, OffCancelled, Wires
<1>12. AnsEnded \/ AnsCancelled => t = "call-ended" /\ e = Off
    BY <1>1, <1>2, SignalParts DEF AnsEnded, AnsCancelled, Wires
<1>13. Leaving => \/ e = Off /\ t \in {"call-rejected", "answer"}
                  \/ e = Ans /\ t \in {"call-ended", "offer"}
    BY <1>1, <1>2, SignalParts DEF Leaving
<1>14. Apart => \/ e = Off /\ t = "call-ended"
                \/ e = Ans /\ t = "call-rejected"
    BY <1>1, <1>2, SignalParts DEF Apart
<1>15. (\E c \in End : Asking(c) \/ Invited(c) \/ Rung(c) \/ Accepting(c) \/ Refused(c))
        => (t = "call-invite" /\ Invited(Other(e))) \/ (t = "call-rejected" /\ Refused(e))
    BY <1>3, <1>4, <1>5, Zenon
<1> QED
    BY <1>6, <1>7, <1>8, <1>9, <1>10, <1>11, <1>12, <1>13, <1>14, <1>15 DEF Phase

\* Which phase it is when a dialog is open.
LEMMA WhoWaits ==
    ASSUME Phase, NEW e \in End, dialogs[e] # <<>>
    PROVE  Asking(e) \/ Accepting(Other(e))
<1>1. e = Off \/ e = Ans
    BY EndParts
<1>2. ASSUME NEW c \in End, Asking(c) \/ Invited(c) \/ Rung(c) \/ Accepting(c) \/ Refused(c)
      PROVE  Asking(e) \/ Accepting(Other(e))
    <2>1. CASE e = c
        BY <1>2, <2>1 DEF Invited, Rung, Accepting, Refused, Calling
    <2>2. CASE e = Other(c)
        <3>1. c = Other(e)
            BY <2>2, EndParts
        <3> QED
            BY <1>2, <2>2, <3>1 DEF Asking, Invited, Rung, Refused
    <2> QED
        BY <2>1, <2>2, EndParts
<1>3. ~NoDialogs
    BY <1>1 DEF NoDialogs
<1> QED
    BY <1>2, <1>3 DEF Phase, OffAccepted, AnsAccepted, Offered, Answered, Talking, InCall,
                      OffEnded, AnsEnded, OffCancelled, Leaving, AnsCancelled, Apart

\* Which phase it is when an end rings.
LEMMA WhoRings ==
    ASSUME Phase, NEW e \in End, state[e] = "incoming"
    PROVE  Rung(Other(e)) \/ (e = Ans /\ OffCancelled) \/ (e = Off /\ AnsCancelled)
<1>1. e = Off \/ e = Ans
    BY EndParts
<1>2. ASSUME NEW c \in End, Asking(c) \/ Invited(c) \/ Rung(c) \/ Accepting(c) \/ Refused(c)
      PROVE  Rung(Other(e))
    <2>1. CASE e = c
        BY <1>2, <2>1 DEF Asking, Invited, Rung, Accepting, Refused, Calling
    <2>2. CASE e = Other(c)
        <3>1. c = Other(e)
            BY <2>2, EndParts
        <3> QED
            BY <1>2, <2>2, <3>1 DEF Asking, Invited, Accepting, Refused, Out
    <2> QED
        BY <2>1, <2>2, EndParts
<1>3. ~(OffAccepted \/ AnsAccepted \/ Offered \/ Answered \/ Talking)
    BY <1>1 DEF OffAccepted, AnsAccepted, Offered, Answered, Talking, InCall
<1>4. ~(OffEnded \/ AnsEnded \/ Leaving \/ Apart)
    BY <1>1 DEF OffEnded, AnsEnded, Leaving, Apart, Out
<1>5. (OffCancelled => e = Ans) /\ (AnsCancelled => e = Off)
    BY <1>1 DEF OffCancelled, AnsCancelled
<1> QED
    BY <1>2, <1>3, <1>4, <1>5 DEF Phase

\* Which phase it is when nothing is on its way.
LEMMA WhenQuiet ==
    ASSUME Phase, Quiet
    PROVE  (Apart /\ Wires(<<>>, <<>>)) \/ (\E e \in End : Rung(e)) \/ Talking
<1>1. /\ Wires(<<>>, <<>>) /\ NoDialogs
      /\ \A e \in End : /\ wire[e] = <<>> /\ dialogs[e] = <<>>
                        /\ wire[Other(e)] = <<>> /\ dialogs[Other(e)] = <<>>
    BY EndParts DEF Quiet, Wires, NoDialogs
<1>2. /\ \A m : <<m>> # <<>>
      /\ \A m, n : <<m, n>> # <<>>
    BY Short
<1>3. ASSUME NEW c \in End PROVE ~(Asking(c) \/ Invited(c) \/ Accepting(c) \/ Refused(c))
    BY <1>1, <1>2 DEF Asking, Invited, Accepting, Refused
<1>4. ~(OffAccepted \/ AnsAccepted \/ Offered \/ Answered)
    BY <1>1, <1>2 DEF OffAccepted, AnsAccepted, Offered, Answered, Wires
<1>5. ~(OffEnded \/ AnsEnded \/ OffCancelled \/ AnsCancelled)
    BY <1>1, <1>2 DEF OffEnded, AnsEnded, OffCancelled, AnsCancelled, Wires
<1>6. ~Leaving
    BY <1>1, <1>2 DEF Leaving, Wires
<1> QED
    BY <1>1, <1>3, <1>4, <1>5, <1>6 DEF Phase

phaseVars == <<state, dialogs, mic, track, awaits, heard, plays, wire>>

LEMMA PhaseSame ==
    ASSUME Phase, UNCHANGED phaseVars
    PROVE  Phase'
<1>1. UNCHANGED <<state, dialogs, mic, track, awaits, heard, plays, wire>>
    BY DEF phaseVars
<1>2. ASSUME NEW e \in End, Asking(e) \/ Invited(e) \/ Rung(e) \/ Accepting(e) \/ Refused(e)
      PROVE  (Asking(e) \/ Invited(e) \/ Rung(e) \/ Accepting(e) \/ Refused(e))'
    BY <1>1, <1>2 DEF Asking, Invited, Rung, Accepting, Refused, Calling, Out, Calm, Wires,
                      NoneHeard
<1>3. CASE OffAccepted \/ AnsAccepted \/ Offered \/ Answered \/ Talking
    <2>1. (OffAccepted \/ AnsAccepted \/ Offered \/ Answered \/ Talking)'
        BY <1>1, <1>3 DEF OffAccepted, AnsAccepted, Offered, Answered, Talking, InCall, Wires,
                          NoDialogs, NoneHeard
    <2> QED
        BY <2>1 DEF Phase
<1>4. CASE OffEnded \/ AnsEnded \/ OffCancelled \/ AnsCancelled
    <2>1. (OffEnded \/ AnsEnded \/ OffCancelled \/ AnsCancelled)'
        BY <1>1, <1>4 DEF OffEnded, AnsEnded, OffCancelled, AnsCancelled, Calm, Wires,
                          NoDialogs, NoneHeard
    <2> QED
        BY <2>1 DEF Phase
<1>5. CASE Leaving \/ Apart
    <2>1. (Leaving \/ Apart)'
        BY <1>1, <1>5 DEF Leaving, Apart, Out, Calm, NoDialogs, NoneHeard
    <2> QED
        BY <2>1 DEF Phase
<1> QED
    BY <1>2, <1>3, <1>4, <1>5 DEF Phase

\* A call is started when all is quiet.
LEMMA PhaseStart ==
    ASSUME VoiceInv, Phase, Quiet, NEW e \in End, StartCall(e)
    PROVE  Phase'
<1> PICK x : x = Other(e)
    OBVIOUS
<1>1. /\ Asks(e, "start") /\ UNCHANGED wire /\ state[e] \in {"idle", "error"}
      /\ wire[e] = <<>> /\ wire[x] = <<>> /\ dialogs[e] = <<>> /\ dialogs[x] = <<>>
    BY EndParts DEF StartCall, Quiet
<1>2. Apart
    <2>1. ASSUME NEW c \in End, Rung(c) PROVE FALSE
        BY <1>1, <2>1, EndParts DEF Rung, Calling
    <2>2. ~Talking
        BY <1>1, EndParts DEF Talking, InCall
    <2> QED
        BY <2>1, <2>2, WhenQuiet
<1>3. Out(x) /\ Calm(e) /\ Calm(x) /\ NoneHeard /\ ~awaits
    BY <1>2, EndParts DEF Apart
<1>4. /\ state'[e] = "requesting" /\ state'[x] = state[x]
      /\ dialogs'[e] = Append(dialogs[e], "start") /\ dialogs'[x] = dialogs[x]
      /\ UNCHANGED <<mic, track, awaits, heard, plays>>
    BY <1>1, AsksProperties DEF Asked
<1>5. dialogs'[e] = <<"start">>
    BY <1>1, <1>4, Short
<1>6. Asking(e)'
    BY <1>1, <1>3, <1>4, <1>5, EndParts DEF Asking, Out, Calm, NoneHeard, Wires
<1> QED
    BY <1>6 DEF Phase

\* And accepted.
LEMMA PhaseAccept ==
    ASSUME VoiceInv, Phase, Quiet, NEW e \in End, AcceptCall(e)
    PROVE  Phase'
<1> PICK c : c = Other(e)
    OBVIOUS
<1>0. c \in End /\ e = Other(c)
    BY EndParts
<1>1. /\ Asks(e, "accept") /\ UNCHANGED wire /\ state[e] = "incoming"
      /\ wire[e] = <<>> /\ wire[c] = <<>> /\ dialogs[e] = <<>>
    BY <1>0 DEF AcceptCall, Quiet
<1>2. Rung(c)
    BY <1>1, WhoRings, Short DEF OffCancelled, AnsCancelled, Wires
<1>4. /\ state'[e] = "requesting" /\ state'[c] = state[c]
      /\ dialogs'[e] = Append(dialogs[e], "accept") /\ dialogs'[c] = dialogs[c]
      /\ UNCHANGED <<mic, track, awaits, heard, plays>>
    BY <1>1, AsksProperties DEF Asked
<1>5. dialogs'[e] = <<"accept">>
    BY <1>1, <1>4, Short
<1>6. Accepting(c)'
    BY <1>0, <1>1, <1>2, <1>4, <1>5 DEF Accepting, Rung, Calling, Calm, NoneHeard, Wires
<1> QED
    BY <1>0, <1>6 DEF Phase

\* What endCall does to the ends of a phase.
LEMMA PhaseEnd ==
    ASSUME VoiceInv, NEW e \in End, NEW in \in Seq(Signals), NEW ms \in Seq(Signals),
           EndCall(e, "idle", in, ms), track[e] \in {0, mic[e]}
    PROVE  LET x == Other(e)
           IN  /\ state'[e] = "idle" /\ Calm(e)' /\ state'[x] = state[x] /\ mic'[x] = mic[x]
               /\ track'[x] = track[x] /\ plays'[x] = plays[x] /\ wire'[e] = in
               /\ Out(e)' /\ (Out(x) => Out(x)') /\ (Calm(x) => Calm(x)')
               /\ UNCHANGED <<dialogs, heard>>
<1> PICK x : x = Other(e)
    OBVIOUS
<1>1. /\ state'[e] = "idle" /\ mic'[e] = 0 /\ plays'[e] = 0
      /\ track'[e] = IF track[e] = mic[e] THEN 0 ELSE track[e]
      /\ state'[x] = state[x] /\ mic'[x] = mic[x] /\ plays'[x] = plays[x]
      /\ track'[x] = track[x] /\ wire'[e] = in /\ UNCHANGED <<dialogs, heard>>
    BY EndCallProperties DEF States
<1>2. track'[e] = 0
    BY <1>1
<1>3. Calm(e)' /\ Out(e)' /\ (Out(x) => Out(x)') /\ (Calm(x) => Calm(x)')
    BY <1>1, <1>2 DEF Calm, Out
<1> QED
    BY <1>1, <1>3

LEMMA PhasePress ==
    ASSUME VoiceInv, Phase, Quiet, NEW e \in End, PressEnd(e)
    PROVE  Phase'
<1> PICK x : x = Other(e)
    OBVIOUS
<1>s. <<Call("call-ended")>> \in Seq(Signals) /\ "idle" \in States
    BY SignalParts DEF States
<1>m. PICK ms \in Seq(Signals) : ms = <<Call("call-ended")>>
    BY <1>s, Zenon
<1>0. wire[e] \in Seq(Signals) /\ wire[e] = <<>> /\ wire[x] = <<>>
    <2>1. wire[e] = <<>> /\ wire[x] = <<>>
        BY EndParts DEF Quiet
    <2> QED
        BY <2>1
<1>1. EndCall(e, "idle", wire[e], ms) /\ state[e] \in {"calling", "active"}
    BY <1>m DEF PressEnd
<1>2. ASSUME e = Off, mic[e] # 0
      PROVE  awaits' /\ wire'[x] = <<Call("call-ended"), Offer(0)>>
    <2>1. awaits' /\ wire'[x] = wire[x] \o Append(ms, Offer(0))
        BY <1>s, <1>0, <1>1, <1>2, EndCallAgain, ZenonT(40)
    <2> QED
        BY <1>m, <1>0, <2>1, Short
<1>3. ASSUME e # Off
      PROVE  awaits' = awaits /\ wire'[x] = <<Call("call-ended")>>
    <2>1. awaits' = awaits /\ wire'[x] = wire[x] \o ms
        BY <1>s, <1>0, <1>1, <1>3, EndCallAlone, Zenon
    <2> QED
        BY <1>m, <1>0, <2>1, Short
<1>4. \/ Rung(e)
      \/ Talking
    <2>1. ASSUME NEW c \in End, Rung(c) PROVE Rung(e)
        BY <1>1, <2>1, EndParts DEF Rung, Calling
    <2>2. ~Apart
        BY <1>1, EndParts DEF Apart, Out
    <2> QED
        BY <2>1, <2>2, WhenQuiet
<1>5. CASE Rung(e)
    <2>1. /\ state[e] = "calling" /\ mic[e] # 0 /\ track[e] = 0 /\ Calm(x) /\ NoneHeard /\ ~awaits
          /\ dialogs[e] = <<>> /\ dialogs[x] = <<>> /\ state[x] = "incoming"
        BY <1>5 DEF Rung, Calling
    <2>2. /\ state'[e] = "idle" /\ Calm(e)' /\ state'[x] = state[x] /\ Calm(x)'
          /\ wire'[e] = <<>> /\ UNCHANGED <<dialogs, heard>>
        BY <1>0, <1>1, <2>1, PhaseEnd
    <2>4. e = Off => OffCancelled'
        <3> SUFFICES ASSUME e = Off PROVE OffCancelled'
            OBVIOUS
        <3>1. awaits' /\ wire'[x] = <<Call("call-ended"), Offer(0)>>
            BY <1>2, <2>1
        <3> QED
            BY <2>1, <2>2, <3>1, EndParts DEF OffCancelled, NoDialogs, Wires
    <2>5. e = Ans => AnsCancelled'
        <3> SUFFICES ASSUME e = Ans PROVE AnsCancelled'
            OBVIOUS
        <3>1. ~awaits' /\ wire'[x] = <<Call("call-ended")>>
            BY <1>3, <2>1, EndParts
        <3> QED
            BY <2>1, <2>2, <3>1, EndParts DEF AnsCancelled, NoDialogs, Wires, NoneHeard
    <2> QED
        BY <2>4, <2>5, EndParts DEF Phase
<1>6. CASE Talking
    <2>1. /\ state[e] = "active" /\ mic[e] # 0 /\ track[e] = mic[e] /\ ~awaits
          /\ mic[x] # 0 /\ track[x] = mic[x] /\ state[x] = "active"
          /\ dialogs[e] = <<>> /\ dialogs[x] = <<>>
        BY <1>6, EndParts DEF Talking, InCall, NoDialogs
    <2>2. /\ state'[e] = "idle" /\ Calm(e)' /\ state'[x] = state[x] /\ mic'[x] = mic[x]
          /\ track'[x] = track[x]
          /\ wire'[e] = <<>> /\ UNCHANGED dialogs
        BY <1>0, <1>1, <2>1, PhaseEnd
    <2>4. e = Off => OffEnded'
        <3> SUFFICES ASSUME e = Off PROVE OffEnded'
            OBVIOUS
        <3>1. awaits' /\ wire'[x] = <<Call("call-ended"), Offer(0)>>
            BY <1>2, <2>1
        <3> QED
            BY <2>1, <2>2, <3>1, EndParts DEF OffEnded, NoDialogs, Wires
    <2>5. e = Ans => AnsEnded'
        <3> SUFFICES ASSUME e = Ans PROVE AnsEnded'
            OBVIOUS
        <3>1. ~awaits' /\ wire'[x] = <<Call("call-ended")>>
            BY <1>3, <2>1, EndParts
        <3> QED
            BY <2>1, <2>2, <3>1, EndParts DEF AnsEnded, NoDialogs, Wires
    <2> QED
        BY <2>4, <2>5, EndParts DEF Phase
<1> QED
    BY <1>4, <1>5, <1>6

LEMMA PhaseReject ==
    ASSUME VoiceInv, Phase, NEW e \in End, RejectCall(e)
    PROVE  Phase'
<1> PICK c : c = Other(e)
    OBVIOUS
<1>s. <<Call("call-rejected")>> \in Seq(Signals) /\ "idle" \in States
    BY SignalParts DEF States
<1>m. PICK ms \in Seq(Signals) : ms = <<Call("call-rejected")>>
    BY <1>s, Zenon
<1>0. /\ wire[e] \in Seq(Signals) /\ c \in End /\ e = Other(c)
      /\ e = Off \/ e = Ans
    BY EndParts, TypeSplit DEF EndType, Ends
<1>1. EndCall(e, "idle", wire[e], ms) /\ state[e] = "incoming"
    BY <1>m DEF RejectCall
<1>2. ASSUME Calm(e)
      PROVE  /\ state'[e] = "idle" /\ Calm(e)' /\ state'[c] = state[c] /\ mic'[c] = mic[c]
             /\ track'[c] = track[c] /\ plays'[c] = plays[c] /\ awaits' = awaits
             /\ Out(e)' /\ (Out(c) => Out(c)') /\ (Calm(c) => Calm(c)')
             /\ wire'[e] = wire[e] /\ wire'[c] = wire[c] \o ms
             /\ UNCHANGED <<dialogs, heard>>
    <2>1. mic[e] = 0 /\ track[e] \in {0, mic[e]}
        BY <1>2 DEF Calm
    <2>2. awaits' = awaits /\ wire'[c] = wire[c] \o ms
        <3>1. mic[e] = 0 /\ wire[e] \in Seq(Signals)
            BY <1>0, <2>1
        <3> QED
            BY <1>s, <1>1, <3>1, EndCallAlone, Zenon
    <2> QED
        BY <1>0, <1>1, <2>1, <2>2, PhaseEnd
<1>3. CASE Rung(c)
    <2>1. Calm(e) /\ wire[e] = <<>> /\ wire[c] = <<>>
        BY <1>0, <1>3, EndParts DEF Rung, Calling, Wires
    <2>2. wire'[c] = <<Call("call-rejected")>>
        BY <1>m, <1>2, <2>1, Short
    <2>3. Refused(c)'
        BY <1>0, <1>2, <1>3, <2>1, <2>2 DEF Refused, Rung, Calling, NoneHeard
    <2> QED
        BY <1>0, <2>3 DEF Phase
<1>4. CASE e = Ans /\ OffCancelled
    <2>1. /\ Calm(Off) /\ Calm(Ans) /\ wire[Off] = <<>> /\ c = Off /\ Out(Off) /\ awaits
          /\ wire[Ans] = <<Call("call-ended"), Offer(0)>> /\ NoDialogs
        BY <1>4, EndParts DEF OffCancelled, Wires, Out
    <2>2. wire'[Off] = <<Call("call-rejected")>>
        BY <1>m, <1>2, <1>4, <2>1, Short
    <2>3. Leaving'
        BY <1>2, <1>4, <2>1, <2>2 DEF Leaving, NoDialogs
    <2> QED
        BY <2>3 DEF Phase
<1>5. CASE e = Off /\ AnsCancelled
    <2>1. /\ Calm(Off) /\ Calm(Ans) /\ wire[Ans] = <<>> /\ c = Ans /\ Out(Ans) /\ ~awaits
          /\ wire[Off] = <<Call("call-ended")>> /\ NoDialogs /\ NoneHeard
        BY <1>5, EndParts DEF AnsCancelled, Wires, Out
    <2>2. wire'[Ans] = <<Call("call-rejected")>>
        BY <1>m, <1>2, <1>5, <2>1, Short
    <2>3. /\ Calm(Off)' /\ Calm(Ans)' /\ Out(Off)' /\ Out(Ans)' /\ ~awaits'
          /\ wire'[Off] = wire[Off]
        BY <1>2, <1>5, <2>1
    <2>4. NoneHeard' /\ NoDialogs'
        BY <1>2, <1>5, <2>1 DEF NoDialogs, NoneHeard
    <2>5. Apart'
        BY <2>1, <2>2, <2>3, <2>4 DEF Apart
    <2> QED
        BY <2>5 DEF Phase
<1> QED
    BY <1>1, <1>3, <1>4, <1>5, WhoRings

\* The dialog for the microphone closes.
LEMMA PhaseGranted ==
    ASSUME VoiceInv, Phase, NEW e \in End, Granted(e)
    PROVE  Phase'
<1> PICK c : c = Other(e)
    OBVIOUS
<1> PICK n : n = streams[e] + 1
    OBVIOUS
<1>s. <<Call("call-accepted")>> \in Seq(Signals) /\ "idle" \in States
    BY SignalParts DEF States
<1>m. PICK ms \in Seq(Signals) : ms = <<Call("call-accepted")>>
    BY <1>s, Zenon
<1>n. n \in Nat /\ n # 0 /\ wire[e] \in Seq(Signals)
    BY GrantedProperties, TypeSplit DEF EndType, Ends
<1>0. c \in End /\ e = Other(c) /\ n # 0
    BY <1>n, EndParts
<1>1. /\ dialogs[e] # <<>> /\ dialogs'[e] = Tail(dialogs[e]) /\ dialogs'[c] = dialogs[c]
      /\ mic'[e] = n /\ mic'[c] = mic[c] /\ UNCHANGED <<plays, heard>>
    BY GrantedProperties
<1>2. CASE Asking(e)
    <2>1. /\ Head(dialogs[e]) = "start" /\ Tail(dialogs[e]) = <<>> /\ wire[e] = <<>> /\ wire[c] = <<>>
          /\ dialogs[c] = <<>>
        BY <1>2, Short, EndParts DEF Asking, Wires
    <2>2. /\ state'[e] = "calling" /\ state'[c] = state[c]
          /\ wire'[e] = wire[e] /\ wire'[c] = wire[c] \o <<Call("call-invite")>>
          /\ UNCHANGED <<track, awaits>>
        BY <2>1, GrantedProperties
    <2>3. wire'[c] = <<Call("call-invite")>>
        BY <2>1, <2>2, Short
    <2>4. Invited(e)'
        BY <1>0, <1>1, <1>2, <2>1, <2>2, <2>3
            DEF Asking, Invited, Calling, Calm, Out, NoneHeard
    <2> QED
        BY <2>4 DEF Phase
<1>3. CASE Accepting(c)
    <2>1. /\ Head(dialogs[e]) = "accept" /\ Tail(dialogs[e]) = <<>> /\ dialogs[c] = <<>>
          /\ wire[e] = <<>> /\ wire[c] = <<>> /\ state[c] = "calling" /\ mic[c] # 0
          /\ track[c] = 0 /\ plays[c] = 0 /\ plays[e] = 0 /\ NoneHeard /\ ~awaits
        BY <1>0, <1>3, Short, EndParts DEF Accepting, Calling, Wires, Calm
    <2>2. Activate(e, n, wire[e], ms)
        BY <1>m, <2>1, GrantedProperties
    <2>3. /\ state'[e] = "active" /\ state'[c] = state[c] /\ wire'[e] = wire[e]
          /\ track'[e] = n /\ track'[c] = track[c]
        BY <1>n, <2>2, ActivateNow, ZenonT(40)
    <2>5. e = Off => OffAccepted'
        <3> SUFFICES ASSUME e = Off PROVE OffAccepted'
            OBVIOUS
        <3>1. awaits' /\ wire'[c] = wire[c] \o Append(ms, Offer(n))
            BY <1>n, <2>2, ActivateOff, EndParts, Zenon
        <3>2. wire'[c] = <<Call("call-accepted"), Offer(n)>>
            BY <1>m, <2>1, <3>1, Short
        <3> QED
            BY <1>0, <1>1, <2>1, <2>3, <3>1, <3>2, EndParts
                DEF OffAccepted, NoDialogs, NoneHeard, Wires
    <2>6. e = Ans => AnsAccepted'
        <3> SUFFICES ASSUME e = Ans PROVE AnsAccepted'
            OBVIOUS
        <3>1. awaits' = awaits /\ wire'[c] = wire[c] \o ms
            <4>1. c = Off /\ Activate(Ans, n, wire[e], ms)
                BY <2>2, EndParts
            <4> QED
                BY <1>n, <4>1, ActivateAns, Zenon
        <3>2. wire'[c] = <<Call("call-accepted")>>
            BY <1>m, <2>1, <3>1, Short
        <3> QED
            BY <1>0, <1>1, <2>1, <2>3, <3>1, <3>2, EndParts
                DEF AnsAccepted, NoDialogs, NoneHeard, Wires
    <2> QED
        BY <2>5, <2>6, EndParts DEF Phase
<1> QED
    BY <1>1, <1>2, <1>3, WhoWaits

LEMMA PhaseDenied ==
    ASSUME VoiceInv, Phase, NEW e \in End, Denied(e)
    PROVE  Phase'
<1> PICK c : c = Other(e)
    OBVIOUS
<1>0. c \in End /\ e = Other(c)
    BY EndParts
<1>1. /\ dialogs[e] # <<>> /\ dialogs'[e] = Tail(dialogs[e]) /\ dialogs'[c] = dialogs[c]
      /\ state'[e] = "error" /\ state'[c] = state[c] /\ wire'[e] = wire[e]
      /\ wire'[c] = wire[c] \o (IF Head(dialogs[e]) = "accept"
                                THEN <<Call("call-rejected")>> ELSE <<>>)
      /\ UNCHANGED <<mic, track, plays, awaits, heard>>
    BY DeniedProperties
<1>2. CASE Asking(e)
    <2>1. /\ Head(dialogs[e]) = "start" /\ Tail(dialogs[e]) = <<>> /\ wire[e] = <<>> /\ wire[c] = <<>>
          /\ dialogs[c] = <<>> /\ Out(c) /\ Calm(e) /\ Calm(c) /\ NoneHeard /\ ~awaits
        BY <1>2, Short, EndParts DEF Asking, Wires
    <2>2. wire'[c] = <<>>
        BY <1>1, <2>1, Short
    <2>3. Out(e)' /\ Out(c)' /\ Calm(e)' /\ Calm(c)'
        BY <1>1, <2>1 DEF Out, Calm
    <2>4. Apart'
        BY <1>1, <2>1, <2>2, <2>3, EndParts DEF Apart, NoDialogs, NoneHeard
    <2> QED
        BY <2>4 DEF Phase
<1>3. CASE Accepting(c)
    <2>1. /\ Head(dialogs[e]) = "accept" /\ Tail(dialogs[e]) = <<>>
          /\ wire[e] = <<>> /\ wire[c] = <<>>
        BY <1>0, <1>3, Short, EndParts DEF Accepting, Wires
    <2>2. wire'[c] = <<Call("call-rejected")>>
        BY <1>1, <2>1, Short
    <2>3. Refused(c)'
        BY <1>0, <1>1, <1>3, <2>1, <2>2 DEF Refused, Accepting, Calling, Calm, Out, NoneHeard
    <2> QED
        BY <1>0, <2>3 DEF Phase
<1> QED
    BY <1>1, <1>2, <1>3, WhoWaits

\* A signal makes e end the call: the offerer offers again, or nobody does.
LEMMA EndedAgain ==
    ASSUME VoiceInv, Rest(Off) \in Seq(Signals), EndCall(Off, "idle", Rest(Off), <<>>),
           mic[Off] # 0, state[Off] \in {"active", "calling"}, track[Off] \in {0, mic[Off]}
    PROVE  /\ Calm(Off)' /\ Out(Off)' /\ (Out(Ans) => Out(Ans)') /\ (Calm(Ans) => Calm(Ans)')
           /\ wire'[Off] = Rest(Off) /\ wire'[Ans] = wire[Ans] \o <<Offer(0)>> /\ awaits'
           /\ UNCHANGED <<dialogs, heard>>
<1>s. <<>> \in Seq(Signals) /\ "idle" \in States /\ Off \in End /\ Other(Off) = Ans
    BY EndParts DEF States
<1>1. PICK ms \in Seq(Signals) : ms = <<>>
    BY <1>s, Zenon
<1>2. EndCall(Off, "idle", Rest(Off), ms)
    BY <1>1
<1>3. /\ Calm(Off)' /\ Out(Off)' /\ (Out(Ans) => Out(Ans)') /\ (Calm(Ans) => Calm(Ans)')
      /\ wire'[Off] = Rest(Off) /\ UNCHANGED <<dialogs, heard>>
    BY <1>s, <1>2, PhaseEnd
<1>4. awaits' /\ wire'[Ans] = wire[Ans] \o Append(ms, Offer(0))
    BY <1>s, <1>2, EndCallAgain, Zenon
<1>5. Append(ms, Offer(0)) = <<Offer(0)>>
    BY <1>1, Short
<1> QED
    BY <1>3, <1>4, <1>5

LEMMA EndedAlone ==
    ASSUME VoiceInv, NEW e \in End, Rest(e) \in Seq(Signals),
           EndCall(e, "idle", Rest(e), <<>>), mic[e] = 0 \/ e # Off, track[e] \in {0, mic[e]}
    PROVE  LET x == Other(e)
           IN  /\ Calm(e)' /\ Out(e)' /\ (Out(x) => Out(x)') /\ (Calm(x) => Calm(x)')
               /\ wire'[e] = Rest(e) /\ wire'[x] = wire[x] /\ awaits' = awaits
               /\ UNCHANGED <<dialogs, heard>>
<1> PICK x : x = Other(e)
    OBVIOUS
<1>s. <<>> \in Seq(Signals) /\ "idle" \in States
    BY DEF States
<1>1. PICK ms \in Seq(Signals) : ms = <<>>
    BY <1>s, Zenon
<1>2. EndCall(e, "idle", Rest(e), ms)
    BY <1>1
<1>3. /\ Calm(e)' /\ Out(e)' /\ (Out(x) => Out(x)') /\ (Calm(x) => Calm(x)')
      /\ wire'[e] = Rest(e) /\ UNCHANGED <<dialogs, heard>>
    BY <1>s, <1>2, PhaseEnd
<1>4. awaits' = awaits /\ wire'[x] = wire[x] \o ms
    BY <1>s, <1>2, EndCallAlone, ZenonT(40)
<1>5. wire[x] \in Seq(Signals)
    BY EndParts, TypeSplit DEF EndType, Ends
<1>6. wire[x] \o ms = wire[x]
    BY <1>1, <1>5
<1> QED
    BY <1>3, <1>4, <1>6

\* call-rejected.
LEMMA PhaseRejected ==
    ASSUME VoiceInv, Phase, NEW e \in End, GetRejected(e)
    PROVE  Phase'
<1>1. Gets(e, "call-rejected") /\ Rest(e) \in Seq(Signals)
    BY GetsProperties DEF GetRejected
<1>2. state[e] # "active" => EndCall(e, "idle", Rest(e), <<>>)
    BY DEF GetRejected
<1>3. /\ \A m : wire[e] = <<m>> => m.type = "call-rejected" /\ Rest(e) = <<>>
      /\ \A m, n : wire[e] = <<m, n>> => m.type = "call-rejected" /\ Rest(e) = <<n>>
      /\ wire[e] # <<>>
    BY <1>1, RestOf
<1>4. CASE e = Off /\ Refused(Off)
    <2>1. /\ Rest(Off) = <<>> /\ wire[Ans] = <<>> /\ state[Off] = "calling" /\ mic[Off] # 0
          /\ track[Off] = 0 /\ Out(Ans) /\ Calm(Ans) /\ NoDialogs
        BY <1>3, <1>4, EndParts DEF Refused, Calling, NoDialogs
    <2>2. EndCall(Off, "idle", Rest(Off), <<>>)
        BY <1>2, <1>4, <2>1
    <2>3. /\ Calm(Off)' /\ Out(Off)' /\ Out(Ans)' /\ Calm(Ans)' /\ wire'[Off] = Rest(Off)
          /\ wire'[Ans] = wire[Ans] \o <<Offer(0)>> /\ awaits' /\ UNCHANGED dialogs
        BY <1>1, <1>4, <2>1, <2>2, EndedAgain
    <2>4. wire'[Off] = <<>> /\ wire'[Ans] = <<Offer(0)>>
        BY <2>1, <2>3, Short
    <2>5. Leaving'
        BY <2>1, <2>3, <2>4 DEF Leaving, NoDialogs
    <2> QED
        BY <2>5 DEF Phase
<1>5. CASE e = Ans /\ Refused(Ans)
    <2>1. /\ Rest(Ans) = <<>> /\ wire[Off] = <<>> /\ state[Ans] = "calling"
          /\ track[Ans] = 0 /\ Out(Off) /\ Calm(Off) /\ NoDialogs /\ NoneHeard /\ ~awaits
        BY <1>3, <1>5, EndParts DEF Refused, Calling, NoDialogs
    <2>2. EndCall(Ans, "idle", Rest(Ans), <<>>)
        BY <1>2, <1>5, <2>1
    <2>3. /\ Calm(Off)' /\ Out(Off)' /\ Out(Ans)' /\ Calm(Ans)' /\ wire'[Ans] = Rest(Ans)
          /\ wire'[Off] = wire[Off] /\ awaits' = awaits /\ UNCHANGED <<dialogs, heard>>
        BY <1>1, <1>5, <2>1, <2>2, EndedAlone, EndParts
    <2>4. Apart'
        BY <2>1, <2>3 DEF Apart, NoDialogs, NoneHeard
    <2> QED
        BY <2>4 DEF Phase
<1>6. CASE e = Off /\ Leaving
    <2>1. /\ Out(Off) /\ Out(Ans) /\ Calm(Off) /\ Calm(Ans) /\ awaits /\ NoDialogs
        BY <1>6 DEF Leaving
    <2>2. EndCall(Off, "idle", Rest(Off), <<>>)
        BY <1>2, <1>6, <2>1 DEF Out
    <2>3. /\ Calm(Off)' /\ Out(Off)' /\ Out(Ans)' /\ Calm(Ans)' /\ wire'[Off] = Rest(Off)
          /\ wire'[Ans] = wire[Ans] /\ awaits' = awaits /\ UNCHANGED <<dialogs, heard>>
        BY <1>1, <1>6, <2>1, <2>2, EndedAlone, EndParts DEF Calm
    <2>4. \/ wire[Off] = <<Call("call-rejected")>>
          \/ wire[Off] = <<Call("call-rejected"), Answer(0)>>
        BY <1>3, <1>6, SignalParts DEF Leaving
    <2>5. \/ wire'[Off] = <<>> /\ wire[Off] = <<Call("call-rejected")>>
          \/ wire'[Off] = <<Answer(0)>> /\ wire[Off] = <<Call("call-rejected"), Answer(0)>>
        BY <1>3, <1>6, <2>3, <2>4
    <2>6. Leaving'
        <3>1. CASE wire'[Off] = <<>> /\ wire[Off] = <<Call("call-rejected")>>
            <4>1. wire[Ans] \in {<<Call("call-ended"), Offer(0)>>, <<Offer(0)>>}
                <5>1. Tail(<<Call("call-rejected"), Answer(0)>>) # <<>>
                    BY Short
                <5>2. Head(<<Call("call-rejected")>>) # Head(<<Answer(0)>>)
                    BY Short, SignalParts
                <5>3. Tail(<<Call("call-rejected")>>) = <<>>
                    BY Short
                <5>4. /\ <<Call("call-rejected")>> # <<Call("call-rejected"), Answer(0)>>
                      /\ <<Call("call-rejected")>> # <<Answer(0)>>
                    BY <5>1, <5>2, <5>3
                <5> QED
                    BY <1>6, <3>1, <5>4 DEF Leaving
            <4> QED
                BY <2>1, <2>3, <3>1, <4>1 DEF Leaving, NoDialogs
        <3>2. CASE /\ wire'[Off] = <<Answer(0)>>
                   /\ wire[Off] = <<Call("call-rejected"), Answer(0)>>
            <4>1. wire[Ans] = <<>> /\ heard[Ans] = 0
                BY <1>6, <3>2, Short DEF Leaving
            <4> QED
                BY <2>1, <2>3, <3>2, <4>1 DEF Leaving, NoDialogs
        <3> QED
            BY <2>5, <3>1, <3>2
    <2> QED
        BY <2>6 DEF Phase
<1>7. CASE e = Ans /\ Apart
    <2>1. /\ Out(Off) /\ Out(Ans) /\ Calm(Off) /\ Calm(Ans) /\ ~awaits /\ NoDialogs
          /\ NoneHeard /\ wire[Off] \in {<<>>, <<Call("call-ended")>>} /\ Rest(Ans) = <<>>
        BY <1>3, <1>7 DEF Apart
    <2>2. EndCall(Ans, "idle", Rest(Ans), <<>>)
        BY <1>2, <1>7, <2>1 DEF Out
    <2>3. /\ Calm(Off)' /\ Out(Off)' /\ Out(Ans)' /\ Calm(Ans)' /\ wire'[Ans] = Rest(Ans)
          /\ wire'[Off] = wire[Off] /\ awaits' = awaits /\ UNCHANGED <<dialogs, heard>>
        BY <1>1, <1>7, <2>1, <2>2, EndedAlone, EndParts DEF Calm
    <2>4. Apart'
        BY <2>1, <2>3 DEF Apart, NoDialogs, NoneHeard
    <2> QED
        BY <2>4 DEF Phase
<1> QED
    BY <1>1, <1>4, <1>5, <1>6, <1>7, WhoGets, EndParts

\* call-ended.
LEMMA PhaseEnded ==
    ASSUME VoiceInv, Phase, NEW e \in End, GetEnded(e)
    PROVE  Phase'
<1>1. /\ Gets(e, "call-ended") /\ Rest(e) \in Seq(Signals)
      /\ EndCall(e, "idle", Rest(e), <<>>)
    BY GetsProperties DEF GetEnded
<1>3. /\ \A m : wire[e] = <<m>> => m.type = "call-ended" /\ Rest(e) = <<>>
      /\ \A m, n : wire[e] = <<m, n>> => m.type = "call-ended" /\ Rest(e) = <<n>>
      /\ wire[e] # <<>>
    BY <1>1, RestOf
<1>4. CASE e = Ans /\ (OffEnded \/ OffCancelled \/ Leaving)
    <2>1. /\ track[Ans] \in {0, mic[Ans]} /\ Out(Off) /\ Calm(Off) /\ awaits /\ NoDialogs
        BY <1>4 DEF OffEnded, OffCancelled, Leaving, Calm, Out
    <2>2. /\ wire[Ans] = <<Call("call-ended"), Offer(0)>>
          /\ wire[Off] \in {<<>>, <<Call("call-rejected")>>}
        <3>1. OffEnded \/ OffCancelled => Wires(<<>>, <<Call("call-ended"), Offer(0)>>)
            BY DEF OffEnded, OffCancelled
        <3>2. wire[Ans] = <<Offer(0)>> => FALSE
            BY <1>3, <1>4, SignalParts
        <3>3. wire[Ans] # <<>>
            BY <1>3, <1>4
        <3> QED
            BY <1>4, <3>1, <3>2, <3>3 DEF Leaving, Wires
    <2>3. /\ Calm(Off)' /\ Out(Off)' /\ Out(Ans)' /\ Calm(Ans)' /\ wire'[Ans] = Rest(Ans)
          /\ wire'[Off] = wire[Off] /\ awaits' = awaits /\ UNCHANGED <<dialogs, heard>>
        BY <1>1, <1>4, <2>1, EndedAlone, EndParts
    <2>4. wire'[Ans] = <<Offer(0)>>
        BY <1>3, <1>4, <2>2, <2>3
    <2>5. Leaving'
        BY <2>1, <2>2, <2>3, <2>4 DEF Leaving, NoDialogs
    <2> QED
        BY <2>5 DEF Phase
<1>5. CASE e = Off /\ AnsEnded
    <2>1. /\ Rest(Off) = <<>> /\ wire[Ans] = <<>> /\ state[Off] = "active" /\ mic[Off] # 0
          /\ track[Off] = mic[Off] /\ Out(Ans) /\ Calm(Ans) /\ NoDialogs
        BY <1>3, <1>5 DEF AnsEnded, Wires, Out
    <2>3. /\ Calm(Off)' /\ Out(Off)' /\ Out(Ans)' /\ Calm(Ans)' /\ wire'[Off] = Rest(Off)
          /\ wire'[Ans] = wire[Ans] \o <<Offer(0)>> /\ awaits' /\ UNCHANGED dialogs
        BY <1>1, <1>5, <2>1, EndedAgain
    <2>4. wire'[Off] = <<>> /\ wire'[Ans] = <<Offer(0)>>
        BY <2>1, <2>3, Short
    <2>5. Leaving'
        BY <2>1, <2>3, <2>4 DEF Leaving, NoDialogs
    <2> QED
        BY <2>5 DEF Phase
<1>6. CASE e = Off /\ (AnsCancelled \/ Apart)
    <2>1. /\ Out(Ans) /\ Calm(Off) /\ Calm(Ans) /\ ~awaits /\ NoDialogs /\ NoneHeard
          /\ wire[Ans] \in {<<>>, <<Call("call-rejected")>>} /\ Rest(Off) = <<>>
        BY <1>3, <1>6 DEF AnsCancelled, Apart, Wires, Out
    <2>3. /\ Calm(Off)' /\ Out(Off)' /\ Out(Ans)' /\ Calm(Ans)' /\ wire'[Off] = Rest(Off)
          /\ wire'[Ans] = wire[Ans] /\ awaits' = awaits /\ UNCHANGED <<dialogs, heard>>
        BY <1>1, <1>6, <2>1, EndedAlone, EndParts DEF Calm
    <2>4. Apart'
        BY <2>1, <2>3 DEF Apart, NoDialogs, NoneHeard
    <2> QED
        BY <2>4 DEF Phase
<1> QED
    BY <1>1, <1>4, <1>5, <1>6, WhoGets

\* call-invite.
LEMMA PhaseInvite ==
    ASSUME VoiceInv, Phase, NEW e \in End, GetInvite(e)
    PROVE  Phase'
<1> PICK c : c = Other(e)
    OBVIOUS
<1>0. c \in End /\ e = Other(c)
    BY EndParts
<1>1. /\ Gets(e, "call-invite") /\ Rest(e) \in Seq(Signals)
      /\ UNCHANGED <<mic, plays, dialogs>>
    BY GetsProperties DEF GetInvite, Still, micVars
<1>2. Invited(c) /\ Rest(e) = <<>>
    <2>1. Invited(c)
        BY <1>1, WhoGets
    <2>2. wire[e] = <<Call("call-invite")>>
        BY <1>0, <2>1 DEF Invited
    <2> QED
        BY <1>1, <2>1, <2>2, RestOf
<1>3. /\ Calling(c) /\ Out(e) /\ dialogs[e] = <<>> /\ wire[c] = <<>>
    BY <1>0, <1>2 DEF Invited
<1>4. CASE state[e] = "idle" /\ Goes(e, "incoming") /\ Says(e, Rest(e), <<>>) /\ UNCHANGED pcVars
    <2>1. state'[e] = "incoming" /\ state'[c] = state[c]
        BY <1>4, GoesProperties, TypeSplit DEF EndType, States
    <2>s. <<>> \in Seq(Signals)
        OBVIOUS
    <2>m. PICK ms \in Seq(Signals) : ms = <<>>
        BY <2>s, Zenon
    <2>2. wire'[e] = Rest(e) /\ wire'[c] = wire[c] \o ms
        BY <1>1, <1>4, <2>m, SaysProperties, TypeSplit DEF EndType
    <2>3. wire'[e] = <<>> /\ wire'[c] = <<>>
        BY <1>2, <1>3, <2>2, <2>m, Short
    <2>4. Rung(c)'
        BY <1>0, <1>1, <1>3, <1>4, <2>1, <2>3, EndParts
            DEF Rung, Calling, Calm, NoneHeard, Wires, pcVars
    <2> QED
        BY <1>0, <2>4 DEF Phase
<1>5. CASE /\ state[e] \in {"incoming", "error"}
           /\ Says(e, Rest(e), <<Call("call-rejected")>>) /\ UNCHANGED <<state, pcVars>>
    <2>s. <<Call("call-rejected")>> \in Seq(Signals)
        BY SignalParts
    <2>m. PICK ms \in Seq(Signals) : ms = <<Call("call-rejected")>>
        BY <2>s, Zenon
    <2>2. wire'[e] = Rest(e) /\ wire'[c] = wire[c] \o ms
        BY <1>1, <1>5, <2>m, SaysProperties, TypeSplit DEF EndType
    <2>3. wire'[e] = <<>> /\ wire'[c] = <<Call("call-rejected")>>
        BY <1>2, <1>3, <2>2, <2>m, Short
    <2>4. Refused(c)'
        BY <1>0, <1>1, <1>3, <1>5, <2>3 DEF Refused, Calling, Calm, Out, NoneHeard, pcVars
    <2> QED
        BY <1>0, <2>4 DEF Phase
<1>6. state[e] \notin {"active", "requesting", "calling"}
    BY <1>3 DEF Out
<1> QED
    BY <1>4, <1>5, <1>6 DEF GetInvite

\* call-accepted: the offerer adds its track and offers, the answerer its own.
LEMMA PhaseAccepted ==
    ASSUME VoiceInv, Phase, NEW e \in End, GetAccepted(e)
    PROVE  Phase'
<1>1. /\ Gets(e, "call-accepted") /\ Rest(e) \in Seq(Signals) /\ mic[e] \in Nat
      /\ Activate(e, mic[e], Rest(e), <<>>) /\ UNCHANGED <<mic, plays, dialogs>>
    BY GetsProperties, TypeSplit DEF GetAccepted, Still, micVars, EndType, Ends
<1>s. <<>> \in Seq(Signals)
    OBVIOUS
<1>m. PICK ms \in Seq(Signals) : ms = <<>>
    BY <1>s, Zenon
<1>2. Activate(e, mic[e], Rest(e), ms)
    BY <1>1, <1>m
<1>3. CASE e = Ans /\ OffAccepted
    <2>1. /\ state[Off] = "active" /\ mic[Off] # 0 /\ mic[Ans] # 0 /\ track[Off] = mic[Off]
          /\ plays[Off] = 0 /\ plays[Ans] = 0 /\ NoneHeard /\ awaits /\ NoDialogs
          /\ wire[Off] = <<>> /\ wire[Ans] = <<Call("call-accepted"), Offer(mic[Off])>>
        BY <1>3 DEF OffAccepted, Wires
    <2>2. Activate(Ans, mic[Ans], Rest(Ans), ms) /\ Other(Ans) = Off /\ Ans \in End
        BY <1>2, <1>3, EndParts
    <2>3. /\ state'[Ans] = "active" /\ state'[Off] = state[Off] /\ wire'[Ans] = Rest(Ans)
          /\ track'[Ans] = mic[Ans] /\ track'[Off] = track[Off] /\ UNCHANGED heard
        BY <1>1, <1>3, <2>1, <2>2, ActivateNow
    <2>4. awaits' = awaits /\ wire'[Off] = wire[Off] \o ms
        BY <1>1, <1>3, <2>1, <2>2, ActivateAns
    <2>5. wire'[Off] = <<>> /\ wire'[Ans] = <<Offer(mic[Off])>>
        BY <1>1, <1>3, <1>m, <2>1, <2>3, <2>4, RestOf, Short
    <2>6. Offered'
        BY <1>1, <2>1, <2>3, <2>4, <2>5 DEF Offered, InCall, NoneHeard, NoDialogs, Wires
    <2> QED
        BY <2>6 DEF Phase
<1>4. CASE e = Off /\ AnsAccepted
    <2>1. /\ state[Ans] = "active" /\ mic[Off] # 0 /\ mic[Ans] # 0 /\ track[Ans] = mic[Ans]
          /\ plays[Off] = 0 /\ plays[Ans] = 0 /\ NoneHeard /\ NoDialogs
          /\ wire[Off] = <<Call("call-accepted")>> /\ wire[Ans] = <<>>
        BY <1>4 DEF AnsAccepted, Wires
    <2>2. Activate(Off, mic[Off], Rest(Off), ms) /\ Other(Off) = Ans /\ Off \in End
        BY <1>2, <1>4, EndParts
    <2>3. /\ state'[Off] = "active" /\ state'[Ans] = state[Ans] /\ wire'[Off] = Rest(Off)
          /\ track'[Off] = mic[Off] /\ track'[Ans] = track[Ans] /\ UNCHANGED heard
        BY <1>1, <1>4, <2>1, <2>2, ActivateNow
    <2>4. awaits' /\ wire'[Ans] = wire[Ans] \o Append(ms, Offer(mic[Off]))
        BY <1>1, <1>4, <2>1, <2>2, ActivateOff
    <2>5. wire'[Off] = <<>> /\ wire'[Ans] = <<Offer(mic[Off])>>
        BY <1>1, <1>4, <1>m, <2>1, <2>3, <2>4, RestOf, Short
    <2>6. Offered'
        BY <1>1, <2>1, <2>3, <2>4, <2>5 DEF Offered, InCall, NoneHeard, NoDialogs, Wires
    <2> QED
        BY <2>6 DEF Phase
<1> QED
    BY <1>1, <1>3, <1>4, WhoGets

\* offer: of the offerer's stream, or of none.
LEMMA PhaseOffer ==
    ASSUME VoiceInv, Phase, GetOffer
    PROVE  Phase'
<1> PICK n : n = Head(wire[Ans]).audio
    OBVIOUS
<1>1. /\ n \in Nat /\ Gets(Ans, "offer") /\ Hears(Ans, n) /\ UNCHANGED awaits
      /\ wire'[Ans] = Rest(Ans) /\ Ans \in End /\ Other(Ans) = Off
      /\ wire'[Off] = wire[Off] \o <<Answer(IF n = 0 THEN 0 ELSE track[Ans])>>
    BY OfferProperties, EndParts
<1>2. /\ heard'[Ans] = n /\ heard'[Off] = heard[Off]
      /\ state'[Off] = state[Off] /\ plays'[Off] = plays[Off]
      /\ UNCHANGED <<mic, dialogs, track>>
    BY <1>1, HearsProperties
<1>3. CASE Offered
    <2>1. /\ wire[Ans] = <<Offer(mic[Off])>> /\ wire[Off] = <<>> /\ InCall /\ NoneHeard
          /\ plays[Off] = 0 /\ awaits
        BY <1>3 DEF Offered, Wires
    <2>2. n = mic[Off] /\ n # 0 /\ track[Ans] = mic[Ans] /\ heard[Ans] = 0 /\ heard[Off] = 0
        BY <2>1, Short, SignalParts DEF InCall, NoneHeard
    <2>3. state'[Ans] = "active" /\ plays'[Ans] = n
        BY <1>1, <2>2, HearsProperties
    <2>4. wire'[Ans] = <<>> /\ wire'[Off] = <<Answer(mic[Ans])>>
        BY <1>1, <2>1, <2>2, RestOf, Short
    <2>5. Answered'
        BY <1>1, <1>2, <2>1, <2>2, <2>3, <2>4 DEF Answered, InCall, NoDialogs, Wires
    <2> QED
        BY <2>5 DEF Phase
<1>4. CASE Leaving
    <2>1. /\ wire[Ans] = <<Offer(0)>> /\ wire[Off] \in {<<>>, <<Call("call-rejected")>>}
          /\ Out(Off) /\ Out(Ans) /\ Calm(Off) /\ Calm(Ans) /\ awaits /\ NoDialogs
        <3>1. wire[Ans] # <<>> /\ wire[Ans] # <<Call("call-ended"), Offer(0)>>
            BY <1>1, RestOf, SignalParts
        <3> QED
            BY <1>4, <3>1 DEF Leaving
    <2>2. n = 0
        BY <2>1, Short, SignalParts
    <2>3. state'[Ans] = state[Ans] /\ plays'[Ans] = plays[Ans]
        BY <1>1, <2>2, HearsProperties
    <2>4. wire'[Ans] = <<>> /\ wire'[Off] = wire[Off] \o <<Answer(0)>>
        BY <1>1, <2>1, <2>2, RestOf
    <2>5. wire'[Off] \in {<<Call("call-rejected"), Answer(0)>>, <<Answer(0)>>}
        <3>1. /\ <<Call("call-rejected")>> \o <<Answer(0)>> = <<Call("call-rejected"), Answer(0)>>
              /\ <<>> \o <<Answer(0)>> = <<Answer(0)>>
            BY Short, Zenon
        <3>2. CASE wire[Off] = <<>>
            BY <2>4, <3>1, <3>2
        <3>3. CASE wire[Off] = <<Call("call-rejected")>>
            BY <2>4, <3>1, <3>3
        <3> QED
            BY <2>1, <3>2, <3>3
    <2>6. Out(Off)' /\ Out(Ans)' /\ Calm(Off)' /\ Calm(Ans)'
        BY <1>2, <2>1, <2>3 DEF Out, Calm
    <2>7. Leaving'
        BY <1>1, <1>2, <2>1, <2>2, <2>4, <2>5, <2>6 DEF Leaving, NoDialogs
    <2> QED
        BY <2>7 DEF Phase
<1> QED
    BY <1>1, <1>3, <1>4, WhoGets

\* answer.
LEMMA PhaseAnswer ==
    ASSUME VoiceInv, Phase, GetAnswer
    PROVE  Phase'
<1> PICK n : n = IF awaits THEN Head(wire[Off]).audio ELSE heard[Off]
    OBVIOUS
<1>1. /\ n \in Nat /\ Gets(Off, "answer") /\ Hears(Off, n) /\ ~awaits'
      /\ wire'[Off] = Rest(Off) /\ wire'[Ans] = wire[Ans] /\ Off \in End /\ Other(Off) = Ans
    BY AnswerProperties, EndParts
<1>2. /\ heard'[Off] = n /\ heard'[Ans] = heard[Ans]
      /\ state'[Ans] = state[Ans] /\ plays'[Ans] = plays[Ans]
      /\ UNCHANGED <<mic, dialogs, track>>
    BY <1>1, HearsProperties
<1>3. CASE Answered
    <2>1. /\ wire[Off] = <<Answer(mic[Ans])>> /\ wire[Ans] = <<>> /\ InCall /\ heard[Off] = 0
          /\ plays[Ans] = mic[Off] /\ awaits
        BY <1>3 DEF Answered, Wires
    <2>2. n = mic[Ans] /\ n # 0
        BY <2>1, Short, SignalParts DEF InCall
    <2>3. state'[Off] = "active" /\ plays'[Off] = n
        BY <1>1, <2>1, <2>2, HearsProperties
    <2>4. wire'[Off] = <<>>
        BY <1>1, <2>1, RestOf
    <2>5. Talking'
        BY <1>1, <1>2, <2>1, <2>2, <2>3, <2>4 DEF Talking, InCall, NoDialogs, Wires
    <2> QED
        BY <2>5 DEF Phase
<1>4. CASE Leaving
    <2>1. wire[Off] = <<Answer(0)>> /\ wire[Ans] = <<>> /\ heard[Ans] = 0
        <3>1. /\ wire[Off] # <<>> /\ wire[Off] # <<Call("call-rejected"), Answer(0)>>
              /\ wire[Off] # <<Call("call-rejected")>>
            BY <1>1, RestOf, SignalParts
        <3> QED
            BY <1>4, <3>1 DEF Leaving
    <2>2. /\ Out(Off) /\ Out(Ans) /\ Calm(Off) /\ Calm(Ans) /\ awaits /\ NoDialogs
        BY <1>4 DEF Leaving
    <2>3. n = 0
        BY <2>1, <2>2, Short, SignalParts
    <2>4. state'[Off] = state[Off] /\ plays'[Off] = plays[Off]
        BY <1>1, <2>3, HearsProperties
    <2>5. wire'[Off] = <<>>
        BY <1>1, <2>1, RestOf
    <2>6. Out(Off)' /\ Out(Ans)' /\ Calm(Off)' /\ Calm(Ans)'
        BY <1>2, <2>2, <2>4 DEF Out, Calm
    <2>7. Apart'
        BY <1>1, <1>2, <2>1, <2>2, <2>3, <2>5, <2>6 DEF Apart, NoDialogs, NoneHeard
    <2> QED
        BY <2>7 DEF Phase
<1> QED
    BY <1>1, <1>3, <1>4, WhoGets

-----------------------------------------------------------------------------
(***************************************************************************)
(* Every step keeps the order.                                             *)
(***************************************************************************)
LEMMA OrderedInit == Init => OrderedInv
<1> SUFFICES ASSUME Init, ~raced PROVE Sound /\ Phase
    BY DEF OrderedInv
<1>1. PICK direct \in BOOLEAN : raced = direct /\ pending = [e \in End |-> direct]
    BY DEF Init
<1>2. \A e \in End : ~pending[e]
    BY <1>1
<1>3. \A e \in End : leaked[e] = 0 /\ ~muted[e]
    BY DEF Init
<1>4. /\ \A e \in End : state[e] = "idle" /\ mic[e] = 0 /\ track[e] = 0 /\ plays[e] = 0
      /\ ~awaits
    BY DEF Init
<1>5. \A e \in End : heard[e] = 0 /\ wire[e] = <<>> /\ dialogs[e] = <<>>
    BY DEF Init
<1>6. Apart
    BY <1>4, <1>5, EndParts DEF Apart, Out, Calm, NoneHeard, NoDialogs
<1> QED
    BY <1>2, <1>3, <1>6 DEF Sound, Phase

\* One end's streams after a step of e.
LEMMA SoundKeeps ==
    ASSUME VoiceInv, Sound, NEW e \in End,
           leaked'[e] = 0, ~pending'[e], muted'[e] => ~enabled'[e] /\ mic'[e] # 0,
           leaked'[Other(e)] = leaked[Other(e)], pending'[Other(e)] = pending[Other(e)],
           muted'[Other(e)] = muted[Other(e)], enabled'[Other(e)] = enabled[Other(e)],
           mic'[Other(e)] = mic[Other(e)]
    PROVE  Sound'
<1> PICK x : x = Other(e)
    OBVIOUS
<1>1. x \in End /\ \A y \in End : y = e \/ y = x
    BY EndParts
<1>2. leaked[x] = 0 /\ ~pending[x] /\ (muted[x] => ~enabled[x] /\ mic[x] # 0)
    BY <1>1 DEF Sound
<1>3. leaked'[x] = 0 /\ ~pending'[x] /\ (muted'[x] => ~enabled'[x] /\ mic'[x] # 0)
    BY <1>2
<1> QED
    BY <1>1, <1>3 DEF Sound

LEMMA SoundSame ==
    ASSUME Sound, UNCHANGED <<leaked, pending, muted, enabled, mic>>
    PROVE  Sound'
BY DEF Sound

LEMMA SoundEnd ==
    ASSUME VoiceInv, Sound, NEW e \in End, NEW s \in States, NEW in \in Seq(Signals),
           NEW ms \in Seq(Signals), EndCall(e, s, in, ms), UNCHANGED pending
    PROVE  Sound'
<1>1. /\ leaked' = leaked /\ ~muted'[e]
      /\ muted'[Other(e)] = muted[Other(e)] /\ enabled'[Other(e)] = enabled[Other(e)]
      /\ mic'[Other(e)] = mic[Other(e)]
    BY EndCallProperties
<1>2. leaked'[e] = 0 /\ ~pending'[e]
    BY <1>1 DEF Sound
<1> QED
    BY <1>1, <1>2, SoundKeeps

\* A stream is got only by an end that has none.
LEMMA SoundGranted ==
    ASSUME VoiceInv, Sound, Phase, NEW e \in End, Granted(e)
    PROVE  Sound'
<1>1. /\ dialogs[e] # <<>>
      /\ leaked'[e] = (IF mic[e] # 0 THEN leaked[e] + 1 ELSE leaked[e])
      /\ leaked'[Other(e)] = leaked[Other(e)] /\ enabled'[Other(e)] = enabled[Other(e)]
      /\ mic'[Other(e)] = mic[Other(e)] /\ UNCHANGED muted /\ UNCHANGED pending
    BY GrantedProperties DEF netVars
<1>2. mic[e] = 0
    BY <1>1, WhoWaits, EndParts DEF Asking, Accepting, Calling, Calm
<1>3. leaked'[e] = 0 /\ ~pending'[e] /\ ~muted'[e]
    BY <1>1, <1>2 DEF Sound
<1> QED
    BY <1>1, <1>3, SoundKeeps

LEMMA OrderedStep == VoiceInv /\ OrderedInv /\ [Next]_vars => OrderedInv'
<1> SUFFICES ASSUME VoiceInv, OrderedInv, [Next]_vars, ~raced' PROVE Sound' /\ Phase'
    BY DEF OrderedInv
<1>0. ~raced
    BY TypeSplit DEF NetType, Next, vars
<1>1. Sound /\ Phase
    BY <1>0 DEF OrderedInv
<1>2. /\ \A e \in End : wire[e] \in Seq(Signals)
      /\ <<>> \in Seq(Signals) /\ <<Call("call-rejected")>> \in Seq(Signals)
      /\ <<Call("call-ended")>> \in Seq(Signals) /\ "idle" \in States
    BY TypeSplit, SignalParts DEF EndType, Ends, States
<1>3. ASSUME UNCHANGED phaseVars, UNCHANGED <<leaked, pending, muted, enabled>>
      PROVE  Sound' /\ Phase'
    BY <1>1, <1>3, PhaseSame, SoundSame DEF phaseVars
<1>4. CASE UNCHANGED vars
    BY <1>3, <1>4 DEF vars, uiVars, micVars, pcVars, netVars, phaseVars
<1>5. ASSUME NEW e \in End, StartCall(e) \/ AcceptCall(e), Quiet
      PROVE  Sound' /\ Phase'
    <2>1. PICK f \in Asked : Asks(e, f)
        BY <1>5 DEF StartCall, AcceptCall, Asked
    <2>2. UNCHANGED <<leaked, pending, muted, enabled, mic>>
        BY <1>5, <2>1 DEF Asks, StartCall, AcceptCall, micVars, netVars
    <2> QED
        BY <1>1, <1>5, <2>2, SoundSame, PhaseStart, PhaseAccept
<1>6. ASSUME NEW e \in End, PressEnd(e), Quiet
      PROVE  Sound' /\ Phase'
    <2>1. EndCall(e, "idle", wire[e], <<Call("call-ended")>>) /\ UNCHANGED pending
        BY <1>6 DEF PressEnd, netVars
    <2> QED
        BY <1>1, <1>2, <1>6, <2>1, SoundEnd, PhasePress
<1>7. ASSUME NEW e \in End, RejectCall(e)
      PROVE  Sound' /\ Phase'
    <2>1. EndCall(e, "idle", wire[e], <<Call("call-rejected")>>) /\ UNCHANGED pending
        BY <1>7 DEF RejectCall, netVars
    <2> QED
        BY <1>1, <1>2, <1>7, <2>1, SoundEnd, PhaseReject
<1>8. ASSUME NEW e \in End, ToggleMute(e)
      PROVE  Sound' /\ Phase'
    <2>1. /\ muted' = [muted EXCEPT ![e] = ~@] /\ enabled' = [enabled EXCEPT ![e] = muted[e]]
          /\ mic[e] # 0 /\ UNCHANGED <<leaked, mic, pending>> /\ UNCHANGED phaseVars
        BY <1>8 DEF ToggleMute, pcVars, netVars, phaseVars
    <2>2. muted \in [End -> BOOLEAN] /\ enabled \in [End -> BOOLEAN]
        BY TypeSplit DEF EndType, Ends
    <2>3. /\ muted'[e] = ~muted[e] /\ muted'[Other(e)] = muted[Other(e)]
          /\ enabled'[e] = muted[e] /\ enabled'[Other(e)] = enabled[Other(e)]
        BY <2>1, <2>2, EndParts
    <2>4. /\ leaked'[e] = 0 /\ ~pending'[e] /\ mic'[e] # 0
          /\ muted'[e] => ~enabled'[e]
        BY <1>1, <2>1, <2>2, <2>3 DEF Sound
    <2> QED
        BY <1>1, <2>1, <2>3, <2>4, PhaseSame, SoundKeeps
<1>9. ASSUME NEW e \in End, Granted(e)
      PROVE  Sound' /\ Phase'
    BY <1>1, <1>9, SoundGranted, PhaseGranted
<1>10. ASSUME NEW e \in End, Denied(e)
      PROVE  Sound' /\ Phase'
    <2>1. UNCHANGED <<leaked, pending, muted, enabled, mic>>
        BY <1>10 DEF Denied, micVars, netVars
    <2> QED
        BY <1>1, <1>10, <2>1, SoundSame, PhaseDenied
<1>11. ASSUME NEW e \in End, GetInvite(e) \/ GetAccepted(e)
      PROVE  Sound' /\ Phase'
    <2>1. UNCHANGED <<leaked, pending, muted, enabled, mic>>
        BY <1>11 DEF GetInvite, GetAccepted, Still, micVars, netVars
    <2> QED
        BY <1>1, <1>11, <2>1, SoundSame, PhaseInvite, PhaseAccepted
<1>12. ASSUME NEW e \in End, GetRejected(e) \/ GetEnded(e)
      PROVE  Sound' /\ Phase'
    <2>1. Rest(e) \in Seq(Signals) /\ UNCHANGED pending
        BY <1>12, GetsProperties DEF GetRejected, GetEnded, netVars
    <2>2. \/ EndCall(e, "idle", Rest(e), <<>>)
          \/ UNCHANGED <<leaked, muted, enabled, mic>>
        BY <1>12 DEF GetRejected, GetEnded, Still, micVars
    <2>3. Sound'
        BY <1>1, <1>2, <2>1, <2>2, SoundSame, SoundEnd
    <2> QED
        BY <1>1, <1>12, <2>3, PhaseRejected, PhaseEnded
<1>13. ASSUME NEW e \in End, Connects(e) \/ Blips(e)
      PROVE  Sound' /\ Phase'
    <2>1. ~pending[e] /\ \A x \in End : ~pending[x]
        BY <1>1 DEF Sound
    <2>2. /\ UNCHANGED <<uiVars, dialogs, streams, pcVars, wire>>
          /\ pending' = pending \/ pending' = [pending EXCEPT ![e] = FALSE]
        BY <1>13, <2>1 DEF Connects, Blips
    <2>3. UNCHANGED phaseVars /\ UNCHANGED <<leaked, muted, enabled, mic>>
        BY <2>2 DEF uiVars, micVars, pcVars, phaseVars
    <2>4. pending \in [End -> BOOLEAN]
        BY TypeSplit DEF NetType, Ends
    <2>5. \A x \in End : ~pending'[x]
        BY <2>1, <2>2, <2>4
    <2>6. Sound'
        BY <1>1, <2>3, <2>5 DEF Sound
    <2> QED
        BY <1>1, <2>3, <2>6, PhaseSame
<1>14. CASE GetOffer \/ GetAnswer
    <2>1. UNCHANGED <<leaked, pending, muted, enabled, mic>>
        BY <1>14 DEF GetOffer, GetAnswer, Hears, micVars, netVars
    <2> QED
        BY <1>1, <1>14, <2>1, SoundSame, PhaseOffer, PhaseAnswer
<1>15. ASSUME NEW e \in End, \/ StartCall(e) \/ PressEnd(e) \/ AcceptCall(e), raced' = (raced \/ ~Quiet)
      PROVE  Sound' /\ Phase'
    <2>1. Quiet
        BY <1>15
    <2> QED
        BY <1>5, <1>6, <1>15, <2>1
<1>16. ASSUME NEW e \in End, Signal(e) \/ Dialog(e) PROVE Sound' /\ Phase'
    BY <1>9, <1>10, <1>11, <1>12, <1>16 DEF Signal, Dialog
<1> QED
    BY <1>4, <1>7, <1>8, <1>13, <1>14, <1>15, <1>16 DEF Next

LEMMA VoiceSpecInv == Spec => [](VoiceInv /\ OrderedInv /\ IdleIsOff)
BY VoiceInit, VoiceStep, OrderedInit, OrderedStep, OffInit, OffStep, PTL DEF Spec

\* Both ends are in no call, or ring for each other, or talk.
LEMMA AtRest ==
    ASSUME OrderedInv, ~raced, Quiet
    PROVE  Apart \/ (\E e \in End : Rung(e)) \/ Talking
BY WhenQuiet DEF OrderedInv

\* When nothing is on its way the ends show the same call, or none: the
\* caller's and the callee's signals, crossing or not, cannot leave one ringing
\* for an end that has gone (useVoice.js, handleCallSignal and endCall).
THEOREM CallsAgree == Spec => []AgreeAtRest
<1>1. OrderedInv => AgreeAtRest
    <2> SUFFICES ASSUME OrderedInv, Rests PROVE Fits(state[Off], state[Ans])
        BY DEF AgreeAtRest, Off, Ans
    <2>1. CASE Apart
        BY <2>1 DEF Apart, Out, Fits
    <2>2. CASE \E e \in End : Rung(e)
        BY <2>2, EndParts DEF Rung, Calling, Fits
    <2>3. CASE Talking
        BY <2>3 DEF Talking, InCall, Fits
    <2> QED
        BY <2>1, <2>2, <2>3, AtRest DEF Rests
<1> QED
    BY <1>1, VoiceSpecInv, PTL

\* The two of a call hear each other: the track of the answerer is in its
\* answer, and the offerer offers again when it has its own (_activateCall).
THEOREM CallIsHeard == Spec => []BothHear
<1>1. OrderedInv => BothHear
    <2> SUFFICES ASSUME OrderedInv, Rests, \A e \in End : state[e] = "active"
                 PROVE  \A e \in End : mic[e] # 0 /\ plays[e] = mic[Other(e)]
        BY DEF BothHear
    <2>1. ~Apart
        BY EndParts DEF Apart, Out
    <2>2. ASSUME NEW e \in End PROVE ~Rung(e)
        BY EndParts DEF Rung, Calling
    <2>3. Talking
        BY <2>1, <2>2, AtRest DEF Rests
    <2> QED
        BY <2>3, EndParts DEF Talking, InCall
<1> QED
    BY <1>1, VoiceSpecInv, PTL

\* Which phase an end without a call is in.
LEMMA OutIsCalm ==
    ASSUME Phase, NEW e \in End, Out(e)
    PROVE  Calm(e)
<1>1. e = Off \/ e = Ans
    BY EndParts
<1>2. ASSUME NEW c \in End, Asking(c) \/ Invited(c) \/ Rung(c) \/ Accepting(c) \/ Refused(c)
      PROVE  Calm(e)
    <2>1. CASE e = c
        BY <1>2, <2>1 DEF Asking, Invited, Rung, Accepting, Refused, Calling, Out
    <2>2. CASE e = Other(c)
        BY <1>2, <2>2 DEF Asking, Invited, Rung, Accepting, Refused, Calling
    <2> QED
        BY <2>1, <2>2, EndParts
<1>3. ~(OffAccepted \/ AnsAccepted \/ Offered \/ Answered \/ Talking)
    BY <1>1 DEF OffAccepted, AnsAccepted, Offered, Answered, Talking, InCall, Out
<1>4. (OffEnded \/ AnsEnded \/ OffCancelled \/ Leaving \/ AnsCancelled \/ Apart) => Calm(e)
    BY <1>1 DEF OffEnded, AnsEnded, OffCancelled, Leaving, AnsCancelled, Apart, Out
<1> QED
    BY <1>2, <1>3, <1>4 DEF Phase

\* Without a call the microphone is off and nobody is heard, whatever has
\* ended the call (endCall, and the state that _requestMicrophone leaves).
THEOREM MicrophoneIsReleased == Spec => []Released
<1>1. OrderedInv /\ IdleIsOff => Released
    <2> SUFFICES ASSUME OrderedInv, IdleIsOff, NEW e \in End
                 PROVE  /\ (state[e] = "idle" /\ dialogs[e] = <<>>) => mic[e] = 0
                        /\ (~raced /\ state[e] \in {"idle", "error"})
                                => (mic[e] = 0 /\ plays[e] = 0)
        BY DEF Released
    <2>1. state[e] = "idle" /\ dialogs[e] = <<>> => mic[e] = 0
        BY DEF IdleIsOff
    <2>2. ASSUME ~raced, state[e] \in {"idle", "error"} PROVE mic[e] = 0 /\ plays[e] = 0
        BY <2>2, OutIsCalm DEF OrderedInv, Out, Calm
    <2> QED
        BY <2>1, <2>2
<1> QED
    BY <1>1, VoiceSpecInv, PTL

\* The track in the peer connection is the one of the present stream.
LEMMA TrackIsMic ==
    ASSUME Phase, NEW e \in End
    PROVE  track[e] \in {0, mic[e]}
<1>1. e = Off \/ e = Ans
    BY EndParts
<1>2. ASSUME NEW c \in End, Asking(c) \/ Invited(c) \/ Rung(c) \/ Accepting(c) \/ Refused(c)
      PROVE  track[e] = 0
    <2>1. CASE e = c
        BY <1>2, <2>1 DEF Asking, Invited, Rung, Accepting, Refused, Calling, Calm
    <2>2. CASE e = Other(c)
        BY <1>2, <2>2 DEF Asking, Invited, Rung, Accepting, Refused, Calling, Calm
    <2> QED
        BY <2>1, <2>2, EndParts
<1>3. (OffAccepted \/ AnsAccepted \/ Offered \/ Answered \/ Talking) => track[e] \in {0, mic[e]}
    BY <1>1 DEF OffAccepted, AnsAccepted, Offered, Answered, Talking, InCall
<1>4. (OffEnded \/ AnsEnded \/ OffCancelled \/ Leaving \/ AnsCancelled \/ Apart)
            => track[e] \in {0, mic[e]}
    BY <1>1 DEF OffEnded, AnsEnded, OffCancelled, Leaving, AnsCancelled, Apart, Calm
<1> QED
    BY <1>2, <1>3, <1>4 DEF Phase

\* No stream runs on behind another, none but the present one is sent, and not
\* while the user is told that he is muted (localStreamRef, toggleMute).
THEOREM OneStreamAtATime == Spec => []OneStream
<1>1. OrderedInv => OneStream
    BY TrackIsMic DEF OrderedInv, Sound, OneStream
<1> QED
    BY <1>1, VoiceSpecInv, PTL

=============================================================================
