--------------------------- MODULE PresenceProofs ---------------------------
(***************************************************************************)
(* Proofs about Presence: it implements SSEBroker, so what is proved of    *)
(* the broker holds of it, too.                                            *)
(***************************************************************************)
EXTENDS Presence, SSEProofs, SeqLemmas, FiniteSetTheorems

\* A step of Presence is a step of the broker, or leaves the broker alone.
LEMMA StepOfBroker == [PNext]_pvars => [Next]_vars
<1> SUFFICES ASSUME [PNext]_pvars PROVE [Next]_vars
    OBVIOUS
<1>1. ASSUME NEW p \in Publishers, Friend(p) PROVE [Next]_vars
    <2>1. CASE \E new \in Statuses : Write(p, new)
        BY <2>1 DEF Write
    <2>2. CASE Notify(p)
        BY <2>2 DEF Notify, Next, Publisher
    <2>3. CASE NotifyLookup(p)
        BY <2>3 DEF NotifyLookup, Next, Publisher
    <2>4. CASE NotifySend(p)
        BY <2>4 DEF NotifySend, Next, Publisher
    <2>5. CASE NotifyRecover(p)
        BY <2>5 DEF NotifyRecover, Next, Publisher
    <2> QED
        BY <1>1, <2>1, <2>2, <2>3, <2>4, <2>5 DEF Friend, FriendTells
<1>2. CASE IPUpdate
    BY <1>2 DEF IPUpdate
<1>3. ASSUME NEW s \in Streams, ViewerStream(s) PROVE [Next]_vars
    <2>1. CASE Connect(s) \/ ConnectOther(s)
        BY <2>1, ViewerAssumption DEF Connect, ConnectOther, Next, Stream
    <2>2. CASE ConnLost(s)
        BY <2>2 DEF ConnLost
    <2>3. CASE Event(s)
        BY <2>3 DEF Event, Next, Stream
    <2>4. CASE StreamDone(s)
        BY <2>4 DEF StreamDone, Next, Stream
    <2>5. CASE StreamCleanup(s)
        BY <2>5 DEF StreamCleanup, Next, Stream
    <2> QED
        BY <1>3, <2>1, <2>2, <2>3, <2>4, <2>5 DEF ViewerStream
<1>4. CASE List
    BY <1>4 DEF List, Start, Stop, Fetch, ServeContacts, GetContacts
<1>5. CASE UNCHANGED pvars
    BY <1>5 DEF pvars
<1> QED
    BY <1>1, <1>2, <1>3, <1>4, <1>5 DEF PNext

\* Presence implements the broker: the requests of the friend and the streams
\* of the viewer do to it what SSEBroker allows, and nothing else does.
THEOREM PresenceUsesBroker == PSpec => UsesBroker
<1>1. PInit => Init
    BY DEF PInit
<1> QED
    BY <1>1, StepOfBroker, PTL DEF PSpec, UsesBroker, Spec

\* The invariants of the broker hold with a viewer and a friend around it.
LEMMA BrokerInvariant == PSpec => []Inv
BY PresenceUsesBroker, Invariant, PTL DEF UsesBroker

\* The newest stream of a user stays subscribed while tabs connect, lose their
\* stream and connect again in any order.
THEOREM ViewerStaysSubscribed == PSpec => []NewestIsSubscribed
<1>1. Inv => NewestIsSubscribed
    BY DEF Inv
<1> QED
    BY <1>1, BrokerInvariant, PTL

\* The map never names a closed channel, whatever the tab and its streams do.
THEOREM ViewerEntryIsOpen == PSpec => []EntryIsOpen
<1>1. Inv => EntryIsOpen
    BY DEF Inv, TypeOK, EntryIsOpen, NewestIsOwn, NewestIsSubscribed
<1> QED
    BY <1>1, BrokerInvariant, PTL

-----------------------------------------------------------------------------
(***************************************************************************)
(* The types of what surrounds the broker, and the events in a channel.    *)
(***************************************************************************)
Answered == [status : Statuses, late : BOOLEAN]
TabTypes ==
    /\ status \in Statuses
    /\ doing \in [Publishers -> Statuses \cup {"none"}]
    /\ line \in [Streams -> Seq(Statuses)]
    /\ user \in BOOLEAN /\ astray \in BOOLEAN /\ crossed \in BOOLEAN
    /\ linked \subseteq Streams
    /\ asked \in 0..MaxAnswers
    /\ answers \subseteq Answered
    /\ shown \in Statuses \cup {"none"}

\* The broker counts the events of a channel.
Counted == \A s \in Streams : stream[s] # "none" => Len(line[s]) = held[s]

\* The stream of the tab is running, and there is one at most; a request that
\* publishes is about an event.
LinkedRuns ==
    /\ \A s \in linked : s \in Streams /\ stream[s] = "running"
    /\ \A s, t \in linked : s = t
DoingIsKnown == \A p \in Publishers : at[p] \in {"look", "send"} => doing[p] # "none"

TabInv == TabTypes /\ Counted /\ LinkedRuns /\ DoingIsKnown

\* There are finitely many answers.
LEMMA AnswersFinite ==
    ASSUME NEW S \in SUBSET Answered
    PROVE  IsFiniteSet(S) /\ Cardinality(S) \in Nat
<1> DEFINE R(a, b) == [status |-> a, late |-> b]
           F == {R("online", TRUE), R("online", FALSE), R("offline", TRUE), R("offline", FALSE)}
<1>1. ASSUME NEW a \in Answered PROVE a \in F
    <2>1. a = R(a.status, a.late) /\ a.status \in Statuses /\ a.late \in BOOLEAN
        BY DEF Answered
    <2>2. a.status = "online" \/ a.status = "offline"
        BY <2>1 DEF Statuses
    <2>3. a.late = TRUE \/ a.late = FALSE
        BY <2>1
    <2> QED
        BY <2>1, <2>2, <2>3
<1>2. IsFiniteSet(F)
    <2>1. IsFiniteSet({R("online", TRUE)} \cup {R("online", FALSE)}
                        \cup ({R("offline", TRUE)} \cup {R("offline", FALSE)}))
        BY FS_Singleton, FS_Union
    <2>2. F = {R("online", TRUE)} \cup {R("online", FALSE)}
                    \cup ({R("offline", TRUE)} \cup {R("offline", FALSE)})
        OBVIOUS
    <2> QED
        BY <2>1, <2>2
<1>3. IsFiniteSet(S)
    BY <1>1, <1>2, FS_Subset
<1> QED
    BY <1>3, FS_CardinalityType

LEMMA OutdatedType == answers \subseteq Answered => Outdated \subseteq Answered /\ \A a \in Outdated : a.late
BY DEF Answered, Outdated

LEMMA MissType == TabTypes /\ Miss => answers' \subseteq Answered /\ astray' /\ crossed' \in BOOLEAN
BY OutdatedType DEF TabTypes, Miss

LEMMA TabInit == PInit => TabInv
<1> SUFFICES ASSUME PInit PROVE TabInv
    OBVIOUS
<1>1. /\ status = "offline" /\ doing = [p \in Publishers |-> "none"]
      /\ line = [s \in Streams |-> <<>>] /\ user = FALSE /\ linked = {}
      /\ asked = 0 /\ answers = {} /\ shown = "none" /\ astray = FALSE /\ crossed = FALSE
    BY DEF PInit
<1>2. asked \in 0..MaxAnswers /\ line \in [Streams -> Seq(Statuses)]
    BY <1>1, MaxAnswersAssumption
<1>3. TabTypes
    BY <1>1, <1>2 DEF TabTypes, Statuses
<1> QED
    BY <1>1, <1>3 DEF TabInv, Counted, LinkedRuns, DoingIsKnown, PInit, Init

\* NotifySend puts the event into the channel that was looked up, or nowhere.
LEMMA SendPuts ==
    ASSUME Inv, TabInv, NEW p \in Publishers, NotifySend(p)
    PROVE  LET s == ch[p]
               put == s # None /\ chan[s] = "open" /\ held[s] < Buffer
           IN  /\ put => /\ s \in Streams /\ line' = [line EXCEPT ![s] = Append(@, doing[p])]
                         /\ held' = [held EXCEPT ![s] = @ + 1]
               /\ ~put => UNCHANGED <<line, held>>
               /\ doing[p] \in Statuses /\ at[p] = "send" /\ todo[p] # <<>>
               /\ UNCHANGED <<subs, stream, owner, chan, latest, status, user, linked, asked, shown>>
<1>1. at[p] = "send" /\ Send(p) /\ doing[p] \in Statuses /\ todo[p] # <<>>
    BY DEF NotifySend, Send, TabInv, TabTypes, DoingIsKnown, Inv, HasTodo
<1>2. ch[p] \in Streams \cup {None} /\ chan \in [Streams -> {"open", "closed"}]
    BY DEF Inv, TypeOK
<1>3. UNCHANGED <<subs, stream, owner, chan, latest, status, user, linked, asked, shown>>
    BY <1>1 DEF NotifySend, Send, streamVars, tabVars
<1>4. CASE ch[p] # None /\ chan[ch[p]] = "open" /\ held[ch[p]] < Buffer
    <2>1. line' = [line EXCEPT ![ch[p]] = Append(@, doing[p])]
        BY <1>4 DEF NotifySend
    <2>2. held' = [held EXCEPT ![ch[p]] = @ + 1]
        BY <1>1, <1>2, <1>4 DEF Send, Deliver
    <2> QED
        BY <1>1, <1>2, <1>3, <1>4, <2>1, <2>2
<1>5. CASE ~(ch[p] # None /\ chan[ch[p]] = "open" /\ held[ch[p]] < Buffer)
    <2>1. line' = line
        BY <1>5 DEF NotifySend
    <2>2. held' = held
        BY <1>1, <1>2, <1>5 DEF Send, Deliver
    <2> QED
        BY <1>1, <1>3, <1>5, <2>1, <2>2
<1> QED
    BY <1>4, <1>5

LEMMA TabFriend ==
    ASSUME Inv, TabInv, NEW p \in Publishers, Friend(p)
    PROVE  TabInv'
<1> USE DEF TabInv
<1>0. TabTypes /\ at \in [Publishers -> {"idle", "look", "send", "panicked"}]
    BY DEF Inv, TypeOK
<1>1. CASE \E new \in Statuses : Write(p, new)
    <2>1. PICK new \in Statuses : Write(p, new)
        BY <1>1
    <2>2. /\ doing' = [doing EXCEPT ![p] = new] /\ status' = new /\ at[p] = "idle"
          /\ UNCHANGED <<vars, line, tabVars, asked, shown>>
          /\ Miss \/ UNCHANGED <<answers, ghostVars>>
        BY <2>1 DEF Write
    <2>3. answers' \subseteq Answered /\ astray' \in BOOLEAN /\ crossed' \in BOOLEAN
        BY <1>0, <2>2, MissType DEF TabTypes, ghostVars
    <2>4. TabTypes'
        BY <1>0, <2>2, <2>3 DEF TabTypes, tabVars, Statuses
    <2> QED
        BY <1>0, <2>2, <2>4
            DEF Counted, LinkedRuns, DoingIsKnown, vars, streamVars, pubVars, tabVars, TabTypes, Statuses
<1>2. CASE Notify(p)
    <2>1. /\ at' = [at EXCEPT ![p] = "look"] /\ doing[p] # "none" /\ UNCHANGED <<streamVars, held>>
          /\ UNCHANGED <<friendVars, line, tabVars, listVars, ghostVars>>
        BY <1>2 DEF Notify, Request
    <2> QED
        BY <1>0, <2>1 DEF Counted, LinkedRuns, DoingIsKnown, TabTypes, streamVars,
                          friendVars, tabVars, listVars, ghostVars
<1>3. CASE NotifyLookup(p) \/ NotifyRecover(p)
    <2>1. /\ UNCHANGED <<streamVars, held>>
          /\ UNCHANGED <<friendVars, line, tabVars, listVars, ghostVars>>
          /\ \/ at' = [at EXCEPT ![p] = "send"] /\ at[p] = "look"
             \/ at' = [at EXCEPT ![p] = "idle"]
        BY <1>3 DEF NotifyLookup, NotifyRecover, Lookup, Recover
    <2> QED
        BY <1>0, <2>1 DEF Counted, LinkedRuns, DoingIsKnown, TabTypes, streamVars,
                          friendVars, tabVars, listVars, ghostVars
<1>4. CASE NotifySend(p)
    <2> PICK s : s = ch[p]
        OBVIOUS
    <2>1. /\ doing[p] \in Statuses
          /\ UNCHANGED <<stream, status, user, linked, asked, shown>>
          /\ \/ /\ s \in Streams /\ line' = [line EXCEPT ![s] = Append(@, doing[p])]
                /\ held' = [held EXCEPT ![s] = @ + 1]
             \/ UNCHANGED <<line, held>>
        BY <1>4, SendPuts
    <2>2. /\ doing' = (IF at'[p] = "look" THEN doing ELSE [doing EXCEPT ![p] = "none"])
          /\ Miss \/ UNCHANGED <<answers, ghostVars>>
          /\ Send(p)
        BY <1>4 DEF NotifySend
    <2>3. answers' \subseteq Answered /\ astray' \in BOOLEAN /\ crossed' \in BOOLEAN
        BY <1>0, <2>2, MissType DEF TabTypes, ghostVars
    <2>4. /\ line' \in [Streams -> Seq(Statuses)]
          /\ \/ /\ s \in Streams /\ Len(line'[s]) = Len(line[s]) + 1 /\ held'[s] = held[s] + 1
                /\ \A t \in Streams \ {s} : line'[t] = line[t] /\ held'[t] = held[t]
             \/ UNCHANGED <<line, held>>
        <3>1. CASE UNCHANGED <<line, held>>
            BY <1>0, <3>1 DEF TabTypes
        <3>2. CASE /\ s \in Streams /\ line' = [line EXCEPT ![s] = Append(@, doing[p])]
                   /\ held' = [held EXCEPT ![s] = @ + 1]
            <4>1. /\ Append(line[s], doing[p]) \in Seq(Statuses)
                  /\ Len(Append(line[s], doing[p])) = Len(line[s]) + 1
                BY <1>0, <2>1, <3>2, AppendProperties DEF TabTypes
            <4>2. line \in [Streams -> Seq(Statuses)] /\ held \in [Streams -> 0..Buffer]
                BY <1>0 DEF TabTypes, Inv, TypeOK
            <4> QED
                BY <3>2, <4>1, <4>2
        <3> QED
            BY <2>1, <3>1, <3>2
    <2>5. doing' \in [Publishers -> Statuses \cup {"none"}]
        BY <1>0, <2>2 DEF TabTypes
    <2>6. TabTypes'
        BY <1>0, <2>1, <2>3, <2>4, <2>5 DEF TabTypes
    <2>7. Counted'
        BY <2>1, <2>4 DEF Counted
    <2>8. DoingIsKnown'
        <3>1. at' = [at EXCEPT ![p] = at'[p]]
            BY <1>0, <2>2 DEF Send
        <3>2. at'[p] # "send"
            BY <1>0, <2>2 DEF Send
        <3> QED
            BY <1>0, <2>1, <2>2, <3>1, <3>2 DEF DoingIsKnown, TabTypes, Statuses
    <2> QED
        BY <2>1, <2>6, <2>7, <2>8 DEF LinkedRuns
<1> QED
    BY <1>1, <1>2, <1>3, <1>4 DEF Friend, FriendTells

LEMMA TabStream ==
    ASSUME Inv, TabInv, NEW s \in Streams, ViewerStream(s)
    PROVE  TabInv'
<1> USE DEF TabInv
<1>0. /\ TabTypes /\ stream \in [Streams -> {"none", "running", "ending"}]
      /\ held \in [Streams -> 0..Buffer]
    BY DEF Inv, TypeOK
<1>1. CASE Connect(s) \/ ConnectOther(s)
    <2>1. /\ stream[s] = "none" /\ stream' = [stream EXCEPT ![s] = "running"]
          /\ held' = [held EXCEPT ![s] = 0] /\ line' = [line EXCEPT ![s] = <<>>]
          /\ UNCHANGED <<at, doing, status, user, asked, answers, shown, astray, crossed>>
          /\ linked' = linked \/ (linked = {} /\ linked' = {s})
        BY <1>1 DEF Connect, ConnectOther, Subscribe, Fresh, pubVars, friendVars, tabVars,
                    listVars, ghostVars
    <2>2. TabTypes'
        BY <1>0, <2>1 DEF TabTypes
    <2>3. Counted'
        BY <1>0, <2>1 DEF Counted, TabTypes
    <2>4. LinkedRuns'
        BY <1>0, <2>1 DEF LinkedRuns
    <2> QED
        BY <2>1, <2>2, <2>3, <2>4 DEF DoingIsKnown
<1>2. CASE ConnLost(s)
    BY <1>0, <1>2 DEF ConnLost, vars, streamVars, pubVars, friendVars, listVars, ghostVars,
                      TabTypes, Counted, LinkedRuns, DoingIsKnown
<1>3. CASE StreamDone(s)
    BY <1>0, <1>3 DEF StreamDone, Done, pubVars, friendVars, tabVars, listVars, ghostVars,
                      TabTypes, Counted, LinkedRuns, DoingIsKnown
<1>4. CASE StreamCleanup(s)
    <2>1. /\ stream[s] = "ending" /\ stream' = [stream EXCEPT ![s] = "none"]
          /\ line' = [line EXCEPT ![s] = <<>>] /\ UNCHANGED held
          /\ UNCHANGED <<at, doing, status, user, linked, asked, shown>>
          /\ Miss \/ UNCHANGED <<answers, ghostVars>>
        BY <1>4 DEF StreamCleanup, Cleanup, pubVars, friendVars, tabVars
    <2>2. answers' \subseteq Answered /\ astray' \in BOOLEAN /\ crossed' \in BOOLEAN
        BY <1>0, <2>1, MissType DEF TabTypes, ghostVars
    <2>3. TabTypes'
        BY <1>0, <2>1, <2>2 DEF TabTypes
    <2>4. LinkedRuns' /\ DoingIsKnown'
        BY <1>0, <2>1 DEF LinkedRuns, DoingIsKnown
    <2>5. Counted'
        BY <1>0, <2>1 DEF Counted, TabTypes
    <2> QED
        BY <2>3, <2>4, <2>5
<1>5. CASE Event(s)
    <2>1. /\ stream[s] = "running" /\ held[s] > 0 /\ held' = [held EXCEPT ![s] = @ - 1]
          /\ line' = [line EXCEPT ![s] = Tail(@)]
          /\ UNCHANGED <<stream, at, doing, status, user, linked, asked>>
          /\ \/ shown' = Seen(Head(line[s])) /\ answers' = Outdated /\ UNCHANGED ghostVars
             \/ Miss /\ UNCHANGED shown
        BY <1>5 DEF Event, WriteEvent, streamVars, pubVars, friendVars, tabVars
    <2>2. line[s] \in Seq(Statuses) /\ line[s] # <<>> /\ Len(line[s]) = held[s]
        BY <1>0, <2>1 DEF TabTypes, Counted
    <2>3. /\ Tail(line[s]) \in Seq(Statuses) /\ Len(Tail(line[s])) = held[s] - 1
          /\ Head(line[s]) \in Statuses
        BY <2>2, HeadTailProperties
    <2>4. /\ answers' \subseteq Answered /\ astray' \in BOOLEAN /\ crossed' \in BOOLEAN
          /\ shown' \in Statuses \cup {"none"}
        BY <1>0, <2>1, <2>3, MissType, OutdatedType DEF TabTypes, ghostVars, Seen
    <2>5. TabTypes'
        BY <1>0, <2>1, <2>3, <2>4 DEF TabTypes
    <2>6. Counted'
        BY <1>0, <2>1, <2>3 DEF Counted, TabTypes
    <2> QED
        BY <2>1, <2>5, <2>6 DEF LinkedRuns, DoingIsKnown
<1> QED
    BY <1>1, <1>2, <1>3, <1>4, <1>5 DEF ViewerStream

LEMMA TabList ==
    ASSUME Inv, TabInv, List \/ IPUpdate \/ UNCHANGED pvars
    PROVE  TabInv'
<1> USE DEF TabInv
<1>0. TabTypes
    OBVIOUS
<1>1. TabTypes'
    <2>1. CASE IPUpdate
        <3>1. Miss \/ UNCHANGED <<answers, ghostVars>>
            BY <2>1 DEF IPUpdate
        <3>2. answers' \subseteq Answered /\ astray' \in BOOLEAN /\ crossed' \in BOOLEAN
            BY <1>0, <3>1, MissType DEF TabTypes, ghostVars
        <3> QED
            BY <1>0, <2>1, <3>2 DEF IPUpdate, TabTypes, tabVars, Statuses
    <2>2. CASE Start \/ Stop
        <3>1. /\ UNCHANGED <<status, doing, line, crossed>> /\ user' \in BOOLEAN
              /\ asked' = 0 \/ asked' = 1
              /\ linked' \in {linked, {}} /\ answers' \in {answers, {}}
              /\ shown' \in {shown, "none"} /\ astray' \in {astray, FALSE}
            BY <2>2 DEF Start, Stop, friendVars, ghostVars
        <3>2. asked' \in 0..MaxAnswers
            BY <3>1, MaxAnswersAssumption
        <3> QED
            BY <1>0, <3>1, <3>2 DEF TabTypes
    <2>3. CASE Fetch
        <3>1. Cardinality(answers) \in Nat
            BY <1>0, AnswersFinite DEF TabTypes
        <3>2. asked' \in 0..MaxAnswers
            BY <1>0, <2>3, <3>1, MaxAnswersAssumption DEF TabTypes, Fetch
        <3> QED
            BY <1>0, <2>3, <3>2 DEF Fetch, TabTypes, friendVars, tabVars, ghostVars
    <2>4. CASE ServeContacts
        <3>1. [status |-> status, late |-> crossed /\ Busy] \in Answered
            BY <1>0 DEF TabTypes, Answered
        <3>2. answers' \subseteq Answered
            BY <1>0, <2>4, <3>1 DEF ServeContacts, TabTypes
        <3>3. asked' \in 0..MaxAnswers
            BY <1>0, <2>4, MaxAnswersAssumption DEF ServeContacts, TabTypes
        <3>4. crossed' \in BOOLEAN
            BY <2>4 DEF ServeContacts
        <3> QED
            BY <1>0, <2>4, <3>2, <3>3, <3>4 DEF ServeContacts, TabTypes, friendVars, tabVars
    <2>5. CASE \E a \in answers : GetContacts(a)
        <3>1. PICK a \in answers : GetContacts(a)
            BY <2>5
        <3>2. a.status \in Statuses /\ a.late \in BOOLEAN
            BY <1>0 DEF TabTypes, Answered
        <3> QED
            BY <1>0, <3>1, <3>2 DEF GetContacts, TabTypes, friendVars, tabVars
    <2>6. CASE UNCHANGED pvars
        BY <1>0, <2>6 DEF pvars, TabTypes, friendVars, tabVars, listVars, ghostVars
    <2> QED
        BY <2>1, <2>2, <2>3, <2>4, <2>5, <2>6 DEF List
<1>2. UNCHANGED <<stream, held, line, at, doing>> /\ (linked' = linked \/ linked' = {})
    BY DEF List, IPUpdate, Start, Stop, Fetch, ServeContacts, GetContacts, pvars, vars,
           streamVars, pubVars, friendVars, tabVars
<1> QED
    BY <1>1, <1>2 DEF Counted, LinkedRuns, DoingIsKnown

LEMMA TabStep == Inv /\ TabInv /\ [PNext]_pvars => TabInv'
BY TabFriend, TabStream, TabList DEF PNext

LEMMA TabInvariant == PSpec => [](Inv /\ TabInv)
BY BrokerInvariant, TabInit, TabStep, PTL DEF PSpec

\* What the tab, the list and the friend keep has its type, there are never
\* more fetches than the bound, and the list of events in a channel is as long
\* as the broker counts it.
THEOREM TabTypeCorrect == PSpec => []TabTypeOK
<1>1. Inv /\ TabInv => TabTypeOK
    BY DEF Inv, TabInv, TabTypes, Counted, TabTypeOK, Answered
<1> QED
    BY <1>1, TabInvariant, PTL

-----------------------------------------------------------------------------
(***************************************************************************)
(* The list.  As long as no change was missed, what is under way to the    *)
(* tab ends with the status that the database holds; when nothing is, the  *)
(* list shows it, and so does an answer that is not too late.              *)
(***************************************************************************)

\* The request p has still to tell the viewer; an event waits in a channel
\* that the tab no longer reads, and will be missed.
Telling(p) == doing[p] # "none" /\ (at[p] = "idle" \/ Viewer \in ToSet(todo[p]))
Stray == \E s \in Streams \ linked : stream[s] # "none" /\ line[s] # <<>>
InHand == Stray \/ \E p \in Publishers : Telling(p)

Coherent ==
    /\ \A p \in Publishers : doing[p] # "none" => doing[p] = status
    /\ ~InHand => \A s \in linked : line[s] # <<>> => Last(line[s]) = status

\* Nothing is under way to the tab.
Flat == ~InHand /\ \A s \in linked : line[s] = <<>>
Settled(v) == Flat => v = status

ShownInv ==
    /\ ~crossed => Coherent
    /\ ~astray /\ shown # "none" => Coherent /\ Settled(shown)
    /\ \A a \in answers : ~a.late => Coherent /\ Settled(a.status)

\* A change that is missed while something is under way.
LEMMA MissLoses ==
    ASSUME TabInv, Miss, Busy
    PROVE  ShownInv'
<1>1. astray' /\ crossed' /\ \A a \in answers' : a.late
    BY OutdatedType DEF Miss, TabInv, TabTypes
<1> QED
    BY <1>1 DEF ShownInv

\* A step that keeps the order of what is under way, and does not bring the
\* end of it.
LEMMA ShownCarries ==
    ASSUME ShownInv, Coherent => Coherent', status' = status, Flat' => Flat,
           UNCHANGED <<shown, astray, crossed, answers>>
    PROVE  ShownInv'
BY DEF ShownInv, Settled

\* A step that loses nothing of what is under way.
LEMMA ShownKeeps ==
    ASSUME ShownInv, \A p \in Publishers : Telling(p) => Telling(p)', Stray => Stray',
           \A p \in Publishers : doing'[p] \in {doing[p], "none"},
           linked' = linked, \A s \in linked : line'[s] = line[s],
           UNCHANGED <<status, shown, astray, crossed, answers>>
    PROVE  ShownInv'
<1>1. InHand => InHand'
    BY DEF InHand
<1>2. Coherent => Coherent'
    BY <1>1 DEF Coherent
<1>3. Flat' => Flat
    BY <1>1 DEF Flat
<1> QED
    BY <1>2, <1>3, ShownCarries

LEMMA ShownInit == PInit => ShownInv
<1> SUFFICES ASSUME PInit PROVE ShownInv
    OBVIOUS
<1>1. /\ \A p \in Publishers : doing[p] = "none"
      /\ linked = {} /\ answers = {} /\ shown = "none"
    BY DEF PInit
<1> QED
    BY <1>1 DEF ShownInv, Coherent

\* A change of the friend's status, in loginHandler or logoutHandler.
LEMMA ShownWrite ==
    ASSUME Inv, TabInv, ShownInv, NEW p \in Publishers, NEW new \in Statuses, Write(p, new)
    PROVE  ShownInv'
<1>1. CASE \E q \in Publishers : doing[q] # "none"
    BY <1>1, MissLoses DEF Write, Busy
<1>2. CASE \A q \in Publishers : doing[q] = "none"
    <2>1. /\ doing' = [doing EXCEPT ![p] = new] /\ status' = new /\ at'[p] = "idle"
        BY DEF Write, vars, pubVars
    <2>2. doing'[p] = new /\ \A q \in Publishers : q # p => doing'[q] = "none"
        BY <1>2, <2>1 DEF TabInv, TabTypes
    <2>3. Telling(p)'
        BY <2>1, <2>2 DEF Telling, Statuses
    <2>4. Coherent' /\ ~Flat'
        BY <2>1, <2>2, <2>3 DEF Coherent, Flat, InHand
    <2> QED
        BY <2>4 DEF ShownInv, Settled
<1> QED
    BY <1>1, <1>2

\* The requests that tell the contacts.
LEMMA ShownNotify ==
    ASSUME Inv, TabInv, ShownInv, NEW p \in Publishers,
           Notify(p) \/ NotifyLookup(p) \/ NotifyRecover(p)
    PROVE  ShownInv'
<1>0. /\ UNCHANGED <<doing, status, line, linked, shown, astray, crossed, answers, stream>>
      /\ at \in [Publishers -> {"idle", "look", "send", "panicked"}]
      /\ todo \in [Publishers -> Seq(Users)]
    BY DEF Notify, NotifyLookup, NotifyRecover, Request, Lookup, Recover, streamVars, friendVars,
           tabVars, listVars, ghostVars, Inv, TypeOK
<1>1. \A q \in Publishers : Telling(q) => Telling(q)'
    <2>1. CASE Notify(p)
        <3>1. PICK us \in Contacts : ToSet(us) = Users /\ Request(p, us)
            BY <2>1 DEF Notify
        <3>2. /\ todo'[p] = us
              /\ \A q \in Publishers : q # p => at'[q] = at[q] /\ todo'[q] = todo[q]
            BY <1>0, <3>1 DEF Request
        <3> QED
            BY <1>0, <3>1, <3>2, ViewerAssumption DEF Telling
    <2>2. CASE NotifyLookup(p)
        BY <1>0, <2>2 DEF NotifyLookup, Lookup, Telling
    <2>3. CASE NotifyRecover(p)
        BY <1>0, <2>3 DEF NotifyRecover, Recover, Telling
    <2> QED
        BY <2>1, <2>2, <2>3
<1>2. Stray => Stray'
    BY <1>0 DEF Stray
<1> QED
    BY <1>0, <1>1, <1>2, ShownKeeps

LEMMA ShownSend ==
    ASSUME Inv, TabInv, ShownInv, NEW p \in Publishers, NotifySend(p)
    PROVE  ShownInv'
<1> PICK s : s = ch[p]
    OBVIOUS
<1> DEFINE put == s # None /\ chan[s] = "open" /\ held[s] < Buffer
<1>1. /\ put => s \in Streams /\ line' = [line EXCEPT ![s] = Append(@, doing[p])]
      /\ ~put => UNCHANGED line
      /\ doing[p] \in Statuses /\ at[p] = "send" /\ todo[p] # <<>>
      /\ UNCHANGED <<stream, status, linked, shown>>
    BY SendPuts
<1>2. /\ doing' = (IF at'[p] = "look" THEN doing ELSE [doing EXCEPT ![p] = "none"])
      /\ Send(p)
      /\ \/ put /\ stream[s] # "none"
         \/ Head(todo[p]) # Viewer /\ at'[p] # "panicked"
         \/ Miss
    BY DEF NotifySend
<1>3. CASE Miss
    <2>1. Busy
        BY <1>1 DEF Busy, Statuses
    <2> QED
        BY <1>3, <2>1, MissLoses
<1>4. /\ line \in [Streams -> Seq(Statuses)] /\ doing \in [Publishers -> Statuses \cup {"none"}]
      /\ at \in [Publishers -> {"idle", "look", "send", "panicked"}]
      /\ todo \in [Publishers -> Seq(Users)] /\ linked \subseteq Streams
    BY DEF TabInv, TabTypes, Inv, TypeOK
<1>5. \A q \in Publishers : doing'[q] \in {doing[q], "none"}
    BY <1>2, <1>4
<1>6. ASSUME put, stream[s] # "none", UNCHANGED <<answers, ghostVars>> PROVE ShownInv'
    <2>1. /\ s \in Streams /\ \A t \in Streams : t # s => line'[t] = line[t]
          /\ line'[s] = Append(line[s], doing[p]) /\ line[s] \in Seq(Statuses)
        BY <1>1, <1>4, <1>6
    <2>2. line'[s] # <<>> /\ Last(line'[s]) = doing[p]
        BY <1>1, <2>1, AppendProperties DEF Last
    <2>3. ~Flat'
        <3>1. CASE s \in linked
            BY <1>1, <2>2, <3>1 DEF Flat
        <3>2. CASE s \notin linked
            BY <1>1, <1>6, <2>1, <2>2, <3>2 DEF Flat, InHand, Stray
        <3> QED
            BY <3>1, <3>2
    <2>4. ASSUME Coherent PROVE Coherent'
        <3>1. \A q \in Publishers : doing'[q] # "none" => doing'[q] = status'
            BY <1>1, <1>5, <2>4 DEF Coherent
        <3>2. CASE s \in linked
            <4>1. \A t \in linked : t = s
                BY <3>2 DEF TabInv, LinkedRuns
            <4>2. doing[p] = status
                BY <1>1, <2>4 DEF Coherent, Statuses
            <4> QED
                BY <1>1, <2>2, <3>1, <4>1, <4>2 DEF Coherent
        <3>3. CASE s \notin linked
            <4>1. Stray'
                BY <1>1, <1>6, <2>1, <2>2, <3>3 DEF Stray
            <4> QED
                BY <3>1, <4>1 DEF Coherent, InHand
        <3> QED
            BY <3>2, <3>3
    <2> QED
        BY <1>1, <1>6, <2>3, <2>4, ShownCarries DEF ghostVars
<1>7. ASSUME ~(put /\ stream[s] # "none"), Head(todo[p]) # Viewer, at'[p] # "panicked",
             UNCHANGED <<answers, ghostVars>>
      PROVE  ShownInv'
    <2>1. /\ todo'[p] = Tail(todo[p])
          /\ at'[p] = IF Tail(todo[p]) = <<>> THEN "idle" ELSE "look"
          /\ \A q \in Publishers : q # p => at'[q] = at[q] /\ todo'[q] = todo[q]
        BY <1>2, <1>4, <1>7 DEF Send
    <2>2. ASSUME Viewer \in ToSet(todo[p]) PROVE Viewer \in ToSet(Tail(todo[p])) /\ Tail(todo[p]) # <<>>
        <3>1. /\ todo[p] \in Seq(Users) /\ todo[p] # <<>> /\ Tail(todo[p]) \in Seq(Users)
              /\ Len(Tail(todo[p])) = Len(todo[p]) - 1
              /\ \A i \in 1 .. Len(Tail(todo[p])) : Tail(todo[p])[i] = todo[p][i + 1]
            BY <1>1, <1>4, HeadTailProperties
        <3>2. PICK i \in 1 .. Len(todo[p]) : todo[p][i] = Viewer
            BY <2>2, <3>1, ToSetProperties
        <3>3. i # 1
            BY <1>7, <3>1, <3>2, HeadTailProperties
        <3>4. i - 1 \in 1 .. Len(Tail(todo[p])) /\ Tail(todo[p])[i - 1] = Viewer
            BY <3>1, <3>2, <3>3
        <3>5. PICK t \in Seq(Users) : t = Tail(todo[p])
            BY <3>1
        <3>6. PICK k : k = i - 1
            OBVIOUS
        <3>7. k \in 1 .. Len(t) /\ t[k] = Viewer
            BY <3>4, <3>5, <3>6
        <3>8. t # <<>>
            BY <3>5, <3>7
        <3>9. Viewer \in ToSet(t)
            BY <3>5, <3>7, ToSetProperties, Zenon
        <3> QED
            BY <3>5, <3>8, <3>9
    <2>3. \A q \in Publishers : Telling(q) => Telling(q)'
        <3>1. Telling(p) => Telling(p)'
            BY <1>1, <1>2, <2>1, <2>2 DEF Telling
        <3>2. ASSUME NEW q \in Publishers, q # p, Telling(q) PROVE Telling(q)'
            <4>1. doing'[q] = doing[q]
                BY <1>2, <1>4, <3>2
            <4> QED
                BY <2>1, <3>2, <4>1 DEF Telling
        <3> QED
            BY <3>1, <3>2
    <2>4. \A t \in Streams : stream[t] # "none" => line'[t] = line[t]
        <3>1. CASE put
            BY <1>1, <1>4, <1>7, <3>1
        <3>2. CASE ~put
            BY <1>1, <3>2
        <3> QED
            BY <3>1, <3>2
    <2>5. Stray => Stray'
        BY <1>1, <2>4 DEF Stray
    <2>6. \A t \in linked : line'[t] = line[t]
        BY <1>4, <2>4 DEF TabInv, LinkedRuns
    <2> QED
        BY <1>1, <1>5, <1>7, <2>3, <2>5, <2>6, ShownKeeps DEF ghostVars
<1>8. Miss \/ UNCHANGED <<answers, ghostVars>>
    BY DEF NotifySend
<1> QED
    BY <1>2, <1>3, <1>6, <1>7, <1>8

\* The heartbeat writes the status and tells nobody.
LEMMA ShownIPUpdate ==
    ASSUME TabInv, ShownInv, IPUpdate
    PROVE  ShownInv'
<1>1. CASE status = "online"
    <2>1. /\ UNCHANGED <<status, doing, line, linked, stream, at, todo, shown, astray, crossed, answers>>
        BY <1>1 DEF IPUpdate, vars, streamVars, pubVars, tabVars, ghostVars
    <2>2. (\A p \in Publishers : Telling(p) => Telling(p)') /\ (Stray => Stray')
        BY <2>1 DEF Telling, Stray
    <2> QED
        BY <2>1, <2>2, ShownKeeps
<1>2. CASE status # "online"
    <2>1. Miss /\ UNCHANGED <<doing, line, linked>>
        BY <1>2 DEF IPUpdate, tabVars
    <2>2. CASE Busy
        BY <2>1, <2>2, MissLoses
    <2>3. CASE ~Busy
        <3>1. astray' /\ \A a \in answers' : a.late
            BY <2>1, OutdatedType DEF Miss, TabInv, TabTypes
        <3>2. Coherent'
            BY <2>1, <2>3 DEF Busy, Coherent, TabInv, TabTypes
        <3> QED
            BY <3>1, <3>2 DEF ShownInv
    <2> QED
        BY <2>2, <2>3
<1> QED
    BY <1>1, <1>2

\* The streams.
LEMMA ShownStream ==
    ASSUME Inv, TabInv, ShownInv, NEW s \in Streams, ViewerStream(s)
    PROVE  ShownInv'
<1>0. /\ line \in [Streams -> Seq(Statuses)] /\ stream \in [Streams -> {"none", "running", "ending"}]
      /\ linked \subseteq Streams /\ \A t \in linked : stream[t] = "running"
      /\ \A t, u \in linked : t = u
    BY DEF TabInv, TabTypes, LinkedRuns, Inv, TypeOK
<1>1. CASE Connect(s) \/ ConnectOther(s)
    <2>1. /\ stream[s] = "none" /\ stream' = [stream EXCEPT ![s] = "running"]
          /\ line' = [line EXCEPT ![s] = <<>>]
          /\ UNCHANGED <<at, todo, doing, status, answers, shown, astray, crossed>>
          /\ linked' = linked \/ (linked = {} /\ linked' = {s})
        BY <1>1 DEF Connect, ConnectOther, Subscribe, Fresh, pubVars, friendVars, tabVars,
                    listVars, ghostVars
    <2>2. \A p \in Publishers : Telling(p)' <=> Telling(p)
        BY <2>1 DEF Telling
    <2>3. \A t \in Streams : t # s => line'[t] = line[t] /\ stream'[t] = stream[t]
        BY <1>0, <2>1
    <2>4. s \notin linked /\ line'[s] = <<>>
        BY <1>0, <2>1
    <2>5. Stray => Stray'
        <3> SUFFICES ASSUME Stray PROVE Stray'
            OBVIOUS
        <3>1. PICK t \in Streams \ linked : stream[t] # "none" /\ line[t] # <<>>
            BY DEF Stray
        <3>2. t # s
            BY <2>1, <3>1
        <3>3. t \in Streams \ linked' /\ stream'[t] # "none" /\ line'[t] # <<>>
            BY <2>1, <2>3, <3>1, <3>2
        <3> QED
            BY <3>3 DEF Stray
    <2>6. InHand => InHand'
        BY <2>2, <2>5 DEF InHand
    <2>7. \A t \in linked : t \in linked' /\ line'[t] = line[t]
        BY <1>0, <2>1, <2>3, <2>4
    <2>8. \A t \in linked' : t \in linked \/ line'[t] = <<>>
        BY <2>1, <2>4
    <2>9. Coherent => Coherent'
        BY <2>1, <2>6, <2>7, <2>8 DEF Coherent
    <2>10. Flat' => Flat
        BY <2>6, <2>7 DEF Flat
    <2> QED
        BY <2>1, <2>9, <2>10, ShownCarries
<1>2. CASE ConnLost(s)
    <2>1. /\ s \in linked /\ linked' = {}
          /\ UNCHANGED <<stream, line, at, todo, doing, status, answers, shown, astray, crossed>>
        BY <1>2 DEF ConnLost, vars, streamVars, pubVars, friendVars, listVars, ghostVars
    <2>2. \A p \in Publishers : Telling(p)' <=> Telling(p)
        BY <2>1 DEF Telling
    <2>3. Stray => Stray'
        BY <2>1 DEF Stray
    <2>4. line[s] # <<>> => Stray'
        BY <1>0, <2>1 DEF Stray
    <2>5. Coherent => Coherent'
        BY <2>1 DEF Coherent
    <2>6. \A t \in linked : t = s
        BY <1>0, <2>1
    <2>7. Flat' => Flat
        BY <2>2, <2>3, <2>4, <2>6 DEF Flat, InHand
    <2> QED
        BY <2>1, <2>5, <2>7, ShownCarries
<1>3. CASE StreamDone(s)
    <2>1. /\ stream' = [stream EXCEPT ![s] = "ending"]
          /\ UNCHANGED <<linked, line, at, todo, doing, status, answers, shown, astray, crossed>>
        BY <1>3 DEF StreamDone, Done, pubVars, friendVars, tabVars, listVars, ghostVars
    <2>2. (\A p \in Publishers : Telling(p) => Telling(p)') /\ (Stray => Stray')
        BY <1>0, <2>1 DEF Telling, Stray
    <2> QED
        BY <2>1, <2>2, ShownKeeps
<1>4. CASE StreamCleanup(s)
    <2>1. CASE line[s] # <<>>
        <3>1. Miss /\ Busy
            BY <1>4, <2>1 DEF StreamCleanup, Busy
        <3> QED
            BY <3>1, MissLoses
    <2>2. CASE line[s] = <<>>
        <3>1. /\ stream' = [stream EXCEPT ![s] = "none"] /\ line' = line
              /\ UNCHANGED <<linked, at, todo, doing, status, answers, shown, astray, crossed>>
            BY <1>0, <1>4, <2>2 DEF StreamCleanup, Cleanup, pubVars, friendVars, tabVars, ghostVars
        <3>2. (\A p \in Publishers : Telling(p) => Telling(p)') /\ (Stray => Stray')
            BY <1>0, <2>2, <3>1 DEF Telling, Stray
        <3> QED
            BY <3>1, <3>2, ShownKeeps
    <2> QED
        BY <2>1, <2>2
<1>5. CASE Event(s)
    <2>1. /\ line' = [line EXCEPT ![s] = Tail(@)] /\ stream[s] = "running" /\ held[s] > 0
          /\ UNCHANGED <<stream, at, todo, doing, status, linked>>
        BY <1>5 DEF Event, WriteEvent, streamVars, pubVars, friendVars, tabVars
    <2>2. line[s] \in Seq(Statuses) /\ line[s] # <<>> /\ line'[s] = Tail(line[s])
        BY <1>0, <2>1 DEF TabInv, Counted
    <2>3. CASE s \notin linked
        <3>1. Miss /\ Busy
            BY <1>5, <2>2, <2>3 DEF Event, Busy
        <3> QED
            BY <3>1, MissLoses
    <2>4. CASE s \in linked
        <3>1. /\ shown' = Seen(Head(line[s])) /\ UNCHANGED <<astray, crossed>>
              /\ \A a \in answers' : a.late
            BY <1>5, <2>4, OutdatedType DEF Event, ghostVars, TabInv, TabTypes
        <3>2. \A t \in linked : t = s
            BY <1>0, <2>4
        <3>3. \A t \in Streams : t # s => line'[t] = line[t]
            BY <1>0, <2>1
        <3>4. InHand' <=> InHand
            <4>1. Stray' <=> Stray
                BY <2>1, <2>4, <3>3 DEF Stray
            <4>2. \A p \in Publishers : Telling(p)' <=> Telling(p)
                BY <2>1 DEF Telling
            <4> QED
                BY <4>1, <4>2 DEF InHand
        <3>5. /\ line'[s] # <<>> => Last(line'[s]) = Last(line[s])
              /\ line'[s] = <<>> => Head(line[s]) = Last(line[s])
            <4>1. /\ Len(line'[s]) = Len(line[s]) - 1 /\ line'[s] \in Seq(Statuses)
                  /\ \A i \in 1 .. Len(line'[s]) : line'[s][i] = line[s][i + 1]
                  /\ Head(line[s]) = line[s][1] /\ Len(line[s]) \in Nat /\ Len(line[s]) # 0
                BY <2>2, HeadTailProperties
            <4>2. CASE line'[s] = <<>>
                <5>1. Len(line[s]) = 1
                    BY <4>1, <4>2
                <5> QED
                    BY <4>1, <4>2, <5>1 DEF Last
            <4>3. CASE line'[s] # <<>>
                <5>1. Len(line'[s]) \in 1 .. Len(line'[s]) /\ Len(line'[s]) + 1 = Len(line[s])
                    BY <4>1, <4>3
                <5>2. line'[s][Len(line'[s])] = line[s][Len(line'[s]) + 1]
                    BY <4>1, <5>1
                <5> QED
                    BY <4>3, <5>1, <5>2 DEF Last
            <4> QED
                BY <4>2, <4>3
        <3>6. Coherent => Coherent'
            BY <2>1, <2>2, <3>2, <3>4, <3>5 DEF Coherent
        <3>7. ASSUME Coherent, Flat' PROVE Head(line[s]) = status'
            BY <2>1, <2>2, <2>4, <3>4, <3>5, <3>7 DEF Coherent, Flat
        <3>8. shown' # "none" => shown # "none" /\ shown' = Head(line[s])
            BY <3>1 DEF Seen
        <3> QED
            BY <3>1, <3>6, <3>7, <3>8 DEF ShownInv, Settled
    <2> QED
        BY <2>3, <2>4
<1> QED
    BY <1>1, <1>2, <1>3, <1>4, <1>5 DEF ViewerStream

\* The list is asked for and comes, and the tab begins and ends.
LEMMA ShownList ==
    ASSUME TabInv, ShownInv, List \/ UNCHANGED pvars
    PROVE  ShownInv'
<1>0. UNCHANGED <<stream, line, at, todo, doing, status>>
    BY DEF List, Start, Stop, Fetch, ServeContacts, GetContacts, pvars, vars, streamVars,
           pubVars, friendVars
<1>1. \A p \in Publishers : Telling(p)' <=> Telling(p)
    BY <1>0 DEF Telling
<1>2. ASSUME linked' = linked PROVE (Coherent' <=> Coherent) /\ (Flat' <=> Flat)
    BY <1>0, <1>1, <1>2 DEF Coherent, Flat, InHand, Stray
<1>3. CASE UNCHANGED <<linked, answers, shown, astray, crossed>>
    BY <1>0, <1>2, <1>3, ShownCarries
<1>4. CASE ServeContacts
    <2>1. /\ linked' = linked /\ UNCHANGED <<shown, astray>>
          /\ answers' = answers \cup {[status |-> status, late |-> crossed /\ Busy]}
          /\ crossed' = (crossed /\ Busy)
        BY <1>4 DEF ServeContacts, tabVars
    <2>2. ~(crossed /\ Busy) => Coherent
        BY DEF ShownInv, Busy, Coherent, TabInv, TabTypes
    <2>3. ASSUME NEW a \in answers', a \notin answers
          PROVE  a.status = status /\ (~a.late => Coherent)
        <3>1. a = [status |-> status, late |-> crossed /\ Busy]
            BY <2>1, <2>3
        <3>2. a.status = status /\ (a.late <=> crossed /\ Busy)
            BY <3>1
        <3> QED
            BY <2>2, <3>2
    <2> QED
        BY <1>0, <1>2, <2>1, <2>2, <2>3 DEF ShownInv, Settled
<1>5. CASE \E a \in answers : GetContacts(a)
    <2>1. PICK a \in answers : GetContacts(a)
        BY <1>5
    <2>2. /\ linked' = linked /\ answers' \subseteq answers /\ crossed' = crossed
          /\ shown' = a.status /\ astray' = a.late
        BY <2>1 DEF GetContacts, tabVars
    <2> QED
        BY <1>0, <1>2, <2>2 DEF ShownInv, Settled
<1>6. CASE Stop
    <2>1. linked' = {} /\ answers' = {} /\ shown' = "none" /\ crossed' = crossed
        BY <1>6 DEF Stop
    <2>2. Coherent => Coherent'
        BY <1>0, <2>1 DEF Coherent
    <2> QED
        BY <2>1, <2>2 DEF ShownInv
<1> QED
    BY <1>3, <1>4, <1>5, <1>6
        DEF List, Start, Fetch, pvars, tabVars, listVars, ghostVars

LEMMA ShownStep == Inv /\ TabInv /\ ShownInv /\ [PNext]_pvars => ShownInv'
<1> SUFFICES ASSUME Inv, TabInv, ShownInv, [PNext]_pvars PROVE ShownInv'
    OBVIOUS
<1>1. ASSUME NEW p \in Publishers, Friend(p) PROVE ShownInv'
    BY <1>1, ShownWrite, ShownNotify, ShownSend DEF Friend, FriendTells
<1> QED
    BY <1>1, ShownStream, ShownIPUpdate, ShownList DEF PNext

\* When everything under way has arrived, the list shows the status that the
\* database holds, unless a change was never told or an older answer came last:
\* two requests of the friend, a stream that is replaced, a tab that connects
\* again and an answer on its way do not mix the order of what is shown.
THEOREM ListFollowsStatus == PSpec => []ShownIsRight
<1>1. TabInv /\ ShownInv => ShownIsRight
    <2> SUFFICES ASSUME TabInv, ShownInv, Quiet, shown # "none", ~astray
                 PROVE  shown = status
        BY DEF ShownIsRight
    <2>1. \A p \in Publishers : ~Telling(p)
        BY DEF Quiet, Telling
    <2>2. ~Stray
        BY DEF Quiet, Stray
    <2>3. \A s \in linked : line[s] = <<>>
        BY DEF Quiet, TabInv, LinkedRuns
    <2> QED
        BY <2>1, <2>2, <2>3 DEF ShownInv, Settled, Flat, InHand
<1>2. PSpec => []ShownInv
    BY TabInvariant, ShownInit, ShownStep, PTL DEF PSpec
<1> QED
    BY <1>1, <1>2, TabInvariant, PTL

=============================================================================
