------------------------------ MODULE SSEProofs ------------------------------
(***************************************************************************)
(* Proofs about SSEBroker, for any number of users, streams and publishers *)
(* and any capacity of the channels.                                       *)
(***************************************************************************)
EXTENDS SSEBroker, TLAPS

\* Where a publisher has something to do it has somebody to publish to.
HasTodo == \A p \in Publishers : at[p] \in {"look", "send"} => todo[p] # <<>>

\* The newest stream of a user belongs to that user, and as long as it is not
\* over its channel is open.
NewestIsOwn ==
    \A u \in Users : LET s == latest[u]
                     IN  s # None /\ stream[s] # "none" => owner[s] = u /\ chan[s] = "open"

Inv == TypeOK /\ HasTodo /\ NewestIsOwn /\ NewestIsSubscribed

\* The lists of users a request may publish to are not empty.
LEMMA ContactsAreLists ==
    ASSUME NEW us \in Contacts
    PROVE  us \in Seq(Users) /\ us # <<>>
<1>1. PICK n \in 1..MaxContacts : us \in [1..n -> Users]
    BY DEF Contacts
<1>2. n \in Nat /\ 1 \in DOMAIN us
    BY <1>1, MaxContactsAssumption
<1> QED
    BY <1>1, <1>2

\* The initial states satisfy the invariant.
LEMMA InvInit == Init => Inv
BY BufferAssumption DEF Init, Inv, TypeOK, HasTodo, NewestIsOwn, NewestIsSubscribed

\* Every step keeps the types, and keeps publishers that have work a user to
\* publish to.
LEMMA TypeStep == Inv /\ [Next]_vars => TypeOK' /\ HasTodo'
<1> SUFFICES ASSUME Inv, [Next]_vars PROVE TypeOK' /\ HasTodo'
    OBVIOUS
<1> USE DEF Inv, TypeOK, HasTodo
<1>1. ASSUME NEW s \in Streams, NEW u \in Users, Subscribe(s, u) PROVE TypeOK' /\ HasTodo'
    BY <1>1, BufferAssumption DEF Subscribe, pubVars
<1>2. ASSUME NEW s \in Streams, WriteEvent(s) PROVE TypeOK' /\ HasTodo'
    BY <1>2, BufferAssumption DEF WriteEvent, streamVars, pubVars
<1>3. ASSUME NEW s \in Streams, Done(s) PROVE TypeOK' /\ HasTodo'
    BY <1>3 DEF Done, pubVars
<1>4. ASSUME NEW s \in Streams, Cleanup(s) PROVE TypeOK' /\ HasTodo'
    <2>1. CASE subs[owner[s]] = s
        BY <1>4, <2>1 DEF Cleanup, Unregister, pubVars
    <2>2. CASE subs[owner[s]] # s
        BY <1>4, <2>2 DEF Cleanup, Unregister, pubVars
    <2> QED
        BY <2>1, <2>2
<1>5. ASSUME NEW p \in Publishers, NEW us \in Contacts, Request(p, us) PROVE TypeOK' /\ HasTodo'
    BY <1>5, ContactsAreLists DEF Request, streamVars
<1>6. ASSUME NEW p \in Publishers, Lookup(p) PROVE TypeOK' /\ HasTodo'
    <2>1. todo[p] \in Seq(Users) /\ todo[p] # <<>>
        BY <1>6 DEF Lookup
    <2>2. Head(todo[p]) \in Users
        BY <2>1
    <2> QED
        BY <1>6, <2>2 DEF Lookup, streamVars
<1>7. ASSUME NEW p \in Publishers, Send(p) PROVE TypeOK' /\ HasTodo'
    <2>1. todo[p] \in Seq(Users) /\ todo[p] # <<>>
        BY <1>7 DEF Send
    <2>2. Tail(todo[p]) \in Seq(Users)
        BY <2>1
    <2>3. held' \in [Streams -> 0..Buffer]
        <3>1. ASSUME NEW t \in Streams, Deliver(t) PROVE held' \in [Streams -> 0..Buffer]
            BY <3>1, BufferAssumption DEF Deliver
        <3>2. UNCHANGED held \/ (ch[p] \in Streams /\ Deliver(ch[p]))
            BY <1>7 DEF Send
        <3> QED
            BY <3>1, <3>2
    <2>4. /\ todo' \in [Publishers -> Seq(Users)]
          /\ at' \in [Publishers -> {"idle", "look", "send", "panicked"}]
          /\ ch' \in [Publishers -> Streams \cup {None}]
        BY <1>7, <2>2 DEF Send
    <2>5. HasTodo'
        BY <1>7, <2>2, <2>4 DEF Send
    <2> QED
        BY <1>7, <2>3, <2>4, <2>5 DEF Send, streamVars
<1>8. ASSUME NEW p \in Publishers, Recover(p) PROVE TypeOK' /\ HasTodo'
    BY <1>8 DEF Recover, streamVars
<1>9. CASE UNCHANGED vars
    BY <1>9 DEF vars, streamVars, pubVars
<1> QED
    BY <1>1, <1>2, <1>3, <1>4, <1>5, <1>6, <1>7, <1>8, <1>9 DEF Next, Stream, Publisher

\* Every step keeps the map and the newest streams together.  Only two of them
\* touch either: a subscription and a cleanup.
LEMMA NewestStep == Inv /\ [Next]_vars => NewestIsOwn' /\ NewestIsSubscribed'
<1> SUFFICES ASSUME Inv, [Next]_vars PROVE NewestIsOwn' /\ NewestIsSubscribed'
    OBVIOUS
<1> USE DEF Inv, TypeOK, NewestIsOwn, NewestIsSubscribed
<1>1. ASSUME NEW s \in Streams, NEW u \in Users, Subscribe(s, u)
      PROVE  NewestIsOwn' /\ NewestIsSubscribed'
    BY <1>1, NoneAssumption DEF Subscribe, Fresh
<1>2. ASSUME NEW s \in Streams, Done(s) PROVE NewestIsOwn' /\ NewestIsSubscribed'
    BY <1>2, NoneAssumption DEF Done
<1>3. ASSUME NEW s \in Streams, Cleanup(s) PROVE NewestIsOwn' /\ NewestIsSubscribed'
    <2> DEFINE u == owner[s]
    <2>1. \A v \in Users : latest[v] = s => v = u /\ subs[v] = s
        BY <1>3, NoneAssumption DEF Cleanup
    <2>2. CASE subs[u] = s
        <3>1. u \in Users => latest[u] = s
            BY <2>2, NoneAssumption
        <3>2. \A v \in Users : v # u => latest[v] # s
            BY <2>1
        <3> QED
            BY <1>3, <2>2, <3>1, <3>2, NoneAssumption DEF Cleanup, Unregister
    <2>3. CASE subs[u] # s
        <3>1. \A v \in Users : latest[v] # s
            BY <2>1, <2>3
        <3> QED
            BY <1>3, <2>3, <3>1, NoneAssumption DEF Cleanup, Unregister
    <2> QED
        BY <2>2, <2>3
<1>4. CASE UNCHANGED streamVars
    BY <1>4 DEF streamVars
<1> QED
    BY <1>1, <1>2, <1>3, <1>4
    DEF Next, Stream, Publisher, WriteEvent, Request, Lookup, Send, Recover, vars

\* The invariant holds in every state.
LEMMA Invariant == Spec => []Inv
<1>1. Init => Inv
    BY InvInit
<1>2. Inv /\ [Next]_vars => Inv'
    BY TypeStep, NewestStep DEF Inv
<1> QED
    BY <1>1, <1>2, PTL DEF Spec

\* The broker, its streams and its publishers keep their types, and a channel
\* never holds more events than it has room for.
THEOREM BrokerTypeCorrect == Spec => []TypeOK
<1>1. Inv => TypeOK
    BY DEF Inv
<1> QED
    BY <1>1, Invariant, PTL

\* The map names the newest stream of a user until that stream is over: the
\* cleanup of an older one never takes it away.
THEOREM NewestStaysSubscribed == Spec => []NewestIsSubscribed
<1>1. Inv => NewestIsSubscribed
    BY DEF Inv
<1> QED
    BY <1>1, Invariant, PTL

\* The map never names a channel that is closed, so that the panic of Publish
\* can only come from the step between its lookup and its send.
THEOREM MapNamesOpenChannels == Spec => []EntryIsOpen
<1>1. Inv => EntryIsOpen
    BY NoneAssumption DEF Inv, NewestIsOwn, NewestIsSubscribed, EntryIsOpen
<1> QED
    BY <1>1, Invariant, PTL

=============================================================================
