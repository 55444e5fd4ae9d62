---------------------------- MODULE AccountProofs ----------------------------
(***************************************************************************)
(* Proofs about Account, for any bounds on the calls and the errors.       *)
(***************************************************************************)
EXTENDS Account, TLAPS

-----------------------------------------------------------------------------
(***************************************************************************)
(* Who may be under way when.  A call of refreshMe runs while the page is  *)
(* loading, a login only while nobody is logged in, a logout only while    *)
(* somebody is; and once nobody is logged in all calls about the list are  *)
(* orphans.  So whoever sets the user finds no source, no timer and no     *)
(* fetch of the list.                                                      *)
(***************************************************************************)
InPlace(c) ==
    /\ c.op = "me" => ~user /\ loading
    /\ c.op = "login" => ~user /\ ~loading
    /\ c.op = "logout" => user
    /\ c.op \in ListOps /\ ~c.orphan => user
    /\ c.op \notin ListOps => ~c.orphan

AccountInv ==
    /\ TypeOK
    /\ OneSource
    /\ user => ~loading
    /\ \A c \in calls : InPlace(c)

\* The calls that take part have the type of calls.
LEMMA CallType ==
    ASSUME NEW op \in Ops, NEW tok \in BOOLEAN
    PROVE  /\ Call(op, tok) \in Calls
           /\ Call(op, tok).op = op /\ ~Call(op, tok).orphan
BY DEF Call, Calls, Phases, Results

LEMMA AnsweredType ==
    ASSUME NEW c \in Calls, NEW res \in Results
    PROVE  /\ Answered(c, res) \in Calls
           /\ Answered(c, res).op = c.op /\ Answered(c, res).orphan = c.orphan
           /\ Answered(c, res).res = res /\ Answered(c, res).phase = "back"
           /\ Answered(c, res).again = c.again
BY DEF Answered, Calls, Phases

\* The initial states satisfy it.
LEMMA AccountInit == Init => AccountInv
<1> SUFFICES ASSUME Init PROVE AccountInv
    OBVIOUS
<1> USE DEF Init
<1>1. "me" \in Ops
    BY DEF Ops
<1>2. \A c \in calls : c.op = "me" /\ ~c.orphan /\ c \in Calls /\ c = Call("me", FALSE)
    BY <1>1, CallType
<1>3. \A c \in calls : InPlace(c)
    BY <1>2 DEF InPlace, ListOps
<1>4. errors \in 0..MaxErrors /\ linked \in Nat /\ retries \in Nat /\ linked + retries = 0
    BY MaxErrorsAssumption
<1>5. ~user /\ loading
    BY Zenon
<1>6. TypeOK
    BY <1>2, <1>4, Zenon DEF TypeOK
<1>7. OneSource
    <2> HIDE DEF Init
    <2> QED
        BY <1>4, <1>5 DEF OneSource
<1> QED
    BY <1>3, <1>5, <1>6, <1>7, Zenon DEF AccountInv

\* A call goes on: it stays the same kind of call, and the page as it is.
LEMMA GoesOn ==
    ASSUME AccountInv, NEW c \in calls, NEW d \in Calls, d.op = c.op, d.orphan = c.orphan,
           calls' = (calls \ {c}) \cup {d}, UNCHANGED <<page, sourceVars, ghostVars, listed>>,
           status' \in {"online", "offline"}, row' \in BOOLEAN, theirs' \in BOOLEAN,
           access' \in BOOLEAN, refresh' \in BOOLEAN, errors' \in 0..MaxErrors
    PROVE  AccountInv'
<1> USE DEF AccountInv, page, sourceVars, ghostVars
<1>1. \A e \in calls' : InPlace(e)'
    BY DEF InPlace
<1>2. \A e, f \in calls' : e.op = f.op /\ ~e.orphan /\ ~f.orphan => e = f
    BY DEF TypeOK
<1>3. TypeOK'
    BY <1>2 DEF TypeOK
<1> QED
    BY <1>1, <1>3 DEF OneSource

\* The server answers, and apiFetch refreshes and repeats.
LEMMA ServeInv ==
    ASSUME AccountInv, NEW c \in calls, Serve(c)
    PROVE  AccountInv'
<1> c \in Calls /\ status \in {"online", "offline"} /\ row \in BOOLEAN /\ theirs \in BOOLEAN
        /\ errors \in 0..MaxErrors /\ access \in BOOLEAN /\ refresh \in BOOLEAN
    BY DEF AccountInv, TypeOK
<1> UNCHANGED <<page, sourceVars, ghostVars, listed, cookies, errors>>
    BY DEF Serve
<1>1. status' \in {"online", "offline"} /\ row' \in BOOLEAN /\ theirs' \in BOOLEAN
    BY DEF Serve, Refuse, Handle, ServeLogin, ServeLogout, ServeBeat, ServeRead, ServeAdd,
           ServeRemove, serverVars
<1>2. \E d \in Calls : d.op = c.op /\ d.orphan = c.orphan /\ calls' = (calls \ {c}) \cup {d}
    <2>1. ASSUME NEW res \in Results, Answer(c, res) PROVE <1>2!:
        BY <2>1, AnsweredType DEF Answer
    <2>2. CASE ServeRead(c)
        <3> DEFINE d == [Answered(c, "ok") EXCEPT !.row = c.op = "contacts" /\ InTable]
        <3>1. "ok" \in Results
            BY DEF Results
        <3>2. d \in Calls /\ d.op = c.op /\ d.orphan = c.orphan
            BY <3>1, AnsweredType, ZenonT(40) DEF Calls, InTable
        <3> QED
            BY <2>2, <3>2 DEF ServeRead
    <2> QED
        BY <2>1, <2>2 DEF Serve, Refuse, Handle, ServeLogin, ServeLogout, ServeBeat, ServeAdd,
                          ServeRemove, Results
<1> QED
    BY <1>1, <1>2, GoesOn DEF cookies

LEMMA RefreshInv ==
    ASSUME AccountInv, NEW c \in calls, StartRefresh(c) \/ Repeat(c) \/ NetworkFails(c)
    PROVE  AccountInv'
<1> c \in Calls /\ status \in {"online", "offline"} /\ row \in BOOLEAN /\ theirs \in BOOLEAN
        /\ errors \in 0..MaxErrors /\ access \in BOOLEAN /\ refresh \in BOOLEAN
    BY DEF AccountInv, TypeOK
<1> UNCHANGED <<page, sourceVars, ghostVars, listed, serverVars>>
    BY DEF StartRefresh, Repeat, NetworkFails
<1>1. access' \in BOOLEAN /\ refresh' \in BOOLEAN
    BY DEF StartRefresh, Repeat, NetworkFails, cookies
<1>2. errors' \in 0..MaxErrors
    BY MaxErrorsAssumption DEF StartRefresh, Repeat, NetworkFails
<1>3. \E d \in Calls : d.op = c.op /\ d.orphan = c.orphan /\ calls' = (calls \ {c}) \cup {d}
    <2>1. CASE StartRefresh(c)
        <3> DEFINE d == [c EXCEPT !.phase = "refresh", !.tok = refresh, !.again = TRUE]
        <3>1. d \in Calls /\ d.op = c.op /\ d.orphan = c.orphan
            BY DEF Calls, Phases
        <3> QED
            BY <2>1, <3>1 DEF StartRefresh
    <2>2. CASE Repeat(c)
        <3> DEFINE d == [c EXCEPT !.phase = "out", !.res = "none"]
        <3>1. d \in Calls /\ d.op = c.op /\ d.orphan = c.orphan
            BY DEF Calls, Phases, Results
        <3> QED
            BY <2>2, <3>1 DEF Repeat
    <2>3. CASE NetworkFails(c)
        BY <2>3, AnsweredType DEF NetworkFails, Answer, Results
    <2> QED
        BY <2>1, <2>2, <2>3
<1> QED
    BY <1>1, <1>2, <1>3, GoesOn DEF serverVars

\* Whether somebody is logged in stays as it is.
LEMMA SameUser ==
    ASSUME AccountInv, UNCHANGED <<serverVars, errors, user, loading, sourceVars>>,
           access' \in BOOLEAN, refresh' \in BOOLEAN, submitting' \in BOOLEAN,
           listed' \in BOOLEAN, raced' \in BOOLEAN, stale' \in BOOLEAN,
           left' \in {"no", "out", "lapsed"},
           calls' \subseteq Calls,
           \A d, e \in calls' : d.op = e.op /\ ~d.orphan /\ ~e.orphan => d = e,
           \A d \in calls' : InPlace(d)
    PROVE  AccountInv'
<1> USE DEF AccountInv, serverVars, sourceVars
<1>1. TypeOK'
    BY DEF TypeOK
<1>2. \A d \in calls' : InPlace(d)'
    BY DEF InPlace
<1> QED
    BY <1>1, <1>2 DEF OneSource

\* A call has returned, and no other one begins.
LEMMA Returned ==
    ASSUME AccountInv, NEW c \in calls, calls' = calls \ {c},
           UNCHANGED <<serverVars, errors, user, loading, sourceVars>>,
           access' \in BOOLEAN, refresh' \in BOOLEAN, submitting' \in BOOLEAN,
           listed' \in BOOLEAN, raced' \in BOOLEAN, stale' \in BOOLEAN,
           left' \in {"no", "out", "lapsed"}
    PROVE  AccountInv'
<1>1. /\ calls' \subseteq Calls
      /\ \A d, e \in calls' : d.op = e.op /\ ~d.orphan /\ ~e.orphan => d = e
      /\ \A d \in calls' : InPlace(d)
    BY DEF AccountInv, TypeOK
<1> QED
    BY <1>1, SameUser

\* A call begins.
LEMMA Begun ==
    ASSUME AccountInv, NEW rest, rest \subseteq calls, NEW d \in Calls, InPlace(d),
           d.orphan \/ \A e \in rest : e.op = d.op => e.orphan,
           calls' = rest \cup {d},
           UNCHANGED <<serverVars, errors, user, loading, sourceVars>>,
           access' \in BOOLEAN, refresh' \in BOOLEAN, submitting' \in BOOLEAN,
           listed' \in BOOLEAN, raced' \in BOOLEAN, stale' \in BOOLEAN,
           left' \in {"no", "out", "lapsed"}
    PROVE  AccountInv'
<1>1. /\ calls' \subseteq Calls
      /\ \A e, f \in calls' : e.op = f.op /\ ~e.orphan /\ ~f.orphan => e = f
      /\ \A e \in calls' : InPlace(e)
    BY DEF AccountInv, TypeOK
<1> QED
    BY <1>1, SameUser

\* The user is set, when nobody was logged in and the rest are calls that may
\* go on.
LEMMA SetUserInv ==
    ASSUME AccountInv, ~user, NEW rest, rest \subseteq calls, SetUser(rest),
           \A c \in rest : c.op \notin {"me", "login"},
           UNCHANGED <<serverVars, errors>>, ~loading', loading' \in BOOLEAN,
           submitting' \in BOOLEAN, access' \in BOOLEAN, refresh' \in BOOLEAN
    PROVE  AccountInv'
<1> USE DEF AccountInv, SetUser, serverVars
<1> DEFINE d == Call("contacts", access')
<1>1. d \in Calls /\ d.op = "contacts" /\ ~d.orphan
    BY CallType DEF Ops
<1>2. \A c \in calls : c.op \in ListOps => c.orphan
    BY DEF InPlace
<1>3. /\ calls' \subseteq Calls
      /\ \A e, f \in calls' : e.op = f.op /\ ~e.orphan /\ ~f.orphan => e = f
    BY <1>1, <1>2 DEF TypeOK, ListOps
<1>4. user' /\ user' \in BOOLEAN
    OBVIOUS
<1>5. \A c \in calls' : InPlace(c)'
    BY <1>1, <1>4 DEF InPlace, ListOps
<1>6. linked' \in Nat /\ retries' \in Nat /\ linked' + retries' = 1
    BY DEF OpenSource, Opens, Fails, TypeOK, OneSource
<1>7. TypeOK'
    <2>1. stale' \in BOOLEAN /\ raced' \in BOOLEAN /\ listed' \in BOOLEAN
        BY DEF Changes
    <2> QED
        BY <1>3, <1>4, <1>6, <2>1 DEF TypeOK
<1> QED
    BY <1>4, <1>5, <1>6, <1>7 DEF OneSource

\* The user is null: what goes on besides are orphans, or calls that may.
LEMMA SetNullInv ==
    ASSUME AccountInv, NEW rest, rest \subseteq Calls, SetNull(rest),
           \A c, d \in rest : c.op = d.op /\ ~c.orphan /\ ~d.orphan => c = d,
           \A c \in rest : /\ c.op = "me" => loading'
                           /\ c.op = "login" => ~loading'
                           /\ c.op # "logout"
                           /\ c.op \notin ListOps => ~c.orphan,
           UNCHANGED <<serverVars, errors>>, loading' \in BOOLEAN,
           submitting' \in BOOLEAN, access' \in BOOLEAN, refresh' \in BOOLEAN,
           raced' \in BOOLEAN, stale' \in BOOLEAN, left' \in {"no", "out", "lapsed"}
    PROVE  AccountInv'
<1> USE DEF AccountInv, SetNull, CloseSource, serverVars
<1>1. \A e \in calls' : \E c \in rest :
            /\ e \in Calls /\ e.op = c.op
            /\ IF c.op \in ListOps THEN e.orphan ELSE e = c
    <2> DEFINE Lost(c) == [c EXCEPT !.orphan = TRUE]
    <2>1. \A c \in Calls : Lost(c) \in Calls /\ Lost(c).op = c.op /\ Lost(c).orphan
        BY DEF Calls
    <2>2. calls' = {IF c.op \in ListOps THEN Lost(c) ELSE c : c \in rest}
        OBVIOUS
    <2> QED
        <3> HIDE DEF Lost
        <3>1. TAKE e \in calls'
        <3>2. PICK c \in rest : e = IF c.op \in ListOps THEN Lost(c) ELSE c
            BY <2>2
        <3>3. c \in Calls
            OBVIOUS
        <3>4. CASE c.op \in ListOps
            BY <2>1, <3>2, <3>3, <3>4
        <3>5. CASE c.op \notin ListOps
            BY <3>2, <3>3, <3>5
        <3> QED
            BY <3>4, <3>5
<1>2. ~user' /\ user' \in BOOLEAN
    OBVIOUS
<1>3. /\ calls' \subseteq Calls
      /\ \A e, f \in calls' : e.op = f.op /\ ~e.orphan /\ ~f.orphan => e = f
    BY <1>1
<1>4. \A e \in calls' : InPlace(e)'
    BY <1>1, <1>2 DEF InPlace
<1>5. TypeOK'
    BY <1>2, <1>3 DEF TypeOK
<1> QED
    BY <1>2, <1>4, <1>5 DEF OneSource

\* The callers take the answer.
LEMMA ReturnInv ==
    ASSUME AccountInv, NEW c \in calls, Return(c)
    PROVE  AccountInv'
<1>0. /\ c \in Calls /\ c.op \in Ops /\ calls \subseteq Calls
      /\ access \in BOOLEAN /\ refresh \in BOOLEAN /\ submitting \in BOOLEAN
      /\ listed \in BOOLEAN /\ raced \in BOOLEAN /\ stale \in BOOLEAN
      /\ left \in {"no", "out", "lapsed"} /\ user \in BOOLEAN /\ loading \in BOOLEAN
      /\ InPlace(c) /\ \A d \in calls : InPlace(d)
      /\ \A d, e \in calls : d.op = e.op /\ ~d.orphan /\ ~e.orphan => d = e
    BY DEF AccountInv, TypeOK, Calls
<1>1. UNCHANGED <<serverVars, errors>>
    BY DEF Return
<1>2. CASE DoneMe(c)
    <2>1. ~user /\ loading /\ loading' = FALSE /\ \A d \in calls \ {c} :
                d.op \notin {"me", "login", "logout"} /\ (d.op \notin ListOps => ~d.orphan)
        BY <1>0, <1>2 DEF DoneMe, InPlace, ListOps
    <2>2. access' \in BOOLEAN /\ refresh' \in BOOLEAN /\ submitting' \in BOOLEAN
        BY <1>0, <1>2 DEF DoneMe, cookies
    <2>3. CASE c.res = "ok"
        BY <1>0, <1>1, <1>2, <2>1, <2>2, <2>3, SetUserInv DEF DoneMe
    <2>4. CASE c.res # "ok"
        <3>1. raced' \in BOOLEAN /\ stale' \in BOOLEAN /\ left' \in {"no", "out", "lapsed"}
            BY <1>0, <1>2, <2>4 DEF DoneMe, ghostVars
        <3>2. SetNull(calls \ {c})
            BY <1>2, <2>4 DEF DoneMe
        <3> QED
            BY <1>0, <1>1, <2>1, <2>2, <3>1, <3>2, SetNullInv
    <2> QED
        BY <2>3, <2>4
<1>3. CASE DoneLogin(c)
    <2>1. ~user /\ ~loading /\ \A d \in calls \ {c} : d.op \notin {"me", "login"}
        BY <1>0, <1>3 DEF DoneLogin, InPlace, ListOps
    <2>2. UNCHANGED loading /\ loading' \in BOOLEAN
        BY <1>0, <1>3 DEF DoneLogin
    <2>3. CASE c.res = "ok"
        <3>1. access' \in BOOLEAN /\ refresh' \in BOOLEAN /\ submitting' \in BOOLEAN
            BY <1>3, <2>3 DEF DoneLogin
        <3> QED
            BY <1>0, <1>1, <1>3, <2>1, <2>2, <2>3, <3>1, SetUserInv DEF DoneLogin
    <2>4. CASE c.res # "ok"
        <3>1. submitting' \in BOOLEAN
            BY <1>3, <2>4 DEF DoneLogin
        <3> QED
            BY <1>0, <1>1, <1>3, <2>2, <2>4, <3>1, Returned
            DEF DoneLogin, cookies, sourceVars, ghostVars
    <2> QED
        BY <2>3, <2>4
<1>4. CASE DoneLogout(c)
    <2>1. user /\ ~loading /\ \A d \in calls \ {c} :
                d.op \notin {"me", "login", "logout"} /\ (d.op \notin ListOps => ~d.orphan)
        BY <1>0, <1>4 DEF DoneLogout, InPlace, ListOps, AccountInv
    <2>2. /\ UNCHANGED <<loading, submitting, raced, stale>>
          /\ access' \in BOOLEAN /\ refresh' \in BOOLEAN
        BY <1>0, <1>4 DEF DoneLogout, ClearCookies, cookies
    <2>3. CASE c.res = "error"
        BY <1>0, <1>1, <1>4, <2>2, <2>3, Returned DEF DoneLogout, sourceVars
    <2>4. CASE c.res # "error"
        <3>1. SetNull(calls \ {c}) /\ left' \in {"no", "out", "lapsed"}
            BY <1>4, <2>4 DEF DoneLogout
        <3> QED
            BY <1>0, <1>1, <2>1, <2>2, <3>1, SetNullInv
    <2> QED
        BY <2>3, <2>4
<1>5. CASE DoneBeat(c)
    BY <1>0, <1>1, <1>5, Returned DEF DoneBeat, cookies, page, ghostVars, sourceVars
<1>6. CASE DoneContacts(c)
    <2>1. listed' \in BOOLEAN /\ stale' \in BOOLEAN
        BY <1>0, <1>6 DEF DoneContacts, Calls
    <2> QED
        BY <1>0, <1>1, <1>6, <2>1, Returned DEF DoneContacts, cookies, page, sourceVars
<1>7. CASE DoneAdd(c) \/ DoneRemove(c)
    <2>1. /\ UNCHANGED <<cookies, page, listed, sourceVars, left>>
          /\ access' \in BOOLEAN /\ refresh' \in BOOLEAN /\ submitting' \in BOOLEAN
          /\ UNCHANGED <<user, loading>>
        BY <1>0, <1>7 DEF DoneAdd, DoneRemove, cookies, page
    <2>2. CASE Refetch(c)
        <3> DEFINE d == [Call("contacts", access) EXCEPT !.orphan = c.orphan]
        <3>1. c.op \in ListOps
            BY <1>7 DEF DoneAdd, DoneRemove, ListOps
        <3>2. d \in Calls /\ d.op = "contacts" /\ d.orphan = c.orphan /\ InPlace(d)
            <4>1. Call("contacts", access) \in Calls /\ Call("contacts", access).op = "contacts"
                BY <1>0, CallType DEF Ops
            <4>2. d \in Calls /\ d.op = "contacts" /\ d.orphan = c.orphan
                BY <1>0, <4>1 DEF Calls
            <4> QED
                BY <1>0, <3>1, <4>2 DEF InPlace, ListOps
        <3>3. raced' \in BOOLEAN /\ stale' \in BOOLEAN
            BY <1>0, <2>2 DEF Refetch, Noted
        <3>4. CASE calls' = calls \ {c}
            BY <1>0, <1>1, <2>1, <3>3, <3>4, Returned
        <3>5. CASE /\ calls' = (calls \ {c}) \cup {d}
                   /\ d.orphan \/ \A e \in calls \ {c} : e.op = "contacts" => e.orphan
            BY <1>0, <1>1, <2>1, <3>2, <3>3, <3>5, Begun
        <3>6. Refetch(c) => (calls' = (calls \ {c})) \/
                    (/\ calls' = (calls \ {c}) \cup {d}
                     /\ d.orphan \/ \A e \in calls \ {c} : e.op = "contacts" => e.orphan)
            <4> HIDE <1>7
            <4> QED
                BY <3>2 DEF Refetch, Pending
        <3> QED
            BY <2>2, <3>4, <3>5, <3>6
    <2>3. CASE ~Refetch(c)
        <3>1. calls' = calls \ {c} /\ raced' = raced /\ stale' \in BOOLEAN
            BY <1>0, <1>7, <2>3 DEF DoneAdd, DoneRemove
        <3> QED
            BY <1>0, <1>1, <2>1, <3>1, Returned
    <2> QED
        BY <2>2, <2>3
<1> QED
    BY <1>2, <1>3, <1>4, <1>5, <1>6, <1>7 DEF Return

\* A component begins a call.
LEMMA BeginInv ==
    ASSUME AccountInv, NEW op \in Ops, Begin(op),
           UNCHANGED <<serverVars, errors, user, loading, sourceVars, cookies>>,
           op = "login" => ~user /\ ~loading, op # "login" => user, op # "me",
           listed' \in BOOLEAN, submitting' \in BOOLEAN, left' \in {"no", "out", "lapsed"}
    PROVE  AccountInv'
<1>1. access \in BOOLEAN /\ refresh \in BOOLEAN /\ raced \in BOOLEAN /\ stale \in BOOLEAN
    BY DEF AccountInv, TypeOK
<1> DEFINE d == Call(op, access)
<1>2. d \in Calls /\ d.op = op /\ ~d.orphan
    BY <1>1, CallType
<1>3. calls' = calls \cup {d} /\ \A e \in calls : e.op = op => e.orphan
    BY DEF Begin, Pending
<1>4. raced' \in BOOLEAN /\ stale' \in BOOLEAN
    BY <1>1 DEF Begin, Noted, Races
<1>5. InPlace(d)
    BY <1>2 DEF InPlace, ListOps
<1> QED
    BY <1>1, <1>2, <1>3, <1>4, <1>5, Begun DEF cookies

LEMMA PressInv ==
    ASSUME AccountInv, Press \/ Beat
    PROVE  AccountInv'
<1>0. /\ access \in BOOLEAN /\ refresh \in BOOLEAN /\ submitting \in BOOLEAN
      /\ listed \in BOOLEAN /\ left \in {"no", "out", "lapsed"}
      /\ {"login", "logout", "add", "remove", "beat", "me"} \subseteq Ops
    BY DEF AccountInv, TypeOK, Ops
<1>1. CASE SubmitLogin
    BY <1>0, <1>1, BeginInv DEF SubmitLogin
<1>2. CASE PressLogout
    BY <1>0, <1>2, BeginInv DEF PressLogout, page
<1>3. CASE Beat
    BY <1>0, <1>3, BeginInv DEF Beat, page
<1>4. CASE PressAdd
    BY <1>0, <1>4, BeginInv DEF PressAdd, page
<1>5. CASE PressRemove
    BY <1>0, <1>5, BeginInv DEF PressRemove, page
<1>6. CASE Reload
    <2> DEFINE rest == {Call("me", access)}
    <2>1. \A d \in rest : d \in Calls /\ d.op = "me" /\ ~d.orphan
        BY <1>0, CallType
    <2>2. loading' /\ loading' \in BOOLEAN
        BY <1>6 DEF Reload
    <2>3. UNCHANGED cookies /\ SetNull(rest) /\ UNCHANGED <<serverVars, errors>>
        BY <1>6 DEF Reload
    <2>4. submitting' \in BOOLEAN /\ left' = "no" /\ raced' \in BOOLEAN /\ stale' \in BOOLEAN
        BY <1>6 DEF Reload
    <2>5. \A d, e \in rest : d = e
        OBVIOUS
    <2>6. \A d \in rest : /\ d.op = "me" => loading'
                          /\ d.op = "login" => ~loading'
                          /\ d.op # "logout"
                          /\ d.op \notin ListOps => ~d.orphan
        BY <2>1, <2>2
    <2> HIDE DEF rest
    <2> QED
        BY <1>0, <2>1, <2>2, <2>3, <2>4, <2>5, <2>6, SetNullInv DEF cookies
<1> QED
    BY <1>1, <1>2, <1>3, <1>4, <1>5, <1>6 DEF Press

\* The lifetimes of the tokens, and the EventSource.
LEMMA SourceInv ==
    ASSUME AccountInv, Expire \/ Source
    PROVE  AccountInv'
<1> UNCHANGED <<serverVars, calls, errors, page, listed, ghostVars>>
    BY DEF Expire, Source, SourceFails, RetryFires
<1>1. access' \in BOOLEAN /\ refresh' \in BOOLEAN
    BY DEF AccountInv, TypeOK, Expire, Source, SourceFails, RetryFires, cookies
<1>2. linked' \in Nat /\ retries' \in Nat /\ linked' + retries' = linked + retries
    <2>1. linked \in Nat /\ retries \in Nat
        BY DEF AccountInv, TypeOK
    <2>2. CASE Expire
        BY <2>1, <2>2 DEF Expire, sourceVars
    <2>3. CASE SourceFails
        BY <2>1, <2>3 DEF SourceFails, Fails
    <2>4. CASE RetryFires
        BY <2>1, <2>4 DEF RetryFires, Opens, sourceVars
    <2> QED
        BY <2>2, <2>3, <2>4 DEF Source
<1>3. OneSource'
    BY <1>2 DEF AccountInv, OneSource, page
<1> QED
    BY <1>1, <1>2, <1>3 DEF AccountInv, TypeOK, InPlace, serverVars, page, ghostVars

LEMMA AccountStep == AccountInv /\ [Next]_vars => AccountInv'
<1> SUFFICES ASSUME AccountInv, [Next]_vars PROVE AccountInv'
    OBVIOUS
<1>1. CASE \E c \in calls : Progress(c) \/ NetworkFails(c)
    BY <1>1, ServeInv, RefreshInv, ReturnInv DEF Progress
<1>2. CASE Press \/ Beat \/ Expire \/ Source
    BY <1>2, PressInv, SourceInv
<1>3. CASE UNCHANGED vars
    BY <1>3 DEF vars, serverVars, cookies, page, sourceVars, ghostVars, AccountInv, TypeOK,
                OneSource, InPlace
<1> QED
    BY <1>1, <1>2, <1>3 DEF Next

\* The types, and at most one call of a kind for anybody who waits for it, hold
\* in every state of the account.
THEOREM AccountTypeCorrect == Spec => []TypeOK
<1>1. AccountInv => TypeOK
    BY DEF AccountInv
<1> QED
    BY <1>1, AccountInit, AccountStep, PTL DEF Spec

\* A tab whose user is logged in has one EventSource or one timer to open it
\* again, and any other has none (onerror and the cleanup of AuthContext).
THEOREM SourceIsOne == Spec => []OneSource
<1>1. AccountInv => OneSource
    BY DEF AccountInv
<1> QED
    BY <1>1, AccountInit, AccountStep, PTL DEF Spec

-----------------------------------------------------------------------------
(***************************************************************************)
(* The logout.  Unless another call is under way together with it, it is   *)
(* the only call, so nobody changes the cookies or the row behind its      *)
(* back: a 401 means that the access token has expired, a refresh that     *)
(* fails that the refresh token has, too, and an answer that the row says  *)
(* offline.                                                                *)
(***************************************************************************)
LogoutFits(c) ==
    /\ calls = {c}
    /\ c.phase = "out" /\ ~c.tok => ~access /\ ~c.again
    /\ c.phase = "back" => c.res \in {"ok", "401", "error"}
    /\ c.phase = "back" /\ c.res = "401" => ~access /\ ~c.again
    /\ c.phase = "back" /\ c.res = "ok" => status = "offline"
    /\ c.phase = "refresh" => ~access /\ c.res = "401" /\ (~c.tok => ~refresh)

\* What a logout has left behind: nobody begins a call before it is forgotten.
LoggedOut ==
    /\ calls = {} /\ ~access /\ ~refresh
    /\ left = "out" => status = "offline"

LogoutInv ==
    /\ user => left = "no"
    /\ ~raced => \A c \in calls : c.op = "logout" => LogoutFits(c)
    /\ ~raced /\ left # "no" => LoggedOut

LEMMA LogoutInit == Init => LogoutInv
<1> SUFFICES ASSUME Init PROVE LogoutInv
    OBVIOUS
<1>1. left = "no" /\ \A c \in calls : c = Call("me", FALSE)
    BY DEF Init
<1>2. Call("me", FALSE).op = "me"
    BY CallType DEF Ops
<1> QED
    BY <1>1, <1>2 DEF LogoutInv

\* The step is none of a logout, or races with one.
LEMMA LogoutElse ==
    ASSUME user' => left' = "no", raced' \/ left' = "no",
           raced' \/ \A c \in calls' : c.op # "logout"
    PROVE  LogoutInv'
BY DEF LogoutInv

\* A call goes on.
LEMMA LogoutGoesOn ==
    ASSUME LogoutInv, NEW c \in calls, NEW d, d.op = c.op,
           calls' = (calls \ {c}) \cup {d}, UNCHANGED <<user, left, raced>>,
           c.op = "logout" /\ calls = {c} /\ LogoutFits(c) => LogoutFits(d)'
    PROVE  LogoutInv'
<1>1. ~raced => left = "no"
    BY DEF LogoutInv, LoggedOut
<1>2. ASSUME ~raced, NEW e \in calls', e.op = "logout" PROVE LogoutFits(e)'
    <2>1. PICK x \in calls : x.op = "logout"
        BY <1>2
    <2>2. LogoutFits(x) /\ calls = {x}
        BY <1>2, <2>1 DEF LogoutInv, LogoutFits
    <2>3. x = c /\ e = d
        BY <2>2
    <2> QED
        BY <2>1, <2>2, <2>3
<1> QED
    BY <1>1, <1>2 DEF LogoutInv

LEMMA LogoutServe ==
    ASSUME AccountInv, LogoutInv, NEW c \in calls, Serve(c)
    PROVE  LogoutInv'
<1>0. c \in Calls /\ UNCHANGED <<user, left, raced, access, refresh>> /\ c.phase = "out"
    BY DEF AccountInv, TypeOK, Serve, page, ghostVars, cookies
<1>1. CASE Unauthorized(c)
    <2> DEFINE d == Answered(c, "401")
    <2>1. calls' = (calls \ {c}) \cup {d} /\ UNCHANGED serverVars
        BY <1>1 DEF Serve, Refuse, Answer
    <2>2. d.op = c.op /\ d.res = "401" /\ d.phase = "back" /\ d.again = c.again
        BY <1>0, AnsweredType DEF Results
    <2>3. calls = {c} => calls' = {d}
        BY <2>1
    <2>4. calls = {c} /\ LogoutFits(c) => LogoutFits(d)'
        <3> HIDE DEF d
        <3> QED
            BY <1>0, <1>1, <2>2, <2>3 DEF LogoutFits, Unauthorized
    <2> QED
        BY <1>0, <2>1, <2>2, <2>4, LogoutGoesOn
<1>2. CASE ~Unauthorized(c) /\ c.op = "logout"
    <2> DEFINE d == Answered(c, "ok")
    <2>1. calls' = (calls \ {c}) \cup {d} /\ status' = "offline"
        BY <1>2 DEF Serve, Handle, Unauthorized, Protected, Ops, ServeLogin, ServeLogout,
                    ServeBeat, ServeRead, ServeAdd, ServeRemove, Answer
    <2>2. d.op = c.op /\ d.res = "ok" /\ d.phase = "back"
        BY <1>0, AnsweredType DEF Results
    <2>3. calls = {c} => calls' = {d}
        BY <2>1
    <2>4. calls = {c} /\ LogoutFits(c) => LogoutFits(d)'
        <3> HIDE DEF d
        <3> QED
            BY <1>0, <2>1, <2>2, <2>3 DEF LogoutFits
    <2> QED
        BY <1>0, <2>1, <2>2, <2>4, LogoutGoesOn
<1>3. CASE ~Unauthorized(c) /\ c.op # "logout"
    <2>1. \E d : d.op = c.op /\ calls' = (calls \ {c}) \cup {d}
        <3>1. ASSUME NEW res \in Results, Answer(c, res) PROVE <2>1!:
            BY <1>0, <3>1, AnsweredType DEF Answer
        <3>2. CASE ServeRead(c)
            <4>1. [Answered(c, "ok") EXCEPT !.row = c.op = "contacts" /\ InTable].op = c.op
                BY <1>0, AnsweredType DEF Calls, InTable, Results
            <4> QED
                BY <3>2, <4>1 DEF ServeRead
        <3> QED
            BY <1>3, <3>1, <3>2 DEF Serve, Handle, ServeLogin, ServeLogout, ServeBeat, ServeAdd,
                              ServeRemove, Results
    <2> QED
        BY <1>0, <1>3, <2>1, LogoutGoesOn
<1> QED
    BY <1>1, <1>2, <1>3

LEMMA LogoutRefresh ==
    ASSUME AccountInv, LogoutInv, NEW c \in calls, StartRefresh(c) \/ Repeat(c) \/ NetworkFails(c)
    PROVE  LogoutInv'
<1>0. c \in Calls /\ UNCHANGED <<user, left, raced>>
    BY DEF AccountInv, TypeOK, StartRefresh, Repeat, NetworkFails, page, ghostVars
<1>1. CASE StartRefresh(c)
    <2> PICK d : d = [c EXCEPT !.phase = "refresh", !.tok = refresh, !.again = TRUE]
        OBVIOUS
    <2>1. calls' = (calls \ {c}) \cup {d} /\ UNCHANGED cookies
          /\ c.phase = "back" /\ c.res = "401"
        BY <1>1 DEF StartRefresh, Refreshes
    <2>2. d.op = c.op /\ d.res = "401" /\ d.phase = "refresh" /\ d.tok = refresh
        BY <1>0, <2>1 DEF Calls
    <2>3. calls = {c} => calls' = {d}
        BY <2>1
    <2>4. calls = {c} /\ LogoutFits(c) => LogoutFits(d)'
        BY <2>1, <2>2, <2>3 DEF LogoutFits, cookies
    <2> QED
        BY <1>0, <2>1, <2>2, <2>4, LogoutGoesOn
<1>2. CASE Repeat(c)
    <2> PICK d : d = [c EXCEPT !.phase = "out", !.res = "none"]
        OBVIOUS
    <2>1. calls' = (calls \ {c}) \cup {d} /\ c.tok
        BY <1>2 DEF Repeat
    <2>2. d.op = c.op /\ d.phase = "out" /\ d.tok
        BY <1>0, <2>1 DEF Calls
    <2>3. calls = {c} => calls' = {d}
        BY <2>1
    <2>4. calls = {c} /\ LogoutFits(c) => LogoutFits(d)'
        BY <2>2, <2>3 DEF LogoutFits
    <2> QED
        BY <1>0, <2>1, <2>2, <2>4, LogoutGoesOn
<1>3. CASE NetworkFails(c)
    <2> DEFINE d == Answered(c, "error")
    <2>1. calls' = (calls \ {c}) \cup {d}
        BY <1>3 DEF NetworkFails, Answer
    <2>2. d.op = c.op /\ d.phase = "back" /\ d.res = "error"
        BY <1>0, AnsweredType DEF Results
    <2>3. calls = {c} => calls' = {d}
        BY <2>1
    <2>4. calls = {c} /\ LogoutFits(c) => LogoutFits(d)'
        <3> HIDE DEF d
        <3> QED
            BY <2>2, <2>3 DEF LogoutFits
    <2> QED
        BY <1>0, <2>1, <2>2, <2>4, LogoutGoesOn
<1> QED
    BY <1>1, <1>2, <1>3

\* What is under way when a call other than a logout returns, and after it.
LEMMA LogoutReturn ==
    ASSUME AccountInv, LogoutInv, NEW c \in calls, Return(c)
    PROVE  LogoutInv'
<1>0. /\ c \in Calls /\ calls \subseteq Calls
      /\ user => left = "no"
      /\ raced \/ left = "no"
      /\ \A d \in calls : d.op = "logout" /\ ~raced => calls = {d}
      /\ \A d \in calls : InPlace(d)
    BY DEF AccountInv, TypeOK, LogoutInv, LogoutFits, LoggedOut
<1>1. ASSUME NEW rest, rest = calls \ {c}, SetUser(rest), ~user
      PROVE  LogoutInv'
    <2>1. \A d \in rest : d.op # "logout"
        BY <1>0, <1>1 DEF InPlace
    <2>2. Call("contacts", access').op = "contacts"
        BY DEF Call
    <2>3. calls' = rest \cup {Call("contacts", access')} /\ left' = "no"
        BY <1>1 DEF SetUser
    <2> HIDE <1>1
    <2> QED
        BY <2>1, <2>2, <2>3, LogoutElse
<1>2. ASSUME NEW rest, rest = calls \ {c}, SetNull(rest)
      PROVE  ~user' /\ (raced \/ \A d \in calls' : d.op # "logout")
    <2>1. raced \/ \A d \in rest : d.op # "logout"
        BY <1>0, <1>2
    <2> DEFINE Lost(d) == [d EXCEPT !.orphan = TRUE]
    <2>2. \A d \in Calls : Lost(d).op = d.op
        BY DEF Calls
    <2>3. calls' = {IF d.op \in ListOps THEN Lost(d) ELSE d : d \in rest}
        BY <1>2 DEF SetNull
    <2>4. \A d \in calls' : \E e \in rest : d.op = e.op
        <3> HIDE DEF Lost
        <3> QED
            BY <1>0, <1>2, <2>2, <2>3
    <2> QED
        BY <1>2, <2>1, <2>4 DEF SetNull
<1>3. CASE DoneMe(c)
    <2>1. ~user
        BY <1>0, <1>3 DEF InPlace, DoneMe
    <2>2. CASE c.res = "ok"
        BY <1>1, <1>3, <2>1, <2>2 DEF DoneMe
    <2>3. CASE c.res # "ok"
        BY <1>0, <1>2, <1>3, <2>3, LogoutElse DEF DoneMe, ghostVars
    <2> QED
        BY <2>2, <2>3
<1>4. CASE DoneLogin(c)
    <2>1. ~user
        BY <1>0, <1>4 DEF InPlace, DoneLogin
    <2>2. CASE c.res = "ok"
        BY <1>1, <1>4, <2>1, <2>2 DEF DoneLogin
    <2>3. CASE c.res # "ok"
        BY <1>0, <1>4, <2>3, LogoutElse DEF DoneLogin, ghostVars
    <2> QED
        BY <2>2, <2>3
<1>5. CASE DoneLogout(c)
    <2>1. user /\ left = "no" /\ raced' = raced /\ c.op = "logout"
        BY <1>0, <1>5 DEF InPlace, DoneLogout
    <2>2. CASE raced
        BY <1>0, <1>5, <2>1, <2>2 DEF DoneLogout, LogoutInv, SetNull
    <2>3. CASE ~raced
        <3>1. LogoutFits(c) /\ calls \ {c} = {} /\ Final(c) /\ UNCHANGED serverVars
            BY <1>0, <2>1, <2>3 DEF LogoutInv, LogoutFits, Return
        <3>2. CASE c.res = "error"
            BY <1>5, <2>1, <3>1, <3>2 DEF DoneLogout, LogoutInv
        <3>3. CASE c.res # "error"
            <4>1. SetNull(calls \ {c}) /\ left' = IF c.res = "ok" THEN "out" ELSE "lapsed"
                BY <1>5, <3>3 DEF DoneLogout
            <4>2. calls' = {} /\ ~user'
                BY <3>1, <4>1 DEF SetNull
            <4>3. CASE c.res = "ok"
                <5>1. ~access' /\ ~refresh'
                    BY <1>5, <4>3 DEF DoneLogout, ClearCookies
                <5>2. c.phase = "back"
                    BY <3>1, <4>3 DEF Final, LogoutFits
                <5>3. status' = "offline"
                    BY <3>1, <4>3, <5>2 DEF LogoutFits, serverVars
                <5> QED
                    BY <4>2, <5>1, <5>3 DEF LogoutInv, LoggedOut
            <4>4. CASE c.res # "ok"
                <5>1. c.phase = "refresh" /\ ~c.tok
                    BY <3>1, <3>3, <4>4 DEF Final, LogoutFits, Refreshes
                <5>2. ~access' /\ ~refresh'
                    BY <1>5, <3>1, <4>4, <5>1 DEF DoneLogout, LogoutFits, cookies
                <5> QED
                    BY <4>1, <4>2, <4>4, <5>2 DEF LogoutInv, LoggedOut
            <4> QED
                BY <4>3, <4>4
        <3> QED
            BY <3>2, <3>3
    <2> QED
        BY <2>2, <2>3
<1>6. CASE DoneBeat(c)
    BY <1>0, <1>6, LogoutElse DEF DoneBeat, page, ghostVars
<1>7. CASE DoneContacts(c)
    BY <1>0, <1>7, LogoutElse DEF DoneContacts, page
<1>8. CASE DoneAdd(c) \/ DoneRemove(c)
    <2>1. UNCHANGED <<user, left>> /\ c.op \in {"add", "remove"}
        BY <1>8 DEF DoneAdd, DoneRemove, page
    <2>2. raced \/ \A d \in calls \ {c} : d.op # "logout"
        BY <1>0
    <2>3. raced => raced'
        BY <1>8 DEF DoneAdd, DoneRemove, Refetch, Noted
    <2>4. [Call("contacts", access) EXCEPT !.orphan = c.orphan].op = "contacts"
        BY DEF Call
    <2>5. \A d \in calls' : d \in calls \ {c} \/ d.op = "contacts"
        <3> HIDE <2>4
        <3> DEFINE d == [Call("contacts", access) EXCEPT !.orphan = c.orphan]
        <3>1. d.op = "contacts"
            BY <2>4
        <3>2. calls' = calls \ {c} \/ calls' = (calls \ {c}) \cup {d}
            BY <1>8 DEF DoneAdd, DoneRemove, Refetch
        <3> QED
            BY <3>1, <3>2
    <2> QED
        BY <1>0, <2>1, <2>2, <2>3, <2>5, LogoutElse
<1> QED
    BY <1>3, <1>4, <1>5, <1>6, <1>7, <1>8 DEF Return

\* A logout that begins alone fits, and any other pair races.
LEMMA LogoutBegin ==
    ASSUME LogoutInv, access \in BOOLEAN, NEW op \in Ops, Begin(op), UNCHANGED cookies,
           left' = "no"
    PROVE  LogoutInv'
<1> PICK d : d = Call(op, access)
    OBVIOUS
<1>1. /\ d.op = op /\ d.phase = "out" /\ d.tok = access /\ ~d.again
      /\ calls' = calls \cup {d} /\ raced' = (raced \/ Races(op, calls))
    BY DEF Call, Begin, Noted
<1>2. ASSUME ~raced', NEW c \in calls', c.op = "logout" PROVE LogoutFits(c)'
    <2>1. op = "logout" /\ calls = {}
        BY <1>1, <1>2 DEF Races
    <2>2. calls' = {d} /\ c = d
        BY <1>1, <2>1
    <2> QED
        BY <1>1, <2>2 DEF LogoutFits, cookies
<1> QED
    BY <1>2 DEF LogoutInv

LEMMA LogoutPress ==
    ASSUME AccountInv, LogoutInv, Press \/ Beat
    PROVE  LogoutInv'
<1>0. access \in BOOLEAN /\ {"login", "logout", "add", "remove", "beat", "me"} \subseteq Ops
      /\ (user => left = "no")
    BY DEF AccountInv, TypeOK, Ops, LogoutInv
<1>1. CASE SubmitLogin
    BY <1>0, <1>1, LogoutBegin DEF SubmitLogin
<1>2. CASE PressLogout
    BY <1>0, <1>2, LogoutBegin DEF PressLogout
<1>3. CASE Beat
    BY <1>0, <1>3, LogoutBegin DEF Beat
<1>4. CASE PressAdd
    BY <1>0, <1>4, LogoutBegin DEF PressAdd
<1>5. CASE PressRemove
    BY <1>0, <1>5, LogoutBegin DEF PressRemove
<1>6. CASE Reload
    <2>1. Call("me", access).op = "me"
        BY DEF Call
    <2>2. calls' = {Call("me", access)} /\ left' = "no"
        BY <1>6, <2>1 DEF Reload, SetNull, ListOps
    <2> QED
        BY <2>1, <2>2, LogoutElse
<1> QED
    BY <1>1, <1>2, <1>3, <1>4, <1>5, <1>6 DEF Press

\* Tokens that expire take nothing back; and a source or a timer is there only
\* for somebody who is logged in.
LEMMA LogoutSource ==
    ASSUME AccountInv, LogoutInv, Expire \/ Source
    PROVE  LogoutInv'
<1>0. UNCHANGED <<calls, user, left, raced, status>>
    BY DEF Expire, Source, SourceFails, RetryFires, page, ghostVars, serverVars
<1>1. CASE Expire
    <2>1. access /\ ~access' /\ (~refresh => ~refresh')
        <3>1. access /\ ~access' /\ refresh' \in {refresh, FALSE}
            BY <1>1 DEF Expire
        <3>2. refresh' => refresh
            BY <3>1, Zenon
        <3> QED
            BY <3>1, <3>2
    <2>2. raced \/ left = "no"
        BY <2>1 DEF LogoutInv, LoggedOut
    <2>3. \A c \in calls : LogoutFits(c) => LogoutFits(c)'
        BY <1>0, <2>1 DEF LogoutFits
    <2> QED
        BY <1>0, <2>2, <2>3 DEF LogoutInv
<1>2. CASE Source
    BY <1>0, <1>2 DEF Source, SourceFails, RetryFires, cookies, LogoutInv, LogoutFits, LoggedOut
<1> QED
    BY <1>1, <1>2

LEMMA LogoutStep == AccountInv /\ LogoutInv /\ [Next]_vars => LogoutInv'
<1> SUFFICES ASSUME AccountInv, LogoutInv, [Next]_vars PROVE LogoutInv'
    OBVIOUS
<1>1. CASE \E c \in calls : Progress(c) \/ NetworkFails(c)
    BY <1>1, LogoutServe, LogoutRefresh, LogoutReturn DEF Progress
<1>2. CASE Press \/ Beat \/ Expire \/ Source
    BY <1>2, LogoutPress, LogoutSource
<1>3. CASE UNCHANGED vars
    BY <1>3 DEF vars, serverVars, cookies, page, ghostVars, LogoutInv, LogoutFits, LoggedOut
<1> QED
    BY <1>1, <1>2, <1>3 DEF Next

\* After a logout that no other call raced with, no token is left in the
\* browser, and the database says offline unless the refresh token had expired
\* (logout of AuthContext and LogoutHandler).
THEOREM LogoutCompletes == Spec => []LogoutIsComplete
<1>1. AccountInv /\ LogoutInv => LogoutIsComplete
    BY DEF LogoutInv, LoggedOut, LogoutIsComplete
<1> QED
    BY <1>1, AccountInit, AccountStep, LogoutInit, LogoutStep, PTL DEF Spec

-----------------------------------------------------------------------------
(***************************************************************************)
(* The list.  As long as the user is there and nothing has made the list   *)
(* stale, it is in one of three states: a contact is being added, and the  *)
(* list is fetched once it is; the only call about the list is a removal,  *)
(* which the list shows already; or nothing changes, and the list, or the  *)
(* answer that it waits for, is the table's.                               *)
(***************************************************************************)
Adding ==
    /\ \E c \in calls : c.op = "add"
    /\ \A c \in calls : c.op # "remove"

Removing ==
    /\ ~listed
    /\ \E c \in calls :
        /\ c.op = "remove" /\ (c.res = "ok" => ~row)
        /\ \A d \in calls : d.op \in ListOps => d = c

Settled ==
    /\ \A c \in calls : c.op \notin Changes
    /\ \A c \in calls : c.op = "contacts" /\ ~c.orphan /\ c.res = "ok" => c.row = InTable
    /\ Pending("contacts") \/ listed = InTable

ListInv ==
    user /\ ~stale =>
        /\ \A c \in calls : c.op \in Changes => ~c.orphan
        /\ Adding \/ Removing \/ Settled

\* Nobody is logged in, or the list is stale: there is nothing to say.
LEMMA ListElse ==
    ASSUME ~user' \/ stale'
    PROVE  ListInv'
BY DEF ListInv

LEMMA ListInit == Init => ListInv
<1> SUFFICES ASSUME Init PROVE ListInv
    OBVIOUS
<1>1. user = FALSE
    BY DEF Init
<1> QED
    BY <1>1 DEF ListInv

\* Nothing about the list changes.
LEMMA ListSame ==
    ASSUME ListInv, user' => user, stale' = stale, UNCHANGED <<row, theirs, listed>>,
           \A c \in calls : c.op \in ListOps => c \in calls',
           \A c \in calls' : c.op \in ListOps => c \in calls
    PROVE  ListInv'
<1> SUFFICES ASSUME user', ~stale' PROVE ListInv'
    BY ListElse
<1>1. \A c \in calls : c.op \in Changes => ~c.orphan
    BY DEF ListInv
<1>2. \A c \in calls' : c.op \in Changes => ~c.orphan
    BY <1>1 DEF Changes, ListOps
<1>3. CASE Adding
    BY <1>2, <1>3 DEF Adding, ListInv, ListOps
<1>4. CASE Removing
    BY <1>2, <1>4 DEF Removing, ListInv, ListOps
<1>5. CASE Settled
    <2>1. InTable' = InTable
        BY DEF InTable
    <2>2. Pending("contacts") <=> Pending("contacts")'
        BY DEF Pending, ListOps
    <2> QED
        BY <1>2, <1>5, <2>1, <2>2 DEF Settled, ListInv, ListOps, Changes
<1> QED
    BY <1>3, <1>4, <1>5 DEF ListInv

\* A call goes on, and the server may have changed the row for it.
LEMMA ListGoesOn ==
    ASSUME ListInv, NEW c \in calls, NEW d, d.op = c.op, d.orphan = c.orphan,
           calls' = (calls \ {c}) \cup {d}, UNCHANGED <<user, stale, listed, theirs>>,
           c.op \in Changes \/ row' = row,
           c.op = "remove" /\ d.res = "ok" => ~row',
           c.op = "contacts" /\ d.res = "ok" => d.row = InTable'
    PROVE  ListInv'
<1> SUFFICES ASSUME user', ~stale' PROVE ListInv'
    BY ListElse
<1>2. \A e \in calls' : e.op \in Changes => ~e.orphan
    BY DEF ListInv
<1>3. CASE Adding
    <2>1. \E e \in calls' : e.op = "add"
        BY <1>3 DEF Adding
    <2>2. \A e \in calls' : e.op # "remove"
        BY <1>3 DEF Adding
    <2> QED
        BY <1>2, <2>1, <2>2 DEF ListInv, Adding
<1>4. CASE Removing
    <2>1. PICK r \in calls : /\ r.op = "remove" /\ (r.res = "ok" => ~row)
                             /\ \A e \in calls : e.op \in ListOps => e = r
        BY <1>4 DEF Removing
    <2>2. ~listed'
        BY <1>4 DEF Removing
    <2>3. CASE c = r
        BY <1>2, <2>1, <2>2, <2>3 DEF Removing, ListInv
    <2>4. CASE c # r
        <3>1. c.op \notin ListOps /\ c.op \notin Changes
            BY <2>1, <2>4 DEF ListOps, Changes
        <3> QED
            BY <1>2, <2>1, <2>2, <2>4, <3>1 DEF Removing, ListInv
    <2> QED
        BY <2>3, <2>4
<1>5. CASE Settled
    <2>1. c.op \notin Changes /\ row' = row /\ InTable' = InTable
        BY <1>5 DEF Settled, InTable
    <2>2. Pending("contacts") => Pending("contacts")'
        BY DEF Pending
    <2>3. \A e \in calls' : e.op \notin Changes
        BY <1>5, <2>1 DEF Settled
    <2>4. \A e \in calls' : e.op = "contacts" /\ ~e.orphan /\ e.res = "ok" => e.row = InTable'
        BY <1>5, <2>1 DEF Settled
    <2>5. Pending("contacts")' \/ listed' = InTable'
        BY <1>5, <2>1, <2>2 DEF Settled
    <2> QED
        BY <1>2, <2>3, <2>4, <2>5 DEF Settled, ListInv
<1> QED
    BY <1>3, <1>4, <1>5 DEF ListInv

\* The list is being fetched, and nothing changes it.
LEMMA ListFetches ==
    ASSUME NEW rest, NEW d, calls' = rest \cup {d}, d.op = "contacts", ~d.orphan,
           d.res = "none", \A c \in rest : c.op \notin Changes,
           \A c \in rest : c.op = "contacts" => c.orphan
    PROVE  ListInv'
<1>1. \A c \in calls' : c.op \notin Changes
    BY DEF Changes
<1>2. \A c \in calls' : c.op = "contacts" /\ ~c.orphan => c.res # "ok"
    OBVIOUS
<1>3. Pending("contacts")'
    BY DEF Pending
<1> QED
    BY <1>1, <1>2, <1>3 DEF ListInv, Settled

LEMMA ListServe ==
    ASSUME AccountInv, ListInv, NEW c \in calls, Serve(c)
    PROVE  ListInv'
<1>0. c \in Calls /\ UNCHANGED <<user, stale, listed, theirs>>
    BY DEF AccountInv, TypeOK, Serve, page, ghostVars, Refuse, Handle, ServeLogin, ServeLogout,
           ServeBeat, ServeRead, ServeAdd, ServeRemove, serverVars
<1>1. ASSUME NEW res \in Results, Answer(c, res), c.op \in Changes \/ row' = row,
             c.op = "remove" /\ res = "ok" => ~row', c.op # "contacts" \/ res # "ok"
      PROVE  ListInv'
    <2> PICK d : d = Answered(c, res)
        OBVIOUS
    <2>1. d.op = c.op /\ d.orphan = c.orphan /\ d.res = res
        BY <1>0, AnsweredType
    <2> QED
        BY <1>0, <1>1, <2>1, ListGoesOn DEF Answer
<1>2. CASE Refuse(c) \/ ServeLogin(c) \/ ServeLogout(c) \/ ServeBeat(c)
    BY <1>1, <1>2 DEF Refuse, ServeLogin, ServeLogout, ServeBeat, Results, serverVars
<1>3. CASE ServeAdd(c) \/ ServeRemove(c)
    BY <1>1, <1>3 DEF ServeAdd, ServeRemove, Results, Changes
<1>4. CASE ServeRead(c)
    <2> PICK d : d = [Answered(c, "ok") EXCEPT !.row = c.op = "contacts" /\ InTable]
        OBVIOUS
    <2>1. Answered(c, "ok") \in Calls
        BY <1>0, AnsweredType DEF Results
    <2>2. d.op = Answered(c, "ok").op /\ d.orphan = Answered(c, "ok").orphan
        BY <2>1 DEF Calls
    <2>3. d.op = c.op /\ d.orphan = c.orphan
        BY <1>0, <2>2, AnsweredType DEF Results
    <2>4. d.row = (c.op = "contacts" /\ InTable)
        BY <2>1 DEF Calls
    <2>5. UNCHANGED serverVars /\ calls' = (calls \ {c}) \cup {d}
        BY <1>4 DEF ServeRead
    <2>6. InTable' = InTable /\ row' = row
        BY <2>5 DEF InTable, serverVars
    <2>7. c.op = "contacts" => d.row = InTable'
        BY <2>4, <2>6 DEF InTable
    <2>8. c.op # "remove"
        BY <1>4 DEF ServeRead
    <2> QED
        BY <1>0, <2>3, <2>5, <2>6, <2>7, <2>8, ListGoesOn
<1> QED
    BY <1>2, <1>3, <1>4 DEF Serve, Handle

LEMMA ListRefresh ==
    ASSUME AccountInv, ListInv, NEW c \in calls, StartRefresh(c) \/ Repeat(c) \/ NetworkFails(c)
    PROVE  ListInv'
<1>0. c \in Calls /\ UNCHANGED <<user, stale, listed, theirs, row>>
    BY DEF AccountInv, TypeOK, StartRefresh, Repeat, NetworkFails, page, ghostVars, serverVars
<1>1. \E d : d.op = c.op /\ d.orphan = c.orphan /\ calls' = (calls \ {c}) \cup {d} /\ d.res # "ok"
    <2>1. CASE StartRefresh(c)
        <3> DEFINE d == [c EXCEPT !.phase = "refresh", !.tok = refresh, !.again = TRUE]
        <3>1. d.op = c.op /\ d.orphan = c.orphan /\ d.res = c.res /\ c.res = "401"
            BY <1>0, <2>1 DEF Calls, StartRefresh, Refreshes
        <3> QED
            BY <2>1, <3>1 DEF StartRefresh
    <2>2. CASE Repeat(c)
        <3> DEFINE d == [c EXCEPT !.phase = "out", !.res = "none"]
        <3>1. d.op = c.op /\ d.orphan = c.orphan /\ d.res = "none"
            BY <1>0 DEF Calls
        <3> QED
            BY <2>2, <3>1 DEF Repeat
    <2>3. CASE NetworkFails(c)
        BY <1>0, <2>3, AnsweredType DEF NetworkFails, Answer, Results
    <2> QED
        BY <2>1, <2>2, <2>3
<1> QED
    BY <1>0, <1>1, ListGoesOn

\* After a change the list is fetched once more, or it is stale.
LEMMA ListRefetch ==
    ASSUME AccountInv, ListInv, NEW c \in calls, c.op \in Changes, Refetch(c), UNCHANGED user
    PROVE  ListInv'
<1> SUFFICES ASSUME user', ~stale' PROVE ListInv'
    BY ListElse
<1>1. CASE ~c.orphan /\ ~Pending("contacts")
    <2> PICK d : d = [Call("contacts", access) EXCEPT !.orphan = c.orphan]
        OBVIOUS
    <2>1. d.op = "contacts" /\ d.orphan = c.orphan /\ d.res = "none"
        BY DEF Call
    <2>2. calls' = (calls \ {c}) \cup {d} /\ Noted("contacts", calls \ {c})
        BY <1>1 DEF Refetch
    <2>3. \A e \in calls \ {c} : e.op \notin Changes
        BY <2>2 DEF Noted
    <2>4. \A e \in calls \ {c} : e.op = "contacts" => e.orphan
        BY <1>1 DEF Pending
    <2> QED
        BY <1>1, <2>1, <2>2, <2>3, <2>4, ListFetches
<1>2. CASE ~c.orphan /\ Pending("contacts")
    BY <1>2 DEF Refetch
<1>3. CASE c.orphan
    <2>1. UNCHANGED stale
        BY <1>3 DEF Refetch
    <2> QED
        BY <1>3, <2>1 DEF ListInv
<1> QED
    BY <1>1, <1>2, <1>3

LEMMA ListReturn ==
    ASSUME AccountInv, ListInv, NEW c \in calls, Return(c)
    PROVE  ListInv'
<1>0. c \in Calls /\ c.op \in Ops /\ UNCHANGED <<row, theirs>> /\ InTable' = InTable
    BY DEF AccountInv, TypeOK, Return, serverVars, Calls, InTable
<1>1. ASSUME ~user, SetUser(calls \ {c}) PROVE ListInv'
    <2> PICK d : d = Call("contacts", access')
        OBVIOUS
    <2>1. d.op = "contacts" /\ ~d.orphan /\ d.res = "none"
        BY DEF Call
    <2>2. calls' = (calls \ {c}) \cup {d} /\ stale' = \E e \in calls \ {c} : e.op \in Changes
        BY <1>1 DEF SetUser
    <2>3. \A e \in calls \ {c} : e.op = "contacts" => e.orphan
        BY <1>1 DEF AccountInv, InPlace, ListOps
    <2>4. CASE stale'
        BY <2>4, ListElse
    <2>5. CASE ~stale'
        BY <2>1, <2>2, <2>3, <2>5, ListFetches
    <2> QED
        BY <2>4, <2>5
<1>2. ASSUME calls' = calls \ {c}, c.op \notin ListOps, UNCHANGED <<user, stale, listed>>
      PROVE  ListInv'
    BY <1>0, <1>2, ListSame
<1>3. CASE DoneMe(c)
    <2>1. ~user
        BY <1>3 DEF AccountInv, InPlace, DoneMe
    <2>2. CASE c.res = "ok"
        BY <1>1, <1>3, <2>1, <2>2 DEF DoneMe
    <2>3. CASE c.res # "ok"
        BY <1>3, <2>3, ListElse DEF DoneMe, SetNull
    <2> QED
        BY <2>2, <2>3
<1>4. CASE DoneLogin(c)
    <2>1. ~user
        BY <1>4 DEF AccountInv, InPlace, DoneLogin
    <2>2. CASE c.res = "ok"
        BY <1>1, <1>4, <2>1, <2>2 DEF DoneLogin
    <2>3. CASE c.res # "ok"
        BY <1>2, <1>4, <2>3 DEF DoneLogin, ghostVars, ListOps
    <2> QED
        BY <2>2, <2>3
<1>5. CASE DoneLogout(c)
    <2>1. CASE c.res = "error"
        BY <1>2, <1>5, <2>1 DEF DoneLogout, ListOps
    <2>2. CASE c.res # "error"
        BY <1>5, <2>2, ListElse DEF DoneLogout, SetNull
    <2> QED
        BY <2>1, <2>2
<1>6. CASE DoneBeat(c)
    BY <1>2, <1>6 DEF DoneBeat, page, ghostVars, ListOps
<1>7. CASE DoneContacts(c)
    <2> SUFFICES ASSUME user', ~stale' PROVE ListInv'
        BY ListElse
    <2>1. /\ c.op = "contacts" /\ calls' = calls \ {c} /\ user /\ ~stale
          /\ c.orphan \/ (c.res = "ok" /\ listed' = c.row)
          /\ c.orphan => UNCHANGED listed
        BY <1>7 DEF DoneContacts, page
    <2>2. \A e \in calls' : e.op \in Changes => ~e.orphan
        BY <2>1 DEF ListInv
    <2>3. CASE Adding
        BY <2>1, <2>2, <2>3 DEF Adding, ListInv
    <2>4. CASE Removing
        BY <2>1, <2>4 DEF Removing, ListOps
    <2>5. CASE Settled
        <3>1. CASE c.orphan
            <4>1. Pending("contacts") => Pending("contacts")'
                BY <2>1, <3>1 DEF Pending
            <4> QED
                BY <1>0, <2>1, <2>2, <2>5, <3>1, <4>1 DEF Settled, ListInv
        <3>2. CASE ~c.orphan
            <4>1. listed' = InTable'
                BY <1>0, <2>1, <2>5, <3>2 DEF Settled
            <4> QED
                BY <1>0, <2>1, <2>2, <2>5, <4>1 DEF Settled, ListInv
        <3> QED
            BY <3>1, <3>2
    <2> QED
        BY <2>1, <2>3, <2>4, <2>5 DEF ListInv
<1>8. CASE DoneAdd(c)
    <2>1. UNCHANGED user /\ c.op \in Changes
        BY <1>8 DEF DoneAdd, page, Changes
    <2>2. CASE c.res = "ok"
        BY <1>8, <2>1, <2>2, ListRefetch DEF DoneAdd
    <2>3. CASE c.res # "ok"
        BY <1>8, <2>3, ListElse DEF DoneAdd
    <2> QED
        BY <2>2, <2>3
<1>9. CASE DoneRemove(c)
    <2>1. UNCHANGED <<user, listed>> /\ c.op \in Changes
        BY <1>9 DEF DoneRemove, page, Changes
    <2>2. CASE Reverts(c)
        BY <1>9, <2>1, <2>2, ListRefetch DEF DoneRemove
    <2>3. CASE ~Reverts(c)
        <3> SUFFICES ASSUME user', ~stale' PROVE ListInv'
            BY ListElse
        <3>1. /\ c.res = "ok" /\ calls' = calls \ {c} /\ user /\ ~stale /\ ~theirs
              /\ c.op = "remove"
            BY <1>9, <2>1, <2>3 DEF DoneRemove, Reverts
        <3>2. Removing
            BY <3>1 DEF ListInv, Adding, Settled, Changes
        <3>3. \A e \in calls : e.op \in ListOps => e = c
            BY <3>1, <3>2 DEF Removing, ListOps
        <3>4. ~row
            BY <3>1, <3>2, <3>3 DEF Removing, ListOps
        <3>5. ~listed' /\ listed' \in BOOLEAN
            BY <2>1, <3>2 DEF Removing, AccountInv, TypeOK
        <3>6. InTable' = FALSE
            BY <1>0, <3>1, <3>4 DEF InTable
        <3>7. listed' = InTable'
            BY <3>5, <3>6, Zenon
        <3>8. \A e \in calls' : e.op \notin Changes /\ e.op # "contacts"
            BY <3>1, <3>3 DEF ListOps, Changes
        <3> QED
            BY <3>7, <3>8 DEF Settled, ListInv
    <2> QED
        BY <2>2, <2>3
<1> QED
    BY <1>3, <1>4, <1>5, <1>6, <1>7, <1>8, <1>9 DEF Return

LEMMA ListPress ==
    ASSUME AccountInv, ListInv, Press \/ Beat
    PROVE  ListInv'
<1>0. ASSUME NEW op \in Ops \ ListOps, Begin(op), UNCHANGED <<serverVars, user, listed>>
      PROVE  ListInv'
    <2>1. Call(op, access).op = op
        BY DEF Call
    <2>2. calls' = calls \cup {Call(op, access)} /\ stale' = stale
        BY <1>0 DEF Begin, Noted, ListOps
    <2>3. UNCHANGED <<row, theirs>>
        BY <1>0 DEF serverVars
    <2> QED
        BY <1>0, <2>1, <2>2, <2>3, ListSame
<1>1. CASE SubmitLogin
    BY <1>0, <1>1 DEF SubmitLogin, Ops, ListOps
<1>2. CASE PressLogout
    BY <1>0, <1>2 DEF PressLogout, page, Ops, ListOps
<1>3. CASE Beat
    BY <1>0, <1>3 DEF Beat, page, Ops, ListOps
<1>4. CASE PressAdd
    <2> SUFFICES ASSUME user', ~stale' PROVE ListInv'
        BY ListElse
    <2> PICK d : d = Call("add", access)
        OBVIOUS
    <2>1. d.op = "add" /\ ~d.orphan
        BY DEF Call
    <2>2. calls' = calls \cup {d} /\ stale' = (stale \/ \E e \in calls : e.op = "remove") /\ user
        BY <1>4 DEF PressAdd, Begin, Noted
    <2>3. \A e \in calls' : e.op \in Changes => ~e.orphan
        BY <2>1, <2>2 DEF ListInv
    <2> QED
        BY <2>1, <2>2, <2>3 DEF ListInv, Adding
<1>5. CASE PressRemove
    <2> SUFFICES ASSUME user', ~stale' PROVE ListInv'
        BY ListElse
    <2> PICK d : d = Call("remove", access)
        OBVIOUS
    <2>1. d.op = "remove" /\ ~d.orphan /\ d.res = "none"
        BY DEF Call
    <2>2. calls' = calls \cup {d} /\ stale' = (stale \/ \E e \in calls : e.op \in ListOps)
          /\ ~listed'
        BY <1>5 DEF PressRemove, Begin, Noted
    <2>3. \A e \in calls' : e.op \in ListOps => e = d
        BY <2>2
    <2> QED
        BY <2>1, <2>2, <2>3 DEF ListInv, Removing, ListOps, Changes
<1>6. CASE Reload
    BY <1>6, ListElse DEF Reload, SetNull
<1> QED
    BY <1>1, <1>2, <1>3, <1>4, <1>5, <1>6 DEF Press

LEMMA ListStep == AccountInv /\ ListInv /\ [Next]_vars => ListInv'
<1> SUFFICES ASSUME AccountInv, ListInv, [Next]_vars PROVE ListInv'
    OBVIOUS
<1>1. CASE \E c \in calls : Progress(c) \/ NetworkFails(c)
    BY <1>1, ListServe, ListRefresh, ListReturn DEF Progress
<1>2. CASE Press \/ Beat
    BY <1>2, ListPress
<1>3. CASE Expire \/ Source \/ UNCHANGED vars
    <2>1. UNCHANGED <<calls, user, stale, listed, row, theirs>>
        BY <1>3 DEF Expire, Source, SourceFails, RetryFires, vars, page, ghostVars, serverVars
    <2> QED
        BY <2>1, ListSame
<1> QED
    BY <1>1, <1>2, <1>3 DEF Next

\* Once every call has returned, the list the panel shows is what the table
\* says, unless one of the named cases has made it stale (useContacts.js).
THEOREM ListIsTheTable == Spec => []ListIsRight
<1>1. AccountInv /\ ListInv => ListIsRight
    BY DEF ListInv, Adding, Removing, Settled, Pending, ListIsRight
<1> QED
    BY <1>1, AccountInit, AccountStep, ListInit, ListStep, PTL DEF Spec

=============================================================================
