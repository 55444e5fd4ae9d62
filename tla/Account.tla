------------------------------- MODULE Account -------------------------------
(***************************************************************************)
(* The account of a user, as one browser sees it: the two cookies and the  *)
(* refresh of frontend/src/lib/api.js, the user and the EventSource of     *)
(* contexts/AuthContext.jsx, the login form of pages/AuthPage.jsx, and the *)
(* changes hooks/useContacts.js makes to the list of contacts - against    *)
(* backend/auth.go, user_handlers.go and contact_handlers.go.              *)
(*                                                                         *)
(* A call is one apiFetch.  Its request and its answer are under way for a *)
(* while; a cookie is attached when the request is sent and changed when   *)
(* the answer comes; calls overtake each other.  The list is about one     *)
(* other user, who can be found, added and removed.                        *)
(***************************************************************************)
EXTENDS Naturals, FiniteSets

CONSTANTS
    MaxCalls,       \* bound: calls at a time
    MaxErrors       \* bound: calls that the network fails

ASSUME MaxCallsAssumption == MaxCalls \in Nat \ {0}
ASSUME MaxErrorsAssumption == MaxErrors \in Nat

VARIABLES
    status,     \* users.status
    row,        \* contacts: the user has added the other one
    theirs,     \* contacts: the other one has added the user
    access,     \* the browser has a valid access token
    refresh,    \* and a valid refresh token
    calls,      \* the calls of apiFetch under way
    errors,     \* how many the network has failed
    user,       \* AuthContext: user is not null
    loading,    \* AuthContext: loading
    submitting, \* AuthPage: loading, the form waits for the answer
    listed,     \* useContacts: the contact is in the list
    linked,     \* EventSources that are connected
    retries,    \* reconnectTimeouts that are set
    \* for the properties:
    left,       \* how the user was last logged out here: no, out, lapsed
    raced,      \* a logout and another call were under way together
    stale       \* the list may lag behind the table

serverVars == <<status, row, theirs>>
cookies == <<access, refresh>>
sourceVars == <<linked, retries>>
page == <<user, loading, submitting>>
ghostVars == <<left, raced, stale>>
vars == <<serverVars, cookies, calls, errors, page, listed, sourceVars, ghostVars>>

Ops == {"me", "login", "logout", "beat", "contacts", "add", "remove"}
Phases == {"out", "back", "refresh"}
Results == {"none", "ok", "401", "refused", "error"}

\* tok: the cookie the request carries was valid; again: it is the retry;
\* row: the list the answer carries; orphan: the panel that waits for it is gone.
Calls == [op : Ops, phase : Phases, tok : BOOLEAN, again : BOOLEAN, res : Results,
          row : BOOLEAN, orphan : BOOLEAN]

Call(op, tok) ==
    [op |-> op, phase |-> "out", tok |-> tok, again |-> FALSE, res |-> "none",
     row |-> FALSE, orphan |-> FALSE]
Pending(op) == \E c \in calls : c.op = op /\ ~c.orphan
ListOps == {"contacts", "add", "remove"}
Changes == {"add", "remove"}

Init ==
    /\ status = "offline" /\ row \in BOOLEAN /\ theirs \in BOOLEAN
    /\ access = FALSE /\ refresh = FALSE
    /\ calls = {Call("me", FALSE)} /\ errors = 0
    /\ user = FALSE /\ loading = TRUE /\ submitting = FALSE /\ listed = FALSE
    /\ linked = 0 /\ retries = 0
    /\ left = "no" /\ raced = FALSE /\ stale = FALSE

-----------------------------------------------------------------------------
(***************************************************************************)
(* Calls.                                                                  *)
(***************************************************************************)

\* What the beginning of a call notes for the properties.
Races(op, others) == (op = "logout" /\ others # {}) \/ \E c \in others : c.op = "logout"
Noted(op, others) ==
    /\ raced' = (raced \/ Races(op, others))
    /\ stale' = CASE op = "remove" -> stale \/ \E c \in others : c.op \in ListOps
                  [] op = "add" -> stale \/ \E c \in others : c.op = "remove"
                  [] op = "contacts" -> \E c \in others : c.op \in Changes
                  [] OTHER -> stale

\* A component begins a call.
Begin(op) ==
    /\ ~Pending(op)
    /\ Cardinality(calls) < MaxCalls
    /\ calls' = calls \cup {Call(op, access)}
    /\ Noted(op, calls)

\* The server.  AuthMiddleware refuses a request without a valid token; the
\* handlers change their rows.
Answered(c, res) == [c EXCEPT !.phase = "back", !.tok = FALSE, !.res = res]
Answer(c, res) == calls' = (calls \ {c}) \cup {Answered(c, res)}

\* Slip: the route of logout is not protected.
ProtectedButLogout == Ops \ {"login", "logout"}

Protected == Ops \ {"login"}

Unauthorized(c) == c.op \in Protected /\ ~c.tok

Refuse(c) ==
    /\ Answer(c, "401")
    /\ UNCHANGED serverVars

\* Right or wrong credentials.
ServeLogin(c) ==
    /\ c.op = "login"
    /\ \/ status' = "online" /\ Answer(c, "ok")
       \/ UNCHANGED status /\ Answer(c, "401")
    /\ UNCHANGED <<row, theirs>>

\* Without claims the handler only clears the cookies.
ServeLogout(c) ==
    /\ c.op = "logout"
    /\ status' = IF c.tok THEN "offline" ELSE status
    /\ Answer(c, "ok")
    /\ UNCHANGED <<row, theirs>>

ServeBeat(c) ==
    /\ c.op = "beat"
    /\ status' = "online"
    /\ Answer(c, "ok")
    /\ UNCHANGED <<row, theirs>>

\* Contacts are those I added and those who added me.
InTable == row \/ theirs

ServeRead(c) ==
    /\ c.op \in {"me", "contacts"}
    /\ calls' = (calls \ {c}) \cup
                {[Answered(c, "ok") EXCEPT !.row = c.op = "contacts" /\ InTable]}
    /\ UNCHANGED serverVars

ServeAdd(c) ==
    /\ c.op = "add"
    /\ row' = TRUE
    /\ Answer(c, IF row THEN "refused" ELSE "ok")
    /\ UNCHANGED <<status, theirs>>

\* Only the row of the owner is deleted.
ServeRemove(c) ==
    /\ c.op = "remove"
    /\ row' = FALSE
    /\ Answer(c, IF row THEN "ok" ELSE "refused")
    /\ UNCHANGED <<status, theirs>>

Handle(c) ==
    \/ ServeLogin(c) \/ ServeLogout(c) \/ ServeBeat(c)
    \/ ServeRead(c) \/ ServeAdd(c) \/ ServeRemove(c)

Serve(c) ==
    /\ c.phase = "out"
    /\ IF Unauthorized(c) THEN Refuse(c) ELSE Handle(c)
    /\ UNCHANGED <<cookies, errors, page, listed, sourceVars, ghostVars>>

\* Slip: apiFetch gives the 401 to its caller.
RefreshesNot(c) == FALSE

\* apiFetch asks for new cookies when the first answer was a 401.
Refreshes(c) == c.res = "401" /\ ~c.again

StartRefresh(c) ==
    /\ c.phase = "back" /\ Refreshes(c)
    /\ calls' = (calls \ {c}) \cup {[c EXCEPT !.phase = "refresh", !.tok = refresh, !.again = TRUE]}
    /\ UNCHANGED <<serverVars, cookies, errors, page, listed, sourceVars, ghostVars>>

\* Slip: the caller gets the first answer, too.
RepeatAlongside(c) ==
    /\ c.phase = "refresh" /\ c.tok
    /\ access' = TRUE /\ refresh' = TRUE
    /\ calls' = calls \cup {[c EXCEPT !.phase = "out", !.res = "none"]}
    /\ UNCHANGED <<serverVars, errors, page, listed, sourceVars, ghostVars>>

\* refreshHandler, which changes nothing on the server, has given new cookies:
\* the request is repeated with them.
Repeat(c) ==
    /\ c.phase = "refresh" /\ c.tok
    /\ access' = TRUE /\ refresh' = TRUE
    /\ calls' = (calls \ {c}) \cup {[c EXCEPT !.phase = "out", !.res = "none"]}
    /\ UNCHANGED <<serverVars, errors, page, listed, sourceVars, ghostVars>>

\* The call returns: the answer is final, or the refresh has failed.
Final(c) ==
    \/ c.phase = "back" /\ ~Refreshes(c)
    \/ c.phase = "refresh" /\ ~c.tok

\* fetch rejects: the request or its answer is lost.
NetworkFails(c) ==
    /\ errors < MaxErrors
    /\ c.res # "error"
    /\ errors' = errors + 1
    /\ Answer(c, "error")
    /\ UNCHANGED <<serverVars, cookies, page, listed, sourceVars, ghostVars>>

-----------------------------------------------------------------------------
(***************************************************************************)
(* AuthContext: the effects of user.                                       *)
(***************************************************************************)

\* A new EventSource: the server accepts it, or onerror sets the timer - for
\* certain without a valid access token, which an EventSource never refreshes.
Opens == access' /\ linked' = linked + 1
Fails == retries' = retries + 1
OpenSource == (Opens /\ UNCHANGED retries) \/ (Fails /\ UNCHANGED linked)

\* Slip: the cleanup leaves the timer.
CloseSourceKeepsTimer == linked' = 0 /\ UNCHANGED retries

\* The cleanup closes the EventSource and clears the timer.
CloseSource == linked' = 0 /\ retries' = 0

\* The user is set: the effects of user run, and the panel of contacts is
\* mounted with an empty list, which it fetches.
SetUser(rest) ==
    /\ user' = TRUE /\ left' = "no"
    /\ OpenSource
    /\ calls' = rest \cup {Call("contacts", access')}
    /\ listed' = FALSE
    /\ raced' = FALSE /\ stale' = \E c \in rest : c.op \in Changes

\* The user is null: cleanups, and the panel is gone.
SetNull(rest) ==
    /\ user' = FALSE /\ listed' = FALSE
    /\ calls' = {IF c.op \in ListOps THEN [c EXCEPT !.orphan = TRUE] ELSE c : c \in rest}
    /\ CloseSource

-----------------------------------------------------------------------------
(***************************************************************************)
(* What the callers do with the answer.                                    *)
(***************************************************************************)

\* refreshMe, after the page was loaded.
DoneMe(c) ==
    /\ c.op = "me"
    /\ loading' = FALSE
    /\ UNCHANGED <<cookies, submitting>>
    /\ IF c.res = "ok" THEN SetUser(calls \ {c})
       ELSE SetNull(calls \ {c}) /\ UNCHANGED ghostVars

\* login and register, for handleSubmit of the form; an exception leaves the
\* form waiting.
DoneLogin(c) ==
    /\ c.op = "login"
    /\ IF c.res = "ok"
       THEN /\ access' = TRUE /\ refresh' = TRUE
            /\ SetUser(calls \ {c})
            /\ submitting' = FALSE
       ELSE /\ calls' = calls \ {c}
            /\ submitting' = (c.res = "error")
            /\ UNCHANGED <<cookies, user, listed, sourceVars, ghostVars>>
    /\ UNCHANGED loading

\* clearAuthCookies.
ClearCookies == access' = FALSE /\ refresh' = FALSE

\* logout: whatever the answer is; an exception leaves the user.
DoneLogout(c) ==
    /\ c.op = "logout"
    /\ IF c.res = "ok" THEN ClearCookies ELSE UNCHANGED cookies
    /\ IF c.res = "error"
       THEN calls' = calls \ {c} /\ UNCHANGED <<user, listed, sourceVars, left>>
       ELSE SetNull(calls \ {c}) /\ left' = IF c.res = "ok" THEN "out" ELSE "lapsed"
    /\ UNCHANGED <<loading, submitting, raced, stale>>

DoneBeat(c) ==
    /\ c.op = "beat"
    /\ calls' = calls \ {c}
    /\ UNCHANGED <<cookies, page, listed, sourceVars, ghostVars>>

\* fetchContacts.
DoneContacts(c) ==
    /\ c.op = "contacts"
    /\ calls' = calls \ {c}
    /\ IF ~c.orphan /\ c.res = "ok" THEN listed' = c.row ELSE UNCHANGED listed
    /\ stale' = (stale \/ (~c.orphan /\ c.res # "ok"))
    /\ UNCHANGED <<cookies, page, sourceVars, left, raced>>

\* fetchContacts once more, from addContact or removeContact.  One that is
\* under way already stands for both.
Refetch(c) ==
    LET rest == calls \ {c}
        fetch == [Call("contacts", access) EXCEPT !.orphan = c.orphan]
    IN  \/ /\ ~c.orphan /\ ~Pending("contacts")
           /\ calls' = rest \cup {fetch}
           /\ Noted("contacts", rest)
        \/ /\ ~c.orphan /\ Pending("contacts")
           /\ calls' = rest
           /\ stale' = TRUE /\ UNCHANGED raced
        \/ /\ c.orphan
           /\ calls' = rest \cup {fetch}
           /\ raced' = (raced \/ Races("contacts", rest)) /\ UNCHANGED stale

DoneAdd(c) ==
    /\ c.op = "add"
    /\ IF c.res = "ok" THEN Refetch(c)
       ELSE /\ calls' = calls \ {c}
            /\ stale' = TRUE
            /\ UNCHANGED raced
    /\ UNCHANGED <<cookies, page, listed, sourceVars, left>>

\* Slip: the optimistic removal is not reverted.
RevertsNot(c) == FALSE

\* The server did not remove it, or we do not know.
Reverts(c) == c.res # "ok"

DoneRemove(c) ==
    /\ c.op = "remove"
    /\ IF Reverts(c) THEN Refetch(c)
       ELSE /\ calls' = calls \ {c}
            /\ stale' = (stale \/ (c.res = "ok" /\ theirs))
            /\ UNCHANGED raced
    /\ UNCHANGED <<cookies, page, listed, sourceVars, left>>

Return(c) ==
    /\ Final(c)
    /\ \/ DoneMe(c) \/ DoneLogin(c) \/ DoneLogout(c) \/ DoneBeat(c)
       \/ DoneContacts(c) \/ DoneAdd(c) \/ DoneRemove(c)
    /\ UNCHANGED <<serverVars, errors>>

-----------------------------------------------------------------------------
(***************************************************************************)
(* The user, the timers and the EventSource.                               *)
(***************************************************************************)

\* The form is there when nobody is logged in; its button waits for the answer.
SubmitLogin ==
    /\ ~user /\ ~loading /\ ~submitting
    /\ Begin("login")
    /\ submitting' = TRUE /\ left' = "no"
    /\ UNCHANGED <<serverVars, cookies, errors, user, loading, listed, sourceVars>>

PressLogout ==
    /\ user
    /\ Begin("logout")
    /\ UNCHANGED <<serverVars, cookies, errors, page, listed, sourceVars, left>>

\* The interval of the heartbeat.
Beat ==
    /\ user
    /\ Begin("beat")
    /\ UNCHANGED <<serverVars, cookies, errors, page, listed, sourceVars, left>>

\* The search finds users that are not in the list.
PressAdd ==
    /\ user /\ ~listed
    /\ Begin("add")
    /\ UNCHANGED <<serverVars, cookies, errors, page, listed, sourceVars, left>>

\* removeContact takes the contact out of the list at once.
PressRemove ==
    /\ user /\ listed
    /\ Begin("remove")
    /\ listed' = FALSE
    /\ UNCHANGED <<serverVars, cookies, errors, page, sourceVars, left>>

\* The page is loaded anew: the server has served a call that was under way,
\* or it is cancelled, and nobody waits for it.
Reload ==
    /\ ~loading
    /\ loading' = TRUE /\ submitting' = FALSE
    /\ SetNull({Call("me", access)})
    /\ left' = "no" /\ raced' = FALSE /\ stale' = FALSE
    /\ UNCHANGED <<serverVars, cookies, errors>>

\* The access token lives 15 minutes, the refresh token 7 days from its issue.
Expire ==
    /\ access
    /\ access' = FALSE
    /\ refresh' \in {refresh, FALSE}
    /\ UNCHANGED <<serverVars, calls, errors, page, listed, sourceVars, ghostVars>>

\* onerror: closed, to be opened again later.
SourceFails ==
    /\ linked > 0
    /\ linked' = linked - 1
    /\ Fails
    /\ UNCHANGED <<serverVars, cookies, calls, errors, page, listed, ghostVars>>

\* The timer opens it: for a successful attempt it counts one less.
RetryFires ==
    /\ retries > 0
    /\ UNCHANGED <<serverVars, cookies, calls, errors, page, listed, ghostVars>>
    /\ \/ Opens /\ retries' = retries - 1
       \/ UNCHANGED sourceVars

-----------------------------------------------------------------------------
Progress(c) == Serve(c) \/ StartRefresh(c) \/ Repeat(c) \/ Return(c)

Press == SubmitLogin \/ PressLogout \/ PressAdd \/ PressRemove \/ Reload

Source == SourceFails \/ RetryFires

Next ==
    \/ \E c \in calls : Progress(c) \/ NetworkFails(c)
    \/ Press \/ Beat \/ Expire \/ Source

Spec == Init /\ [][Next]_vars

\* Calls are answered, and the interval of the heartbeat fires.  The retry
\* comes every 30 seconds at most while an access token lives for 15 minutes:
\* not every retry finds it expired, nor does the network fail every one.
Fairness ==
    /\ WF_vars(\E c \in calls : Progress(c))
    /\ SF_vars(Beat)
    /\ SF_vars(RetryFires)

FairSpec == Spec /\ Fairness

-----------------------------------------------------------------------------
(***************************************************************************)
(* Properties.                                                             *)
(***************************************************************************)

\* The type invariant of the account; one call of a kind at a time.
TypeOK ==
    /\ status \in {"online", "offline"} /\ row \in BOOLEAN /\ theirs \in BOOLEAN
    /\ access \in BOOLEAN /\ refresh \in BOOLEAN
    /\ calls \subseteq Calls /\ errors \in 0..MaxErrors
    /\ \A c, d \in calls : c.op = d.op /\ ~c.orphan /\ ~d.orphan => c = d
    /\ user \in BOOLEAN /\ loading \in BOOLEAN /\ submitting \in BOOLEAN /\ listed \in BOOLEAN
    /\ linked \in Nat /\ retries \in Nat
    /\ left \in {"no", "out", "lapsed"} /\ raced \in BOOLEAN /\ stale \in BOOLEAN

\* The tab of a user keeps one EventSource or a timer to open it again, and
\* nothing once nobody is logged in, whatever the order of errors, timers,
\* logins and logouts.
OneSource == linked + retries = IF user THEN 1 ELSE 0

\* After a logout no session is left in the browser and the database says
\* offline, also when the access token had expired before - unless another
\* call was under way at the same time, whose refresh may bring the cookies
\* back, or the refresh token had expired, too ("lapsed"): then the database
\* is not told.
LogoutIsComplete ==
    calls = {} /\ ~raced =>
        /\ left # "no" => ~access /\ ~refresh
        /\ left = "out" => status = "offline"

\* Once every call has returned, the list is what the table says, also after
\* changes that the server or the network refused - unless the last fetch
\* failed, a removal and another call about the list were under way together,
\* or a contact was removed who has added the user, too, and is still one.
ListIsRight == user /\ calls = {} /\ ~stale => listed = InTable

\* The tab of a user is connected again some time after it lost the stream,
\* although the EventSource itself never refreshes an expired token: the
\* heartbeat does, as long as the refresh token lives.
StreamReturns == user /\ linked = 0 ~> ~user \/ linked > 0 \/ ~refresh

=============================================================================
