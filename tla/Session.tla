------------------------------ MODULE Session -------------------------------
(***************************************************************************)
(* Signing in and staying signed in: lib/api-client.ts, lib/auth-storage,  *)
(* api/auth.ts, main.tsx and the guards of the pages, against the auth     *)
(* router of the server.                                                   *)
(*                                                                         *)
(* The browser keeps one refresh token, which all its tabs share; a tab    *)
(* keeps an access token in memory, and loses it when it is reloaded.  The *)
(* server keeps the live refresh tokens, and each is good for one refresh. *)
(* The two tokens of one answer have the same number.                      *)
(***************************************************************************)
EXTENDS Integers, Sequences, FiniteSets, FiniteSetsExt

CONSTANTS Tabs,       \* the tabs of one browser
          Admin,      \* the user of the first setup
          Guest,      \* the user of an invite
          None,
          MaxTokens,  \* bound: how many pairs of tokens are issued
          MaxCalls    \* bound: how many calls of the api are sent

VARIABLES stored,      \* localStorage: the refresh token, or None
          tab,         \* per tab: the page shown, and the access token in memory
          refresh,     \* per tab: the refresh under way (refreshInFlight, initAuth)
          signin,      \* per tab: the form submitted
          calls,       \* the calls of authedFetch, in the order they were sent
          issued,      \* the tokens given out: to whom, and the refresh they answer
          live,        \* the refresh tokens the server accepts (sessions)
          expired,     \* the access tokens past their time
          registered,  \* the users the server knows
          waived       \* history: the tokens signed out, or whose successor was lost

sessionVars == <<stored, tab, refresh, signin, calls, issued, live, expired, registered, waived>>

Users == {Admin, Guest}
Tokens == 1..Len(issued)
Newest == Len(issued) + 1

Sent(t, l) == [tab |-> t, revokes |-> l, with |-> tab'[t].access, state |-> "sent",
               retried |-> FALSE, done |-> 0]

Finished(c, state) == [c EXCEPT !.state = state, !.with = None, !.retried = FALSE]

\* Without a token the guarded page gives way to the login.
AuthGuard == [page |-> "guest", access |-> None]

SessionInit ==
    /\ stored = None
    /\ tab = [t \in Tabs |-> AuthGuard]
    /\ refresh = [t \in Tabs |-> None]
    /\ signin = [t \in Tabs |-> None]
    /\ calls = <<>>
    /\ issued = <<>>
    /\ live = {} /\ expired = {} /\ registered = {} /\ waived = {}

(***************************************************************************)
(* The auth router.  A pair of tokens is a row of sessions; a refresh      *)
(* deletes the row of the token it was given.                              *)
(***************************************************************************)
Issue(u, rotated, t) ==
    /\ Len(issued) < MaxTokens
    /\ issued' = Append(issued, [user |-> u, rotated |-> rotated, tab |-> t])
    /\ live' = (live \ {rotated}) \cup {Newest}

\* setup wants no user, login a known one, accept-invite one not yet known.
Admits(via, u) ==
    CASE via = "setup" -> registered = {} /\ u = Admin
      [] via = "login" -> u \in registered
      [] via = "invite" -> u = Guest /\ registered = {Admin}

ServeSignIn(t) ==
    /\ signin[t] # None /\ signin[t].state = "sent"
    /\ IF Admits(signin[t].via, signin[t].user)
       THEN /\ Issue(signin[t].user, None, t)
            /\ registered' = registered \cup {signin[t].user}
            /\ signin' = [signin EXCEPT ![t].state = "ok", ![t].token = Newest]
       ELSE /\ signin' = [signin EXCEPT ![t].state = "refused"]
            /\ UNCHANGED <<issued, live, registered>>
    /\ UNCHANGED <<stored, tab, refresh, calls, expired, waived>>

ServeRefresh(t) ==
    /\ refresh[t] # None /\ refresh[t].state = "sent"
    /\ IF refresh[t].token \in live
       THEN /\ Issue(issued[refresh[t].token].user, refresh[t].token, t)
            /\ refresh' = [refresh EXCEPT ![t].state = "ok", ![t].new = Newest]
       ELSE /\ refresh' = [refresh EXCEPT ![t].state = "refused"]
            /\ UNCHANGED <<issued, live>>
    /\ UNCHANGED <<stored, tab, signin, calls, expired, registered, waived>>

\* get_current_user: a bearer that is not past its time, else 401.  /auth/logout
\* deletes the session named, if it is one of that user.
ServeCall(k) ==
    /\ calls[k].state = "sent"
    /\ LET valid == calls[k].with # None /\ calls[k].with \notin expired
           gone == {n \in live : n = calls[k].revokes /\ issued[n].user = issued[calls[k].with].user}
       IN  /\ calls' = [calls EXCEPT ![k].state = IF valid THEN "done" ELSE "refused",
                                   ![k].done = @ + IF valid THEN 1 ELSE 0]
           /\ live' = IF valid THEN live \ gone ELSE live
    /\ UNCHANGED <<stored, tab, refresh, signin, issued, expired, registered, waived>>

Expire(n) ==
    /\ n \in Tokens \ expired
    /\ \E t \in Tabs : tab[t].access = n
    /\ expired' = expired \cup {n}
    /\ UNCHANGED <<stored, tab, refresh, signin, calls, issued, live, registered, waived>>

(***************************************************************************)
(* The tokens.  A tab hears of a cleared token and shows the login.        *)
(***************************************************************************)

\* Mutant: the refresh token is not replaced together with the access token.
KeepsTheOldToken(t, n, shown) ==
    /\ stored' = IF stored = None THEN n ELSE stored
    /\ tab' = [tab EXCEPT ![t] = [page |-> shown, access |-> n]]

StoreTokens(t, n, shown) ==
    /\ stored' = n
    /\ tab' = [tab EXCEPT ![t] = [page |-> shown, access |-> n]]

ClearAuth(t) == stored' = None /\ tab' = [tab EXCEPT ![t] = AuthGuard]

(***************************************************************************)
(* authedFetch and tryRefresh.  The calls of a tab that got a 401 wait for *)
(* one refresh, and are sent again once if it succeeded.                   *)
(***************************************************************************)
\* The shell of the pages is mounted, with its guard and the timer of useIdleLogout.
InShell(t) == tab[t].page = "app"

Send(t) ==
    /\ InShell(t) /\ Len(calls) < MaxCalls
    /\ UNCHANGED tab
    /\ calls' = Append(calls, Sent(t, None))
    /\ UNCHANGED <<stored, refresh, signin, issued, live, expired, registered, waived>>

\* Mutant: the refresh under way is not joined; one of its own replaces it.
TwoInFlight(t) == [refresh EXCEPT ![t] = [token |-> stored, state |-> "sent", new |-> None]]

TryRefresh(t) ==
    IF refresh[t] # None THEN refresh
    ELSE [refresh EXCEPT ![t] = [token |-> stored, state |-> "sent", new |-> None]]

HearRefusal(k) ==
    /\ calls[k].state = "refused"
    /\ IF stored # None /\ ~calls[k].retried
       THEN /\ refresh' = TryRefresh(calls[k].tab)
            /\ calls' = [calls EXCEPT ![k].state = "waiting", ![k].with = None]
       ELSE /\ calls' = [calls EXCEPT ![k] = Finished(@, "over")]
            /\ UNCHANGED refresh
    /\ UNCHANGED <<stored, tab, signin, issued, live, expired, registered, waived>>

Hear(k) ==
    /\ calls[k].state = "done"
    /\ calls' = [calls EXCEPT ![k] = Finished(@, "over")]
    /\ UNCHANGED <<stored, tab, refresh, signin, issued, live, expired, registered, waived>>

\* Mutant: a network error is answered by sending the call again.
TriesAgain(c) == IF c.retried THEN Finished(c, "failed")
                 ELSE [c EXCEPT !.state = "sent", !.retried = TRUE]

\* fetch throws: nothing is tried again.
AfterError(c) == Finished(c, "failed")

CallFails(k) ==
    /\ calls[k].state \in {"sent", "done", "refused"}
    /\ calls' = [calls EXCEPT ![k] = AfterError(@)]
    /\ UNCHANGED <<stored, tab, refresh, signin, issued, live, expired, registered, waived>>

Waiting(t, k) == calls[k].tab = t /\ calls[k].state = "waiting"

Resumed(t, ok) ==
    [k \in DOMAIN calls |->
        IF ~Waiting(t, k) THEN calls[k]
        ELSE IF ok THEN [calls[k] EXCEPT !.state = "sent", !.retried = TRUE,
                                        !.with = tab'[t].access]
        ELSE Finished(calls[k], "over")]

HearRefresh(t) ==
    /\ refresh[t] # None /\ refresh[t].state # "sent"
    /\ LET ok == refresh[t].state = "ok"
           shown == IF tab[t].page = "loading" THEN "app" ELSE tab[t].page
       IN  /\ IF ok THEN StoreTokens(t, refresh[t].new, shown) ELSE ClearAuth(t)
           /\ calls' = Resumed(t, ok)
    /\ refresh' = [refresh EXCEPT ![t] = None]
    /\ UNCHANGED <<signin, issued, live, expired, registered, waived>>

\* Mutant: an error of initAuth is not caught, and nothing is ever rendered.
NeverRendered(shown) == shown

\* A network error leaves the tokens as they are; the page is rendered all the same.
AfterBoot(shown) == IF shown = "loading" THEN "guest" ELSE shown

RefreshFails(t) ==
    /\ refresh[t] # None
    /\ waived' = waived \cup (IF refresh[t].state = "ok" THEN {refresh[t].token} ELSE {})
    /\ tab' = [tab EXCEPT ![t].page = AfterBoot(@)]
    /\ calls' = Resumed(t, FALSE)
    /\ refresh' = [refresh EXCEPT ![t] = None]
    /\ UNCHANGED <<stored, signin, issued, live, expired, registered>>

(***************************************************************************)
(* main.tsx: the page is loaded.  What the page before it had under way is *)
(* not heard any more; its refresh may still reach the server.             *)
(***************************************************************************)
Load(t) ==
    /\ tab[t].page # "loading"
    /\ tab' = [tab EXCEPT ![t] = [page |-> IF stored = None THEN "guest" ELSE "loading",
                                  access |-> None]]
    /\ calls' = [k \in DOMAIN calls |-> IF calls[k].tab = t /\ calls[k].state # "over"
                                      THEN AfterError(calls[k]) ELSE calls[k]]
    /\ signin' = [signin EXCEPT ![t] = None]
    /\ refresh' = [refresh EXCEPT ![t] =
           IF stored = None THEN None ELSE [token |-> stored, state |-> "sent", new |-> None]]
    /\ \/ waived' = waived \cup (IF refresh[t] # None /\ refresh[t].state = "ok"
                                 THEN {refresh[t].token} ELSE {})
          /\ UNCHANGED <<issued, live>>
       \/ /\ refresh[t] # None /\ refresh[t].state = "sent" /\ refresh[t].token \in live
          /\ Issue(issued[refresh[t].token].user, refresh[t].token, t)
          /\ waived' = waived \cup {refresh[t].token}
    /\ UNCHANGED <<stored, expired, registered>>

\* beforeLoad: with a token in memory, the way back from the login is open.
GoBack(t) ==
    /\ tab[t].page = "guest" /\ tab[t].access # None
    /\ tab' = [tab EXCEPT ![t].page = "app"]
    /\ UNCHANGED <<stored, refresh, signin, calls, issued, live, expired, registered, waived>>

(***************************************************************************)
(* api/auth.ts: the forms of the guest pages, and logging out, which       *)
(* clears the tokens first and tells the server after.                     *)
(***************************************************************************)
Submit(t, via, u) ==
    /\ tab[t].page = "guest" /\ signin[t] = None
    /\ signin' = [signin EXCEPT ![t] = [via |-> via, user |-> u, state |-> "sent", token |-> None]]
    /\ UNCHANGED <<stored, tab, refresh, calls, issued, live, expired, registered, waived>>

Login(t) == \E u \in registered : Submit(t, "login", u)
Setup(t) == registered = {} /\ Submit(t, "setup", Admin)
\* The form is shown while the invite is open.
AcceptInvite(t) == registered = {Admin} /\ Submit(t, "invite", Guest)

HearSignIn(t) ==
    /\ signin[t] # None /\ signin[t].state # "sent"
    /\ IF signin[t].state = "ok" THEN StoreTokens(t, signin[t].token, "app")
                                 ELSE UNCHANGED <<stored, tab>>
    /\ signin' = [signin EXCEPT ![t] = None]
    /\ UNCHANGED <<refresh, calls, issued, live, expired, registered, waived>>

SignInFails(t) ==
    /\ signin[t] # None
    /\ signin' = [signin EXCEPT ![t] = None]
    /\ UNCHANGED <<stored, tab, refresh, calls, issued, live, expired, registered, waived>>

SignOut(t) ==
    /\ InShell(t) /\ Len(calls) < MaxCalls
    /\ ClearAuth(t)
    /\ IF stored = None THEN UNCHANGED <<calls, waived>>
       ELSE calls' = Append(calls, Sent(t, stored)) /\ waived' = waived \cup {stored}
    /\ UNCHANGED <<refresh, signin, issued, live, expired, registered>>

Logout(t) == SignOut(t)      \* the button
IdleLogout(t) == SignOut(t)  \* twenty minutes without a move

SessionNext ==
    \/ \E t \in Tabs : \/ ServeSignIn(t) \/ ServeRefresh(t)
                       \/ Send(t) \/ HearRefresh(t) \/ RefreshFails(t)
                       \/ Load(t) \/ GoBack(t)
                       \/ Login(t) \/ Setup(t) \/ AcceptInvite(t)
                       \/ HearSignIn(t) \/ SignInFails(t)
                       \/ Logout(t) \/ IdleLogout(t)
    \/ \E k \in DOMAIN calls : ServeCall(k) \/ HearRefusal(k) \/ Hear(k) \/ CallFails(k)
    \/ \E n \in Tokens : Expire(n)

SessionSpec == SessionInit /\ [][SessionNext]_sessionVars

-----------------------------------------------------------------------------
MaybeToken == Tokens \cup {None}

SessionTypeOK ==
    /\ stored \in MaybeToken
    /\ tab \in [Tabs -> [page : {"guest", "loading", "app"}, access : MaybeToken]]
    /\ \A t \in Tabs :
         /\ refresh[t] # None => refresh[t] \in
              [token : Tokens, state : {"sent", "ok", "refused"}, new : MaybeToken]
         /\ signin[t] # None => signin[t] \in
              [via : {"login", "setup", "invite"}, user : Users,
               state : {"sent", "ok", "refused"}, token : MaybeToken]
         /\ tab[t].page = "loading" => refresh[t] # None
    /\ \A k \in DOMAIN calls : calls[k] \in
         [tab : Tabs, revokes : MaybeToken, with : MaybeToken, retried : BOOLEAN, done : 0..2,
          state : {"sent", "done", "refused", "waiting", "over", "failed"}]
    /\ live \subseteq Tokens /\ expired \subseteq Tokens /\ waived \subseteq Tokens
    /\ registered \subseteq Users

\* The refresh token the browser keeps is one the server accepts, is being exchanged, or
\* is one whose exchange succeeded without its answer arriving: nothing else the tabs do
\* to the token they share - late answers, a login beside a refresh, a logout in between -
\* leaves a dead one behind.
StoredTokenIsGood ==
    stored # None =>
        \/ stored \in live \cup waived
        \/ \E t \in Tabs : refresh[t] # None /\ refresh[t].token = stored

\* A refresh is refused, which signs the user out, only for a token that was signed out,
\* whose successor was lost, or that another tab exchanged: never because two calls of
\* one tab each exchanged it.
RefusedForAReason ==
    \A t \in Tabs : refresh[t] # None /\ refresh[t].state = "refused" =>
        \/ refresh[t].token \in waived
        \/ \E n \in Tokens : issued[n].rotated = refresh[t].token /\ issued[n].tab # t

\* Sending a call again after a 401 never makes the server do it twice.
DoneAtMostOnce == \A k \in DOMAIN calls : calls[k].done <= 1

\* "best-effort revokes the refresh token server-side": once the call to revoke it
\* has been answered, the token signed out is not accepted any more.
LogoutRevokes ==
    \A k \in DOMAIN calls : calls[k].state = "over" => calls[k].revokes \notin live

=============================================================================
