---------------------------- MODULE SessionProofs ----------------------------
(***************************************************************************)
(* Proofs about Session, for any tabs, any number of tokens and of calls.  *)
(*                                                                         *)
(* TokensAccounted is the inductive invariant: it follows each refresh     *)
(* token from the answer that brings it, which nobody else knows, to the   *)
(* browser's store, into a refresh or a logout, and out of use.            *)
(***************************************************************************)
EXTENDS Session, SequenceTheorems, TLAPS

MaybeNat == Nat \cup {None}

RefreshRow == [token : Nat, state : {"sent", "ok", "refused"}, new : MaybeNat]

SignInRow == [via : {"login", "setup", "invite"}, user : Users,
              state : {"sent", "ok", "refused"}, token : MaybeNat]

CallRow == [tab : Tabs, revokes : MaybeNat, with : MaybeNat, retried : BOOLEAN, done : Nat,
            state : {"sent", "done", "refused", "waiting", "over", "failed"}]

IssuedRow == [user : Users, rotated : MaybeNat, tab : Tabs]

TabRow == [page : {"guest", "loading", "app"}, access : MaybeNat]

\* None is nothing else.
Nothing == None \notin Nat /\ None \notin RefreshRow /\ None \notin SignInRow

-----------------------------------------------------------------------------
(***************************************************************************)
(* The rows, and what becomes of the calls.                                *)
(***************************************************************************)
Shapes ==
    /\ stored \in MaybeNat
    /\ tab \in [Tabs -> TabRow]
    /\ refresh \in [Tabs -> RefreshRow \cup {None}]
    /\ signin \in [Tabs -> SignInRow \cup {None}]
    /\ calls \in Seq(CallRow)
    /\ issued \in Seq(IssuedRow)
    /\ live \in SUBSET Nat /\ waived \in SUBSET Nat /\ registered \in SUBSET Users

\* A call counts once it is done, and nothing that was done is sent again.
Once(c) == c.done \in {0, 1} /\ (c.state \in {"sent", "refused", "waiting"} => c.done = 0)

CallsOnce == \A k \in DOMAIN calls : Once(calls[k])

Revoked == {calls[k].revokes : k \in DOMAIN calls}

\* Rows changed one by one are a sequence of rows.
LEMMA RowByRow ==
    ASSUME NEW S, NEW s \in Seq(S), NEW r, r = [k \in DOMAIN s |-> r[k]],
           \A k \in DOMAIN s : r[k] \in S
    PROVE  r \in Seq(S)
<1>1. DOMAIN s = 1..Len(s) /\ Len(s) \in Nat
  BY LenProperties
<1>2. r \in [1..Len(s) -> S]
  BY <1>1
<1> QED  BY <1>1, <1>2, SeqDef

\* The calls of one tab that waited are sent again or given up.
LEMMA ResumedFacts ==
    ASSUME NEW t \in Tabs, NEW ok, Shapes, tab'[t].access \in MaybeNat
    PROVE  /\ Resumed(t, ok) \in Seq(CallRow)
           /\ DOMAIN Resumed(t, ok) = DOMAIN calls
           /\ \A k \in DOMAIN calls : /\ Resumed(t, ok)[k].revokes = calls[k].revokes
                                      /\ Once(calls[k]) => Once(Resumed(t, ok)[k])
<1> DEFINE r == Resumed(t, ok)
<1>1. r = [k \in DOMAIN calls |-> r[k]] /\ DOMAIN r = DOMAIN calls
  BY DEF Resumed
<1>2. ASSUME NEW k \in DOMAIN calls
      PROVE  /\ r[k] \in CallRow /\ r[k].revokes = calls[k].revokes
             /\ Once(calls[k]) => Once(r[k])
  <2>1. calls[k] \in CallRow
    BY ElementOfSeq, LenProperties DEF Shapes
  <2>2. CASE ~Waiting(t, k)
    <3>1. r[k] = calls[k]
      BY <2>2 DEF Resumed
    <3> QED  BY <2>1, <3>1
  <2>3. CASE Waiting(t, k) /\ ok
    <3>1. r[k] = [calls[k] EXCEPT !.state = "sent", !.retried = TRUE, !.with = tab'[t].access]
      BY <2>3 DEF Resumed
    <3>2. calls[k].state = "waiting"
      BY <2>3 DEF Waiting
    <3> QED  BY <2>1, <3>1, <3>2 DEF CallRow, Once
  <2>4. CASE Waiting(t, k) /\ ~ok
    <3>1. r[k] = Finished(calls[k], "over")
      BY <2>4 DEF Resumed
    <3> QED  BY <2>1, <3>1 DEF CallRow, Once, Finished, MaybeNat
  <2> QED  BY <2>2, <2>3, <2>4
<1>3. r \in Seq(CallRow)
  <2> HIDE DEF r
  <2> QED  BY <1>1, <1>2, RowByRow DEF Shapes
<1> QED  BY <1>1, <1>2, <1>3

\* What a tab shows, and keeps in memory.
LEMMA TabsStep ==
    ASSUME Shapes, SessionNext
    PROVE  tab' \in [Tabs -> TabRow]
<1> USE DEF MaybeNat, Shapes, TabRow
<1>1. AuthGuard \in TabRow
  BY DEF AuthGuard
<1>2. ASSUME NEW t \in Tabs, HearRefresh(t) PROVE tab' \in [Tabs -> TabRow]
  <2>1. CASE refresh[t].state = "ok"
    <3>1. refresh[t] \in RefreshRow
      BY <1>2 DEF HearRefresh
    <3> QED  BY <1>2, <2>1, <3>1 DEF HearRefresh, StoreTokens, RefreshRow
  <2>2. CASE refresh[t].state # "ok"
    BY <1>1, <1>2, <2>2 DEF HearRefresh, ClearAuth
  <2> QED  BY <2>1, <2>2
<1>3. ASSUME NEW t \in Tabs, HearSignIn(t) PROVE tab' \in [Tabs -> TabRow]
  <2>1. signin[t] \in SignInRow
    BY <1>3 DEF HearSignIn
  <2>2. signin[t].token \in MaybeNat
    BY <2>1 DEF SignInRow
  <2>3. CASE signin[t].state = "ok"
    BY <1>3, <2>2, <2>3 DEF HearSignIn, StoreTokens
  <2>4. CASE signin[t].state # "ok"
    BY <1>3, <2>4 DEF HearSignIn
  <2> QED  BY <2>3, <2>4
<1>4. ASSUME NEW t \in Tabs, SignOut(t) PROVE tab' \in [Tabs -> TabRow]
  BY <1>1, <1>4 DEF SignOut, ClearAuth
<1>5. ASSUME NEW t \in Tabs, RefreshFails(t) PROVE tab' \in [Tabs -> TabRow]
  BY <1>5 DEF RefreshFails, AfterBoot
<1>6. ASSUME NEW t \in Tabs, Load(t) \/ GoBack(t) PROVE tab' \in [Tabs -> TabRow]
  BY <1>6 DEF Load, GoBack
<1>7. CASE UNCHANGED tab
  BY <1>7
<1> QED
  BY <1>2, <1>3, <1>4, <1>5, <1>6, <1>7
  DEF SessionNext, ServeSignIn, ServeRefresh, Send, Login, Setup, AcceptInvite, Submit, SignInFails,
      Logout, IdleLogout, ServeCall, HearRefusal, Hear, CallFails, Expire

\* One more call, one of the calls changed, the calls that waited: in each case they stay
\* calls, none is counted twice, and none revokes what none revoked.
CallsKept ==
    /\ calls' \in Seq(CallRow)
    /\ CallsOnce => CallsOnce'
    /\ Revoked' \subseteq Revoked \cup {None}

LEMMA CallChanged ==
    ASSUME Shapes, NEW k \in DOMAIN calls, NEW c \in CallRow, calls' = [calls EXCEPT ![k] = c],
           c.revokes = calls[k].revokes, Once(calls[k]) => Once(c)
    PROVE  CallsKept
<1>1. /\ calls' \in Seq(CallRow) /\ DOMAIN calls' = DOMAIN calls
      /\ \A j \in DOMAIN calls : calls'[j] = IF j = k THEN c ELSE calls[j]
  BY ExceptSeq, LenProperties DEF Shapes
<1> QED  BY <1>1 DEF CallsKept, CallsOnce, Revoked

LEMMA CallAdded ==
    ASSUME Shapes, NEW c \in CallRow, calls' = Append(calls, c), Once(c)
    PROVE  /\ calls' \in Seq(CallRow)
           /\ CallsOnce => CallsOnce'
           /\ Revoked' \subseteq Revoked \cup {c.revokes}
<1>1. /\ calls' \in Seq(CallRow) /\ DOMAIN calls' = DOMAIN calls \cup {Len(calls) + 1}
      /\ \A j \in DOMAIN calls : calls'[j] = calls[j]
      /\ calls'[Len(calls) + 1] = c
  BY AppendProperties, LenProperties DEF Shapes
<1> QED  BY <1>1 DEF CallsOnce, Revoked

LEMMA CallsResumed ==
    ASSUME Shapes, NEW t \in Tabs, NEW ok, tab' \in [Tabs -> TabRow], calls' = Resumed(t, ok)
    PROVE  CallsKept
<1>1. tab'[t].access \in MaybeNat
  BY DEF TabRow
<1>2. /\ calls' \in Seq(CallRow) /\ DOMAIN calls' = DOMAIN calls
      /\ \A k \in DOMAIN calls : /\ calls'[k].revokes = calls[k].revokes
                                 /\ Once(calls[k]) => Once(calls'[k])
  BY <1>1, ResumedFacts
<1> QED  BY <1>2 DEF CallsKept, CallsOnce, Revoked

\* The calls of any step but a logout.
LEMMA CallsStep ==
    ASSUME Shapes, SessionNext, ~\E t \in Tabs : SignOut(t)
    PROVE  CallsKept
<1>1. \A k \in DOMAIN calls : calls[k] \in CallRow
  BY ElementOfSeq, LenProperties DEF Shapes
<1>2. tab' \in [Tabs -> TabRow]
  BY TabsStep
<1>3. ASSUME NEW t \in Tabs, Send(t) PROVE CallsKept
  <2>1. Sent(t, None) \in CallRow /\ Sent(t, None).revokes = None /\ Once(Sent(t, None))
    BY <1>2 DEF Sent, CallRow, TabRow, MaybeNat, Once
  <2> QED  BY <1>3, <2>1, CallAdded DEF Send, CallsKept
<1>4. ASSUME NEW t \in Tabs, HearRefresh(t) PROVE CallsKept
  BY <1>2, <1>4, CallsResumed DEF HearRefresh
<1>5. ASSUME NEW t \in Tabs, RefreshFails(t) PROVE CallsKept
  BY <1>2, <1>5, CallsResumed DEF RefreshFails
<1>6. ASSUME NEW t \in Tabs, Load(t) PROVE CallsKept
  <2> DEFINE r == [k \in DOMAIN calls |-> IF calls[k].tab = t /\ calls[k].state # "over"
                                         THEN AfterError(calls[k]) ELSE calls[k]]
  <2>1. calls' = r /\ r = [k \in DOMAIN calls |-> r[k]]
    BY <1>6 DEF Load
  <2>2. ASSUME NEW k \in DOMAIN calls
        PROVE  /\ r[k] \in CallRow /\ r[k].revokes = calls[k].revokes
               /\ Once(calls[k]) => Once(r[k])
    BY <1>1 DEF AfterError, Finished, CallRow, MaybeNat, Once
  <2> HIDE DEF r
  <2>3. r \in Seq(CallRow)
    BY <2>1, <2>2, RowByRow DEF Shapes
  <2> QED  BY <2>1, <2>2, <2>3 DEF CallsKept, CallsOnce, Revoked
<1>7. ASSUME NEW k \in DOMAIN calls, ServeCall(k) PROVE CallsKept
  <2> DEFINE served(state, n) == [calls[k] EXCEPT !.state = state, !.done = calls[k].done + n]
  <2>1. calls[k] \in CallRow /\ calls[k].state = "sent"
    BY <1>1, <1>7 DEF ServeCall
  <2>2. \/ calls' = [calls EXCEPT ![k] = served("done", 1)]
        \/ calls' = [calls EXCEPT ![k] = served("refused", 0)]
    BY <1>7 DEF ServeCall
  <2>3. ASSUME NEW state \in {"done", "refused"}, NEW n \in {0, 1}
        PROVE  /\ served(state, n) \in CallRow
               /\ served(state, n).revokes = calls[k].revokes
    <3>1. calls[k].done + n \in Nat
      BY <2>1 DEF CallRow
    <3>2. \A d \in Nat : [calls[k] EXCEPT !.state = state, !.done = d] \in CallRow
      BY <2>1 DEF CallRow
    <3>3. served(state, n).revokes = calls[k].revokes
      BY <2>1 DEF CallRow
    <3> QED  BY <3>1, <3>2, <3>3
  <2>4. Once(calls[k]) => Once(served("done", 1)) /\ Once(served("refused", 0))
    BY <2>1 DEF CallRow, Once
  <2> HIDE DEF served
  <2> QED  BY <2>2, <2>3, <2>4, CallChanged
<1>8. ASSUME NEW k \in DOMAIN calls, HearRefusal(k) PROVE CallsKept
  <2>1. PICK c : /\ calls' = [calls EXCEPT ![k] = c]
                 /\ c = [calls[k] EXCEPT !.state = "waiting", !.with = None]
                    \/ c = Finished(calls[k], "over")
    BY <1>8 DEF HearRefusal
  <2>2. c \in CallRow /\ c.revokes = calls[k].revokes
    BY <1>1, <2>1 DEF CallRow, Finished, MaybeNat
  <2>3. Once(calls[k]) => Once(c)
    BY <1>1, <1>8, <2>1 DEF CallRow, Finished, Once, HearRefusal
  <2> QED  BY <2>1, <2>2, <2>3, CallChanged
<1>9. ASSUME NEW k \in DOMAIN calls, Hear(k) \/ CallFails(k) PROVE CallsKept
  <2>1. PICK state \in {"over", "failed"} : calls' = [calls EXCEPT ![k] = Finished(calls[k], state)]
    BY <1>9 DEF Hear, CallFails, AfterError
  <2>2. calls[k] \in CallRow
    BY <1>1
  <2>3. /\ Finished(calls[k], state) \in CallRow
        /\ Finished(calls[k], state).revokes = calls[k].revokes
        /\ Once(calls[k]) => Once(Finished(calls[k], state))
    BY <2>2 DEF CallRow, Finished, MaybeNat, Once
  <2> QED  BY <2>1, <2>3, CallChanged
<1>10. CASE UNCHANGED calls
  BY <1>10 DEF CallsKept, CallsOnce, Revoked, Shapes
<1> QED
  BY <1>3, <1>4, <1>5, <1>6, <1>7, <1>8, <1>9, <1>10
  DEF SessionNext, ServeSignIn, ServeRefresh, GoBack, Login, Setup, AcceptInvite, Submit, HearSignIn,
      SignInFails, Logout, IdleLogout, Expire

\* A logout, whose call revokes the token that was stored.
LEMMA SignOutCalls ==
    ASSUME Shapes, NEW t \in Tabs, SignOut(t)
    PROVE  /\ calls' \in Seq(CallRow)
           /\ CallsOnce => CallsOnce'
           /\ Revoked' \subseteq Revoked \cup {stored}
<1>1. CASE stored = None
  BY <1>1 DEF SignOut, Shapes, CallsOnce, Revoked
<1>2. CASE stored # None
  <2>1. /\ Sent(t, stored) \in CallRow /\ Sent(t, stored).revokes = stored
        /\ Once(Sent(t, stored))
    BY DEF SignOut, ClearAuth, AuthGuard, Sent, Shapes, CallRow, MaybeNat, Once
  <2> QED  BY <1>2, <2>1, CallAdded DEF SignOut
<1> QED  BY <1>1, <1>2

-----------------------------------------------------------------------------
(***************************************************************************)
(* The tokens.                                                             *)
(***************************************************************************)
Arrived(t) == refresh[t] # None /\ refresh[t].state = "ok"
SignedIn(t) == signin[t] # None /\ signin[t].state = "ok"

\* Every token in use was issued.
Known ==
    /\ stored \in Tokens \cup {None} /\ Revoked \subseteq Tokens \cup {None}
    /\ \A t \in Tabs : /\ refresh[t] # None => refresh[t].token \in Tokens
                       /\ Arrived(t) => refresh[t].new \in Tokens
                       /\ SignedIn(t) => signin[t].token \in Tokens

\* A token that is accepted, and that only the answer that brings it names.
Fresh(n) ==
    /\ n \in live /\ n # stored /\ n \notin Revoked
    /\ \A t \in Tabs : refresh[t] # None => refresh[t].token # n

AnswersAreFresh ==
    /\ \A t \in Tabs : /\ Arrived(t) => Fresh(refresh[t].new)
                       /\ SignedIn(t) => Fresh(signin[t].token)
    /\ \A t, u \in Tabs :
         /\ Arrived(t) /\ Arrived(u) /\ t # u => refresh[t].new # refresh[u].new
         /\ SignedIn(t) /\ SignedIn(u) /\ t # u => signin[t].token # signin[u].token
         /\ Arrived(t) /\ SignedIn(u) => refresh[t].new # signin[u].token

\* A tab's answer replaces the token the tab sent.
AnswersReplace ==
    \A t \in Tabs : Arrived(t) =>
        issued[refresh[t].new].rotated = refresh[t].token /\ issued[refresh[t].new].tab = t

RevokedAreWaived == Revoked \subseteq waived \cup {None}

\* StoredTokenIsGood, where being exchanged means that the answer has been given.
StoredAccounted ==
    stored # None =>
        stored \in live \cup waived \/ \E t \in Tabs : Arrived(t) /\ refresh[t].token = stored

\* Why the token of the tab's refresh may be refused.
Reason(t) ==
    \/ refresh[t].token \in waived
    \/ \E n \in Tokens : issued[n].rotated = refresh[t].token /\ issued[n].tab # t

SentAccounted ==
    \A t \in Tabs : refresh[t] # None /\ refresh[t].state = "sent" =>
        refresh[t].token \in live \/ Reason(t)

TokensAccounted ==
    /\ Shapes /\ Known /\ AnswersAreFresh /\ AnswersReplace /\ RevokedAreWaived
    /\ StoredAccounted /\ SentAccounted /\ RefusedForAReason

LEMMA IssueFacts ==
    ASSUME Shapes, NEW u \in Users, NEW rotated \in MaybeNat, NEW t \in Tabs, Issue(u, rotated, t)
    PROVE  /\ issued' \in Seq(IssuedRow)
           /\ Newest \in Nat /\ Newest \notin Tokens
           /\ Tokens' = Tokens \cup {Newest}
           /\ \A n \in Tokens : issued'[n] = issued[n]
           /\ issued'[Newest].rotated = rotated /\ issued'[Newest].tab = t
           /\ live' = (live \ {rotated}) \cup {Newest}
<1>1. [user |-> u, rotated |-> rotated, tab |-> t] \in IssuedRow
  BY DEF IssuedRow
<1>2. /\ issued' \in Seq(IssuedRow) /\ Len(issued') = Len(issued) + 1
      /\ \A n \in 1..Len(issued) : issued'[n] = issued[n]
      /\ issued'[Len(issued) + 1] = [user |-> u, rotated |-> rotated, tab |-> t]
  BY <1>1, AppendProperties DEF Issue, Shapes
<1>3. Len(issued) \in Nat
  BY LenProperties DEF Shapes
<1> QED  BY <1>2, <1>3 DEF Tokens, Newest, Issue

\* Rows of the tabs are rows.
LEMMA TabRows ==
    ASSUME Shapes, NEW t \in Tabs
    PROVE  /\ refresh[t] # None => refresh[t] \in RefreshRow
           /\ signin[t] # None => signin[t] \in SignInRow
BY DEF Shapes

\* and tokens are numbers, so not None.
LEMMA NoneIsNoToken == ASSUME Nothing PROVE None \notin Tokens
BY DEF Nothing, Tokens

\* A refresh that is accepted: the new token is nobody's but the answer's.
LEMMA RefreshAccepted ==
    ASSUME TokensAccounted, CallsKept, Nothing, tab' \in [Tabs -> TabRow],
           NEW t \in Tabs, ServeRefresh(t), refresh[t].token \in live
    PROVE  TokensAccounted'
<1> USE DEF Nothing
<1> DEFINE old == refresh[t].token
<1>0. None \notin Tokens
  BY NoneIsNoToken
<1> PICK new : new = Newest
  OBVIOUS
<1>1. /\ Shapes /\ Known /\ AnswersAreFresh /\ AnswersReplace /\ RevokedAreWaived
      /\ StoredAccounted /\ SentAccounted /\ RefusedForAReason
  BY DEF TokensAccounted
<1>2. /\ refresh[t] # None /\ refresh[t] \in RefreshRow /\ refresh[t].state = "sent"
      /\ old \in Tokens /\ old \in Nat
  BY <1>1, TabRows DEF ServeRefresh, Known, RefreshRow
<1>3. /\ Issue(issued[old].user, old, t)
      /\ refresh' = [refresh EXCEPT ![t] = [refresh[t] EXCEPT !.state = "ok", !.new = Newest]]
      /\ UNCHANGED <<stored, signin, registered, waived>>
  BY <1>1 DEF ServeRefresh, Shapes
<1>4. issued[old].user \in Users
  <2>1. issued[old] \in IssuedRow
    BY <1>1, <1>2, ElementOfSeq DEF Shapes, Tokens
  <2> QED  BY <2>1 DEF IssuedRow
<1>5. /\ issued' \in Seq(IssuedRow)
      /\ new \in Nat /\ new \notin Tokens
      /\ Tokens' = Tokens \cup {new}
      /\ \A n \in Tokens : issued'[n] = issued[n]
      /\ issued'[new].rotated = old /\ issued'[new].tab = t
      /\ live' = (live \ {old}) \cup {new}
  BY <1>1, <1>2, <1>3, <1>4, IssueFacts DEF MaybeNat
<1>6. [refresh[t] EXCEPT !.state = "ok", !.new = Newest] \in RefreshRow
  BY <1>2, <1>5 DEF RefreshRow, MaybeNat
<1>7. /\ \A u \in Tabs \ {t} : refresh'[u] = refresh[u]
      /\ refresh'[t] # None /\ refresh'[t].state = "ok"
      /\ refresh'[t].token = old /\ refresh'[t].new = new
  BY <1>1, <1>2, <1>3, <1>6 DEF Shapes, RefreshRow
<1>8. Shapes'
  BY <1>1, <1>3, <1>5, <1>6 DEF Shapes, CallsKept
<1> HIDE DEF old
<1>9. Revoked' \subseteq Revoked \cup {None}
  BY DEF CallsKept
<1>10. Known'
  BY <1>1, <1>2, <1>3, <1>5, <1>7, <1>9 DEF Known, Arrived, SignedIn
<1>11. ASSUME NEW n \in Tokens, Fresh(n) PROVE Fresh(n)' /\ n # old
  BY <1>0, <1>1, <1>2, <1>3, <1>5, <1>7, <1>9, <1>11 DEF Fresh, old
<1>12. Fresh(new)'
  BY <1>0, <1>1, <1>2, <1>3, <1>5, <1>7, <1>9 DEF Fresh, Known
<1>13. AnswersAreFresh'
  <2>1. \A u \in Tabs : /\ Arrived(u)' => u = t \/ (Arrived(u) /\ refresh'[u].new = refresh[u].new)
                        /\ SignedIn(u)' <=> SignedIn(u)
    BY <1>3, <1>7 DEF Arrived, SignedIn
  <2> QED  BY <1>1, <1>3, <1>5, <1>7, <1>11, <1>12, <2>1 DEF AnswersAreFresh, Known
<1>14. AnswersReplace'
  BY <1>1, <1>5, <1>7 DEF AnswersReplace, Arrived, Known
<1>15. RevokedAreWaived'
  BY <1>1, <1>3, <1>9 DEF RevokedAreWaived
<1>16. StoredAccounted'
  BY <1>1, <1>2, <1>3, <1>5, <1>7 DEF StoredAccounted, Arrived
<1>17. \A u \in Tabs : u # t /\ Reason(u) => Reason(u)'
  BY <1>3, <1>5, <1>7 DEF Reason
<1>18. SentAccounted'
  <2>1. \A u \in Tabs : u # t /\ refresh[u].token = old => Reason(u)'
    BY <1>5, <1>7 DEF Reason
  <2> QED  BY <1>1, <1>5, <1>7, <1>17, <2>1 DEF SentAccounted
<1>19. RefusedForAReason'
  BY <1>1, <1>7, <1>17 DEF RefusedForAReason, Reason
<1> QED  BY <1>8, <1>10, <1>13, <1>14, <1>15, <1>16, <1>18, <1>19 DEF TokensAccounted

\* What a step that issues nothing may do to the refresh of a tab: leave it, find its
\* token refused, end it - its token waived, if the answer is dropped - or start another.
Kept(u) == refresh'[u] = refresh[u]

TurnsDown(u) ==
    /\ refresh[u] # None /\ refresh'[u] # None
    /\ refresh[u].state = "sent" /\ refresh'[u].state = "refused"
    /\ refresh'[u].token = refresh[u].token /\ refresh[u].token \notin live

Dropped(u) == Arrived(u) => refresh[u].token \in waived'

Ends(u) == refresh'[u] = None /\ (Dropped(u) \/ stored' # stored)

Starts(u) == Dropped(u) /\ stored # None /\ refresh'[u].token = stored /\ refresh'[u].state = "sent"

\* The store is left, cleared, or given a token that no answer under way names.
Stores ==
    \/ stored' \in {stored, None}
    \/ /\ stored' \in live' \cap Tokens
       /\ \A u \in Tabs : /\ Arrived(u)' => refresh'[u].new # stored'
                          /\ SignedIn(u)' => signin'[u].token # stored'

\* A step that issues nothing.
Moves ==
    /\ Shapes' /\ issued' = issued
    /\ waived \subseteq waived' /\ live' \subseteq live /\ live \ live' \subseteq Revoked
    /\ Revoked' \subseteq Revoked \cup {None, stored} /\ RevokedAreWaived'
    /\ Stores
    /\ \A u \in Tabs :
         /\ Kept(u) \/ TurnsDown(u) \/ Ends(u) \/ Starts(u)
         /\ SignedIn(u)' => SignedIn(u) /\ signin'[u] = signin[u]

LEMMA MovesAccounted ==
    ASSUME TokensAccounted, Nothing, Moves
    PROVE  TokensAccounted'
<1>0. None \notin Tokens
  BY NoneIsNoToken
<1>1. /\ Shapes /\ Known /\ AnswersAreFresh /\ AnswersReplace /\ RevokedAreWaived
      /\ StoredAccounted /\ SentAccounted /\ RefusedForAReason
  BY DEF TokensAccounted
<1>2. /\ Tokens' = Tokens /\ issued' = issued
      /\ waived \subseteq waived' /\ live' \subseteq live /\ live \ live' \subseteq Revoked
      /\ Revoked' \subseteq Revoked \cup {None, stored} /\ RevokedAreWaived'
  BY DEF Moves, Tokens
<1>3. \A u \in Tabs :
         Kept(u) \/ TurnsDown(u) \/ Ends(u) \/ Starts(u)
  BY DEF Moves
<1>4. \A u \in Tabs : SignedIn(u)' => SignedIn(u) /\ signin'[u] = signin[u]
  BY DEF Moves
<1>5. \A u \in Tabs : Arrived(u)' => Arrived(u) /\ refresh'[u] = refresh[u]
  BY <1>3 DEF Kept, TurnsDown, Ends, Starts, Arrived
<1>6. \A u \in Tabs : refresh'[u] # None =>
         \/ refresh[u] # None /\ refresh'[u].token = refresh[u].token
         \/ stored # None /\ refresh'[u].token = stored
  BY <1>3 DEF Kept, TurnsDown, Ends, Starts
<1>7. Known'
  BY <1>1, <1>2, <1>4, <1>5, <1>6 DEF Known, Moves, Stores, Arrived
<1>8. ASSUME NEW n \in Tokens, Fresh(n), stored' \in {stored, None} \/ stored' # n
      PROVE  Fresh(n)'
  BY <1>0, <1>2, <1>6, <1>8 DEF Fresh
<1>9. AnswersAreFresh'
  <2>1. ASSUME NEW u \in Tabs, Arrived(u)' PROVE Fresh(refresh[u].new)'
    <3>1. refresh[u].new \in Tokens /\ Fresh(refresh[u].new) /\ refresh'[u] = refresh[u]
      BY <1>1, <1>5, <2>1 DEF Known, AnswersAreFresh
    <3>2. stored' \in {stored, None} \/ stored' # refresh[u].new
      BY <2>1, <3>1 DEF Moves, Stores
    <3> QED  BY <1>8, <3>1, <3>2
  <2>2. ASSUME NEW u \in Tabs, SignedIn(u)' PROVE Fresh(signin[u].token)'
    <3>1. signin[u].token \in Tokens /\ Fresh(signin[u].token) /\ signin'[u] = signin[u]
      BY <1>1, <1>4, <2>2 DEF Known, AnswersAreFresh
    <3>2. stored' \in {stored, None} \/ stored' # signin[u].token
      BY <2>2, <3>1 DEF Moves, Stores
    <3> QED  BY <1>8, <3>1, <3>2
  <2> QED  BY <1>1, <1>4, <1>5, <2>1, <2>2 DEF AnswersAreFresh
<1>10. AnswersReplace'
  BY <1>1, <1>2, <1>5 DEF AnswersReplace
<1>11. StoredAccounted'
  <2>1. CASE stored' = stored /\ stored # None
    <3>1. stored \in live \cup waived \/ \E u \in Tabs : Arrived(u) /\ refresh[u].token = stored
      BY <1>1, <2>1 DEF StoredAccounted
    <3>2. ASSUME NEW u \in Tabs, Arrived(u), refresh[u].token = stored
          PROVE  stored \in waived' \/ (Arrived(u)' /\ refresh'[u].token = stored)
      BY <1>3, <2>1, <3>2 DEF Kept, TurnsDown, Ends, Dropped, Starts, Arrived
    <3>3. live \subseteq live' \cup waived'
      BY <1>0, <1>1, <1>2 DEF RevokedAreWaived, Shapes, Nothing
    <3> QED  BY <1>2, <2>1, <3>1, <3>2, <3>3 DEF StoredAccounted
  <2>2. CASE stored' # stored \/ stored = None
    BY <2>2 DEF StoredAccounted, Moves, Stores
  <2> QED  BY <2>1, <2>2
<1>12. ASSUME NEW u \in Tabs, Reason(u), refresh'[u].token = refresh[u].token
       PROVE  Reason(u)'
  BY <1>2, <1>12 DEF Reason
<1>13. live \subseteq live' \cup waived'
  BY <1>1, <1>2 DEF RevokedAreWaived, Shapes, Nothing
<1>14. SentAccounted'
  <2> SUFFICES ASSUME NEW u \in Tabs, refresh'[u] # None, refresh'[u].state = "sent"
               PROVE  refresh'[u].token \in live' \/ Reason(u)'
    BY DEF SentAccounted
  <2>1. CASE Kept(u)
    BY <1>1, <1>12, <1>13, <2>1 DEF Kept, SentAccounted, Reason
  <2>2. CASE Starts(u)
    <3>1. stored \in live \cup waived \/ \E w \in Tabs : Arrived(w) /\ refresh[w].token = stored
      BY <1>1, <2>2 DEF StoredAccounted, Starts
    <3>2. CASE stored \in live \cup waived
      BY <1>2, <1>13, <2>2, <3>2 DEF Starts, Reason
    <3>3. CASE \E w \in Tabs : Arrived(w) /\ refresh[w].token = stored
      <4>1. PICK w \in Tabs : Arrived(w) /\ refresh[w].token = stored
        BY <3>3
      <4>2. CASE w = u
        BY <2>2, <4>1, <4>2 DEF Starts, Dropped, Reason
      <4>3. CASE w # u
        <5>1. /\ refresh[w].new \in Tokens /\ issued[refresh[w].new].rotated = stored
              /\ issued[refresh[w].new].tab # u
          BY <1>1, <4>1, <4>3 DEF AnswersReplace, Known
        <5> QED  BY <1>2, <2>2, <5>1 DEF Starts, Reason
      <4> QED  BY <4>2, <4>3
    <3> QED  BY <3>1, <3>2, <3>3
  <2> QED  BY <1>3, <2>1, <2>2 DEF TurnsDown, Ends
<1>15. RefusedForAReason'
  <2> SUFFICES ASSUME NEW u \in Tabs, refresh'[u] # None, refresh'[u].state = "refused"
               PROVE  Reason(u)'
    BY DEF RefusedForAReason, Reason
  <2>1. CASE Kept(u)
    BY <1>1, <1>12, <2>1 DEF Kept, RefusedForAReason, Reason
  <2>2. CASE TurnsDown(u)
    BY <1>1, <1>12, <2>2 DEF TurnsDown, SentAccounted
  <2> QED  BY <1>3, <2>1, <2>2 DEF Ends, Starts
<1> QED  BY <1>2, <1>7, <1>9, <1>10, <1>11, <1>14, <1>15 DEF TokensAccounted, Moves

\* A sign-in that is accepted: as with a refresh, but no token is replaced.
LEMMA SignInAccepted ==
    ASSUME TokensAccounted, CallsKept, Nothing, tab' \in [Tabs -> TabRow],
           NEW t \in Tabs, ServeSignIn(t), Admits(signin[t].via, signin[t].user)
    PROVE  TokensAccounted'
<1> PICK new : new = Newest
  OBVIOUS
<1>0. None \notin Tokens
  BY NoneIsNoToken
<1>1. /\ Shapes /\ Known /\ AnswersAreFresh /\ AnswersReplace /\ RevokedAreWaived
      /\ StoredAccounted /\ SentAccounted /\ RefusedForAReason
  BY DEF TokensAccounted
<1>2. signin[t] # None /\ signin[t] \in SignInRow /\ signin[t].user \in Users
  BY <1>1, TabRows DEF ServeSignIn, SignInRow
<1>3. /\ Issue(signin[t].user, None, t)
      /\ signin' = [signin EXCEPT ![t] = [signin[t] EXCEPT !.state = "ok", !.token = Newest]]
      /\ registered' = registered \cup {signin[t].user}
      /\ UNCHANGED <<stored, refresh, waived>>
  BY <1>1 DEF ServeSignIn, Shapes
<1>4. /\ issued' \in Seq(IssuedRow)
      /\ new \in Nat /\ new \notin Tokens
      /\ Tokens' = Tokens \cup {new}
      /\ \A n \in Tokens : issued'[n] = issued[n]
      /\ live' = (live \ {None}) \cup {new}
  BY <1>1, <1>2, <1>3, IssueFacts DEF MaybeNat
<1>5. [signin[t] EXCEPT !.state = "ok", !.token = Newest] \in SignInRow
  BY <1>2, <1>4 DEF SignInRow, MaybeNat
<1>6. /\ \A u \in Tabs \ {t} : signin'[u] = signin[u]
      /\ signin'[t] # None /\ signin'[t].state = "ok" /\ signin'[t].token = new
  BY <1>1, <1>2, <1>3, <1>5 DEF Shapes, SignInRow, Nothing
<1>7. Shapes'
  BY <1>1, <1>2, <1>3, <1>4, <1>5 DEF Shapes, CallsKept
<1>8. Revoked' \subseteq Revoked \cup {None} /\ live \subseteq live' /\ \A n \in live : n # None
  BY <1>1, <1>4 DEF CallsKept, Shapes, Nothing
<1>9. Known'
  BY <1>1, <1>3, <1>4, <1>6, <1>8 DEF Known, Arrived, SignedIn
<1>10. ASSUME NEW n \in Tokens, Fresh(n) PROVE Fresh(n)'
  BY <1>0, <1>3, <1>8, <1>10 DEF Fresh
<1>11. Fresh(new)'
  BY <1>1, <1>3, <1>4, <1>8, Nothing DEF Fresh, Known, Nothing
<1>12. AnswersAreFresh'
  <2>1. \A u \in Tabs : /\ SignedIn(u)' => u = t \/ (SignedIn(u) /\ signin'[u] = signin[u])
                        /\ Arrived(u)' <=> Arrived(u)
    BY <1>3, <1>6 DEF Arrived, SignedIn
  <2> QED  BY <1>1, <1>3, <1>4, <1>6, <1>10, <1>11, <2>1 DEF AnswersAreFresh, Known
<1>13. AnswersReplace'
  BY <1>1, <1>3, <1>4 DEF AnswersReplace, Arrived, Known
<1>14. RevokedAreWaived' /\ StoredAccounted'
  BY <1>1, <1>3, <1>8 DEF RevokedAreWaived, StoredAccounted, Arrived
<1>15. \A u \in Tabs : Reason(u) => Reason(u)'
  BY <1>3, <1>4 DEF Reason
<1>16. SentAccounted' /\ RefusedForAReason'
  BY <1>1, <1>3, <1>8, <1>15 DEF SentAccounted, RefusedForAReason, Reason
<1> QED  BY <1>7, <1>9, <1>12, <1>13, <1>14, <1>16 DEF TokensAccounted

\* A page that is loaded while its refresh is on its way: what the server answers to the
\* old page is lost, and the new page sends what is stored.
LEMMA LoadedTooEarly ==
    ASSUME TokensAccounted, CallsKept, Nothing, tab' \in [Tabs -> TabRow],
           NEW t \in Tabs, Load(t), refresh[t] # None, refresh[t].state = "sent",
           Issue(issued[refresh[t].token].user, refresh[t].token, t),
           waived' = waived \cup {refresh[t].token}
    PROVE  TokensAccounted'
<1> DEFINE old == refresh[t].token
<1> PICK new : new = Newest
  OBVIOUS
<1>0. None \notin Tokens
  BY NoneIsNoToken
<1>1. /\ Shapes /\ Known /\ AnswersAreFresh /\ AnswersReplace /\ RevokedAreWaived
      /\ StoredAccounted /\ SentAccounted /\ RefusedForAReason
  BY DEF TokensAccounted
<1>2. old \in Tokens /\ old \in Nat /\ issued[old].user \in Users
  <2>1. old \in Tokens /\ old \in Nat
    BY <1>1, TabRows DEF Known, RefreshRow
  <2>2. issued[old] \in IssuedRow
    BY <1>1, <2>1, ElementOfSeq DEF Shapes, Tokens
  <2> QED  BY <2>1, <2>2 DEF IssuedRow
<1>3. /\ issued' \in Seq(IssuedRow)
      /\ new \in Nat /\ new \notin Tokens
      /\ Tokens' = Tokens \cup {new}
      /\ \A n \in Tokens : issued'[n] = issued[n]
      /\ live' = (live \ {old}) \cup {new}
  BY <1>1, <1>2, IssueFacts DEF MaybeNat
<1> DEFINE row == IF stored = None THEN None ELSE [token |-> stored, state |-> "sent", new |-> None]
<1>4. /\ refresh' = [refresh EXCEPT ![t] = row] /\ signin' = [signin EXCEPT ![t] = None]
      /\ UNCHANGED <<stored, registered>>
  BY DEF Load
<1>5. row \in RefreshRow \cup {None}
  BY <1>1 DEF Shapes, RefreshRow, MaybeNat
<1>6. /\ \A u \in Tabs \ {t} : refresh'[u] = refresh[u] /\ signin'[u] = signin[u]
      /\ signin'[t] = None
      /\ refresh'[t] # None => stored # None /\ refresh'[t].token = stored /\ refresh'[t].state = "sent"
  BY <1>1, <1>4 DEF Shapes
<1>7. Shapes'
  BY <1>1, <1>2, <1>3, <1>4, <1>5 DEF Shapes, CallsKept
<1> HIDE DEF row
<1>8. Revoked' \subseteq Revoked \cup {None} /\ live \subseteq live' \cup waived'
  BY <1>3 DEF CallsKept
<1>9. Known'
  BY <1>1, <1>3, <1>4, <1>6, <1>8 DEF Known, Arrived, SignedIn
<1>10. ASSUME NEW n \in Tokens, Fresh(n) PROVE Fresh(n)'
  BY <1>0, <1>3, <1>4, <1>6, <1>8, <1>10 DEF Fresh
<1>11. AnswersAreFresh'
  <2>1. \A u \in Tabs : /\ Arrived(u)' => u # t /\ Arrived(u) /\ refresh'[u] = refresh[u]
                        /\ SignedIn(u)' => u # t /\ SignedIn(u) /\ signin'[u] = signin[u]
    BY <1>6 DEF Arrived, SignedIn
  <2> QED  BY <1>1, <1>10, <2>1 DEF AnswersAreFresh, Known
<1>12. AnswersReplace'
  BY <1>1, <1>3, <1>6 DEF AnswersReplace, Arrived, Known
<1>13. RevokedAreWaived'
  BY <1>1, <1>8 DEF RevokedAreWaived
<1>14. StoredAccounted'
  BY <1>1, <1>4, <1>6, <1>8 DEF StoredAccounted, Arrived
<1>15. \A u \in Tabs \ {t} : Reason(u) => Reason(u)'
  BY <1>3, <1>6 DEF Reason
<1>16. refresh'[t] # None => refresh'[t].token \in live' \/ Reason(t)'
  <2> SUFFICES ASSUME refresh'[t] # None PROVE stored \in live' \/ Reason(t)'
    BY <1>6
  <2>1. CASE stored \in live \cup waived
    BY <1>6, <1>8, <2>1 DEF Reason
  <2>2. CASE \E w \in Tabs : Arrived(w) /\ refresh[w].token = stored
    <3>1. PICK w \in Tabs : Arrived(w) /\ refresh[w].token = stored
      BY <2>2
    <3>2. /\ refresh[w].new \in Tokens /\ issued[refresh[w].new].rotated = stored
          /\ issued[refresh[w].new].tab # t
      BY <1>1, <3>1 DEF AnswersReplace, Known, Arrived
    <3> QED  BY <1>3, <1>6, <3>2 DEF Reason
  <2> QED  BY <1>1, <1>6, <2>1, <2>2 DEF StoredAccounted
<1>17. SentAccounted' /\ RefusedForAReason'
  BY <1>1, <1>6, <1>8, <1>15, <1>16 DEF SentAccounted, RefusedForAReason, Reason
<1> QED  BY <1>7, <1>9, <1>11, <1>12, <1>13, <1>14, <1>17 DEF TokensAccounted

-----------------------------------------------------------------------------
(***************************************************************************)
(* Each action is one of these steps.                                      *)
(***************************************************************************)
\* Actions that leave all tokens alone.
LEMMA IdleStep ==
    ASSUME TokensAccounted, CallsKept, tab' \in [Tabs -> TabRow],
           UNCHANGED <<stored, refresh, signin, issued, live, registered, waived>>
    PROVE  Moves
<1>1. Shapes'
  BY DEF TokensAccounted, Shapes, CallsKept
<1>2. Revoked' \subseteq Revoked \cup {None} /\ RevokedAreWaived'
  BY DEF TokensAccounted, CallsKept, RevokedAreWaived
<1> QED  BY <1>1, <1>2 DEF Moves, Stores, Kept, SignedIn

\* The server revokes only tokens that were signed out.
LEMMA ServeCallStep ==
    ASSUME TokensAccounted, CallsKept, tab' \in [Tabs -> TabRow],
           NEW k \in DOMAIN calls, ServeCall(k)
    PROVE  Moves
<1>1. UNCHANGED <<stored, refresh, signin, issued, registered, waived>>
  BY DEF ServeCall
<1>2. live' \subseteq live /\ live \ live' \subseteq Revoked
  BY DEF ServeCall, Revoked
<1>3. Shapes'
  BY <1>1, <1>2 DEF TokensAccounted, Shapes, CallsKept
<1>4. Revoked' \subseteq Revoked \cup {None} /\ RevokedAreWaived'
  BY <1>1 DEF TokensAccounted, CallsKept, RevokedAreWaived
<1> QED  BY <1>1, <1>2, <1>3, <1>4 DEF Moves, Stores, Kept, SignedIn

\* A call that was refused waits for the refresh under way, or starts one.
LEMMA HearRefusalStep ==
    ASSUME TokensAccounted, CallsKept, tab' \in [Tabs -> TabRow],
           NEW k \in DOMAIN calls, HearRefusal(k)
    PROVE  Moves
<1>1. UNCHANGED <<stored, signin, issued, live, registered, waived>>
  BY DEF HearRefusal
<1>2. CASE UNCHANGED refresh
  BY <1>1, <1>2, IdleStep
<1>3. CASE stored # None /\ refresh' = TryRefresh(calls[k].tab) /\ refresh[calls[k].tab] = None
  <2> DEFINE t == calls[k].tab
             row == [token |-> stored, state |-> "sent", new |-> None]
  <2>1. Shapes
    BY DEF TokensAccounted
  <2>2. t \in Tabs
    <3>1. calls[k] \in CallRow
      BY <2>1, ElementOfSeq, LenProperties DEF Shapes
    <3> QED  BY <3>1 DEF CallRow
  <2>3. refresh' = [refresh EXCEPT ![t] = row]
    BY <1>3 DEF TryRefresh
  <2>4. row \in RefreshRow
    BY <1>3, <2>1 DEF Shapes, RefreshRow, MaybeNat
  <2>5. /\ \A u \in Tabs \ {t} : refresh'[u] = refresh[u]
        /\ refresh'[t].token = stored /\ refresh'[t].state = "sent"
    BY <2>1, <2>2, <2>3 DEF Shapes
  <2>6. Shapes'
    BY <1>1, <2>1, <2>3, <2>4 DEF Shapes, CallsKept
  <2> HIDE DEF t, row
  <2>7. \A u \in Tabs : Kept(u) \/ Starts(u)
    BY <1>3, <2>5 DEF Kept, Starts, Dropped, Arrived, t
  <2>8. Revoked' \subseteq Revoked \cup {None} /\ RevokedAreWaived'
    BY <1>1 DEF TokensAccounted, CallsKept, RevokedAreWaived
  <2> QED  BY <1>1, <2>6, <2>7, <2>8 DEF Moves, Stores, SignedIn
<1> QED  BY <1>2, <1>3 DEF HearRefusal, TryRefresh

\* A refresh that is refused.
LEMMA RefreshRefused ==
    ASSUME TokensAccounted, CallsKept, tab' \in [Tabs -> TabRow],
           NEW t \in Tabs, ServeRefresh(t), refresh[t].token \notin live, Nothing
    PROVE  Moves
<1>1. Shapes
  BY DEF TokensAccounted
<1>2. /\ UNCHANGED <<stored, signin, issued, live, registered, waived>>
      /\ refresh' = [refresh EXCEPT ![t] = [refresh[t] EXCEPT !.state = "refused"]]
      /\ refresh[t] # None /\ refresh[t] \in RefreshRow /\ refresh[t].state = "sent"
  BY <1>1, TabRows DEF ServeRefresh, Shapes
<1>3. [refresh[t] EXCEPT !.state = "refused"] \in RefreshRow
  BY <1>2 DEF RefreshRow
<1>4. /\ \A u \in Tabs \ {t} : refresh'[u] = refresh[u]
      /\ refresh'[t] # None /\ refresh'[t].state = "refused" /\ refresh'[t].token = refresh[t].token
  BY <1>1, <1>2, <1>3 DEF Shapes, RefreshRow, Nothing
<1>5. Shapes'
  BY <1>1, <1>2, <1>3 DEF Shapes, CallsKept
<1>6. \A u \in Tabs : Kept(u) \/ TurnsDown(u)
  BY <1>2, <1>4 DEF Kept, TurnsDown
<1>7. Revoked' \subseteq Revoked \cup {None} /\ RevokedAreWaived'
  BY <1>2 DEF TokensAccounted, CallsKept, RevokedAreWaived
<1> QED  BY <1>2, <1>5, <1>6, <1>7 DEF Moves, Stores, SignedIn

\* The answer of a refresh: its new token is stored, or the browser is signed out.
LEMMA HearRefreshStep ==
    ASSUME TokensAccounted, CallsKept, Nothing, tab' \in [Tabs -> TabRow],
           NEW t \in Tabs, HearRefresh(t)
    PROVE  Moves
<1>1. Shapes /\ Known /\ AnswersAreFresh
  BY DEF TokensAccounted
<1>2. /\ UNCHANGED <<signin, issued, live, registered, waived>>
      /\ refresh' = [refresh EXCEPT ![t] = None] /\ refresh[t] # None
      /\ stored' = IF Arrived(t) THEN refresh[t].new ELSE None
  BY DEF HearRefresh, StoreTokens, ClearAuth, Arrived
<1>3. /\ \A u \in Tabs \ {t} : refresh'[u] = refresh[u]
      /\ refresh'[t] = None
  BY <1>1, <1>2 DEF Shapes
<1>4. \A u \in Tabs : SignedIn(u)' <=> SignedIn(u)
  BY <1>2 DEF SignedIn
<1>5. \A u \in Tabs : Arrived(u)' => u # t /\ Arrived(u) /\ refresh'[u] = refresh[u]
  BY <1>3 DEF Arrived
<1>6. Arrived(t) => refresh[t].new \in live \cap Tokens /\ refresh[t].new # stored
  BY <1>1 DEF Known, AnswersAreFresh, Fresh
<1>7. Stores
  BY <1>1, <1>2, <1>4, <1>5, <1>6 DEF AnswersAreFresh, Stores, Tokens
<1>8. stored' \in MaybeNat
  BY <1>1, <1>2, <1>6 DEF Shapes, MaybeNat
<1>9. Shapes'
  BY <1>1, <1>2, <1>8 DEF Shapes, CallsKept
<1>10. \A u \in Tabs : Kept(u) \/ Ends(u)
  BY <1>2, <1>3, <1>6 DEF Kept, Ends, Dropped
<1>11. Revoked' \subseteq Revoked \cup {None} /\ RevokedAreWaived'
  BY <1>2 DEF TokensAccounted, CallsKept, RevokedAreWaived
<1> QED  BY <1>2, <1>4, <1>7, <1>9, <1>10, <1>11 DEF Moves

\* A refresh whose answer is lost.
LEMMA RefreshFailsStep ==
    ASSUME TokensAccounted, CallsKept, tab' \in [Tabs -> TabRow], NEW t \in Tabs, RefreshFails(t)
    PROVE  Moves
<1>1. Shapes /\ Known
  BY DEF TokensAccounted
<1>2. /\ UNCHANGED <<stored, signin, issued, live, registered>>
      /\ refresh' = [refresh EXCEPT ![t] = None]
      /\ waived' = waived \cup (IF Arrived(t) THEN {refresh[t].token} ELSE {})
  BY DEF RefreshFails, Arrived
<1>3. /\ \A u \in Tabs \ {t} : refresh'[u] = refresh[u]
      /\ refresh'[t] = None
  BY <1>1, <1>2 DEF Shapes
<1>4. waived' \in SUBSET Nat
  <2>1. Arrived(t) => refresh[t].token \in Nat
    BY <1>1 DEF Known, Arrived, Tokens
  <2>2. waived \in SUBSET Nat
    BY <1>1 DEF Shapes
  <2> QED  BY <1>2, <2>1, <2>2
<1>5. Shapes'
  BY <1>1, <1>2, <1>4 DEF Shapes, CallsKept
<1>6. \A u \in Tabs : Kept(u) \/ Ends(u)
  BY <1>2, <1>3 DEF Kept, Ends, Dropped
<1>7. Revoked' \subseteq Revoked \cup {None} /\ RevokedAreWaived'
  BY <1>2 DEF TokensAccounted, CallsKept, RevokedAreWaived
<1> QED  BY <1>2, <1>5, <1>6, <1>7 DEF Moves, Stores, SignedIn

\* A page that is loaded: nothing the server does for the page before reaches it.
LEMMA LoadStep ==
    ASSUME TokensAccounted, CallsKept, Nothing, tab' \in [Tabs -> TabRow],
           NEW t \in Tabs, Load(t), UNCHANGED <<issued, live>>,
           waived' = waived \cup (IF Arrived(t) THEN {refresh[t].token} ELSE {})
    PROVE  Moves
<1> DEFINE row == IF stored = None THEN None ELSE [token |-> stored, state |-> "sent", new |-> None]
<1>1. Shapes /\ Known
  BY DEF TokensAccounted
<1>2. /\ refresh' = [refresh EXCEPT ![t] = row] /\ signin' = [signin EXCEPT ![t] = None]
      /\ UNCHANGED <<stored, registered>>
  BY DEF Load
<1>3. row \in RefreshRow \cup {None}
  BY <1>1 DEF Shapes, RefreshRow, MaybeNat
<1>4. /\ \A u \in Tabs \ {t} : refresh'[u] = refresh[u] /\ signin'[u] = signin[u]
      /\ signin'[t] = None
      /\ \/ refresh'[t] = None
         \/ stored # None /\ refresh'[t].token = stored /\ refresh'[t].state = "sent"
  BY <1>1, <1>2 DEF Shapes
<1>5. waived' \in SUBSET Nat
  BY <1>1 DEF Shapes, Known, Arrived, Tokens
<1>6. Shapes'
  BY <1>1, <1>2, <1>3, <1>5 DEF Shapes, CallsKept
<1> HIDE DEF row
<1>7. \A u \in Tabs : Kept(u) \/ Ends(u) \/ Starts(u)
  BY <1>4 DEF Kept, Ends, Starts, Dropped
<1>8. Revoked' \subseteq Revoked \cup {None} /\ RevokedAreWaived'
  BY DEF TokensAccounted, CallsKept, RevokedAreWaived
<1> QED  BY <1>2, <1>4, <1>6, <1>7, <1>8 DEF Moves, Stores, SignedIn

\* The form of a tab is submitted, refused, lost, or its answer stored.
LEMMA SignInStep ==
    ASSUME TokensAccounted, CallsKept, Nothing, tab' \in [Tabs -> TabRow], NEW t \in Tabs,
           UNCHANGED <<refresh, issued, live, registered, waived>>,
           NEW row \in SignInRow \cup {None}, signin' = [signin EXCEPT ![t] = row],
           row = None \/ row.state # "ok",
           stored' = stored \/ (SignedIn(t) /\ stored' = signin[t].token)
    PROVE  Moves
<1>1. Shapes /\ Known /\ AnswersAreFresh
  BY DEF TokensAccounted
<1>2. \A u \in Tabs : /\ SignedIn(u)' => u # t /\ SignedIn(u) /\ signin'[u] = signin[u]
                      /\ Arrived(u)' <=> Arrived(u)
  BY <1>1 DEF Shapes, SignedIn, Arrived
<1>3. SignedIn(t) => signin[t].token \in live \cap Tokens
  BY <1>1 DEF Known, AnswersAreFresh, Fresh
<1>4. Stores
  BY <1>1, <1>2, <1>3 DEF AnswersAreFresh, Stores, Tokens
<1>5. Shapes'
  BY <1>1, <1>3 DEF Shapes, CallsKept, MaybeNat
<1>6. Revoked' \subseteq Revoked \cup {None} /\ RevokedAreWaived'
  BY DEF TokensAccounted, CallsKept, RevokedAreWaived
<1> QED  BY <1>2, <1>4, <1>5, <1>6 DEF Moves, Kept

\* A logout: the token that was stored is waived, and perhaps revoked.
LEMMA SignOutStep ==
    ASSUME TokensAccounted, NEW t \in Tabs, SignOut(t), tab' \in [Tabs -> TabRow]
    PROVE  Moves
<1>1. Shapes
  BY DEF TokensAccounted
<1>2. /\ UNCHANGED <<refresh, signin, issued, live, registered>>
      /\ stored' = None
      /\ waived' = IF stored = None THEN waived ELSE waived \cup {stored}
  BY DEF SignOut, ClearAuth
<1>3. calls' \in Seq(CallRow) /\ Revoked' \subseteq Revoked \cup {stored}
  BY <1>1, SignOutCalls
<1>4. Shapes'
  BY <1>1, <1>2, <1>3 DEF Shapes, MaybeNat
<1>5. RevokedAreWaived'
  BY <1>2, <1>3 DEF TokensAccounted, RevokedAreWaived
<1> QED  BY <1>2, <1>3, <1>4, <1>5 DEF Moves, Stores, Kept, SignedIn

-----------------------------------------------------------------------------
(***************************************************************************)
(* The invariant, and what follows from it.                                *)
(***************************************************************************)
LEMMA InitAccounted == ASSUME Nothing, SessionInit PROVE TokensAccounted /\ CallsOnce
<1> USE DEF SessionInit
<1>1. /\ stored = None /\ calls = << >> /\ issued = << >>
      /\ live = {} /\ waived = {} /\ registered = {}
      /\ \A t \in Tabs : refresh[t] = None /\ signin[t] = None
  OBVIOUS
<1>2. tab \in [Tabs -> TabRow]
  BY DEF AuthGuard, TabRow, MaybeNat
<1>3. calls \in Seq(CallRow) /\ issued \in Seq(IssuedRow)
  BY <1>1, EmptySeq
<1>4. Shapes
  BY <1>1, <1>2, <1>3 DEF Shapes, MaybeNat
<1>5. DOMAIN calls = {} /\ Revoked = {} /\ CallsOnce
  <2>1. DOMAIN calls = {}
    BY <1>1
  <2> QED  BY <2>1 DEF Revoked, CallsOnce
<1>6. \A t \in Tabs : ~Arrived(t) /\ ~SignedIn(t)
  BY <1>1 DEF Arrived, SignedIn
<1> QED
  BY <1>1, <1>4, <1>5, <1>6
  DEF TokensAccounted, Known, AnswersAreFresh, AnswersReplace, RevokedAreWaived, StoredAccounted,
      SentAccounted, RefusedForAReason

\* Every step keeps the invariant.
LEMMA StepAccounted ==
    ASSUME TokensAccounted, CallsOnce, Nothing, SessionNext
    PROVE  TokensAccounted' /\ CallsOnce'
<1>1. Shapes
  BY DEF TokensAccounted
<1>2. tab' \in [Tabs -> TabRow]
  BY <1>1, TabsStep
<1>3. CASE \E t \in Tabs : SignOut(t)
  BY <1>1, <1>2, <1>3, SignOutCalls, SignOutStep, MovesAccounted
<1>4. CASE ~\E t \in Tabs : SignOut(t)
  <2>1. CallsKept /\ CallsOnce'
    BY <1>1, <1>4, CallsStep DEF CallsKept
  <2>2. ASSUME NEW t \in Tabs, ServeSignIn(t) PROVE TokensAccounted'
    <3>1. CASE Admits(signin[t].via, signin[t].user)
      BY <1>2, <2>1, <2>2, <3>1, SignInAccepted
    <3>2. CASE ~Admits(signin[t].via, signin[t].user)
      <4>1. signin[t] \in SignInRow
        BY <1>1, <2>2 DEF ServeSignIn, Shapes
      <4> DEFINE row == [signin[t] EXCEPT !.state = "refused"]
      <4>2. row \in SignInRow /\ row.state # "ok"
        BY <4>1 DEF SignInRow
      <4>3. /\ signin' = [signin EXCEPT ![t] = row]
            /\ UNCHANGED <<stored, refresh, issued, live, registered, waived>>
        BY <1>1, <2>2, <3>2 DEF ServeSignIn, Shapes
      <4> HIDE DEF row
      <4> QED  BY <1>2, <2>1, <4>2, <4>3, SignInStep, MovesAccounted
    <3> QED  BY <3>1, <3>2
  <2>3. ASSUME NEW t \in Tabs, ServeRefresh(t) PROVE TokensAccounted'
    BY <1>2, <2>1, <2>3, RefreshAccepted, RefreshRefused, MovesAccounted
  <2>4. ASSUME NEW t \in Tabs, HearRefresh(t) PROVE TokensAccounted'
    BY <1>2, <2>1, <2>4, HearRefreshStep, MovesAccounted
  <2>5. ASSUME NEW t \in Tabs, RefreshFails(t) PROVE TokensAccounted'
    BY <1>2, <2>1, <2>5, RefreshFailsStep, MovesAccounted
  <2>6. ASSUME NEW t \in Tabs, Load(t) PROVE TokensAccounted'
    <3>1. CASE /\ UNCHANGED <<issued, live>>
               /\ waived' = waived \cup (IF Arrived(t) THEN {refresh[t].token} ELSE {})
      BY <1>2, <2>1, <2>6, <3>1, LoadStep, MovesAccounted
    <3>2. CASE /\ refresh[t] # None /\ refresh[t].state = "sent"
               /\ Issue(issued[refresh[t].token].user, refresh[t].token, t)
               /\ waived' = waived \cup {refresh[t].token}
      BY <1>2, <2>1, <2>6, <3>2, LoadedTooEarly
    <3> QED  BY <2>6, <3>1, <3>2 DEF Load, Arrived
  <2>7. ASSUME NEW t \in Tabs, Login(t) \/ Setup(t) \/ AcceptInvite(t) PROVE TokensAccounted'
    <3>1. PICK via \in {"login", "setup", "invite"}, u \in Users : Submit(t, via, u)
      BY <1>1, <2>7 DEF Login, Setup, AcceptInvite, Shapes, Users
    <3> DEFINE row == [via |-> via, user |-> u, state |-> "sent", token |-> None]
    <3>2. row \in SignInRow /\ row.state # "ok"
      BY DEF SignInRow, MaybeNat
    <3>3. /\ signin' = [signin EXCEPT ![t] = row]
          /\ UNCHANGED <<stored, refresh, issued, live, registered, waived>>
      BY <3>1 DEF Submit
    <3> HIDE DEF row
    <3> QED  BY <1>2, <2>1, <3>2, <3>3, SignInStep, MovesAccounted
  <2>8. ASSUME NEW t \in Tabs, HearSignIn(t) \/ SignInFails(t) PROVE TokensAccounted'
    <3>1. /\ signin' = [signin EXCEPT ![t] = None]
          /\ UNCHANGED <<refresh, issued, live, registered, waived>>
          /\ stored' = stored \/ (SignedIn(t) /\ stored' = signin[t].token)
      BY <2>8 DEF HearSignIn, SignInFails, StoreTokens, SignedIn
    <3> QED  BY <1>2, <2>1, <3>1, SignInStep, MovesAccounted
  <2>9. ASSUME NEW k \in DOMAIN calls, ServeCall(k) \/ HearRefusal(k) PROVE TokensAccounted'
    BY <1>2, <2>1, <2>9, ServeCallStep, HearRefusalStep, MovesAccounted
  <2>10. CASE UNCHANGED <<stored, refresh, signin, issued, live, registered, waived>>
    BY <1>2, <2>1, <2>10, IdleStep, MovesAccounted
  <2> QED
    BY <1>4, <2>1, <2>2, <2>3, <2>4, <2>5, <2>6, <2>7, <2>8, <2>9, <2>10
    DEF SessionNext, Send, GoBack, Logout, IdleLogout, Hear, CallFails, Expire
<1> QED  BY <1>3, <1>4

\* No step at all.
LEMMA StutterAccounted ==
    ASSUME TokensAccounted, CallsOnce, UNCHANGED sessionVars
    PROVE  TokensAccounted' /\ CallsOnce'
BY DEF TokensAccounted, CallsOnce, sessionVars, Shapes, Known, AnswersAreFresh, AnswersReplace,
       RevokedAreWaived, StoredAccounted, SentAccounted, RefusedForAReason, Revoked, Reason, Fresh,
       Arrived, SignedIn, Tokens

\* What the invariant says of tokens and calls one by one.
LEMMA AccountedIsGood ==
    ASSUME TokensAccounted, CallsOnce
    PROVE  StoredTokenIsGood /\ RefusedForAReason /\ DoneAtMostOnce
<1>1. StoredTokenIsGood
  BY DEF TokensAccounted, StoredAccounted, StoredTokenIsGood, Arrived
<1>2. RefusedForAReason
  BY DEF TokensAccounted
<1>3. DoneAtMostOnce
  BY DEF CallsOnce, Once, DoneAtMostOnce
<1> QED  BY <1>1, <1>2, <1>3

\* Every refresh token is accounted for, and no call is counted twice, in every state: for
\* any tabs, however many tokens are issued and calls sent.
THEOREM TokensAreAccounted ==
    ASSUME Nothing
    PROVE  SessionSpec => [](TokensAccounted /\ CallsOnce)
<1>1. SessionInit => TokensAccounted /\ CallsOnce
  BY InitAccounted
<1>2. TokensAccounted /\ CallsOnce /\ [SessionNext]_sessionVars => (TokensAccounted /\ CallsOnce)'
  BY StepAccounted, StutterAccounted
<1> QED  BY <1>1, <1>2, PTL DEF SessionSpec

\* The refresh token the browser keeps is accepted, is being exchanged, or is one that was
\* signed out or whose successor was lost (StoredTokenIsGood), whatever the tabs do with
\* it: api-client.ts and auth-storage.ts never leave a dead one behind.
THEOREM StoredTokenStaysGood == ASSUME Nothing PROVE SessionSpec => []StoredTokenIsGood
<1>1. TokensAccounted /\ CallsOnce => StoredTokenIsGood
  BY AccountedIsGood
<1> QED  BY <1>1, TokensAreAccounted, PTL

\* A refresh is refused only for a token that was signed out, whose successor was lost, or
\* that another tab exchanged (RefusedForAReason): refreshInFlight of api-client.ts keeps
\* the calls of one tab from exchanging it twice.
THEOREM RefusalsHaveReasons == ASSUME Nothing PROVE SessionSpec => []RefusedForAReason
<1>1. TokensAccounted /\ CallsOnce => RefusedForAReason
  BY AccountedIsGood
<1> QED  BY <1>1, TokensAreAccounted, PTL

\* authedFetch of api-client.ts sends a call again after a 401 only, so the server never
\* does it twice (DoneAtMostOnce).
THEOREM CallsAreDoneOnce == ASSUME Nothing PROVE SessionSpec => []DoneAtMostOnce
<1>1. TokensAccounted /\ CallsOnce => DoneAtMostOnce
  BY AccountedIsGood
<1> QED  BY <1>1, TokensAreAccounted, PTL
=============================================================================
