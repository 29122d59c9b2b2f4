---------------------------- MODULE ClientProofs ----------------------------
(***************************************************************************)
(* Proofs about Client, for any visit of its pages and any session.        *)
(***************************************************************************)
EXTENDS ScreenProofs

OneTabProofs == INSTANCE SessionProofs WITH
    Tabs <- OneTabCase.tabs, MaxTokens <- OneTabCase.maxTokens, MaxCalls <- OneTabCase.maxCalls

TwoTabsProofs == INSTANCE SessionProofs WITH
    Tabs <- TwoTabsCase.tabs, MaxTokens <- TwoTabsCase.maxTokens,
    MaxCalls <- TwoTabsCase.maxCalls

\* The null value is no number and no row.
Nothing == OneTabProofs!Nothing

\* Nor are the places of a call that is not under way a call, or data not fetched a form,
\* a table or an amount, or null the cursor of a page.
NullsApart == Nothing /\ NoCalls /\ NoForm /\ NoTable /\ NoAmount /\ NoCursor

-----------------------------------------------------------------------------
(***************************************************************************)
(* Sessions.                                                               *)
(***************************************************************************)
\* The invariant of a session (SessionProofs).
OneTabInv == OneTabProofs!TokensAccounted /\ OneTabProofs!CallsOnce

\* They hold when the browser is opened,
LEMMA OneTabInit == ASSUME Nothing, OneTab!SessionInit PROVE OneTabInv
<1>1. OneTabProofs!SessionInit
  BY Zenon DEF OneTabProofs!SessionInit, OneTab!SessionInit, OneTabProofs!AuthGuard,
     OneTab!AuthGuard
<1> QED  BY <1>1, OneTabProofs!InitAccounted DEF Nothing, OneTabInv

\* after each step of the session,
LEMMA OneTabStep == ASSUME Nothing, OneTabInv, OneTab!SessionNext PROVE OneTabInv'
<1>1. OneTabProofs!SessionNext
  BY Zenon DEF OneTabProofs!Users, OneTab!Users, OneTabProofs!Tokens, OneTab!Tokens,
     OneTabProofs!Newest, OneTab!Newest, OneTabProofs!Sent, OneTab!Sent, OneTabProofs!Finished,
     OneTab!Finished, OneTabProofs!AuthGuard, OneTab!AuthGuard, OneTabProofs!Issue,
     OneTab!Issue, OneTabProofs!Admits, OneTab!Admits, OneTabProofs!ServeSignIn,
     OneTab!ServeSignIn, OneTabProofs!ServeRefresh, OneTab!ServeRefresh, OneTabProofs!ServeCall,
     OneTab!ServeCall, OneTabProofs!Expire, OneTab!Expire, OneTabProofs!StoreTokens,
     OneTab!StoreTokens, OneTabProofs!ClearAuth, OneTab!ClearAuth, OneTabProofs!InShell,
     OneTab!InShell, OneTabProofs!Send, OneTab!Send, OneTabProofs!TryRefresh, OneTab!TryRefresh,
     OneTabProofs!HearRefusal, OneTab!HearRefusal, OneTabProofs!Hear, OneTab!Hear,
     OneTabProofs!AfterError, OneTab!AfterError, OneTabProofs!CallFails, OneTab!CallFails,
     OneTabProofs!Waiting, OneTab!Waiting, OneTabProofs!Resumed, OneTab!Resumed,
     OneTabProofs!HearRefresh, OneTab!HearRefresh, OneTabProofs!AfterBoot, OneTab!AfterBoot,
     OneTabProofs!RefreshFails, OneTab!RefreshFails, OneTabProofs!Load, OneTab!Load,
     OneTabProofs!GoBack, OneTab!GoBack, OneTabProofs!Submit, OneTab!Submit, OneTabProofs!Login,
     OneTab!Login, OneTabProofs!Setup, OneTab!Setup, OneTabProofs!AcceptInvite,
     OneTab!AcceptInvite, OneTabProofs!HearSignIn, OneTab!HearSignIn, OneTabProofs!SignInFails,
     OneTab!SignInFails, OneTabProofs!SignOut, OneTab!SignOut, OneTabProofs!Logout,
     OneTab!Logout, OneTabProofs!IdleLogout, OneTab!IdleLogout, OneTabProofs!SessionNext,
     OneTab!SessionNext
<1> QED  BY <1>1, OneTabProofs!StepAccounted DEF Nothing, OneTabInv

\* and while a page is looked at.
LEMMA OneTabStutter == ASSUME OneTabInv, UNCHANGED sessionVars PROVE OneTabInv'
BY OneTabProofs!StutterAccounted DEF OneTabInv, OneTabProofs!sessionVars, sessionVars

\* What it says of one tab.
LEMMA OneTabGood ==
    ASSUME OneTabInv
    PROVE  OneTab!StoredTokenIsGood /\ OneTab!RefusedForAReason /\ OneTab!DoneAtMostOnce
<1>1. OneTabProofs!StoredTokenIsGood /\ OneTabProofs!RefusedForAReason /\ OneTabProofs!DoneAtMostOnce
  BY OneTabProofs!AccountedIsGood DEF OneTabInv
<1> QED
  BY Zenon, <1>1 DEF OneTab!StoredTokenIsGood, OneTabProofs!StoredTokenIsGood,
     OneTab!RefusedForAReason,
     OneTabProofs!RefusedForAReason, OneTab!DoneAtMostOnce, OneTabProofs!DoneAtMostOnce,
     OneTab!Tokens, OneTabProofs!Tokens

TwoTabsInv == TwoTabsProofs!TokensAccounted /\ TwoTabsProofs!CallsOnce

\* The null value is the same for both.
LEMMA NothingEither == ASSUME Nothing PROVE TwoTabsProofs!Nothing
BY Zenon DEF Nothing, OneTabProofs!Nothing, TwoTabsProofs!Nothing, OneTabProofs!RefreshRow,
   TwoTabsProofs!RefreshRow,
   OneTabProofs!SignInRow, TwoTabsProofs!SignInRow, OneTabProofs!MaybeNat, TwoTabsProofs!MaybeNat,
   OneTabProofs!Users, TwoTabsProofs!Users

\* Two tabs: when the browser is opened,
LEMMA TwoTabsInit == ASSUME Nothing, TwoTabs!SessionInit PROVE TwoTabsInv
<1>1. TwoTabsProofs!SessionInit
  BY Zenon DEF TwoTabsProofs!SessionInit, TwoTabs!SessionInit, TwoTabsProofs!AuthGuard,
     TwoTabs!AuthGuard
<1> QED  BY <1>1, NothingEither, TwoTabsProofs!InitAccounted DEF TwoTabsInv

\* after each step of the session,
LEMMA TwoTabsStep == ASSUME Nothing, TwoTabsInv, TwoTabs!SessionNext PROVE TwoTabsInv'
<1>1. TwoTabsProofs!SessionNext
  BY Zenon DEF TwoTabsProofs!Users, TwoTabs!Users, TwoTabsProofs!Tokens, TwoTabs!Tokens,
     TwoTabsProofs!Newest, TwoTabs!Newest, TwoTabsProofs!Sent, TwoTabs!Sent,
     TwoTabsProofs!Finished, TwoTabs!Finished, TwoTabsProofs!AuthGuard, TwoTabs!AuthGuard,
     TwoTabsProofs!Issue, TwoTabs!Issue, TwoTabsProofs!Admits, TwoTabs!Admits,
     TwoTabsProofs!ServeSignIn, TwoTabs!ServeSignIn, TwoTabsProofs!ServeRefresh,
     TwoTabs!ServeRefresh, TwoTabsProofs!ServeCall, TwoTabs!ServeCall, TwoTabsProofs!Expire,
     TwoTabs!Expire, TwoTabsProofs!StoreTokens, TwoTabs!StoreTokens, TwoTabsProofs!ClearAuth,
     TwoTabs!ClearAuth, TwoTabsProofs!InShell, TwoTabs!InShell, TwoTabsProofs!Send,
     TwoTabs!Send, TwoTabsProofs!TryRefresh, TwoTabs!TryRefresh, TwoTabsProofs!HearRefusal,
     TwoTabs!HearRefusal, TwoTabsProofs!Hear, TwoTabs!Hear, TwoTabsProofs!AfterError,
     TwoTabs!AfterError, TwoTabsProofs!CallFails, TwoTabs!CallFails, TwoTabsProofs!Waiting,
     TwoTabs!Waiting, TwoTabsProofs!Resumed, TwoTabs!Resumed, TwoTabsProofs!HearRefresh,
     TwoTabs!HearRefresh, TwoTabsProofs!AfterBoot, TwoTabs!AfterBoot,
     TwoTabsProofs!RefreshFails, TwoTabs!RefreshFails, TwoTabsProofs!Load, TwoTabs!Load,
     TwoTabsProofs!GoBack, TwoTabs!GoBack, TwoTabsProofs!Submit, TwoTabs!Submit,
     TwoTabsProofs!Login, TwoTabs!Login, TwoTabsProofs!Setup, TwoTabs!Setup,
     TwoTabsProofs!AcceptInvite, TwoTabs!AcceptInvite, TwoTabsProofs!HearSignIn,
     TwoTabs!HearSignIn, TwoTabsProofs!SignInFails, TwoTabs!SignInFails, TwoTabsProofs!SignOut,
     TwoTabs!SignOut, TwoTabsProofs!Logout, TwoTabs!Logout, TwoTabsProofs!IdleLogout,
     TwoTabs!IdleLogout, TwoTabsProofs!SessionNext, TwoTabs!SessionNext
<1> QED  BY <1>1, NothingEither, TwoTabsProofs!StepAccounted DEF TwoTabsInv

\* and while a page is looked at.
LEMMA TwoTabsStutter == ASSUME TwoTabsInv, UNCHANGED sessionVars PROVE TwoTabsInv'
BY TwoTabsProofs!StutterAccounted DEF TwoTabsInv, TwoTabsProofs!sessionVars, sessionVars

\* What it says of two.
LEMMA TwoTabsGood ==
    ASSUME TwoTabsInv
    PROVE  TwoTabs!StoredTokenIsGood /\ TwoTabs!RefusedForAReason /\ TwoTabs!DoneAtMostOnce
<1>1. TwoTabsProofs!StoredTokenIsGood /\ TwoTabsProofs!RefusedForAReason /\ TwoTabsProofs!DoneAtMostOnce
  BY TwoTabsProofs!AccountedIsGood DEF TwoTabsInv
<1> QED
  BY Zenon, <1>1 DEF TwoTabs!StoredTokenIsGood, TwoTabsProofs!StoredTokenIsGood,
     TwoTabs!RefusedForAReason,
     TwoTabsProofs!RefusedForAReason, TwoTabs!DoneAtMostOnce, TwoTabsProofs!DoneAtMostOnce,
     TwoTabs!Tokens, TwoTabsProofs!Tokens

-----------------------------------------------------------------------------
(***************************************************************************)
(* The calendar.                                                           *)
(***************************************************************************)
\* The leap years among the first q of the calendar, one more for each.
LeapsBefore(y) == Dates!Cardinality({x \in PeriodCase.firstYear..(y - 1) : Dates!IsLeap(x)})

Leaps(q) == LeapsBefore(PeriodCase.firstYear + q)

LEMMA LeapsCounted ==
    /\ Leaps(0) = 0
    /\ \A q \in Nat : /\ Leaps(q) \in Nat
                      /\ Leaps(q + 1) = Leaps(q) + (IF Dates!IsLeap(PeriodCase.firstYear + q) THEN 1 ELSE 0)
<1>1. PICK first \in Nat : first = PeriodCase.firstYear
  BY CalendarAssumption
<1> DEFINE upTo(q) == {x \in first..(first + q - 1) : Dates!IsLeap(x)}
<1>2. \A S : Dates!Cardinality(S) = Cardinality(S)
  BY DEF Dates!Cardinality, Cardinality
<1>3. \A q \in Nat : Leaps(q) = Cardinality(upTo(q))
  BY <1>1, <1>2 DEF Leaps, LeapsBefore
<1>4. \A q \in Nat : IsFiniteSet(upTo(q))
  <2>1. ASSUME NEW q \in Nat PROVE IsFiniteSet(upTo(q))
    <3>1. IsFiniteSet(first..(first + q - 1))
      BY <1>1, <2>1, FS_Interval
    <3>2. upTo(q) \subseteq first..(first + q - 1)
      OBVIOUS
    <3> HIDE DEF upTo
    <3> QED  BY <3>1, <3>2, FS_Subset
  <2> QED  BY <2>1
<1>5. ASSUME NEW q \in Nat
      PROVE  /\ Leaps(q) \in Nat
             /\ Leaps(q + 1) = Leaps(q) + (IF Dates!IsLeap(first + q) THEN 1 ELSE 0)
  <2>1. Leaps(q) \in Nat
    BY <1>3, <1>4, <1>5, FS_CardinalityType
  <2>2. CASE Dates!IsLeap(first + q)
    <3>1. upTo(q + 1) = upTo(q) \cup {first + q} /\ first + q \notin upTo(q)
      BY <1>1, <1>5, <2>2
    <3>2. Cardinality(upTo(q) \cup {first + q}) = Cardinality(upTo(q)) + 1
      BY <1>4, <1>5, <3>1, FS_AddElement
    <3>3. q + 1 \in Nat /\ Cardinality(upTo(q)) \in Nat
      BY <1>3, <1>5, <2>1
    <3> HIDE DEF upTo
    <3> QED  BY <1>3, <1>5, <2>2, <3>1, <3>2, <3>3
  <2>3. CASE ~Dates!IsLeap(first + q)
    <3>1. upTo(q + 1) = upTo(q)
      BY <1>1, <1>5, <2>3
    <3>2. q + 1 \in Nat
      BY <1>5
    <3> HIDE DEF upTo
    <3> QED  BY <1>3, <1>5, <2>1, <2>3, <3>1, <3>2
  <2> QED  BY <2>1, <2>2, <2>3
<1>6. Leaps(0) = 0
  <2>1. upTo(0) = {}
    BY <1>1
  <2> QED  BY <1>3, <2>1, FS_EmptySet
<1> QED  BY <1>1, <1>5, <1>6

\* Where the month r of the year q begins.
LEMMA FirstDayOf ==
    ASSUME NEW q \in Nat, NEW r \in 0..11
    PROVE  Dates!FirstDay(12 * q + r) =
               365 * q + Leaps(q) + Dates!BeforeMonth[r + 1]
                 + (IF r > 1 /\ Dates!IsLeap(PeriodCase.firstYear + q) THEN 1 ELSE 0)
<1>1. (12 * q + r) \div 12 = q /\ (12 * q + r) % 12 = r
  OBVIOUS
<1>2. \A m : Dates!FirstDay(m) =
           365 * (m \div 12) + Leaps(m \div 12) + Dates!BeforeMonth[(m % 12) + 1]
             + (IF m % 12 > 1 /\ Dates!IsLeap(PeriodCase.firstYear + m \div 12) THEN 1 ELSE 0)
  <2>1. ASSUME NEW m
        PROVE  Dates!FirstDay(m) =
           365 * (m \div 12) + Leaps(m \div 12) + Dates!BeforeMonth[(m % 12) + 1]
             + (IF m % 12 > 1 /\ Dates!IsLeap(PeriodCase.firstYear + m \div 12) THEN 1 ELSE 0)
    <3>1. PICK y : y = PeriodCase.firstYear + m \div 12
      OBVIOUS
    <3>2. Dates!FirstDay(m) = 365 * (m \div 12) + LeapsBefore(y) + Dates!BeforeMonth[(m % 12) + 1]
             + (IF m % 12 > 1 /\ Dates!IsLeap(y) THEN 1 ELSE 0)
      BY <3>1 DEF Dates!FirstDay, LeapsBefore
    <3> QED  BY <3>1, <3>2 DEF Leaps
  <2> QED  BY <2>1
<1> QED  BY <1>1, <1>2

\* A month has 28 days or more, up to 31, and December has 31.
LEMMA MonthLength ==
    ASSUME NEW m \in Nat
    PROVE  /\ Dates!FirstDay(m) \in Nat
           /\ Dates!FirstDay(m + 1) - Dates!FirstDay(m) \in 28..31
           /\ m % 12 = 11 => Dates!FirstDay(m + 1) = Dates!FirstDay(m) + 31
<1>1. PICK q \in Nat, r \in 0..11 : m = 12 * q + r /\ r = m % 12
  <2>1. m \div 12 \in Nat /\ m % 12 \in 0..11 /\ m = 12 * (m \div 12) + (m % 12)
    OBVIOUS
  <2> QED  BY <2>1
<1>2. PICK l \in Nat : l = Leaps(q)
  BY LeapsCounted
<1>3. PICK leap \in {0, 1} : leap = IF Dates!IsLeap(PeriodCase.firstYear + q) THEN 1 ELSE 0
  OBVIOUS
<1>4. PICK b : b = Dates!BeforeMonth
  OBVIOUS
<1>5. b = <<0, 31, 59, 90, 120, 151, 181, 212, 243, 273, 304, 334>>
  BY <1>4 DEF Dates!BeforeMonth
<1>6. Dates!FirstDay(m) = 365 * q + l + b[r + 1] + (IF r > 1 THEN leap ELSE 0)
  <2>1. Dates!FirstDay(12 * q + r) = 365 * q + Leaps(q) + Dates!BeforeMonth[r + 1]
             + (IF r > 1 /\ Dates!IsLeap(PeriodCase.firstYear + q) THEN 1 ELSE 0)
    BY Zenon, <1>1, FirstDayOf
  <2> QED  BY <1>1, <1>2, <1>3, <1>4, <2>1
<1>7. CASE r = 11
  <2>1. Dates!FirstDay(12 * (q + 1) + 0) = 365 * (q + 1) + Leaps(q + 1) + b[1]
    <3>1. q + 1 \in Nat /\ 0 \in 0..11
      OBVIOUS
    <3>2. Dates!FirstDay(12 * (q + 1) + 0) = 365 * (q + 1) + Leaps(q + 1) + Dates!BeforeMonth[0 + 1]
             + (IF 0 > 1 /\ Dates!IsLeap(PeriodCase.firstYear + (q + 1)) THEN 1 ELSE 0)
      BY <3>1, FirstDayOf
    <3>3. Leaps(q + 1) \in Nat /\ b[0 + 1] = 0
      BY <1>5, <3>1, LeapsCounted
    <3> QED  BY <1>4, <1>5, <3>2, <3>3
  <2>2. Leaps(q + 1) = l + leap
    BY <1>2, <1>3, LeapsCounted
  <2>3. m + 1 = 12 * (q + 1) + 0
    BY <1>1, <1>7
  <2>4. Dates!FirstDay(m + 1) = 365 * (q + 1) + l + leap
    BY <1>5, <2>1, <2>2, <2>3
  <2>5. Dates!FirstDay(m) = 365 * q + l + 334 + leap
    BY <1>5, <1>6, <1>7
  <2> QED  BY <1>1, <1>7, <2>4, <2>5
<1>8. CASE r < 11
  <2>1. r + 1 \in 0..11 /\ m + 1 = 12 * q + (r + 1)
    BY <1>1, <1>8
  <2>2. Dates!FirstDay(m + 1) = 365 * q + l + b[r + 2] + (IF r + 1 > 1 THEN leap ELSE 0)
    <3>1. Dates!FirstDay(12 * q + (r + 1)) = 365 * q + Leaps(q) + Dates!BeforeMonth[(r + 1) + 1]
             + (IF r + 1 > 1 /\ Dates!IsLeap(PeriodCase.firstYear + q) THEN 1 ELSE 0)
      BY Zenon, <2>1, FirstDayOf
    <3>2. (r + 1) + 1 = r + 2
      OBVIOUS
    <3> QED  BY <1>2, <1>3, <1>4, <2>1, <3>1, <3>2
  <2>3. b[r + 1] \in Nat /\ b[r + 2] \in Nat
        /\ b[r + 2] - b[r + 1] \in 28..31 /\ (r = 1 => b[r + 2] - b[r + 1] = 28)
        /\ (r # 1 => b[r + 2] - b[r + 1] \in 30..31)
    BY <1>5, <1>8
  <2> QED  BY <1>1, <1>6, <1>8, <2>2, <2>3
<1> QED  BY <1>7, <1>8

\* So later months begin later,
LEMMA MonthsInOrder ==
    ASSUME NEW a \in Nat, NEW b \in Nat, a < b
    PROVE  Dates!FirstDay(a) < Dates!FirstDay(b)
<1> DEFINE late == {x \in Nat : a < x /\ Dates!FirstDay(x) <= Dates!FirstDay(a)}
<1>1. SUFFICES ASSUME late # {} PROVE FALSE
  BY MonthLength
<1>2. PICK x \in late : \A y \in late : x <= y
  <2>1. late \subseteq Nat
    OBVIOUS
  <2> HIDE DEF late
  <2> QED  BY <1>1, <2>1, LeastIsIn
<1>3. x - 1 \in Nat /\ (x - 1) + 1 = x
  BY <1>2
<1>4. /\ Dates!FirstDay(a) \in Nat /\ Dates!FirstDay(x) \in Nat /\ Dates!FirstDay(x - 1) \in Nat
      /\ Dates!FirstDay(x) - Dates!FirstDay(x - 1) \in 28..31
  BY <1>2, <1>3, MonthLength
<1>5. x - 1 \notin late
  BY <1>2
<1> QED  BY <1>2, <1>3, <1>4, <1>5

\* and each day of the calendar is in one month.
LEMMA MonthOfDay ==
    ASSUME NEW n \in Dates!Days
    PROVE  /\ n \in Nat
           /\ Dates!MonthNumber(n) \in 0..(Dates!LastMonth - 1)
           /\ Dates!FirstDay(Dates!MonthNumber(n)) <= n /\ n < Dates!FirstDay(Dates!MonthNumber(n) + 1)
<1>1. Dates!LastMonth \in Nat /\ Dates!LastMonth > 0
  BY CalendarAssumption DEF Dates!LastMonth
<1>2. n \in Nat /\ n < Dates!FirstDay(Dates!LastMonth)
  BY <1>1, MonthLength DEF Dates!Days
<1> DEFINE after == {m \in Nat : n < Dates!FirstDay(m + 1)}
<1>3. Dates!LastMonth - 1 \in after
  BY <1>1, <1>2
<1>4. PICK m \in after : \A y \in after : m <= y
  <2>1. after \subseteq Nat
    OBVIOUS
  <2> HIDE DEF after
  <2> QED  BY <1>3, <2>1, LeastIsIn
<1>5. m \in 0..(Dates!LastMonth - 1)
  BY <1>1, <1>3, <1>4
<1>6. Dates!FirstDay(m) <= n
  <2>1. CASE m = 0
    <3>1. Dates!FirstDay(12 * 0 + 0) = 0
      BY FirstDayOf, LeapsCounted DEF Dates!BeforeMonth
    <3> QED  BY <1>2, <2>1, <3>1
  <2>2. CASE m > 0
    <3>1. m - 1 \in Nat /\ m - 1 \notin after /\ (m - 1) + 1 = m
      BY <1>4, <2>2
    <3> QED  BY <1>2, <3>1, MonthLength
  <2> QED  BY <1>4, <2>1, <2>2
<1>7. \E k \in 0..(Dates!LastMonth - 1) : Dates!FirstDay(k) <= n /\ n < Dates!FirstDay(k + 1)
  BY <1>4, <1>5, <1>6
<1> HIDE DEF after
<1> QED  BY <1>2, <1>7 DEF Dates!MonthNumber

\* The days of some months, from the first of one to the day before the first of another.
LEMMA DaysOfMonths ==
    ASSUME NEW n \in Dates!Days, NEW a \in Nat, NEW b \in Nat
    PROVE  (Dates!FirstDay(a) <= n /\ n <= Dates!FirstDay(b) - 1)
              <=> (a <= Dates!MonthNumber(n) /\ Dates!MonthNumber(n) < b)
<1>1. PICK m \in Nat : /\ m = Dates!MonthNumber(n) /\ n \in Nat
                       /\ Dates!FirstDay(m) <= n /\ n < Dates!FirstDay(m + 1)
  BY MonthOfDay
<1>2. /\ Dates!FirstDay(a) \in Nat /\ Dates!FirstDay(b) \in Nat
      /\ Dates!FirstDay(m) \in Nat /\ Dates!FirstDay(m + 1) \in Nat
  BY MonthLength
<1>3. (a <= m => Dates!FirstDay(a) <= Dates!FirstDay(m)) /\ (m < a => Dates!FirstDay(m + 1) <= Dates!FirstDay(a))
  BY <1>2, MonthsInOrder
<1>4. (m < b => Dates!FirstDay(m + 1) <= Dates!FirstDay(b)) /\ (b <= m => Dates!FirstDay(b) <= Dates!FirstDay(m))
  BY <1>2, MonthsInOrder
<1> QED  BY <1>1, <1>2, <1>3, <1>4

(***************************************************************************)
(* The selection of a period, and the days it resolves to.                 *)
(***************************************************************************)
\* Only a picker that sets them has the fields of a selection set, the days of a range in
\* their order.
IsSelection(sel) ==
    /\ sel = [mode |-> sel.mode, weekOf |-> sel.weekOf, year |-> sel.year, month |-> sel.month,
              quarter |-> sel.quarter, from |-> sel.from, to |-> sel.to]
    /\ sel.mode \in Dates!Modes
    /\ sel.weekOf \in Dates!Days \cup {None}
    /\ sel.year \in Dates!Years \cup {None} /\ (sel.year # None => sel.mode \in {"month", "quarter", "year"})
    /\ sel.month \in (1..12) \cup {None} /\ (sel.month # None => sel.mode = "month")
    /\ sel.quarter \in (1..4) \cup {None}
    /\ sel.from \in Int \cup {None} /\ sel.to \in Int \cup {None}
    /\ sel.mode = "custom" => sel.from \in Int /\ sel.to \in Int /\ sel.from <= sel.to

IsPicker(u) ==
    /\ u = [selection |-> u.selection, open |-> u.open, mode |-> u.mode, view |-> u.view, range |-> u.range]
    /\ IsSelection(u.selection)
    /\ u.range = [from |-> u.range.from, to |-> u.range.to]
    /\ u.range.from \in Int \cup {None} /\ u.range.to \in Int \cup {None}
    /\ u.open => /\ u.mode = "week" => u.view \in 0..(Dates!LastMonth - 1)
                 /\ u.mode \in {"month", "quarter"} => u.view \in Dates!Years
                 /\ u.mode = "year" => u.view \in Int

PickerInv == db.now \in Dates!Days /\ IsPicker(ui)

\* Days and years of the calendar are numbers, and a day's month and year are of it.
LEMMA CalendarRows ==
    /\ Dates!Days \subseteq Nat /\ Dates!Years \subseteq Nat
    /\ Dates!LastMonth \in Nat /\ Dates!LastMonth > 0
    /\ \A y \in Dates!Years : /\ y - PeriodCase.firstYear \in Nat
                              /\ 12 * (y - PeriodCase.firstYear) + 12 <= Dates!LastMonth
    /\ \A n \in Dates!Days : /\ Dates!MonthNumber(n) \in 0..(Dates!LastMonth - 1)
                             /\ Dates!FullYear(n) \in Dates!Years /\ Dates!Month(n) \in 0..11
                             /\ Dates!MonthNumber(n) = 12 * (Dates!FullYear(n) - PeriodCase.firstYear) + Dates!Month(n)
<1>1. PICK f \in Nat, l \in Nat : f = PeriodCase.firstYear /\ l = PeriodCase.lastYear /\ f <= l
  BY CalendarAssumption
<1>2. Dates!LastMonth = 12 * (l - f + 1) /\ Dates!Years = f..l
  BY <1>1 DEF Dates!LastMonth, Dates!Years
<1>3. ASSUME NEW n \in Dates!Days
      PROVE  /\ n \in Nat /\ Dates!MonthNumber(n) \in 0..(Dates!LastMonth - 1)
             /\ Dates!FullYear(n) \in Dates!Years /\ Dates!Month(n) \in 0..11
             /\ Dates!MonthNumber(n) = 12 * (Dates!FullYear(n) - f) + Dates!Month(n)
  <2>1. PICK m \in 0..(12 * (l - f + 1) - 1) : m = Dates!MonthNumber(n) /\ n \in Nat
    BY <1>2, <1>3, MonthOfDay
  <2>2. Dates!FullYear(n) = f + m \div 12 /\ Dates!Month(n) = m % 12
    BY <1>1, <2>1 DEF Dates!FullYear, Dates!Month
  <2>3. PICK a \in 0..(l - f), b \in 0..11 : a = m \div 12 /\ b = m % 12 /\ m = 12 * a + b
    <3>1. m \in Nat /\ m \div 12 \in 0..(l - f) /\ m % 12 \in 0..11 /\ m = 12 * (m \div 12) + (m % 12)
      BY <1>1, <2>1
    <3> QED  BY <3>1
  <2>4. Dates!FullYear(n) = f + a /\ Dates!Month(n) = b
    BY <2>2, <2>3
  <2>5. f + a \in f..l /\ (f + a) - f = a
    BY <1>1, <2>3
  <2> QED  BY <1>2, <2>1, <2>3, <2>4, <2>5
<1>4. Dates!LastMonth \in Nat /\ Dates!LastMonth > 0
  BY <1>1, <1>2
<1>5. \A y \in f..l : y - f \in Nat /\ 12 * (y - f) + 12 <= 12 * (l - f + 1)
  BY <1>1
<1>6. Dates!Days \subseteq Nat /\ Dates!Years \subseteq Nat
  BY <1>1, <1>2, <1>3
<1> QED  BY <1>1, <1>2, <1>3, <1>4, <1>5, <1>6

\* The Monday a week begins with.
LEMMA MondayOf ==
    ASSUME NEW n \in Int
    PROVE  /\ Dates!ToMonday(n) \in Int /\ Dates!ToMonday(n) <= n /\ n <= Dates!ToMonday(n) + 6
           /\ Dates!ToMonday(n) % 7 = 1
           /\ \A i \in Int : Dates!ToMonday(Dates!ToMonday(n) + 7 * i) = Dates!ToMonday(n) + 7 * i
<1>1. PICK w \in 0..6 : w = n % 7
  OBVIOUS
<1>2. Dates!ToMonday(n) = n + (IF w = 0 THEN -6 ELSE 1 - w)
  BY <1>1 DEF Dates!ToMonday, Dates!WeekDay
<1>3. PICK k \in Int : k = Dates!ToMonday(n)
  BY <1>2
<1>4. k % 7 = 1
  BY <1>1, <1>2, <1>3
<1>5. ASSUME NEW i \in Int PROVE Dates!ToMonday(k + 7 * i) = k + 7 * i
  <2>1. (k + 7 * i) % 7 = 1
    BY <1>4
  <2> QED  BY <2>1 DEF Dates!ToMonday, Dates!WeekDay
<1> QED  BY <1>1, <1>2, <1>3, <1>4, <1>5

\* The days of a week are those from its Monday on.
LEMMA DaysOfWeek ==
    ASSUME NEW k \in Int, k % 7 = 1, k >= -6, NEW d \in Nat, NEW s \in Nat, s = IF k < 0 THEN 0 ELSE k
    PROVE  (k <= d /\ d <= k + 6) <=> (d + 6) \div 7 = (s + 6) \div 7
<1>1. CASE k < 0
  <2>1. k = -6 /\ s = 0
    BY <1>1
  <2> QED  BY <2>1
<1>2. CASE k >= 0
  <2>1. PICK j \in Nat : k = 7 * j + 1
    BY <1>2
  <2> QED  BY <1>2, <2>1
<1> QED  BY <1>1, <1>2

\* What a selection resolves to: the days from one month on, to those before another.
LEMMA MonthsPeriod ==
    ASSUME IsSelection(ui.selection), db.now \in Dates!Days, NEW sel, sel = ui.selection,
           sel.mode \in {"month", "quarter", "year"}, None \notin Int
    PROVE  \E y \in Dates!Years, a \in Nat, b \in Nat :
              /\ y = (IF sel.year = None THEN Dates!FullYear(db.now) ELSE sel.year)
              /\ a < b /\ b <= Dates!LastMonth
              /\ Dates!ResolvePeriod(sel) = [start |-> Dates!FirstDay(a), end |-> Dates!FirstDay(b) - 1]
              /\ sel.mode = "month" =>
                    /\ b = a + 1
                    /\ a = 12 * (y - PeriodCase.firstYear)
                             + (IF sel.month = None THEN Dates!Month(db.now) ELSE sel.month - 1)
              /\ sel.mode = "quarter" => b = a + 3 /\ a % 3 = 0
              /\ sel.mode = "year" => b = a + 12 /\ a % 12 = 0
              /\ a - 12 * (y - PeriodCase.firstYear) \in 0..11
<1>1. PICK y \in Dates!Years : y = Dates!Or(sel.year, Dates!FullYear(db.now))
  BY CalendarRows DEF IsSelection, Dates!Or
<1>2. PICK q \in Nat : q = y - PeriodCase.firstYear /\ 12 * q + 12 <= Dates!LastMonth /\ Dates!LastMonth \in Nat
  BY CalendarRows
<1>3. PICK n \in 0..11 : n = Dates!Month(db.now)
  BY CalendarRows
<1>4. y = IF sel.year = None THEN Dates!FullYear(db.now) ELSE sel.year
  BY <1>1 DEF Dates!Or
<1>5. \A m \in Int : \A d \in Int : Dates!Date(y, m, d) = Dates!FirstDay(12 * q + m) + d - 1
  BY <1>2 DEF Dates!Date
<1>6. \A a \in Nat : Dates!FirstDay(a) \in Nat
  BY MonthLength
<1>7. CASE sel.mode = "month"
  <2>1. PICK m \in 1..12 : m = Dates!Or(sel.month, n + 1)
    BY DEF IsSelection, Dates!Or
  <2>2. m = IF sel.month = None THEN n + 1 ELSE sel.month
    BY <2>1 DEF Dates!Or
  <2>3. Dates!ResolvePeriod(sel) = [start |-> Dates!Date(y, m - 1, 1), end |-> Dates!Date(y, m, 0)]
    BY <1>1, <1>3, <1>7, <2>1 DEF Dates!ResolvePeriod, Dates!MonthPeriod, Dates!LastDayOfMonth
  <2>4. PICK a \in Nat : a = 12 * q + (m - 1) /\ a + 1 = 12 * q + m
    OBVIOUS
  <2>5. Dates!Date(y, m - 1, 1) = Dates!FirstDay(a) /\ Dates!Date(y, m, 0) = Dates!FirstDay(a + 1) - 1
    <3>1. /\ Dates!Date(y, m - 1, 1) = Dates!FirstDay(12 * q + (m - 1)) + 1 - 1
          /\ Dates!Date(y, m, 0) = Dates!FirstDay(12 * q + m) + 0 - 1
      <4>1. m - 1 \in Int /\ m \in Int /\ 1 \in Int /\ 0 \in Int
        BY <2>1
      <4> QED  BY Zenon, <1>5, <4>1
    <3> QED  BY <1>6, <2>4, <3>1
  <2>6. a + 1 \in Nat /\ a < a + 1 /\ a + 1 <= Dates!LastMonth /\ a - 12 * q \in 0..11
        /\ a = 12 * q + (IF sel.month = None THEN n ELSE sel.month - 1)
    <3>1. a + 1 \in Nat /\ a < a + 1 /\ a + 1 <= 12 * q + 12 /\ a - 12 * q \in 0..11 /\ a = 12 * q + (m - 1)
      BY <2>1, <2>4
    <3>2. m - 1 = IF sel.month = None THEN n ELSE sel.month - 1
      BY <1>3, <2>1, <2>2
    <3> QED  BY <1>2, <3>1, <3>2
  <2> QED  BY <1>2, <1>3, <1>4, <1>7, <2>3, <2>5, <2>6
<1>8. CASE sel.mode = "quarter"
  <2>1. PICK p \in 1..4 : p = Dates!Or(sel.quarter, (n + 3) \div 3)
    BY DEF IsSelection, Dates!Or
  <2>2. Dates!ResolvePeriod(sel) = [start |-> Dates!Date(y, (p - 1) * 3, 1), end |-> Dates!Date(y, (p - 1) * 3 + 3, 0)]
    BY <1>1, <1>3, <1>8, <2>1 DEF Dates!ResolvePeriod, Dates!QuarterPeriod, Dates!LastDayOfMonth
  <2>3. PICK a \in Nat : a = 12 * q + (p - 1) * 3 /\ a + 3 = 12 * q + ((p - 1) * 3 + 3)
    OBVIOUS
  <2>4. Dates!Date(y, (p - 1) * 3, 1) = Dates!FirstDay(a) /\ Dates!Date(y, (p - 1) * 3 + 3, 0) = Dates!FirstDay(a + 3) - 1
    <3>1. /\ Dates!Date(y, (p - 1) * 3, 1) = Dates!FirstDay(12 * q + (p - 1) * 3) + 1 - 1
          /\ Dates!Date(y, (p - 1) * 3 + 3, 0) = Dates!FirstDay(12 * q + ((p - 1) * 3 + 3)) + 0 - 1
      <4>1. (p - 1) * 3 \in Int /\ (p - 1) * 3 + 3 \in Int /\ 1 \in Int /\ 0 \in Int
        BY <2>1
      <4> QED  BY Zenon, <1>5, <4>1
    <3>2. a + 3 \in Nat /\ Dates!FirstDay(a) \in Nat /\ Dates!FirstDay(a + 3) \in Nat
      <4>1. a + 3 \in Nat
        BY <2>3
      <4> QED  BY <1>6, <2>3, <4>1
    <3>3. \A x \in Nat : x + 1 - 1 = x /\ x + 0 - 1 = x - 1
      OBVIOUS
    <3> QED  BY <2>3, <3>1, <3>2, <3>3
  <2>5. a + 3 \in Nat /\ a < a + 3 /\ a + 3 <= Dates!LastMonth /\ a - 12 * q \in 0..11 /\ a % 3 = 0
    <3>1. a \in 12 * q..12 * q + 9
      BY <2>3
    <3>2. a = 3 * (4 * q + (p - 1))
      BY <2>3
    <3> QED  BY <1>2, <3>1, <3>2
  <2> QED  BY <1>2, <1>4, <1>8, <2>2, <2>4, <2>5
<1>9. CASE sel.mode = "year"
  <2>1. Dates!ResolvePeriod(sel) = [start |-> Dates!Date(y, 0, 1), end |-> Dates!Date(y, 11, 31)]
    BY <1>1, <1>9 DEF Dates!ResolvePeriod, Dates!YearPeriod
  <2>2. PICK a \in Nat : a = 12 * q /\ a + 11 \in Nat /\ (a + 11) % 12 = 11
    OBVIOUS
  <2>3. Dates!FirstDay((a + 11) + 1) = Dates!FirstDay(a + 11) + 31
    BY <2>2, MonthLength
  <2>4. Dates!Date(y, 0, 1) = Dates!FirstDay(a) /\ Dates!Date(y, 11, 31) = Dates!FirstDay(a + 12) - 1
    <3>1. Dates!Date(y, 0, 1) = Dates!FirstDay(12 * q + 0) + 1 - 1 /\ 12 * q + 0 = a
      BY <1>5, <2>2
    <3>2. Dates!Date(y, 11, 31) = Dates!FirstDay(12 * q + 11) + 31 - 1 /\ 12 * q + 11 = a + 11 /\ (a + 11) + 1 = a + 12
      BY <1>5, <2>2
    <3> QED  BY <1>6, <2>2, <2>3, <3>1, <3>2
  <2>5. a + 12 \in Nat /\ a < a + 12 /\ a + 12 <= Dates!LastMonth /\ a - 12 * q \in 0..11 /\ a % 12 = 0
    BY <1>2, <2>2, CalendarRows
  <2> QED  BY <1>2, <1>4, <1>9, <2>1, <2>4, <2>5
<1> QED  BY <1>7, <1>8, <1>9

\* The period as it is opened, and after each step in the popover.
LEMMA PickerInit == ASSUME Dates!PeriodInit PROVE PickerInv
<1>1. db.now \in Dates!Days
  BY CalendarAssumption DEF Dates!PeriodInit
<1>2. PICK sel : sel = Dates!DefaultPeriod
  OBVIOUS
<1>3. IsSelection(sel)
  BY <1>2 DEF IsSelection, Dates!DefaultPeriod, Dates!NoFields, Dates!Modes
<1>4. ui = [selection |-> sel, open |-> FALSE, mode |-> "month", view |-> None, range |-> Dates!NoRange]
  BY <1>2 DEF Dates!PeriodInit
<1> QED  BY <1>1, <1>3, <1>4 DEF PickerInv, IsPicker, Dates!NoRange

LEMMA PickerStutter == ASSUME PickerInv, UNCHANGED <<db, ui>> PROVE PickerInv'
BY DEF PickerInv, IsPicker, IsSelection

\* A picker that appears shows a month or a year of the calendar,
LEMMA PickerShows ==
    ASSUME None \notin Int, PickerInv, NEW mode
    PROVE  IsPicker(Dates!Showing(mode))
<1>1. PICK u : u = ui
  OBVIOUS
<1>2. /\ u = [selection |-> u.selection, open |-> u.open, mode |-> u.mode, view |-> u.view, range |-> u.range]
      /\ IsSelection(u.selection)
  BY <1>1 DEF PickerInv, IsPicker
<1>3. PICK v, r : v = Dates!StartOfView(mode) /\ r = Dates!StartOfRange(mode)
  OBVIOUS
<1>4. Dates!Showing(mode) = [u EXCEPT !.open = TRUE, !.mode = mode, !.view = v, !.range = r]
  BY <1>1, <1>3 DEF Dates!Showing
<1>5. PICK w : w = [u EXCEPT !.open = TRUE, !.mode = mode, !.view = v, !.range = r]
  OBVIOUS
<1>6. /\ w = [selection |-> w.selection, open |-> w.open, mode |-> w.mode, view |-> w.view, range |-> w.range]
      /\ w.selection = u.selection /\ w.mode = mode /\ w.view = v /\ w.range = r
  BY <1>2, <1>5
<1>7. r = [from |-> r.from, to |-> r.to] /\ r.from \in Int \cup {None} /\ r.to \in Int \cup {None}
  BY <1>1, <1>2, <1>3 DEF Dates!StartOfRange, Dates!NoRange, IsSelection
<1>8. db.now \in Dates!Days /\ Dates!FullYear(db.now) \in Dates!Years
  BY CalendarRows DEF PickerInv
<1>9. mode = "week" => v \in 0..(Dates!LastMonth - 1)
  <2>1. Dates!Or(u.selection.weekOf, db.now) \in Dates!Days
    BY <1>2, <1>8 DEF IsSelection, Dates!Or
  <2>2. mode = "week" => v = Dates!MonthNumber(Dates!Or(u.selection.weekOf, db.now))
    BY <1>1, <1>3 DEF Dates!StartOfView
  <2> QED  BY <2>1, <2>2, CalendarRows
<1>10. Dates!Or(u.selection.year, Dates!FullYear(db.now)) \in Dates!Years
  BY <1>2, <1>8 DEF IsSelection, Dates!Or
<1>11. mode \in {"month", "quarter"} => v \in Dates!Years
  <2>1. mode \in {"month", "quarter"} => v = Dates!Or(u.selection.year, Dates!FullYear(db.now))
    BY <1>1, <1>3 DEF Dates!StartOfView
  <2> QED  BY <1>10, <2>1
<1>12. mode = "year" => v \in Int
  <2>1. mode = "year" => \E y \in Dates!Years : v = (y \div 10) * 10
    BY <1>1, <1>3, <1>8, <1>10 DEF Dates!StartOfView
  <2> QED  BY <2>1, CalendarRows
<1> QED  BY <1>2, <1>4, <1>5, <1>6, <1>7, <1>9, <1>11, <1>12 DEF IsPicker

\* and one that disappears selected something or nothing new.
LEMMA PickerCloses ==
    ASSUME PickerInv, NEW sel, IsSelection(sel)
    PROVE  IsPicker(Dates!Closed(sel))
<1>1. PICK u, w : u = ui /\ w = [u EXCEPT !.open = FALSE, !.mode = sel.mode, !.view = None,
                                         !.range = Dates!NoRange, !.selection = sel]
  OBVIOUS
<1>2. u = [selection |-> u.selection, open |-> u.open, mode |-> u.mode, view |-> u.view, range |-> u.range]
  BY <1>1 DEF PickerInv, IsPicker
<1>3. /\ w = [selection |-> w.selection, open |-> w.open, mode |-> w.mode, view |-> w.view, range |-> w.range]
      /\ w.selection = sel /\ ~w.open /\ w.range = Dates!NoRange
  BY <1>1, <1>2
<1>4. w = Dates!Closed(sel)
  BY <1>1 DEF Dates!Closed
<1>5. w.range = [from |-> None, to |-> None]
  BY <1>3 DEF Dates!NoRange
<1> QED  BY <1>3, <1>4, <1>5 DEF IsPicker

\* What is picked is a selection.
LEMMA Selections ==
    /\ \A n \in Dates!Days : IsSelection([Dates!NoFields("week") EXCEPT !.weekOf = n])
    /\ \A y \in Dates!Years :
          /\ \A m \in 1..12 : IsSelection([Dates!NoFields("month") EXCEPT !.year = y, !.month = m])
          /\ \A q \in 1..4 : IsSelection([Dates!NoFields("quarter") EXCEPT !.year = y, !.quarter = q])
          /\ IsSelection([Dates!NoFields("year") EXCEPT !.year = y])
    /\ \A a, b \in Int : a <= b => IsSelection([Dates!NoFields("custom") EXCEPT !.from = a, !.to = b])
<1>1. ASSUME NEW mode
      PROVE  Dates!NoFields(mode) = [mode |-> mode, weekOf |-> None, year |-> None, month |-> None,
                                     quarter |-> None, from |-> None, to |-> None]
  BY DEF Dates!NoFields
<1>2. ASSUME NEW n \in Dates!Days PROVE IsSelection([Dates!NoFields("week") EXCEPT !.weekOf = n])
  <2>1. PICK w : w = [Dates!NoFields("week") EXCEPT !.weekOf = n]
    OBVIOUS
  <2>2. w = [mode |-> "week", weekOf |-> n, year |-> None, month |-> None,
             quarter |-> None, from |-> None, to |-> None]
    BY <1>1, <2>1
  <2> QED  BY <2>1, <2>2 DEF IsSelection, Dates!Modes
<1>3. ASSUME NEW y \in Dates!Years, NEW m \in 1..12
      PROVE  IsSelection([Dates!NoFields("month") EXCEPT !.year = y, !.month = m])
  <2>1. PICK e, w : e = Dates!NoFields("month") /\ w = [e EXCEPT !.year = y, !.month = m]
    OBVIOUS
  <2>2. /\ w = [mode |-> w.mode, weekOf |-> w.weekOf, year |-> w.year, month |-> w.month,
                quarter |-> w.quarter, from |-> w.from, to |-> w.to]
        /\ w.mode = "month" /\ w.weekOf = None /\ w.year = y /\ w.month = m /\ w.quarter = None
        /\ w.from = None /\ w.to = None
    BY <1>1, <2>1
  <2> QED  BY <2>1, <2>2 DEF IsSelection, Dates!Modes
<1>4. ASSUME NEW y \in Dates!Years, NEW q \in 1..4
      PROVE  IsSelection([Dates!NoFields("quarter") EXCEPT !.year = y, !.quarter = q])
  <2>1. PICK e, w : e = Dates!NoFields("quarter") /\ w = [e EXCEPT !.year = y, !.quarter = q]
    OBVIOUS
  <2>2. /\ w = [mode |-> w.mode, weekOf |-> w.weekOf, year |-> w.year, month |-> w.month,
                quarter |-> w.quarter, from |-> w.from, to |-> w.to]
        /\ w.mode = "quarter" /\ w.weekOf = None /\ w.year = y /\ w.month = None /\ w.quarter = q
        /\ w.from = None /\ w.to = None
    BY <1>1, <2>1
  <2> QED  BY <2>1, <2>2 DEF IsSelection, Dates!Modes
<1>5. ASSUME NEW y \in Dates!Years PROVE IsSelection([Dates!NoFields("year") EXCEPT !.year = y])
  <2>1. PICK e, w : e = Dates!NoFields("year") /\ w = [e EXCEPT !.year = y]
    OBVIOUS
  <2>2. /\ w = [mode |-> w.mode, weekOf |-> w.weekOf, year |-> w.year, month |-> w.month,
                quarter |-> w.quarter, from |-> w.from, to |-> w.to]
        /\ w.mode = "year" /\ w.weekOf = None /\ w.year = y /\ w.month = None /\ w.quarter = None
        /\ w.from = None /\ w.to = None
    BY <1>1, <2>1
  <2> QED  BY <2>1, <2>2 DEF IsSelection, Dates!Modes
<1>6. ASSUME NEW a \in Int, NEW b \in Int, a <= b
      PROVE  IsSelection([Dates!NoFields("custom") EXCEPT !.from = a, !.to = b])
  <2>1. PICK e, w : e = Dates!NoFields("custom") /\ w = [e EXCEPT !.from = a, !.to = b]
    OBVIOUS
  <2>2. /\ w = [mode |-> w.mode, weekOf |-> w.weekOf, year |-> w.year, month |-> w.month,
                quarter |-> w.quarter, from |-> w.from, to |-> w.to]
        /\ w.mode = "custom" /\ w.weekOf = None /\ w.year = None /\ w.month = None /\ w.quarter = None
        /\ w.from = a /\ w.to = b
    BY <1>1, <2>1
  <2> QED  BY <1>6, <2>1, <2>2 DEF IsSelection, Dates!Modes
<1> QED  BY <1>2, <1>3, <1>4, <1>5, <1>6

LEMMA PickerStep == ASSUME None \notin Int, PickerInv, Dates!PeriodNext PROVE PickerInv'
<1>1. PICK u : u = ui
  OBVIOUS
<1>2. /\ u = [selection |-> u.selection, open |-> u.open, mode |-> u.mode, view |-> u.view, range |-> u.range]
      /\ IsSelection(u.selection)
      /\ u.range = [from |-> u.range.from, to |-> u.range.to]
      /\ u.range.from \in Int \cup {None} /\ u.range.to \in Int \cup {None}
      /\ u.open => /\ u.mode = "week" => u.view \in 0..(Dates!LastMonth - 1)
                   /\ u.mode \in {"month", "quarter"} => u.view \in Dates!Years
                   /\ u.mode = "year" => u.view \in Int
  BY <1>1 DEF PickerInv, IsPicker
<1>3. ASSUME NEW new, Dates!Locally(new), IsPicker(new) PROVE PickerInv'
  BY <1>3 DEF Dates!Locally, PickerInv
<1>4. ASSUME NEW sel, IsSelection(sel), Dates!Locally(Dates!Closed(sel)) PROVE PickerInv'
  BY <1>3, <1>4, PickerCloses
<1>5. CASE Dates!OpenPicker \/ \E mode \in Dates!Modes : Dates!ChooseMode(mode)
  <2>1. PICK mode : Dates!Locally(Dates!Showing(mode))
    BY <1>5 DEF Dates!OpenPicker, Dates!ChooseMode
  <2> QED  BY <1>3, <2>1, PickerShows
<1>6. CASE Dates!ClosePicker
  BY <1>1, <1>2, <1>4, <1>6 DEF Dates!ClosePicker
<1>7. CASE \E by \in {-1, 1} : Dates!TurnMonth(by) \/ Dates!TurnYear(by)
  <2>1. PICK by \in {-1, 1} : Dates!TurnMonth(by) \/ Dates!TurnYear(by)
    BY <1>7
  <2>2. PICK v : v = u.view + by
    OBVIOUS
  <2>3. /\ u.open /\ Dates!Locally([u EXCEPT !.view = v])
        /\ \/ u.mode = "week" /\ v \in 0..(Dates!LastMonth - 2)
           \/ u.mode \in {"month", "quarter"} /\ v \in Dates!Years
    BY <1>1, <2>1, <2>2 DEF Dates!TurnMonth, Dates!TurnYear
  <2>4. IsPicker([u EXCEPT !.view = v])
    <3>1. PICK w : w = [u EXCEPT !.view = v]
      OBVIOUS
    <3>2. /\ w = [selection |-> w.selection, open |-> w.open, mode |-> w.mode, view |-> w.view, range |-> w.range]
          /\ w.selection = u.selection /\ w.mode = u.mode /\ w.view = v /\ w.range = u.range
      BY <1>2, <3>1
    <3>3. u.mode = "week" => v \in 0..(Dates!LastMonth - 1)
      BY <2>3, CalendarRows
    <3> QED  BY <1>2, <2>3, <3>1, <3>2, <3>3 DEF IsPicker
  <2> QED  BY <1>3, <2>3, <2>4
<1>8. CASE \/ \E i \in 0..5 : Dates!PickWeek(i)
           \/ \E m \in 1..12 : Dates!PickMonth(m)
           \/ \E q \in 1..4 : Dates!PickQuarter(q)
           \/ \E i \in 0..11 : Dates!PickYear(i)
  <2>1. \E sel : Dates!Locally(Dates!Closed(sel)) /\ IsSelection(sel)
    <3>1. CASE \E i \in 0..5 : Dates!PickWeek(i)
      BY <3>1, Selections DEF Dates!PickWeek
    <3>2. CASE \E m \in 1..12 : Dates!PickMonth(m)
      BY <1>1, <1>2, <3>2, Selections DEF Dates!PickMonth
    <3>3. CASE \E q \in 1..4 : Dates!PickQuarter(q)
      BY <1>1, <1>2, <3>3, Selections DEF Dates!PickQuarter
    <3>4. CASE \E i \in 0..11 : Dates!PickYear(i)
      BY <1>1, <1>2, <3>4, Selections DEF Dates!PickYear
    <3> QED  BY <1>8, <3>1, <3>2, <3>3, <3>4
  <2> QED  BY <1>4, <2>1
<1>9. CASE \E n \in PeriodCase.clicked : Dates!PickDay(n)
  <2>1. PICK n \in Int : Dates!PickDay(n)
    <3>1. PeriodCase.clicked \subseteq Int
      <4>1. PeriodCase.clicked \subseteq Dates!Days
        BY CalendarAssumption
      <4>2. Dates!Days \subseteq Int
        BY CalendarRows
      <4> QED  BY <4>1, <4>2
    <3> QED  BY <1>9, <3>1
  <2>2. PICK range :
           /\ range \in {Dates!NoRange, [from |-> n, to |-> None], [from |-> n, to |-> n]}
                 \cup {[from |-> Dates!Min({n, m}), to |-> Dates!Max({n, m})] : m \in {ui.range.from, ui.range.to} \ {None}}
           /\ Dates!Locally(IF range.from # None /\ range.to # None
                  THEN Dates!Closed([Dates!NoFields("custom") EXCEPT !.from = range.from, !.to = range.to])
                  ELSE [ui EXCEPT !.range = range])
    BY <2>1 DEF Dates!PickDay
  <2>3. /\ range = [from |-> range.from, to |-> range.to]
        /\ range.from \in Int \cup {None} /\ range.to \in Int \cup {None}
        /\ range.from \in Int /\ range.to \in Int => range.from <= range.to
    <3>1. CASE range \in {Dates!NoRange, [from |-> n, to |-> None], [from |-> n, to |-> n]}
      BY <2>1, <3>1 DEF Dates!NoRange
    <3>2. CASE \E m \in {ui.range.from, ui.range.to} \ {None} :
                  range = [from |-> Dates!Min({n, m}), to |-> Dates!Max({n, m})]
      <4>1. PICK m \in Int : range = [from |-> Dates!Min({n, m}), to |-> Dates!Max({n, m})]
        BY <1>1, <1>2, <3>2
      <4>2. Dates!Min({n, m}) \in {n, m} /\ Dates!Max({n, m}) \in {n, m} /\ Dates!Min({n, m}) <= Dates!Max({n, m})
        <5>1. Dates!Min({n, m}) = IF n <= m THEN n ELSE m
          BY DEF Dates!Min
        <5>2. Dates!Max({n, m}) = IF n <= m THEN m ELSE n
          BY DEF Dates!Max
        <5> QED  BY <5>1, <5>2
      <4> QED  BY <4>1, <4>2
    <3> QED  BY <2>2, <3>1, <3>2
  <2>4. CASE range.from # None /\ range.to # None
    BY <1>4, <2>2, <2>3, <2>4, Selections
  <2>5. CASE ~(range.from # None /\ range.to # None)
    <3>1. PICK w : w = [u EXCEPT !.range = range]
      OBVIOUS
    <3>2. /\ w = [selection |-> w.selection, open |-> w.open, mode |-> w.mode, view |-> w.view, range |-> w.range]
          /\ w.selection = u.selection /\ w.mode = u.mode /\ w.view = u.view /\ w.range = range /\ w.open = u.open
      BY <1>2, <3>1
    <3>3. IsPicker(w)
      BY <1>2, <2>3, <3>2 DEF IsPicker
    <3> QED  BY <1>1, <1>3, <2>2, <2>5, <3>1, <3>3
  <2> QED  BY <2>4, <2>5
<1> QED
  BY Zenon, <1>5, <1>6, <1>7, <1>8, <1>9 DEF Dates!PeriodNext

\* So each period is whole: of months
LEMMA MonthsWhole ==
    ASSUME None \notin Int, PickerInv, NEW sel, sel = ui.selection, sel.mode \in {"month", "quarter", "year"},
           NEW period, period = Dates!ResolvePeriod(sel)
    PROVE  /\ period.start \in Dates!Days /\ period.end \in Int /\ period.start <= period.end
           /\ \A d \in Dates!Days :
                 period.start <= d /\ d <= period.end <=> Dates!SameUnit(sel.mode, d, period.start)
           /\ sel = Dates!DefaultPeriod => period.start <= db.now /\ db.now <= period.end
           /\ sel.year # None => Dates!FullYear(period.start) = sel.year
           /\ sel.month # None => Dates!Month(period.start) = sel.month - 1
<1>1. IsSelection(sel) /\ db.now \in Dates!Days
  BY DEF PickerInv, IsPicker
<1>2. PICK y \in Dates!Years, a \in Nat, b \in Nat :
         /\ y = (IF sel.year = None THEN Dates!FullYear(db.now) ELSE sel.year)
         /\ a < b /\ b <= Dates!LastMonth
         /\ period = [start |-> Dates!FirstDay(a), end |-> Dates!FirstDay(b) - 1]
         /\ sel.mode = "month" =>
               /\ b = a + 1
               /\ a = 12 * (y - PeriodCase.firstYear)
                        + (IF sel.month = None THEN Dates!Month(db.now) ELSE sel.month - 1)
         /\ sel.mode = "quarter" => b = a + 3 /\ a % 3 = 0
         /\ sel.mode = "year" => b = a + 12 /\ a % 12 = 0
         /\ a - 12 * (y - PeriodCase.firstYear) \in 0..11
  BY <1>1, MonthsPeriod
<1>3. PICK s \in Nat, e \in Nat : s = Dates!FirstDay(a) /\ e = Dates!FirstDay(b) /\ s < e
  BY <1>2, MonthLength, MonthsInOrder
<1>4. period.start = s /\ period.end = e - 1
  BY <1>2, <1>3
<1>5. s \in Dates!Days
  <2>1. PICK l \in Nat : l = Dates!LastMonth /\ b <= l
    BY <1>2, CalendarRows
  <2>2. Dates!FirstDay(l) \in Nat /\ e <= Dates!FirstDay(l)
    BY <1>3, <2>1, MonthLength, MonthsInOrder
  <2> QED  BY <1>3, <2>1, <2>2 DEF Dates!Days
<1>6. \A d \in Dates!Days : s <= d /\ d <= e - 1 <=> a <= Dates!MonthNumber(d) /\ Dates!MonthNumber(d) < b
  BY <1>3, DaysOfMonths
<1>7. Dates!MonthNumber(s) = a
  <2>1. Dates!FirstDay(a + 1) \in Nat /\ Dates!FirstDay(a) < Dates!FirstDay(a + 1)
    BY MonthLength
  <2>2. Dates!FirstDay(a) <= s /\ s <= Dates!FirstDay(a + 1) - 1
    BY <1>3, <2>1
  <2>3. a <= Dates!MonthNumber(s) /\ Dates!MonthNumber(s) < a + 1
    BY <1>5, <2>2, DaysOfMonths
  <2> QED  BY <1>5, <2>3, MonthOfDay
<1>8. PICK f \in Nat : f = PeriodCase.firstYear
  BY CalendarAssumption
<1>9. ASSUME NEW d \in Dates!Days
      PROVE  s <= d /\ d <= e - 1 <=> Dates!SameUnit(sel.mode, d, s)
  <2>1. PICK m \in Nat : m = Dates!MonthNumber(d)
    BY <1>9, MonthOfDay
  <2>2. s <= d /\ d <= e - 1 <=> a <= m /\ m < b
    BY <1>6, <1>9, <2>1
  <2>3. CASE sel.mode = "month"
    <3>1. Dates!SameUnit(sel.mode, d, s) <=> m = a
      BY <1>7, <2>1, <2>3 DEF Dates!SameUnit
    <3> QED  BY <1>2, <2>2, <2>3, <3>1
  <2>4. CASE sel.mode = "quarter"
    <3>1. Dates!SameUnit(sel.mode, d, s) <=> m \div 3 = a \div 3
      BY <1>7, <2>1, <2>4 DEF Dates!SameUnit
    <3>2. b = a + 3 /\ a % 3 = 0
      BY <1>2, <2>4
    <3>3. m \div 3 = a \div 3 <=> a <= m /\ m < a + 3
      BY <3>2
    <3> QED  BY <2>2, <3>1, <3>2, <3>3
  <2>5. CASE sel.mode = "year"
    <3>1. Dates!SameUnit(sel.mode, d, s) <=> f + m \div 12 = f + a \div 12
      BY <1>7, <1>8, <2>1, <2>5 DEF Dates!SameUnit, Dates!FullYear
    <3>2. b = a + 12 /\ a % 12 = 0
      BY <1>2, <2>5
    <3>3. m \div 12 = a \div 12 <=> a <= m /\ m < a + 12
      BY <3>2
    <3>4. m \div 12 \in Nat /\ a \div 12 \in Nat
      OBVIOUS
    <3> QED  BY <1>8, <2>2, <3>1, <3>2, <3>3, <3>4
  <2> QED  BY <2>3, <2>4, <2>5
<1>10. sel = Dates!DefaultPeriod => s <= db.now /\ db.now <= e - 1
  <2>1. SUFFICES ASSUME sel = Dates!DefaultPeriod PROVE s <= db.now /\ db.now <= e - 1
    OBVIOUS
  <2>2. sel.mode = "month" /\ sel.year = None /\ sel.month = None
    BY <2>1 DEF Dates!DefaultPeriod, Dates!NoFields
  <2>3. b = a + 1 /\ a = 12 * (Dates!FullYear(db.now) - PeriodCase.firstYear) + Dates!Month(db.now)
    BY <1>2, <2>2
  <2>4. Dates!MonthNumber(db.now) = a
    BY <1>1, <2>3, CalendarRows
  <2> QED  BY <1>1, <1>6, <2>3, <2>4
<1>11. sel.year # None => Dates!FullYear(s) = sel.year
  <2>1. y \in Nat /\ y - f \in Nat
    BY <1>8, CalendarRows
  <2>2. a \div 12 = y - f
    BY <1>2, <1>8, <2>1
  <2> QED  BY <1>2, <1>7, <1>8, <2>1, <2>2 DEF Dates!FullYear
<1>12. sel.month # None => Dates!Month(s) = sel.month - 1
  <2>1. SUFFICES ASSUME sel.month # None PROVE Dates!Month(s) = sel.month - 1
    OBVIOUS
  <2>2. PICK m \in 1..12 : m = sel.month /\ sel.mode = "month"
    BY <1>1, <2>1 DEF IsSelection
  <2>3. PICK q \in Nat : q = y - f
    BY <1>8, CalendarRows
  <2>4. a = 12 * q + (m - 1)
    BY <1>2, <1>8, <2>1, <2>2, <2>3
  <2>5. a % 12 = m - 1
    BY <2>2, <2>3, <2>4
  <2> QED  BY <1>7, <2>2, <2>5 DEF Dates!Month
<1>13. s \in Dates!Days /\ e - 1 \in Int /\ s <= e - 1
  BY <1>3, <1>5
<1>14. \A d \in Dates!Days : s <= d /\ d <= e - 1 <=> Dates!SameUnit(sel.mode, d, s)
  BY Zenon, <1>9
<1> QED  BY Zenon, <1>4, <1>10, <1>11, <1>12, <1>13, <1>14

\* or one week;
LEMMA WeekWhole ==
    ASSUME None \notin Int, PickerInv, NEW sel, sel = ui.selection, sel.mode = "week",
           NEW period, period = Dates!ResolvePeriod(sel)
    PROVE  /\ period.start \in Int /\ period.end \in Int /\ period.start <= period.end
           /\ \A d \in Dates!Days :
                 period.start <= d /\ d <= period.end
                    <=> Dates!SameUnit(sel.mode, d, Dates!Max({period.start, 0}))
           /\ sel # Dates!DefaultPeriod /\ sel.year = None /\ sel.month = None
<1>1. IsSelection(sel) /\ db.now \in Dates!Days
  BY DEF PickerInv, IsPicker
<1>2. PICK n \in Nat : n = Dates!Or(sel.weekOf, db.now)
  BY <1>1, CalendarRows DEF IsSelection, Dates!Or
<1>3. PICK k \in Int : k = Dates!ToMonday(n) /\ k <= n /\ n <= k + 6 /\ k % 7 = 1
  BY MondayOf
<1>4. period = [start |-> k, end |-> k + 6]
  BY <1>2, <1>3 DEF Dates!ResolvePeriod, Dates!WeekPeriod
<1>5. PICK s \in Nat : s = IF k < 0 THEN 0 ELSE k
  OBVIOUS
<1>6. Dates!Max({k, 0}) = s
  BY <1>5 DEF Dates!Max
<1>7. ASSUME NEW d \in Dates!Days
      PROVE  k <= d /\ d <= k + 6 <=> Dates!SameUnit("week", d, s)
  <2>1. d \in Nat
    BY <1>7, CalendarRows
  <2> QED  BY <1>3, <1>5, <2>1, DaysOfWeek DEF Dates!SameUnit
<1>8. sel # Dates!DefaultPeriod
  BY DEF Dates!DefaultPeriod, Dates!NoFields
<1> QED  BY <1>1, <1>3, <1>4, <1>6, <1>7, <1>8 DEF IsSelection

\* a range has its days in order;
LEMMA RangeWhole ==
    ASSUME None \notin Int, PickerInv, NEW sel, sel = ui.selection, sel.mode = "custom",
           NEW period, period = Dates!ResolvePeriod(sel)
    PROVE  /\ period.start \in Int /\ period.end \in Int /\ period.start <= period.end
           /\ sel # Dates!DefaultPeriod /\ sel.year = None /\ sel.month = None
<1>1. IsSelection(sel)
  BY DEF PickerInv, IsPicker
<1>2. sel.from \in Int /\ sel.to \in Int /\ sel.from <= sel.to /\ sel.year = None /\ sel.month = None
  BY <1>1 DEF IsSelection
<1>3. period = [start |-> sel.from, end |-> sel.to]
  BY <1>2 DEF Dates!ResolvePeriod, Dates!CustomPeriod, Dates!Or
<1>4. sel # Dates!DefaultPeriod
  BY DEF Dates!DefaultPeriod, Dates!NoFields
<1> QED  BY <1>2, <1>3, <1>4

\* and the six weeks offered hold the month.
LEMMA WeeksOffered ==
    ASSUME PickerInv, ui.open, ui.mode = "week"
    PROVE  Dates!FirstDay(ui.view)..(Dates!FirstDay(ui.view + 1) - 1)
              \subseteq UNION {Dates!Offered(i)..(Dates!Offered(i) + 6) : i \in 0..5}
<1>1. PICK v \in Nat : v = ui.view
  BY CalendarRows DEF PickerInv, IsPicker
<1>2. PICK a \in Nat, b \in Nat : a = Dates!FirstDay(v) /\ b = Dates!FirstDay(v + 1) /\ b - a \in 28..31
  BY MonthLength
<1>3. PICK k \in Int : k = Dates!ToMonday(a) /\ k <= a /\ a <= k + 6
  BY MondayOf
<1>4. \A i \in Int : Dates!Offered(i) = k + 7 * i
  BY <1>1, <1>2, <1>3, MondayOf DEF Dates!Offered
<1>5. ASSUME NEW d \in a..(b - 1) PROVE \E i \in 0..5 : d \in Dates!Offered(i)..(Dates!Offered(i) + 6)
  <2>1. PICK i \in 0..5 : k + 7 * i <= d /\ d <= k + 7 * i + 6
    <3>1. d - k \in 0..36
      BY <1>2, <1>3, <1>5
    <3>2. ASSUME NEW x \in 0..36 PROVE \E i \in 0..5 : 7 * i <= x /\ x <= 7 * i + 6
      <4>1. x \div 7 \in 0..5 /\ 7 * (x \div 7) <= x /\ x <= 7 * (x \div 7) + 6
        OBVIOUS
      <4> QED  BY <4>1
    <3>3. PICK i \in 0..5 : 7 * i <= d - k /\ d - k <= 7 * i + 6
      BY <3>1, <3>2
    <3>4. d \in Int
      BY <1>2, <1>5
    <3> QED  BY <1>3, <3>3, <3>4
  <2>2. Dates!Offered(i) = k + 7 * i
    BY <1>4
  <2> QED  BY <1>3, <1>5, <2>1, <2>2
<1> QED  BY <1>1, <1>2, <1>5

LEMMA PickedIsWhole == ASSUME None \notin Int, PickerInv PROVE Dates!PeriodIsWhole
<1>1. PICK sel, period : sel = ui.selection /\ period = Dates!ResolvePeriod(sel)
  OBVIOUS
<1>2. sel.mode \in {"week", "month", "quarter", "year", "custom"}
  BY <1>1 DEF PickerInv, IsPicker, IsSelection, Dates!Modes
<1>3. PICK s \in Int, e \in Int : s = period.start /\ e = period.end /\ s <= e
  <2>1. period.start \in Int /\ period.end \in Int /\ period.start <= period.end
    <3>1. CASE sel.mode \in {"month", "quarter", "year"}
      <4>1. period.start \in Dates!Days /\ period.end \in Int /\ period.start <= period.end
        BY <1>1, <3>1, MonthsWhole
      <4>2. Dates!Days \subseteq Int
        BY CalendarRows
      <4> QED  BY <4>1, <4>2
    <3>2. CASE sel.mode = "week"
      BY <1>1, <3>2, WeekWhole
    <3>3. CASE sel.mode = "custom"
      BY <1>1, <3>3, RangeWhole
    <3> QED  BY <1>2, <3>1, <3>2, <3>3
  <2> QED  BY <2>1
<1>4. sel.mode # "custom" =>
         \A d \in Dates!Days : s <= d /\ d <= e <=> Dates!SameUnit(sel.mode, d, Dates!Max({s, 0}))
  <2>1. CASE sel.mode = "week"
    BY <1>1, <1>3, <2>1, WeekWhole
  <2>2. CASE sel.mode \in {"month", "quarter", "year"}
    <3>1. s \in Nat
      BY <1>1, <1>3, <2>2, MonthsWhole, CalendarRows
    <3>2. Dates!Max({s, 0}) = s
      BY <3>1 DEF Dates!Max
    <3> QED  BY <1>1, <1>3, <2>2, <3>2, MonthsWhole
  <2> QED  BY <1>2, <2>1, <2>2
<1>5. /\ sel = Dates!DefaultPeriod => s <= db.now /\ db.now <= e
      /\ sel.year # None => Dates!FullYear(s) = sel.year
      /\ sel.month # None => Dates!Month(s) = sel.month - 1
  BY <1>1, <1>2, <1>3, MonthsWhole, WeekWhole, RangeWhole
<1>6. /\ Dates!LocalEndOfDay(e) + 1 = Dates!LocalExclusiveEnd(e)
      /\ Dates!LocalStartOfDay(s) < Dates!LocalExclusiveEnd(e)
  <2>1. PICK t \in Nat \ {0} : t = PeriodCase.ticks
    BY CalendarAssumption
  <2>2. e * t + t - 1 + 1 = (e + 1) * t
    OBVIOUS
  <2>3. s * t < (e + 1) * t
    BY <1>3
  <2> QED  BY <2>1, <2>2, <2>3 DEF Dates!LocalEndOfDay, Dates!LocalStartOfDay, Dates!LocalExclusiveEnd
<1>7. ui.open /\ ui.mode = "week" =>
         Dates!FirstDay(ui.view)..(Dates!FirstDay(ui.view + 1) - 1)
            \subseteq UNION {Dates!Offered(i)..(Dates!Offered(i) + 6) : i \in 0..5}
  BY WeeksOffered
<1> QED
  BY <1>1, <1>3, <1>4, <1>5, <1>6, <1>7 DEF Dates!PeriodIsWhole

-----------------------------------------------------------------------------
(***************************************************************************)
(* Saving a split that was not changed.                                    *)
(***************************************************************************)
\* There is a card for each of these.
Placed(P) == \E place \in [P -> SplitFormCase.cards] : \A g, h \in P : place[g] = place[h] => g = h

PayeeShares(d, s) == {h \in DOMAIN d.share : d.share[h].split = s /\ d.share[h].payee # NoPayee}

\* The form has a card for each share of the split it edits,
FormRows(d, s) ==
    /\ FormTables!IsDatabase(d) /\ FormTables!Constraints(d)
    /\ s # None => Placed(PayeeShares(d, s))

\* and a split that is being saved came from the cards.
SavedBody(shares) == DOMAIN shares \subseteq Form!PayeeRef /\ Placed(DOMAIN shares \ {NoPayee})

SavesOf(c, s) ==
    \A k \in 1..SplitFormCase.calls : Going(c[k]) /\ c[k].hook \in {"create", "update"} =>
        /\ SavedBody(c[k].body.shares)
        /\ (c[k].hook = "create" <=> s = None)
        /\ c[k].hook = "update" => c[k].body.split = s

FormSaves == FormRows(db, ui.split) /\ SavesOf(call, ui.split)

\* The tables of the form are those of TableProofs.
LEMMA SameTables ==
    /\ \A d : Form!IsDatabase(d) <=> FormTables!IsDatabase(d)
    /\ \A d : Form!Constraints(d) <=> FormTables!Constraints(d)
    /\ \A d, s : Form!SharesOf(d, s) = FormTables!SharesOf(d, s)
    /\ \A d, s : Form!LinksOf(d, s) = FormTables!LinksOf(d, s)
    /\ \A d, h : Form!SettlementsOf(d, h) = FormTables!SettlementsOf(d, h)
    /\ \A d, s : Form!ClearSplit(d, s) = FormTables!ClearSplit(d, s)
    /\ \A d, s, exps, rows, ids, credit :
          Form!InsertRows(d, s, exps, rows, ids, credit) = FormTables!InsertRows(d, s, exps, rows, ids, credit)
    /\ \A d, h : Form!Paid(d, h) = FormTables!Paid(d, h)
    /\ Form!PayeeRef = FormTables!PayeeRef
<1>1. \A d : Form!IsDatabase(d) <=> FormTables!IsDatabase(d)
  BY DEF Form!IsDatabase, FormTables!IsDatabase, Form!IsTable, FormTables!IsTable, Form!TxnRow, FormTables!TxnRow,
         Form!ShareRow, FormTables!ShareRow, Form!Link, FormTables!Link, Form!Settlement, FormTables!Settlement,
         Form!Retention, FormTables!Retention, Form!Statuses, FormTables!Statuses, Form!Money, FormTables!Money,
         Form!PayeeRef, FormTables!PayeeRef
<1>2. \A d : Form!Constraints(d) <=> FormTables!Constraints(d)
  BY DEF Form!Constraints, FormTables!Constraints, Form!ForeignKeys, FormTables!ForeignKeys,
         Form!OneParentPerExpense, FormTables!OneParentPerExpense, Form!OneSharePerPayee, FormTables!OneSharePerPayee,
         Form!OneLinkPerShareAndIncome, FormTables!OneLinkPerShareAndIncome, Form!ColumnDomains,
         FormTables!ColumnDomains, Form!Money, FormTables!Money
<1>3. /\ \A d, s : Form!SharesOf(d, s) = FormTables!SharesOf(d, s)
      /\ \A d, s : Form!LinksOf(d, s) = FormTables!LinksOf(d, s)
      /\ \A d, h : Form!SettlementsOf(d, h) = FormTables!SettlementsOf(d, h)
  BY DEF Form!SharesOf, FormTables!SharesOf, Form!LinksOf, FormTables!LinksOf, Form!SettlementsOf,
         FormTables!SettlementsOf
<1>4. \A d, s : Form!ClearSplit(d, s) = FormTables!ClearSplit(d, s)
  BY <1>3 DEF Form!ClearSplit, FormTables!ClearSplit
<1>5. \A d, s, exps, rows, ids, credit :
          Form!InsertRows(d, s, exps, rows, ids, credit) = FormTables!InsertRows(d, s, exps, rows, ids, credit)
  BY DEF Form!InsertRows, FormTables!InsertRows
<1>6. \A d, h : Form!Paid(d, h) = FormTables!Paid(d, h)
  BY <1>3 DEF Form!Paid, FormTables!Paid, Form!MapThenSumSet, FormTables!MapThenSumSet, Form!MapThenFoldSet,
         FormTables!MapThenFoldSet
<1>7. Form!PayeeRef = FormTables!PayeeRef
  BY DEF Form!PayeeRef, FormTables!PayeeRef
<1> QED  BY <1>1, <1>2, <1>3, <1>4, <1>5, <1>6, <1>7

\* What is inserted into a database where it may be is one again.
LEMMA RowsInserted ==
    ASSUME NEW d, FormTables!IsDatabase(d), NEW s, NEW exps, NEW body, NEW credit,
           exps \subseteq SplitFormCase.txnIds, DOMAIN body \subseteq Form!PayeeRef,
           NEW taken, DOMAIN d.share \subseteq taken, Form!HasShareIds(taken, body),
           NEW rows, rows = Form!BodyRows(body, credit), NEW n,
           n = Form!InsertRows(d, s, exps, rows, Form!NewShareIds(taken, rows), credit)
    PROVE  /\ DOMAIN rows = DOMAIN body
           /\ Form!Constraints(n) /\ s \in SplitFormCase.splitIds => FormTables!IsDatabase(n)
           /\ FormTables!Inserted(d, n, s, exps, rows, Form!NewShareIds(taken, rows), credit)
<1>1. /\ DOMAIN rows = DOMAIN body
      /\ \A p \in DOMAIN body : rows[p].payee = p /\ rows[p].status \in FormTables!Statuses
  BY DEF Form!BodyRows, Form!DeriveStatus, FormTables!Statuses
<1>2. PICK ids : ids = Form!NewShareIds(taken, rows)
  OBVIOUS
<1>3. ids \in [DOMAIN rows -> SplitFormCase.shareIds \ taken] /\ \A k, l \in DOMAIN rows : ids[k] = ids[l] => k = l
  <2>1. \E f \in [DOMAIN rows -> SplitFormCase.shareIds \ taken] : Form!IsInjective(f)
    BY <1>1 DEF Form!HasShareIds
  <2>2. ids \in [DOMAIN rows -> SplitFormCase.shareIds \ taken] /\ Form!IsInjective(ids)
    BY <1>2, <2>1 DEF Form!NewShareIds
  <2> QED  BY <2>2 DEF Form!IsInjective
<1>4. FormTables!IsInjective(ids)
  BY <1>3 DEF FormTables!IsInjective
<1>5. n = FormTables!InsertRows(d, s, exps, rows, ids, credit)
  BY <1>2, SameTables
<1>6. FormTables!Inserted(d, n, s, exps, rows, ids, credit)
  BY <1>3, <1>4, <1>5, TablesGiven, FormTables!InsertRowsFacts
<1>7. ASSUME Form!Constraints(n), s \in SplitFormCase.splitIds PROVE FormTables!IsDatabase(n)
  <2>1. FormTables!Constraints(FormTables!InsertRows(d, s, exps, rows, ids, credit))
    BY <1>5, <1>7, SameTables
  <2>2. \A k \in DOMAIN rows : rows[k].payee \in FormTables!PayeeRef /\ rows[k].status \in FormTables!Statuses
    BY <1>1, SameTables
  <2>3. exps \in SUBSET SplitFormCase.txnIds /\ ids \in [DOMAIN rows -> SplitFormCase.shareIds \ taken]
    BY <1>3
  <2>4. FormTables!IsDatabase(FormTables!InsertRows(d, s, exps, rows, ids, credit))
    BY <1>7, <2>1, <2>2, <2>3, TablesGiven, FormTables!InsertRowsType
  <2> QED  BY <1>5, <2>4
<1> QED  BY <1>1, <1>2, <1>6, <1>7

\* The body of the form has a card for each share,
LEMMA BodyPlaced == ASSUME FormInv, NEW body, IsBody(body) PROVE SavedBody(body)
<1>1. DOMAIN ui.card \subseteq SplitFormCase.cards
  BY DEF FormInv, FormCards
<1> DEFINE P == DOMAIN body \ {NoPayee}
           place == [p \in P |-> CHOOSE c \in DOMAIN ui.card : ui.card[c].payee = p]
<1>2. ASSUME NEW p \in P PROVE place[p] \in DOMAIN ui.card /\ ui.card[place[p]].payee = p
  <2>1. \E c \in DOMAIN ui.card : ui.card[c].payee = p
    BY <1>2 DEF IsBody
  <2> QED  BY <1>2, <2>1
<1>3. place \in [P -> SplitFormCase.cards]
  BY <1>1, <1>2
<1> HIDE DEF place
<1>4. \A g, h \in P : place[g] = place[h] => g = h
  BY <1>2
<1>5. Placed(P)
  BY <1>3, <1>4 DEF Placed
<1>6. DOMAIN body \subseteq Form!PayeeRef
  BY DEF IsBody, Form!PayeeRef
<1> QED  BY <1>5, <1>6 DEF SavedBody

\* and each call that saves is one that was under way or comes from the form as it is.
Saving(c) == Going(c) /\ c.hook \in {"create", "update"}

SavesGoOn(c, d) ==
    \A k \in 1..SplitFormCase.calls :
        Saving(d[k]) => \E j \in 1..SplitFormCase.calls : Saving(c[j]) /\ Carries(c[j], d[k])

LEMMA CallsGoOn ==
    ASSUME NoCalls, FormInv, NEW k \in 1..SplitFormCase.calls, Going(call[k]),
           call' = Form!Without(k) \/ \E s : Restated(call, call', k, s)
    PROVE  SavesGoOn(call, call')
<1>1. PICK n : n = SplitFormCase.calls
  OBVIOUS
<1>2. n \in Nat /\ Calling(n, call) /\ k \in 1..n
  BY <1>1, ClientAssumption DEF FormInv, FormCalls, Hooks
<1>3. Dropped(n, call, call', k) \/ \E s : Restated(call, call', k, s)
  BY <1>1 DEF Form!Without, Form!Slots, Dropped
<1>4. Continues(n, call, call')
  BY <1>2, <1>3, StateContinues, WithoutContinues DEF Restated, Dropped
<1> QED  BY <1>1, <1>4 DEF Continues, SavesGoOn, Saving, Carries

LEMMA CallsSent ==
    ASSUME NoCalls, FormInv, NEW h, NEW b, Form!Mutate(h, b)
    PROVE  \A k \in 1..SplitFormCase.calls : Saving(call'[k]) =>
              \/ \E j \in 1..SplitFormCase.calls : Saving(call[j]) /\ Carries(call[j], call'[k])
              \/ call'[k].hook = h /\ call'[k].body = b
<1>1. PICK n : n = SplitFormCase.calls
  OBVIOUS
<1>2. n \in Nat /\ Calling(n, call)
  BY <1>1, ClientAssumption DEF FormInv, FormCalls, Hooks
<1>3. Begun(n, call, call', h, b)
  BY <1>1, FormSends
<1>4. Sent(n, call, call', h, b)
  BY <1>2, <1>3, BegunRows
<1> QED  BY <1>1, <1>4 DEF Sent, Saving, Carries

\* What is being saved keeps coming from the cards.
LEMMA SavesStay ==
    ASSUME NEW c, NEW d, NEW s, SavesOf(c, s), SavesGoOn(c, d)
    PROVE  SavesOf(d, s)
BY DEF SavesOf, SavesGoOn, Saving, Carries

\* The split edited stays the same,
LEMMA SplitStays == ASSUME FormInv, Form!FormNext PROVE ui'.split = ui.split
<1>1. /\ ui = [open |-> ui.open, split |-> ui.split, expenses |-> ui.expenses, own |-> ui.own,
               excluded |-> ui.excluded, card |-> ui.card]
  BY DEF FormInv, FormCards
<1>2. \A x : /\ [ui EXCEPT !.expenses = x].split = ui.split /\ [ui EXCEPT !.own = x].split = ui.split
             /\ [ui EXCEPT !.excluded = x].split = ui.split /\ [ui EXCEPT !.card = x].split = ui.split
  BY <1>1
<1>3. \A c, r : Form!SetCard(c, r).split = ui.split
  BY <1>1 DEF Form!SetCard
<1>4. Form!Closed.split = ui.split
  BY DEF Form!Closed
<1>5. CASE Form!FormUser
  <2>1. ASSUME NEW c, Form!CardSteps(c) PROVE ui'.split = ui.split
    <3>1. CASE Form!RemoveCard(c)
      BY <1>2, <3>1 DEF Form!RemoveCard, Form!Edits, Form!Locally
    <3>2. CASE Form!CreatePayee(c)
      BY <3>2 DEF Form!CreatePayee, Form!Sends
    <3>3. CASE Form!CardRemainder(c)
      BY <1>3, <3>3 DEF Form!CardRemainder, Form!Edits, Form!Locally
    <3>4. CASE \E p : Form!ChoosePayee(c, p)
      BY <1>3, <3>4 DEF Form!ChoosePayee, Form!Edits, Form!Locally
    <3>5. CASE \E a : Form!TypeAmount(c, a) \/ Form!TypeForgiven(c, a)
      BY <1>3, <3>5 DEF Form!TypeAmount, Form!TypeForgiven, Form!Edits, Form!Locally
    <3>6. CASE \E t : Form!LinkIncome(c, t) \/ Form!UnlinkIncome(c, t)
      BY <1>3, <3>6 DEF Form!LinkIncome, Form!UnlinkIncome, Form!Edits, Form!Locally, Form!Picks
    <3> QED  BY <2>1, <3>1, <3>2, <3>3, <3>4, <3>5, <3>6 DEF Form!CardSteps
  <2>2. CASE \E t : Form!PickExpense(t) \/ Form!RemoveExpense(t)
    <3>1. PICK x : ui' = [ui EXCEPT !.expenses = x]
      BY <2>2 DEF Form!PickExpense, Form!RemoveExpense, Form!Edits, Form!Locally, Form!Picks
    <3> QED  BY <1>2, <3>1
  <2>3. CASE (\E a : Form!TypeMyShare(a)) \/ Form!SetExcluded \/ Form!MyShareRemainder
    BY <1>2, <2>3 DEF Form!TypeMyShare, Form!SetExcluded, Form!MyShareRemainder, Form!Edits, Form!Locally
  <2>4. CASE Form!AddCard
    BY <1>2, <2>4 DEF Form!AddCard, Form!Edits, Form!Locally
  <2>5. CASE Form!Submit \/ Form!Cancel
    BY <1>4, <2>5 DEF Form!Submit, Form!Cancel, Form!Edits, Form!Locally, Form!Sends
  <2> QED  BY <1>5, <2>1, <2>2, <2>3, <2>4, <2>5 DEF Form!FormUser
<1>6. CASE Form!FormClient
  <2>1. CASE \E k \in Form!Slots : Form!SaveAnswered(k) \/ Form!PayeeAnswered(k)
    BY <1>3, <1>4, <2>1 DEF Form!SaveAnswered, Form!Returns, Form!PayeeAnswered, Form!Over
  <2>2. CASE ~\E k \in Form!Slots : Form!SaveAnswered(k) \/ Form!PayeeAnswered(k)
    <3>1. ui' = ui
      BY <1>6, <2>2 DEF Form!FormClient, Form!ServeForm, Form!Serve, Form!PayeeSettles, Form!Settles,
         Form!Fails, Form!ServePayee, Form!FetchForm, Form!FetchTxn, Form!FetchTxnFails
    <3> QED  BY <3>1
  <2> QED  BY <2>1, <2>2
<1> QED  BY <1>5, <1>6 DEF Form!FormNext

\* A split that is saved leaves tables as they may be, and a card for each of its shares.
LEMMA SavesServed ==
    ASSUME NoCalls, FormInv, FormSaves, NEW k \in 1..SplitFormCase.calls, Form!ServeForm(k)
    PROVE  FormRows(db', ui.split)
<1>1. PICK b : b = call[k].body
  OBVIOUS
<1>2. PICK exps, body : exps = b.expenses /\ body = b.shares
  OBVIOUS
<1>3. /\ Going(call[k]) /\ call[k].hook \in {"create", "update"}
      /\ FormTables!IsDatabase(db) /\ FormTables!Constraints(db)
  BY DEF Form!ServeForm, Form!Running, Going, FormSaves, FormRows
<1>4. /\ DOMAIN body \subseteq Form!PayeeRef /\ Placed(DOMAIN body \ {NoPayee})
      /\ (call[k].hook = "create" <=> ui.split = None)
      /\ call[k].hook = "update" => b.split = ui.split
  BY <1>1, <1>2, <1>3 DEF FormSaves, SavesOf, SavedBody
<1>5. CASE /\ call[k].hook = "create" /\ Form!CreateSplitOk(db, exps, body)
           /\ Form!HasSplitId(db) /\ Form!HasShareIds(DOMAIN db.share, body)
           /\ Form!Commits(Form!CreateResult(b)) /\ db' = Form!CreateResult(b).db
  <2>1. PICK s : s = Form!NewSplitId(db) /\ s \in SplitFormCase.splitIds
    BY <1>5 DEF Form!HasSplitId, Form!NewSplitId
  <2>2. exps \subseteq SplitFormCase.txnIds
    BY <1>3, <1>5 DEF Form!CreateSplitOk, Form!SplitParent, Form!IsExpense, Form!LiveTxn,
       FormTables!IsDatabase, FormTables!IsTable
  <2>3. PICK credit, rows : credit = Form!FullCredit(db) /\ rows = Form!BodyRows(body, credit)
    OBVIOUS
  <2>4. /\ db' = Form!InsertRows(db, s, exps, rows, Form!NewShareIds(DOMAIN db.share, rows), credit)
        /\ Form!Constraints(db')
    BY <1>2, <1>5, <2>1, <2>3 DEF Form!Commits, Form!CommitAccepts, Form!CreateResult, Form!CreateSplitWrite,
       Form!SaveSplit, Form!Result
  <2>5. FormTables!IsDatabase(db')
    BY <1>3, <1>4, <1>5, <2>1, <2>2, <2>3, <2>4, RowsInserted
  <2> QED  BY <1>4, <1>5, <2>4, <2>5, SameTables DEF FormRows
<1>6. CASE /\ call[k].hook = "update" /\ Form!UpdateSplitOk(db, b.split, exps, body)
           /\ Form!HasShareIds(Form!ShareIdsKept(b.split), body)
           /\ Form!Commits(Form!UpdateResult(b)) /\ db' = Form!UpdateResult(b).db
  <2>1. PICK s : s = ui.split /\ s = b.split /\ s # None
    BY <1>4, <1>6
  <2>2. s \in SplitFormCase.splitIds /\ exps \subseteq SplitFormCase.txnIds
    BY <1>3, <1>6, <2>1 DEF Form!UpdateSplitOk, Form!IsLive, Form!SplitParent, Form!IsExpense, Form!LiveTxn,
       FormTables!IsDatabase, FormTables!IsTable
  <2>3. PICK e, taken : e = Form!ClearSplit(db, s) /\ taken = Form!ShareIdsKept(s)
    OBVIOUS
  <2>4. FormTables!IsDatabase(e) /\ FormTables!Emptied(db, e, s)
    BY <1>3, <2>3, SameTables, TablesGiven, FormTables!ClearSplitFacts
  <2>5. DOMAIN e.share \subseteq taken
    BY <2>3, <2>4 DEF FormTables!Emptied, Form!ShareIdsKept, Form!SharesOf
  <2>6. PICK credit, rows : credit = Form!KeptCredit(db, s) /\ rows = Form!BodyRows(body, credit)
    OBVIOUS
  <2>7. PICK ids : ids = Form!NewShareIds(taken, rows)
    OBVIOUS
  <2>8. /\ db' = Form!InsertRows(e, s, exps, rows, ids, credit)
        /\ Form!Constraints(db')
    BY <1>2, <1>6, <2>1, <2>3, <2>6, <2>7 DEF Form!Commits, Form!CommitAccepts, Form!UpdateResult,
       Form!UpdateSplitWrite, Form!SaveSplit, Form!Result
  <2>9. /\ DOMAIN rows = DOMAIN body /\ FormTables!IsDatabase(db')
        /\ FormTables!Inserted(e, db', s, exps, rows, ids, credit)
    BY <1>4, <1>6, <2>1, <2>2, <2>3, <2>4, <2>5, <2>6, <2>7, <2>8, RowsInserted
  <2>10. \A p \in DOMAIN body : rows[p].payee = p
    BY <2>6 DEF Form!BodyRows
  <2>11. \A h \in PayeeShares(db', s) : db'.share[h].payee \in DOMAIN body \ {NoPayee}
    BY <2>4, <2>9, <2>10 DEF PayeeShares, FormTables!Inserted, FormTables!Emptied
  <2>12. \A g, h \in PayeeShares(db', s) : db'.share[g].payee = db'.share[h].payee => g = h
    BY <2>8 DEF PayeeShares, Form!Constraints, Form!OneSharePerPayee
  <2>13. PICK place \in [DOMAIN body \ {NoPayee} -> SplitFormCase.cards] :
            \A p, q \in DOMAIN body \ {NoPayee} : place[p] = place[q] => p = q
    BY <1>4 DEF Placed
  <2> DEFINE seat == [h \in PayeeShares(db', s) |-> place[db'.share[h].payee]]
  <2>14. seat \in [PayeeShares(db', s) -> SplitFormCase.cards]
    BY <2>11, <2>13
  <2>15. \A g, h \in PayeeShares(db', s) : seat[g] = seat[h] => g = h
    BY <2>11, <2>12, <2>13
  <2> HIDE DEF seat
  <2>16. Placed(PayeeShares(db', s))
    BY <2>14, <2>15 DEF Placed
  <2> QED  BY <2>1, <2>8, <2>9, <2>16, SameTables DEF FormRows
<1> QED  BY <1>1, <1>2, <1>3, <1>5, <1>6 DEF Form!ServeForm, Form!Serve

\* A payee that is created makes none of that untrue.
LEMMA PayeeServed ==
    ASSUME FormSaves, NEW k, NEW p \in SplitFormCase.payees, Form!ServePayee(k, p)
    PROVE  FormRows(db', ui.split)
<1>1. FormTables!IsDatabase(db) /\ FormTables!Constraints(db)
  BY DEF FormSaves, FormRows
<1>2. PICK x : x = [q \in DOMAIN db.payee \cup {p} |-> "live"] /\ db' = [db EXCEPT !.payee = x]
  BY DEF Form!ServePayee
<1>3. /\ DOMAIN db' = DOMAIN db /\ db'.payee = x
      /\ db'.txn = db.txn /\ db'.split = db.split /\ db'.share = db.share
      /\ db'.links = db.links /\ db'.paid = db.paid
  BY <1>1, <1>2 DEF FormTables!IsDatabase
<1>4. FormTables!IsTable(x, SplitFormCase.payees, FormTables!Retention) /\ DOMAIN db.payee \subseteq DOMAIN x
  BY <1>1, <1>2 DEF FormTables!IsDatabase, FormTables!IsTable, FormTables!Retention
<1>5. FormTables!IsDatabase(db')
  BY <1>1, <1>3, <1>4 DEF FormTables!IsDatabase
<1>6. FormTables!Constraints(db')
  BY <1>1, <1>3, <1>4 DEF FormTables!Constraints, FormTables!ForeignKeys, FormTables!OneParentPerExpense,
     FormTables!OneSharePerPayee, FormTables!OneLinkPerShareAndIncome, FormTables!ColumnDomains
<1> QED  BY <1>3, <1>5, <1>6 DEF FormSaves, FormRows, PayeeShares

\* The tables stay as they may be, whoever does what,
LEMMA RowsKept == ASSUME NoCalls, FormInv, FormSaves, Form!FormNext PROVE FormRows(db', ui.split)
<1>1. Form!Slots = 1..SplitFormCase.calls
  BY DEF Form!Slots
<1>2. CASE UNCHANGED db
  BY <1>2 DEF FormSaves
<1>3. CASE \E k \in 1..SplitFormCase.calls : Form!ServeForm(k)
  BY <1>3, SavesServed
<1>4. CASE \E k \in 1..SplitFormCase.calls : \E p \in SplitFormCase.payees : Form!ServePayee(k, p)
  BY <1>4, PayeeServed
<1>5. CASE Form!FormUser
  <2>1. UNCHANGED db
    BY <1>5 DEF Form!FormUser, Form!CardSteps, Form!PickExpense, Form!RemoveExpense, Form!TypeMyShare,
       Form!SetExcluded, Form!MyShareRemainder, Form!AddCard, Form!Submit, Form!Cancel, Form!RemoveCard,
       Form!CreatePayee, Form!CardRemainder, Form!ChoosePayee, Form!TypeAmount, Form!TypeForgiven,
       Form!LinkIncome, Form!UnlinkIncome, Form!Picks, Form!Edits, Form!Locally, Form!Sends
  <2> QED  BY <1>2, <2>1
<1>6. CASE Form!FormClient
  <2>1. (\E k \in 1..SplitFormCase.calls : \/ Form!SaveAnswered(k) \/ Form!PayeeSettles(k)
                                           \/ Form!PayeeAnswered(k) \/ Form!Fails(k, ui)) => UNCHANGED db
    BY DEF Form!SaveAnswered, Form!Returns, Form!PayeeSettles, Form!Settles, Form!PayeeAnswered, Form!Over,
       Form!Fails
  <2>2. (\E q \in {"splits", "payees"} : Form!FetchForm(q)) => UNCHANGED db
    BY DEF Form!FetchForm
  <2>3. (\E t \in SplitFormCase.txnIds : Form!FetchTxn(t) \/ Form!FetchTxnFails(t)) => UNCHANGED db
    BY DEF Form!FetchTxn, Form!FetchTxnFails
  <2> QED  BY Zenon, <1>1, <1>2, <1>3, <1>4, <1>6, <2>1, <2>2, <2>3 DEF Form!FormClient
<1> QED  BY <1>5, <1>6 DEF Form!FormNext

\* and what is being saved came from the cards.
LEMMA SavesKept == ASSUME NoCalls, FormInv, FormSaves, Form!FormNext PROVE SavesOf(call', ui.split)
<1>1. Form!Slots = 1..SplitFormCase.calls /\ SavesOf(call, ui.split)
  BY DEF Form!Slots, FormSaves
<1>2. CASE SavesGoOn(call, call')
  BY <1>1, <1>2, SavesStay
<1>3. CASE UNCHANGED call
  BY <1>1, <1>3
<1>4. CASE Form!Submit
  <2>1. PICK h, b : /\ h = IF ui.split = None THEN "create" ELSE "update"
                    /\ b = [split |-> ui.split, expenses |-> ui.expenses, shares |-> Form!FormBody]
    OBVIOUS
  <2>2. Form!Fits /\ Form!Mutate(h, b)
    BY <1>4, <2>1 DEF Form!Submit, Form!CanSubmit, Form!Sends
  <2>3. b.split = ui.split /\ SavedBody(b.shares)
    BY <2>1, <2>2, BodyShares, BodyPlaced
  <2>4. \A k \in 1..SplitFormCase.calls : Saving(call'[k]) =>
              \/ \E j \in 1..SplitFormCase.calls : Saving(call[j]) /\ Carries(call[j], call'[k])
              \/ call'[k].hook = h /\ call'[k].body = b
    BY <2>2, CallsSent
  <2> QED  BY <1>1, <2>1, <2>3, <2>4 DEF SavesOf, Saving, Carries
<1>5. CASE \E c \in DOMAIN ui.card : Form!CreatePayee(c)
  <2>1. PICK b : Form!Mutate("payee", b)
    BY <1>5 DEF Form!CreatePayee, Form!Sends
  <2>2. \A k \in 1..SplitFormCase.calls : Saving(call'[k]) =>
              \/ \E j \in 1..SplitFormCase.calls : Saving(call[j]) /\ Carries(call[j], call'[k])
              \/ call'[k].hook = "payee" /\ call'[k].body = b
    BY <2>1, CallsSent
  <2>3. SavesGoOn(call, call')
    BY <2>2 DEF SavesGoOn, Saving
  <2> QED  BY <1>2, <2>3
<1>6. CASE Form!FormUser
  <2>1. \/ Form!Submit \/ (\E c \in DOMAIN ui.card : Form!CreatePayee(c)) \/ UNCHANGED call
    BY <1>6 DEF Form!FormUser, Form!CardSteps, Form!PickExpense, Form!RemoveExpense, Form!TypeMyShare,
       Form!SetExcluded, Form!MyShareRemainder, Form!AddCard, Form!Cancel, Form!RemoveCard,
       Form!CardRemainder, Form!ChoosePayee, Form!TypeAmount, Form!TypeForgiven, Form!LinkIncome,
       Form!UnlinkIncome, Form!Picks, Form!Edits, Form!Locally
  <2> QED  BY <1>3, <1>4, <1>5, <2>1
<1>7. CASE \E k \in 1..SplitFormCase.calls : \E p \in SplitFormCase.payees : Form!ServePayee(k, p)
  <2>1. PICK k \in 1..SplitFormCase.calls : \E p \in SplitFormCase.payees : Form!ServePayee(k, p)
    BY <1>7
  <2>2. PICK b : /\ call[k].hook = "payee"
                 /\ call' = [call EXCEPT ![k].state = "done", ![k].body = b]
    BY <2>1 DEF Form!ServePayee
  <2>3. \A j \in 1..SplitFormCase.calls : Saving(call'[j]) => Saving(call[j]) /\ call'[j] = call[j]
    BY <2>2 DEF FormInv, FormCalls, Hooks, Calling, Saving, Going
  <2> QED  BY <1>1, <2>3 DEF SavesOf, Saving
<1>8. CASE \E k \in 1..SplitFormCase.calls :
             \/ Form!ServeForm(k) \/ Form!SaveAnswered(k) \/ Form!PayeeSettles(k)
             \/ Form!PayeeAnswered(k) \/ Form!Fails(k, ui)
  <2>1. PICK k \in 1..SplitFormCase.calls :
             \/ Form!ServeForm(k) \/ Form!SaveAnswered(k) \/ Form!PayeeSettles(k)
             \/ Form!PayeeAnswered(k) \/ Form!Fails(k, ui)
    BY <1>8
  <2>2. Going(call[k]) /\ (call' = Form!Without(k) \/ \E s : Restated(call, call', k, s))
    BY <2>1 DEF Form!ServeForm, Form!Serve, Form!SaveAnswered, Form!Returns, Form!PayeeSettles,
       Form!Settles, Form!PayeeAnswered, Form!Over, Form!Fails, Form!Running, Going, Restated
  <2> QED  BY <1>2, <2>2, CallsGoOn
<1>9. CASE Form!FormClient
  <2>1. (\E q \in {"splits", "payees"} : Form!FetchForm(q)) => call' = call
    BY DEF Form!FetchForm
  <2>2. (\E t \in SplitFormCase.txnIds : Form!FetchTxn(t) \/ Form!FetchTxnFails(t)) => call' = call
    BY DEF Form!FetchTxn, Form!FetchTxnFails
  <2> QED  BY Zenon, <1>1, <1>3, <1>7, <1>8, <1>9, <2>1, <2>2 DEF Form!FormClient
<1> QED  BY <1>6, <1>9 DEF Form!FormNext

LEMMA SavesStep == ASSUME NoCalls, FormInv, FormSaves, Form!FormNext PROVE FormSaves'
<1>1. PICK s : s = ui.split
  OBVIOUS
<1>2. s = ui'.split /\ FormRows(db', s) /\ SavesOf(call', s)
  BY <1>1, SplitStays, RowsKept, SavesKept
<1> QED  BY <1>2 DEF FormSaves

LEMMA SavesStutter == ASSUME FormSaves, UNCHANGED <<db, ui, call>> PROVE FormSaves'
BY DEF FormSaves

\* So it is when the form opens.
LEMMA SavesOpen == ASSUME Form!FormInit PROVE FormSaves
<1>1. PICK s \in SplitFormCase.starts :
        /\ db = s.db /\ ui = Form!OpenedOn(s.db, s.split)
        /\ call = [k \in 1..SplitFormCase.calls |-> Idle]
  BY DEF Form!FormInit, Form!Slots
<1>2. /\ Form!IsDatabase(db) /\ Form!Constraints(db)
      /\ \E place \in [Form!SharesOf(db, s.split) \ Form!OwnShares(db, s.split) -> SplitFormCase.cards] :
            Form!IsInjective(place)
  BY <1>1, FormAssumption
<1>3. FormTables!IsDatabase(db) /\ FormTables!Constraints(db)
  BY <1>2, SameTables
<1>4. PayeeShares(db, s.split) = Form!SharesOf(db, s.split) \ Form!OwnShares(db, s.split)
  BY DEF PayeeShares, Form!SharesOf, Form!OwnShares
<1>5. Placed(PayeeShares(db, s.split))
  BY <1>2, <1>4 DEF Placed, Form!IsInjective
<1>6. ui.split = s.split
  BY <1>1 DEF Form!OpenedOn
<1>7. SavesOf(call, ui.split)
  BY <1>1 DEF SavesOf, Going
<1> QED  BY <1>3, <1>5, <1>6, <1>7 DEF FormSaves, FormRows

-----------------------------------------------------------------------------
\* A body asks for the shares the split s has: one for each, with its payments.
Asks(d, s, body) ==
    /\ \A h \in Form!SharesOf(d, s) :
          /\ d.share[h].payee \in DOMAIN body
          /\ body[d.share[h].payee] =
                [amount |-> d.share[h].amount, forgiven |-> d.share[h].forgiven,
                 incomes |-> {x.txn : x \in Form!SettlementsOf(d, h)}]
          /\ \A g \in Form!SharesOf(d, s) : d.share[g].payee = d.share[h].payee => g = h
    /\ \A p \in DOMAIN body : \E h \in Form!SharesOf(d, s) : d.share[h].payee = p

\* No payment is on two shares of the split.
PaidOnce(d, s) ==
    \A x, y \in d.paid : {x.share, y.share} \subseteq Form!SharesOf(d, s) /\ x.txn = y.txn => x = y

\* The card of a share, and where each share has its card.
CardOf(d, h) ==
    [payee |-> d.share[h].payee, amount |-> 10 * d.share[h].amount, touched |-> TRUE,
     forgiven |-> 10 * d.share[h].forgiven, incomes |-> {x.txn : x \in Form!SettlementsOf(d, h)}]

Seated(place, P) ==
    /\ \A h \in P : place[h] \in DOMAIN ui.card /\ ui.card[place[h]] = CardOf(db, h)
    /\ \A c \in DOMAIN ui.card : \E h \in P : place[h] = c
    /\ \A g, h \in P : place[g] = place[h] => g = h

\* The form that has just opened has a card for each share of a payee,
LEMMA OpenedCards ==
    ASSUME FormSaves, ui.split # None, ui = Form!OpenedOn(db, ui.split)
    PROVE  /\ ui.expenses = Form!ExpensesOf(db, ui.split)
           /\ ui.excluded = (Form!OwnShares(db, ui.split) = {})
           /\ \A g \in Form!OwnShares(db, ui.split) :
                 (\A h \in Form!OwnShares(db, ui.split) : h = g) => ui.own = 10 * db.share[g].amount
           /\ \E place : Seated(place, PayeeShares(db, ui.split))
<1> DEFINE s == ui.split
           mine == Form!OwnShares(db, s)
           shares == Form!SharesOf(db, s) \ mine
           place == CHOOSE f \in [shares -> SplitFormCase.cards] : Form!IsInjective(f)
           exps == Form!ExpensesOf(db, s)
           own == IF mine = {} THEN 0 ELSE 10 * db.share[CHOOSE h \in mine : TRUE].amount
           card == [c \in {place[h] : h \in shares} |-> CardOf(db, CHOOSE h \in shares : place[h] = c)]
<1>1. ui = [open |-> TRUE, split |-> s, expenses |-> exps, own |-> own, excluded |-> mine = {}, card |-> card]
  BY DEF Form!OpenedOn, Form!Cent, CardOf
<1>2. shares = PayeeShares(db, s)
  BY DEF PayeeShares, Form!SharesOf, Form!OwnShares
<1>3. Placed(shares)
  BY <1>2 DEF FormSaves, FormRows
<1>5. place \in [shares -> SplitFormCase.cards] /\ Form!IsInjective(place)
  BY <1>3 DEF Placed, Form!IsInjective
<1> HIDE DEF place, exps, mine, shares
<1>6. \A g, h \in shares : place[g] = place[h] => g = h
  BY <1>5 DEF Form!IsInjective
<1>7. \A g \in mine : (\A h \in mine : h = g) => own = 10 * db.share[g].amount
  OBVIOUS
<1>9. ui.expenses = exps /\ ui.own = own /\ ui.excluded = (mine = {}) /\ ui.card = card
  <2> HIDE DEF own, card
  <2> QED  BY <1>1
<1>10. Seated(place, shares)
  <2>1. \A h \in shares : (CHOOSE g \in shares : place[g] = place[h]) = h
    BY <1>6
  <2>2. \A h \in shares : place[h] \in DOMAIN card /\ card[place[h]] = CardOf(db, h)
    BY <2>1
  <2>3. \A c \in DOMAIN card : \E h \in shares : place[h] = c
    OBVIOUS
  <2> HIDE DEF card
  <2> QED  BY <1>6, <1>9, <2>2, <2>3 DEF Seated
<1> QED  BY <1>2, <1>7, <1>9, <1>10 DEF exps, mine

\* so what it sends asks for the shares there are.
LEMMA UnchangedAsks ==
    ASSUME FormInv, FormSaves, ui.split # None, ui = Form!OpenedOn(db, ui.split),
           Form!AsSaved(db, ui.split), NEW body, IsBody(body)
    PROVE  Asks(db, ui.split, body) /\ PaidOnce(db, ui.split)
<1>1. PICK s, shares, mine :
         s = ui.split /\ shares = PayeeShares(db, s) /\ mine = Form!OwnShares(db, s)
  OBVIOUS
<1>2. PICK place : Seated(place, shares)
  BY <1>1, OpenedCards
<1> HIDE DEF Seated
<1>14. \A h : CardOf(db, h).payee = db.share[h].payee /\ CardOf(db, h).incomes = {x.txn : x \in Form!SettlementsOf(db, h)}
  BY DEF CardOf
<1>3. /\ ui.excluded = (mine = {})
      /\ \A g \in mine : (\A h \in mine : h = g) => ui.own = 10 * db.share[g].amount
  BY <1>1, OpenedCards
<1>4. \A h \in mine : /\ db.share[h].payee = NoPayee /\ db.share[h].amount > 0 /\ db.share[h].forgiven = 0
                      /\ Form!SettlementsOf(db, h) = {} /\ \A g \in mine : g = h
  BY <1>1 DEF Form!AsSaved, Form!OwnShares
<1>5. Form!SharesOf(db, s) = shares \cup mine
  BY <1>1 DEF PayeeShares, Form!SharesOf, Form!OwnShares
<1>6. FormTables!Constraints(db)
  BY DEF FormSaves, FormRows
<1>15. \A h \in shares \cup mine : db.share[h].amount \in Int /\ db.share[h].forgiven \in Int
  BY <1>5, <1>6 DEF Form!SharesOf, FormTables!Constraints, FormTables!ColumnDomains, FormTables!Money
<1>7. ASSUME NEW h \in shares
      PROVE  /\ db.share[h].payee \in DOMAIN body /\ db.share[h].payee # NoPayee
             /\ body[db.share[h].payee] =
                   [amount |-> db.share[h].amount, forgiven |-> db.share[h].forgiven,
                    incomes |-> {x.txn : x \in Form!SettlementsOf(db, h)}]
  <2>1. PICK c \in DOMAIN ui.card : ui.card[c] = CardOf(db, h)
    BY <1>2, <1>7 DEF Seated
  <2>2. /\ ui.card[c].payee = db.share[h].payee /\ ui.card[c].amount = 10 * db.share[h].amount
        /\ ui.card[c].forgiven = 10 * db.share[h].forgiven
        /\ ui.card[c].incomes = {x.txn : x \in Form!SettlementsOf(db, h)}
    BY <2>1 DEF CardOf
  <2>3. db.share[h].payee # NoPayee
    BY <1>1, <1>7 DEF PayeeShares
  <2>4. RoundedCard(c) = [amount |-> db.share[h].amount, forgiven |-> db.share[h].forgiven,
                          incomes |-> {x.txn : x \in Form!SettlementsOf(db, h)}]
    <3>1. /\ Form!Rounded(ui.card[c].amount) = db.share[h].amount
          /\ Form!Rounded(ui.card[c].forgiven) = db.share[h].forgiven
      BY <1>7, <1>15, <2>2, WholeIsIt
    <3> QED  BY <2>2, <3>1 DEF RoundedCard
  <2> QED  BY <2>1, <2>2, <2>3, <2>4 DEF IsBody
<1>8. Form!MyShare > 0 <=> mine # {}
  <2>1. CASE mine = {}
    <3>1. ui.excluded
      BY <1>3, <2>1
    <3>2. Form!MyShare = 0
      BY <3>1 DEF Form!MyShare
    <3> QED  BY <2>1, <3>2
  <2>2. ASSUME NEW g \in mine PROVE Form!MyShare > 0
    <3>1. Form!MyShare = 10 * db.share[g].amount
      BY <1>3, <1>4, <2>2 DEF Form!MyShare
    <3>2. db.share[g].amount \in Int /\ db.share[g].amount > 0
      BY <1>4, <1>15, <2>2
    <3> QED  BY <3>1, <3>2
  <2> QED  BY <2>1, <2>2
<1>9. ASSUME NEW h \in mine
      PROVE  /\ db.share[h].payee = NoPayee /\ NoPayee \in DOMAIN body
             /\ body[NoPayee] =
                   [amount |-> db.share[h].amount, forgiven |-> db.share[h].forgiven,
                    incomes |-> {x.txn : x \in Form!SettlementsOf(db, h)}]
  <2>1. Form!MyShare > 0 /\ Form!MyShare = 10 * db.share[h].amount
    BY <1>3, <1>4, <1>8, <1>9 DEF Form!MyShare
  <2>3. RoundedOwn = [amount |-> db.share[h].amount, forgiven |-> 0, incomes |-> {}]
    BY <1>9, <1>15, <2>1, WholeIsIt DEF RoundedOwn
  <2>2. {x.txn : x \in Form!SettlementsOf(db, h)} = {}
    BY <1>4, <1>9
  <2> QED  BY <1>4, <1>9, <2>1, <2>2, <2>3 DEF IsBody
<1>10. \A g, h \in shares \cup mine : db.share[g].payee = db.share[h].payee => g = h
  BY <1>1, <1>4, <1>6, <1>7 DEF PayeeShares, FormTables!Constraints, FormTables!OneSharePerPayee
<1>11. ASSUME NEW p \in DOMAIN body PROVE \E h \in shares \cup mine : db.share[h].payee = p
  <2>1. CASE \E c \in DOMAIN ui.card : ui.card[c].payee = p
    BY <1>2, <1>14, <2>1 DEF Seated
  <2>2. CASE ~\E c \in DOMAIN ui.card : ui.card[c].payee = p
    <3>1. p = NoPayee /\ mine # {}
      BY <1>8, <1>11, <2>2 DEF IsBody
    <3> QED  BY <1>4, <3>1
  <2> QED  BY <2>1, <2>2
<1>12. Asks(db, s, body)
  BY <1>5, <1>7, <1>9, <1>10, <1>11 DEF Asks
<1>13. PaidOnce(db, s)
  <2>1. SUFFICES ASSUME NEW x \in db.paid, NEW y \in db.paid, x.share \in shares \cup mine,
                        y.share \in shares \cup mine, x.txn = y.txn
                 PROVE  x = y
    BY <1>5 DEF PaidOnce
  <2>2. x.share \in shares /\ y.share \in shares
    BY <1>4, <2>1 DEF Form!SettlementsOf
  <2>3. x.txn \in ui.card[place[x.share]].incomes /\ x.txn \in ui.card[place[y.share]].incomes
    <3>1. \A h \in shares : ui.card[place[h]].incomes = {z.txn : z \in Form!SettlementsOf(db, h)}
      BY <1>2, <1>14 DEF Seated
    <3> QED  BY <2>1, <2>2, <3>1 DEF Form!SettlementsOf
  <2>4. place[x.share] \in DOMAIN ui.card /\ place[y.share] \in DOMAIN ui.card
    BY <1>2, <2>2 DEF Seated
  <2>5. place[x.share] = place[y.share]
    BY <2>1, <2>3, <2>4 DEF FormInv, FormCards
  <2>6. x.share = y.share
    BY <1>2, <2>2, <2>5 DEF Seated
  <2> QED  BY <1>6, <2>1, <2>6 DEF FormTables!Constraints, FormTables!OneLinkPerShareAndIncome
<1> QED  BY <1>1, <1>12, <1>13

\* What an update credits is what the split's payments were credited with,
LEMMA CreditsStay ==
    ASSUME FormSaves, NEW s, PaidOnce(db, s), NEW h \in Form!SharesOf(db, s)
    PROVE  /\ \A x \in Form!SettlementsOf(db, h) : Form!KeptCredit(db, s)[x.txn] = x.amount
           /\ Form!CreditTotal(Form!KeptCredit(db, s), {x.txn : x \in Form!SettlementsOf(db, h)})
                = Form!Paid(db, h)
<1>1. FormTables!IsDatabase(db) /\ FormTables!Constraints(db)
  BY DEF FormSaves, FormRows
<1>2. PICK credit, S : credit = Form!KeptCredit(db, s) /\ S = Form!SettlementsOf(db, h)
  OBVIOUS
<1>3. \A x \in S : x \in db.paid /\ x.share = h /\ x.txn \in DOMAIN db.txn
  BY <1>1, <1>2 DEF Form!SettlementsOf, FormTables!Constraints, FormTables!ForeignKeys
<1>4. ASSUME NEW x \in S PROVE credit[x.txn] = x.amount
  <2>1. PICK kept : kept = {y \in Form!CreditsOf(db, x.txn) : y.share \in Form!SharesOf(db, s)}
    OBVIOUS
  <2>2. x \in kept /\ \A y \in kept : y = x
    BY <1>3, <1>4, <2>1 DEF Form!CreditsOf, PaidOnce
  <2>3. (CHOOSE y \in kept : TRUE) = x
    BY <2>2
  <2>4. credit[x.txn] = IF kept # {} THEN (CHOOSE y \in kept : TRUE).amount ELSE db.txn[x.txn].amount
    BY <1>2, <1>3, <2>1 DEF Form!KeptCredit
  <2> QED  BY <2>2, <2>3, <2>4
<1>5. FormTables!IsFiniteSet(S) /\ S = FormTables!SettlementsOf(db, h)
  <2>1. FormTables!IsFiniteSet(db.paid)
    BY <1>1, TablesGiven, FormTables!FiniteRows
  <2>2. S \subseteq db.paid
    BY <1>3
  <2>3. S = FormTables!SettlementsOf(db, h)
    BY <1>2, SameTables
  <2> QED  BY <2>1, <2>2, <2>3, FinitePart
<1>6. Form!Paid(db, h) = FormTables!Total(FormTables!Credit, S)
  BY <1>1, <1>5, SameTables, TablesGiven, FormTables!PaidTotal
<1>7. \A x \in S : FormTables!Credit[x] = x.amount /\ x.amount \in Int
  BY <1>1, <1>3, TablesGiven DEF FormTables!Credit, FormTables!IsDatabase, FormTables!Settlement, FormTables!Money
<1> DEFINE m == [x \in S |-> x.txn]
<1>8. /\ \A x \in S : FormTables!Credit[x] = credit[m[x]] /\ FormTables!Credit[x] \in Int
      /\ \A x, y \in S : m[x] = m[y] => x = y
  BY <1>1, <1>3, <1>4, <1>7 DEF FormTables!Constraints, FormTables!OneLinkPerShareAndIncome
<1>9. {m[x] : x \in S} = {x.txn : x \in S}
  OBVIOUS
<1> HIDE DEF m
<1>10. FormTables!Total(FormTables!Credit, S) = FormTables!Total(credit, {m[x] : x \in S})
  BY <1>5, <1>8, TablesGiven, FormTables!TotalRenamed
<1>11. Form!CreditTotal(credit, {x.txn : x \in S}) = FormTables!Total(credit, {x.txn : x \in S})
  BY CreditSum DEF Sum
<1> QED  BY <1>2, <1>4, <1>6, <1>9, <1>10, <1>11

\* there are ids for its shares, if only those it had,
LEMMA IdsForShares ==
    ASSUME FormSaves, NEW s, NEW body, Asks(db, s, body)
    PROVE  Form!HasShareIds(Form!ShareIdsKept(s), body)
<1>1. FormTables!IsDatabase(db)
  BY DEF FormSaves, FormRows
<1> DEFINE f == [p \in DOMAIN body |-> CHOOSE h \in Form!SharesOf(db, s) : db.share[h].payee = p]
<1>2. \A p \in DOMAIN body : f[p] \in Form!SharesOf(db, s) /\ db.share[f[p]].payee = p
  BY DEF Asks
<1>3. \A p \in DOMAIN body : f[p] \in SplitFormCase.shareIds \ Form!ShareIdsKept(s)
  BY <1>1, <1>2 DEF Form!ShareIdsKept, Form!SharesOf, FormTables!IsDatabase, FormTables!IsTable
<1>4. f \in [DOMAIN body -> SplitFormCase.shareIds \ Form!ShareIdsKept(s)]
  BY <1>3
<1> HIDE DEF f
<1>5. Form!IsInjective(f)
  BY <1>2, <1>4 DEF Form!IsInjective
<1> QED  BY <1>4, <1>5 DEF Form!HasShareIds

\* Each share of s is in n too, if with another id.
ComesBack(d, n, s, body, id) ==
    /\ Form!SharesOf(n, s) = {id[p] : p \in DOMAIN body}
    /\ \A h \in Form!SharesOf(d, s) :
          LET i == id[d.share[h].payee]
          IN  /\ n.share[i].payee = d.share[h].payee /\ n.share[i].amount = d.share[h].amount
              /\ n.share[i].forgiven = d.share[h].forgiven /\ n.share[i].status = d.share[h].status
              /\ {<<x.txn, x.amount>> : x \in Form!SettlementsOf(n, i)}
                   = {<<x.txn, x.amount>> : x \in Form!SettlementsOf(d, h)}

\* so the rows an update writes are those it has taken away.
LEMMA RowsComeBack ==
    ASSUME FormSaves, NEW s, Form!AsSaved(db, s), NEW body, Asks(db, s, body),
           PaidOnce(db, s), DOMAIN body \subseteq Form!PayeeRef, NEW n,
           n = Form!UpdateResult([split |-> s, expenses |-> Form!ExpensesOf(db, s), shares |-> body]).db
    PROVE  /\ Form!ExpensesOf(n, s) = Form!ExpensesOf(db, s)
           /\ \E id : ComesBack(db, n, s, body, id)
<1>1. FormTables!IsDatabase(db) /\ FormTables!Constraints(db)
  BY DEF FormSaves, FormRows
<1>2. PICK e, taken, exps, credit, rows :
         /\ e = Form!ClearSplit(db, s) /\ taken = Form!ShareIdsKept(s) /\ exps = Form!ExpensesOf(db, s)
         /\ credit = Form!KeptCredit(db, s) /\ rows = Form!BodyRows(body, credit)
  OBVIOUS
<1>3. PICK ids : ids = Form!NewShareIds(taken, rows)
  OBVIOUS
<1>4. /\ FormTables!IsDatabase(e) /\ FormTables!Emptied(db, e, s)
      /\ e.links = db.links \ Form!LinksOf(db, s)
      /\ e.paid = {x \in db.paid : x.share \notin Form!SharesOf(db, s)}
  BY <1>1, <1>2, SameTables, TablesGiven, FormTables!ClearSplitFacts
<1>5. DOMAIN e.share = taken
  BY <1>2, <1>4 DEF FormTables!Emptied, Form!ShareIdsKept, Form!SharesOf
<1>6. exps \subseteq SplitFormCase.txnIds
  BY <1>1, <1>2 DEF Form!ExpensesOf, Form!LinksOf, FormTables!IsDatabase, FormTables!Link
<1>7. n = Form!InsertRows(e, s, exps, rows, ids, credit)
  <2>1. PICK b : b = [split |-> s, expenses |-> exps, shares |-> body]
    OBVIOUS
  <2>2. b.split = s /\ b.expenses = exps /\ b.shares = body
    BY <2>1
  <2>3. n = Form!UpdateResult(b).db
    BY <1>2, <2>1
  <2> QED  BY <1>2, <1>3, <2>2, <2>3 DEF Form!UpdateResult, Form!UpdateSplitWrite, Form!SaveSplit, Form!Result
<1>8. Form!HasShareIds(taken, body)
  BY <1>2, IdsForShares
<1>9. DOMAIN rows = DOMAIN body /\ FormTables!Inserted(e, n, s, exps, rows, ids, credit)
  BY <1>1, <1>2, <1>3, <1>4, <1>5, <1>6, <1>7, <1>8, RowsInserted
<1>10. \A p \in DOMAIN body :
          /\ rows[p].payee = p /\ rows[p].amount = body[p].amount /\ rows[p].forgiven = body[p].forgiven
          /\ rows[p].incomes = body[p].incomes
          /\ rows[p].status = Form!DeriveStatus(body[p].amount, Form!CreditTotal(credit, body[p].incomes),
                                                body[p].forgiven)
  BY <1>2 DEF Form!BodyRows
<1>11. Form!ExpensesOf(n, s) = exps
  <2>1. \A l \in e.links : l.split # s
    BY <1>4 DEF Form!LinksOf
  <2>2. n.links = e.links \cup {[split |-> s, txn |-> t] : t \in exps}
    BY <1>9 DEF FormTables!Inserted
  <2>3. Form!LinksOf(n, s) = {[split |-> s, txn |-> t] : t \in exps}
    BY <2>1, <2>2 DEF Form!LinksOf
  <2>4. \A t : t \in Form!ExpensesOf(n, s) <=> \E u \in exps : [split |-> s, txn |-> u].txn = t
    BY <2>3 DEF Form!ExpensesOf
  <2> QED  BY <2>4
<1>12. Form!SharesOf(n, s) = {ids[p] : p \in DOMAIN body}
  <2>1. \A h \in DOMAIN e.share : n.share[h].split # s
    BY <1>4, <1>9 DEF FormTables!Inserted, FormTables!Emptied
  <2>2. DOMAIN n.share = DOMAIN e.share \cup {ids[p] : p \in DOMAIN body}
    BY <1>9 DEF FormTables!Inserted
  <2>3. \A p \in DOMAIN body : n.share[ids[p]].split = s
    BY <1>9 DEF FormTables!Inserted
  <2> QED  BY <2>1, <2>2, <2>3 DEF Form!SharesOf
<1>13. ASSUME NEW p \in DOMAIN body
       PROVE  Form!SettlementsOf(n, ids[p]) = {[share |-> ids[p], txn |-> t, amount |-> credit[t]] : t \in body[p].incomes}
  <2>1. \A x \in e.paid : x.share # ids[p]
    <3>1. \A x \in e.paid : x.share \in DOMAIN e.share
      BY <1>1, <1>2, <1>4, <1>5 DEF Form!ShareIdsKept, FormTables!Constraints, FormTables!ForeignKeys
    <3>2. ids[p] \notin DOMAIN e.share
      BY <1>9 DEF FormTables!Inserted
    <3> QED  BY <3>1, <3>2
  <2>2. n.paid = e.paid \cup FormTables!NewPaid(rows, ids, credit)
    BY <1>9 DEF FormTables!Inserted
  <2>3. ASSUME NEW x PROVE x \in FormTables!NewPaid(rows, ids, credit) /\ x.share = ids[p] <=>
                           x \in {[share |-> ids[p], txn |-> t, amount |-> credit[t]] : t \in body[p].incomes}
    <3>1. x \in FormTables!NewPaid(rows, ids, credit) <=>
             \E q \in DOMAIN body : \E t \in body[q].incomes : x = [share |-> ids[q], txn |-> t, amount |-> credit[t]]
      BY <1>9, <1>10 DEF FormTables!NewPaid
    <3>2. \A q \in DOMAIN body : ids[q] = ids[p] => q = p
      BY <1>9 DEF FormTables!Inserted
    <3> QED  BY <3>1, <3>2
  <2> QED  BY <2>1, <2>2, <2>3 DEF Form!SettlementsOf
<1>14. ASSUME NEW h \in Form!SharesOf(db, s), NEW p \in DOMAIN body, p = db.share[h].payee
       PROVE  /\ n.share[ids[p]].payee = p /\ n.share[ids[p]].amount = db.share[h].amount
              /\ n.share[ids[p]].forgiven = db.share[h].forgiven /\ n.share[ids[p]].status = db.share[h].status
              /\ {<<x.txn, x.amount>> : x \in Form!SettlementsOf(n, ids[p])}
                   = {<<x.txn, x.amount>> : x \in Form!SettlementsOf(db, h)}
  <2>1. PICK S : S = Form!SettlementsOf(db, h)
    OBVIOUS
  <2>2. /\ body[p].amount = db.share[h].amount /\ body[p].forgiven = db.share[h].forgiven
        /\ body[p].incomes = {x.txn : x \in S}
    <3>1. body[p] = [amount |-> db.share[h].amount, forgiven |-> db.share[h].forgiven,
                     incomes |-> {x.txn : x \in Form!SettlementsOf(db, h)}]
      BY <1>14 DEF Asks
    <3> QED  BY <2>1, <3>1
  <2>3. /\ \A x \in S : credit[x.txn] = x.amount
        /\ Form!CreditTotal(credit, body[p].incomes) = Form!Paid(db, h)
    BY <1>2, <2>1, <2>2, CreditsStay
  <2>4. db.share[h].status = Form!DeriveStatus(db.share[h].amount, Form!Paid(db, h), db.share[h].forgiven)
    BY DEF Form!AsSaved
  <2>5. /\ n.share[ids[p]].payee = p /\ n.share[ids[p]].amount = body[p].amount
        /\ n.share[ids[p]].forgiven = body[p].forgiven /\ n.share[ids[p]].status = rows[p].status
    BY <1>9, <1>10 DEF FormTables!Inserted
  <2>6. rows[p].status = db.share[h].status
    BY <1>10, <2>2, <2>3, <2>4
  <2>7. {<<x.txn, x.amount>> : x \in Form!SettlementsOf(n, ids[p])} = {<<t, credit[t]>> : t \in body[p].incomes}
    <3> DEFINE Row(t) == [share |-> ids[p], txn |-> t, amount |-> credit[t]]
    <3>1. \A t : <<Row(t).txn, Row(t).amount>> = <<t, credit[t]>>
      OBVIOUS
    <3>2. \A x : x \in Form!SettlementsOf(n, ids[p]) <=> \E t \in body[p].incomes : x = Row(t)
      BY <1>13
    <3> HIDE DEF Row
    <3>3. \A z : (\E x \in Form!SettlementsOf(n, ids[p]) : z = <<x.txn, x.amount>>) <=>
                  \E t \in body[p].incomes : z = <<t, credit[t]>>
      BY <3>1, <3>2
    <3> QED  BY <3>3
  <2>8. {<<t, credit[t]>> : t \in body[p].incomes} = {<<x.txn, x.amount>> : x \in S}
    BY <2>2, <2>3
  <2> QED  BY <2>1, <2>2, <2>5, <2>6, <2>7, <2>8
<1>15. \A h \in Form!SharesOf(db, s) : db.share[h].payee \in DOMAIN body
  BY DEF Asks
<1>16. ASSUME NEW h \in Form!SharesOf(db, s)
       PROVE  LET i == ids[db.share[h].payee]
              IN  /\ n.share[i].payee = db.share[h].payee /\ n.share[i].amount = db.share[h].amount
                  /\ n.share[i].forgiven = db.share[h].forgiven /\ n.share[i].status = db.share[h].status
                  /\ {<<x.txn, x.amount>> : x \in Form!SettlementsOf(n, i)}
                       = {<<x.txn, x.amount>> : x \in Form!SettlementsOf(db, h)}
  BY <1>14, <1>15
<1>17. ComesBack(db, n, s, body, ids)
  BY <1>12, <1>16 DEF ComesBack
<1> QED  BY <1>2, <1>11, <1>17

\* So saving a split that was not changed, and was as it is saved, leaves what it holds.
LEMMA FormKeeps ==
    ASSUME NoAmount, NoCalls, FormInv, FormSaves, Form!FormNext, NEW k \in 1..SplitFormCase.calls,
           call[k] = Idle, call'[k] # Idle, call'[k].hook \in {"create", "update"},
           ui.split # None, ui = Form!OpenedOn(db, ui.split), Form!AsSaved(db, ui.split)
    PROVE  Form!SplitContent(Form!UpdateResult(call'[k].body).db, ui.split) = Form!SplitContent(db, ui.split)
<1>1. PICK s, body : s = ui.split /\ body = Form!FormBody
  OBVIOUS
<1>2. Form!Fits /\ call'[k].body = [split |-> s, expenses |-> ui.expenses, shares |-> body]
  BY <1>1, FormSubmits
<1>3. IsBody(body) /\ DOMAIN body \subseteq Form!PayeeRef
  BY <1>1, <1>2, BodyShares, BodyPlaced DEF SavedBody
<1>4. Asks(db, s, body) /\ PaidOnce(db, s)
  BY <1>1, <1>3, UnchangedAsks
<1>5. PICK n : n = Form!UpdateResult([split |-> s, expenses |-> Form!ExpensesOf(db, s), shares |-> body]).db
  OBVIOUS
<1>6. ui.expenses = Form!ExpensesOf(db, s)
  BY <1>1, OpenedCards
<1>7. PICK id : ComesBack(db, n, s, body, id)
  BY <1>1, <1>3, <1>4, <1>5, RowsComeBack
<1>8. Form!ExpensesOf(n, s) = Form!ExpensesOf(db, s)
  BY <1>1, <1>3, <1>4, <1>5, RowsComeBack
<1> DEFINE Held(d, h) ==
             [payee |-> d.share[h].payee, amount |-> d.share[h].amount, forgiven |-> d.share[h].forgiven,
              status |-> d.share[h].status, paid |-> {<<x.txn, x.amount>> : x \in Form!SettlementsOf(d, h)}]
<1>9. \A h \in Form!SharesOf(db, s) :
         /\ id[db.share[h].payee] \in Form!SharesOf(n, s)
         /\ Held(n, id[db.share[h].payee]) = Held(db, h)
  BY <1>4, <1>7 DEF Asks, ComesBack
<1>10. \A i \in Form!SharesOf(n, s) : \E h \in Form!SharesOf(db, s) : i = id[db.share[h].payee]
  BY <1>4, <1>7 DEF Asks, ComesBack
<1>11. \A d : Form!SplitContent(d, s) =
          [expenses |-> Form!ExpensesOf(d, s), shares |-> {Held(d, h) : h \in Form!SharesOf(d, s)}]
  BY DEF Form!SplitContent
<1> HIDE DEF Held
<1>12. {Held(n, i) : i \in Form!SharesOf(n, s)} = {Held(db, h) : h \in Form!SharesOf(db, s)}
  BY <1>9, <1>10
<1>13. Form!SplitContent(n, s) = Form!SplitContent(db, s)
  BY <1>8, <1>11, <1>12
<1> QED  BY <1>1, <1>2, <1>5, <1>6, <1>13

-----------------------------------------------------------------------------
(***************************************************************************)
(* The client.                                                             *)
(***************************************************************************)
PagesInv ==
    /\ page = "import" => ReviewInv /\ ReviewTold
    /\ page = "splitForm" => FormInv /\ FormSaves
    /\ page = "splitShares" => SharesInv /\ DrawerInv
    /\ page = "transactions" => RowsInv /\ WalkInv
    /\ page = "transactionForm" => TxnFormInv
    /\ page = "budgets" => PlansInv
    /\ page = "budgetForm" => PlanFormInv
    /\ page = "earmarks" => PilesInv /\ PilesTold
    /\ page = "accounts" => WalletsInv /\ WalletsTold
    /\ page = "piggyBanks" => GoalsInv /\ GoalsTold
    /\ page = "period" => PickerInv

SessionsInv ==
    /\ page = "one tab" => OneTabInv
    /\ page = "two tabs" => TwoTabsInv

ClientInv == PagesInv /\ SessionsInv

\* The pages of the invariant.
Proved == {"import", "splitForm", "splitShares", "transactions", "transactionForm", "budgets",
           "budgetForm", "earmarks", "accounts", "piggyBanks", "period"}

\* A visit begins with the invariant of its page,
LEMMA VisitInit ==
    ASSUME Init
    PROVE  PagesInv /\ (page = "one tab" => OneTab!SessionInit) /\ (page = "two tabs" => TwoTabs!SessionInit)
<1>1. CASE Import!ImportInit
  <2>1. page = "import"
    BY <1>1 DEF Import!ImportInit
  <2> QED  BY <1>1, <2>1, ReviewInit, ReviewToldInit DEF PagesInv
<1>2. CASE TxnForm!TxnFormInit
  <2>1. page = "transactionForm"
    BY <1>2 DEF TxnForm!TxnFormInit
  <2> QED  BY <1>2, <2>1, TxnFormInit DEF PagesInv
<1>3. CASE PlanForm!BudgetFormInit
  <2>1. page = "budgetForm"
    BY <1>3 DEF PlanForm!BudgetFormInit
  <2> QED  BY <1>3, <2>1, PlanFormInit DEF PagesInv
<1>4. CASE Piles!EarmarkInit
  <2>1. page = "earmarks"
    BY <1>4 DEF Piles!EarmarkInit
  <2> QED  BY <1>4, <2>1, PilesInit, PilesToldInit DEF PagesInv
<1>5. CASE Wallets!AccountInit
  <2>1. page = "accounts"
    BY <1>5 DEF Wallets!AccountInit
  <2> QED  BY <1>5, <2>1, WalletsInit, WalletsToldInit DEF PagesInv
<1>6. CASE Goals!PigInit
  <2>1. page = "piggyBanks"
    BY <1>6 DEF Goals!PigInit
  <2> QED  BY <1>6, <2>1, GoalsInit, GoalsToldInit DEF PagesInv
<1>7. CASE Dates!PeriodInit
  <2>1. page = "period"
    BY <1>7 DEF Dates!PeriodInit
  <2> QED  BY <1>7, <2>1, PickerInit DEF PagesInv
<1>8. CASE (page = "one tab" /\ OneTab!SessionInit) \/ (page = "two tabs" /\ TwoTabs!SessionInit)
  BY <1>8 DEF PagesInv
<1>9. CASE Shares!ShareInit
  <2>1. page = "splitShares"
    BY <1>9 DEF Shares!ShareInit
  <2> QED  BY <1>9, <2>1, SharesInit, DrawerOpens DEF PagesInv
<1>10. CASE List!ListInit
  <2>1. page = "transactions"
    BY <1>10 DEF List!ListInit
  <2> QED  BY <1>10, <2>1, RowsInit, WalkInit DEF PagesInv
<1>11. CASE Plans!BudgetInit
  <2>1. page = "budgets"
    BY <1>11 DEF Plans!BudgetInit
  <2> QED  BY <1>11, <2>1, PlansInit DEF PagesInv
<1>12. CASE Form!FormInit
  <2>1. page = "splitForm"
    BY <1>12 DEF Form!FormInit
  <2> QED  BY <1>12, <2>1, FormOpens, SavesOpen DEF PagesInv
<1> QED
  BY <1>1, <1>2, <1>3, <1>4, <1>5, <1>6, <1>7, <1>8, <1>9, <1>10, <1>11, <1>12 DEF Init

\* stays one of the same page,
LEMMA PageKept == ASSUME PageNext, page # "import" PROVE UNCHANGED page
BY FormFrame, SharesFrame, ListFrame, TxnFormFrame, DatesFrame, PilesFrame, PlansFrame,
   PlanFormFrame, WalletsFrame, GoalsFrame DEF PageNext

\* and keeps its invariant at each step.
LEMMA VisitStep ==
    ASSUME NullsApart, PagesInv, PageNext
    PROVE  PagesInv' /\ UNCHANGED page
<1>1. CASE page = "import"
  <2>1. Import!ImportNext
    BY <1>1 DEF PageNext
  <2> QED  BY <1>1, <2>1, ReviewStep, ReviewTells DEF PagesInv, NullsApart
<1>2. ASSUME page # "import" PROVE page' = page
  BY <1>2, PageKept
<1>3. CASE page = "transactionForm"
  <2>1. TxnForm!TxnFormNext
    BY <1>3 DEF PageNext
  <2> QED  BY <1>2, <1>3, <2>1, TxnFormStep DEF PagesInv, NullsApart
<1>4. CASE page = "budgetForm"
  <2>1. PlanForm!BudgetFormNext
    BY <1>4 DEF PageNext
  <2> QED  BY <1>2, <1>4, <2>1, PlanFormStep DEF PagesInv, NullsApart
<1>5. CASE page = "earmarks"
  <2>1. Piles!EarmarkNext
    BY <1>5 DEF PageNext
  <2> QED  BY <1>2, <1>5, <2>1, PilesStep, PilesTells DEF PagesInv, NullsApart
<1>6. CASE page = "accounts"
  <2>1. Wallets!AccountNext
    BY <1>6 DEF PageNext
  <2> QED  BY <1>2, <1>6, <2>1, WalletsStep, WalletsTells DEF PagesInv, NullsApart
<1>7. CASE page = "piggyBanks"
  <2>1. Goals!PigNext
    BY <1>7 DEF PageNext
  <2> QED  BY <1>2, <1>7, <2>1, GoalsStep, GoalsTells DEF PagesInv, NullsApart
<1>8. CASE page \notin Proved
  BY <1>2, <1>8 DEF PagesInv, Proved
<1>9. CASE page = "splitShares"
  <2>1. Shares!ShareNext
    BY <1>9 DEF PageNext
  <2> QED  BY <1>2, <1>9, <2>1, SharesStep, DrawerStep DEF PagesInv, NullsApart
<1>10. CASE page = "transactions"
  <2>1. List!ListNext
    BY <1>10 DEF PageNext
  <2> QED  BY <1>2, <1>10, <2>1, RowsStep, WalkStep DEF PagesInv, NullsApart
<1>11. CASE page = "budgets"
  <2>1. Plans!BudgetNext
    BY <1>11 DEF PageNext
  <2> QED  BY <1>2, <1>11, <2>1, PlansStep DEF PagesInv, NullsApart
<1>12. CASE page = "splitForm"
  <2>1. Form!FormNext
    BY <1>12 DEF PageNext
  <2> QED  BY <1>2, <1>12, <2>1, FormStep, SavesStep DEF PagesInv, NullsApart
<1>13. CASE page = "period"
  <2>1. Dates!PeriodNext
    BY <1>13 DEF PageNext
  <2>2. None \notin Int
    BY DEF NullsApart, NoAmount
  <2> QED  BY <1>2, <1>13, <2>1, <2>2, PickerStep DEF PagesInv
<1> QED
  BY <1>1, <1>3, <1>4, <1>5, <1>6, <1>7, <1>8, <1>9, <1>10, <1>11, <1>12, <1>13 DEF Proved

\* Nothing of a visit changes while a session is looked at.
LEMMA VisitStutter == ASSUME PagesInv, UNCHANGED screenVars PROVE PagesInv'
<1>1. UNCHANGED <<page, db, seen, due, ui, call, lost>>
  BY DEF screenVars
<1>2. ReviewInv => ReviewInv'
  BY <1>1, ReviewLocally
<1>3. TxnFormInv => TxnFormInv'
  BY <1>1 DEF TxnFormInv, TxnShapes, TxnCounted, TxnForm!FormFollowsRow
<1>4. PlanFormInv => PlanFormInv'
  BY <1>1 DEF PlanFormInv, PlanShapes, PlanCalls, PlanCounted, PlanForm!FormFollowsBudget, PlanForm!Loaded
<1>5. PilesInv => PilesInv'
  BY <1>1 DEF PilesInv, Piles!FormIsTheEarmark, Piles!Known
<1>6. WalletsInv => WalletsInv'
  BY <1>1 DEF WalletsInv, WalletShapes, WalletCalls, WalletDrafts
<1>7. GoalsInv => GoalsInv'
  BY <1>1 DEF GoalsInv, GoalForm, GoalCalls, GoalDrafts, Goals!FormIsTheGoal, Goals!Loaded
<1>8. ReviewTold => ReviewTold'
  BY <1>1 DEF ReviewTold, ReviewShapes, BatchTold, RecordsTold, HintsTold, Import!Processing
<1>9. SharesInv => SharesInv'
  BY <1>1 DEF SharesInv, SharesTold
<1>10. RowsInv => RowsInv'
  BY <1>1, SameAskedFor DEF RowsInv, RowsTold
<1>11. PlansInv => PlansInv'
  BY <1>1 DEF PlansInv, PlansShapes, PlansTold
<1>12. PilesTold => PilesTold'
  BY <1>1 DEF PilesTold
<1>13. WalletsTold => WalletsTold'
  BY <1>1 DEF WalletsTold, WalletsShowing, ListTold, PanelTold, Wallets!Shown, Wallets!Unused, Wallets!MethodsOf
<1>14. GoalsTold => GoalsTold'
  BY <1>1 DEF GoalsTold, GoalsFresh, Goals!Answer, Goals!Total, Goals!Contributions
<1>15. FormInv => FormInv'
  BY <1>1, FormStutter
<1>16. DrawerInv => DrawerInv'
  BY <1>1, DrawerStutter
<1>17. PickerInv => PickerInv'
  BY <1>1, PickerStutter
<1>18. FormSaves => FormSaves'
  BY <1>1, SavesStutter
<1>19. WalkInv => WalkInv'
  BY <1>1, WalkStutter
<1> QED
  BY <1>1, <1>2, <1>3, <1>4, <1>5, <1>6, <1>7, <1>8, <1>9, <1>10, <1>11, <1>12, <1>13, <1>14,
     <1>15, <1>16, <1>17, <1>18, <1>19 DEF PagesInv

\* A visit or a session begins with the invariant,
LEMMA ClientInit == ASSUME NullsApart, Init PROVE ClientInv
BY VisitInit, OneTabInit, TwoTabsInit DEF ClientInv, SessionsInv, NullsApart

\* keeps it at each step,
LEMMA ClientStep == ASSUME NullsApart, ClientInv, Next PROVE ClientInv'
<1>1. CASE PageNext /\ UNCHANGED sessionVars
  <2>1. PagesInv' /\ page' = page
    BY <1>1, VisitStep DEF ClientInv
  <2>2. page \notin {"one tab", "two tabs"}
    BY <1>1 DEF PageNext
  <2> QED  BY <2>1, <2>2 DEF ClientInv, SessionsInv
<1>2. CASE SessionNext /\ UNCHANGED screenVars
  <2>1. PagesInv' /\ page' = page
    BY <1>2, VisitStutter DEF ClientInv, screenVars
  <2>2. CASE page = "one tab"
    BY <1>2, <2>1, <2>2, OneTabStep DEF SessionNext, ClientInv, SessionsInv, NullsApart
  <2>3. CASE page = "two tabs"
    BY <1>2, <2>1, <2>3, TwoTabsStep DEF SessionNext, ClientInv, SessionsInv, NullsApart
  <2> QED  BY <1>2, <2>2, <2>3 DEF SessionNext
<1> QED  BY <1>1, <1>2 DEF Next

\* and when nothing happens.
LEMMA ClientStutter == ASSUME ClientInv, UNCHANGED <<screenVars, sessionVars>> PROVE ClientInv'
<1>1. page' = page
  BY DEF screenVars
<1>2. PagesInv'
  BY VisitStutter DEF ClientInv
<1> QED  BY <1>1, <1>2, OneTabStutter, TwoTabsStutter DEF ClientInv, SessionsInv

\* What holds of any visit and of any session.
THEOREM ClientInvariance == ASSUME NullsApart PROVE Spec => []ClientInv
<1>1. Init => ClientInv
  BY ClientInit
<1>2. ClientInv /\ [Next]_<<screenVars, sessionVars>> => ClientInv'
  BY ClientStep, ClientStutter
<1> QED  BY <1>1, <1>2, PTL DEF Spec

\* On the review page a record is a transfer exactly when it has a destination.
THEOREM RecordsFit == ASSUME NullsApart PROVE Spec => []TransfersHaveDestinations
<1>1. ClientInv => TransfersHaveDestinations
  BY DEF ClientInv, PagesInv, ReviewInv, Statement, RowsFit, Fits, TransfersHaveDestinations,
     Import!TransfersHaveDestinations
<1> QED  BY <1>1, ClientInvariance, PTL

\* The forms of transactions, budgets, earmarks and savings goals show the row they
\* edit until the user changes them.
THEOREM FormsAreCurrent == ASSUME NullsApart PROVE Spec => []FormsFollowTheirRows
<1>1. ClientInv => FormsFollowTheirRows
  BY DEF ClientInv, PagesInv, TxnFormInv, PlanFormInv, PilesInv, GoalsInv, GoalForm, FormsFollowTheirRows
<1> QED  BY <1>1, ClientInvariance, PTL

\* A form visited, or a dialog filled in, makes one row at most unless an answer was lost.
THEOREM RowsAreMadeOnce == ASSUME NullsApart PROVE Spec => []OneRowPerVisit
<1>1. ASSUME ClientInv PROVE OneRowPerVisit
  <2>1. TxnFormInv => TxnForm!OneRowPerVisit
    BY DEF TxnFormInv, TxnCounted, TxnForm!OneRowPerVisit
  <2>2. PlanFormInv => PlanForm!OneBudgetPerVisit
    BY DEF PlanFormInv, PlanCounted, PlanForm!OneBudgetPerVisit
  <2>3. WalletsInv => Wallets!OneRowPerDraft
    BY DEF WalletsInv, WalletDrafts, Drafts, Wallets!OneRowPerDraft
  <2>4. GoalsInv => Goals!OneRowPerDraft
    BY DEF GoalsInv, GoalDrafts, Drafts, Goals!OneRowPerDraft
  <2> QED  BY <1>1, <2>1, <2>2, <2>3, <2>4 DEF ClientInv, PagesInv, OneRowPerVisit
<1> QED  BY <1>1, ClientInvariance, PTL

\* A savings goal is marked as completed exactly when its contributions reach its target.
THEOREM GoalsAreJudged == ASSUME NullsApart PROVE Spec => []CompletedMeansReached
<1>1. ClientInv => CompletedMeansReached
  BY DEF ClientInv, PagesInv, GoalsInv, GoalCalls, GoalRows, Reached, CompletedMeansReached,
     Goals!CompletedMeansReached
<1> QED  BY <1>1, ClientInvariance, PTL

\* What is sent once a scope was confirmed is the form as it was submitted.
THEOREM SubmittedIsSent == ASSUME NullsApart PROVE Spec => ConfirmedIsSubmitted
<1> DEFINE Kept ==
        page = "budgetForm" => \A k \in PlanForm!Slots :
            call[k] = Idle /\ call'[k] # Idle /\ call'[k].hook = "patch" /\ ~ui.behind =>
                call'[k].body.patch = PlanForm!PatchOf(ui.form)
<1>1. ASSUME ClientInv, [Next]_<<screenVars, sessionVars>> PROVE [Kept]_screenVars
  <2>1. CASE PageNext /\ page = "budgetForm"
    <3>1. PlanForm!BudgetFormNext
      BY <2>1 DEF PageNext
    <3>2. PlanAsks
      BY <1>1, <2>1, <3>1, PlanFormStep DEF ClientInv, PagesInv, NullsApart
    <3> QED  BY <3>2 DEF PlanAsks, PlanForm!Slots
  <2>2. CASE page # "budgetForm"
    BY <2>2
  <2> QED  BY <1>1, <2>1, <2>2 DEF Next
<1>2. ConfirmedIsSubmitted <=> [][Kept]_screenVars
  BY DEF ConfirmedIsSubmitted, PlanForm!ConfirmedIsSubmitted, PlanForm!screenVars, screenVars
<1> HIDE DEF Kept
<1> QED  BY <1>1, <1>2, ClientInvariance, PTL DEF Spec

\* In the split form an amount nobody has touched is what the linked payments bring.
THEOREM AmountsAreCurrent == ASSUME NullsApart PROVE Spec => []AmountMirrorsPayments
<1>1. ClientInv => AmountMirrorsPayments
  BY FormShown DEF ClientInv, PagesInv, AmountMirrorsPayments
<1> QED  BY <1>1, ClientInvariance, PTL

\* What the split form sends passes the arithmetic of the server's handlers, as long as
\* the amounts it works with are the transactions' own and nothing typed is finer than a cent.
THEOREM BodiesAddUp == ASSUME NullsApart PROVE Spec => SentBodiesFit
<1> DEFINE Kept ==
        page = "splitForm" =>
            \A k \in Form!Slots :
                Form!Submitted(k) /\ Form!WholeCents /\ (\A t \in Form!Referenced : seen.txn[t] = db.txn[t].amount) =>
                LET b == call'[k].body
                IN  Form!ValidBody(b.shares) /\ Form!BodyFits(db, b.expenses, b.shares, Form!FormCredit(b.split))
<1>1. ASSUME NullsApart, ClientInv, [Next]_<<screenVars, sessionVars>> PROVE [Kept]_screenVars
  <2>1. CASE PageNext /\ page = "splitForm"
    <3>1. Form!FormNext /\ FormInv
      BY <1>1, <2>1 DEF PageNext, ClientInv, PagesInv
    <3>2. Form!Slots = 1..SplitFormCase.calls
      BY DEF Form!Slots
    <3> QED  BY <1>1, <3>1, <3>2, FormFits DEF NullsApart, AmountsRight, Form!Submitted
  <2>2. CASE page # "splitForm"
    BY <2>2
  <2> QED  BY <1>1, <2>1, <2>2 DEF Next
<1>2. SentBodiesFit <=> [][Kept]_screenVars
  BY DEF SentBodiesFit, Form!SentBodiesFit, Form!screenVars, screenVars
<1> HIDE DEF Kept
<1> QED  BY <1>1, <1>2, ClientInvariance, PTL DEF Spec

\* Saving a split in which nothing was changed leaves its payments, the amounts forgiven
\* and the statuses as they were, if they were what saving leaves.
THEOREM UnchangedEditsKeep == ASSUME NullsApart PROVE Spec => UnchangedEditKeepsSplit
<1> DEFINE Kept ==
        page = "splitForm" =>
          \A k \in Form!Slots :
              /\ Form!Submitted(k) /\ ui.split # None
              /\ ui = Form!OpenedOn(db, ui.split) /\ Form!AsSaved(db, ui.split)
              => Form!SplitContent(Form!UpdateResult(call'[k].body).db, ui.split) = Form!SplitContent(db, ui.split)
<1>1. ASSUME NullsApart, ClientInv, [Next]_<<screenVars, sessionVars>> PROVE [Kept]_screenVars
  <2>1. CASE PageNext /\ page = "splitForm"
    <3>1. Form!FormNext /\ FormInv /\ FormSaves
      BY <1>1, <2>1 DEF PageNext, ClientInv, PagesInv
    <3>2. Form!Slots = 1..SplitFormCase.calls
      BY DEF Form!Slots
    <3> QED  BY <1>1, <3>1, <3>2, FormKeeps DEF NullsApart, Form!Submitted
  <2>2. CASE page # "splitForm"
    BY <2>2
  <2> QED  BY <1>1, <2>1, <2>2 DEF Next
<1>2. UnchangedEditKeepsSplit <=> [][Kept]_screenVars
  BY DEF UnchangedEditKeepsSplit, Form!UnchangedEditKeepsSplit, Form!screenVars, screenVars
<1> HIDE DEF Kept
<1> QED  BY <1>1, <1>2, ClientInvariance, PTL DEF Spec

\* What is sent from the drawer fits into the share by the server's own reckoning,
\* whenever the drawer shows the split, and knows the payment, as they are.
THEOREM DrawerSendsWhatFits == ASSUME NullsApart PROVE Spec => DrawerAmountsFit
<1> DEFINE Kept ==
        page = "splitShares" =>
          \A k \in Shares!Slots :
              call[k] = Idle /\ ui.view = "drawer" /\ seen.split = Shares!SplitView(db) =>
              LET b == call'[k].body
              IN  /\ Shares!SentNow(k, "settle") /\ seen.txn[b.txn] = db.txn[b.txn].amount =>
                        Shares!Paid(db, b.share) + db.share[b.share].forgiven + Shares!CreditOf(b)
                            <= db.share[b.share].amount
                  /\ Shares!SentNow(k, "forgive") => Shares!ForgiveShareOk(db, b.share, b.amount)
<1>1. ASSUME NullsApart, ClientInv, [Next]_<<screenVars, sessionVars>> PROVE [Kept]_screenVars
  <2>1. CASE PageNext /\ page = "splitShares"
    <3>1. Shares!ShareNext /\ DrawerInv
      BY <1>1, <2>1 DEF PageNext, ClientInv, PagesInv
    <3>2. SharesSent
      BY <1>1, <3>1, DrawerStep DEF NullsApart
    <3>3. ASSUME NEW k \in Shares!Slots, ui.view = "drawer", seen.split = Shares!SplitView(db), NEW b, b = call'[k].body
          PROVE  /\ Shares!SentNow(k, "settle") /\ seen.txn[b.txn] = db.txn[b.txn].amount =>
                       Shares!Paid(db, b.share) + db.share[b.share].forgiven + Shares!CreditOf(b)
                           <= db.share[b.share].amount
                 /\ Shares!SentNow(k, "forgive") => Shares!ForgiveShareOk(db, b.share, b.amount)
      <4>1. /\ Shares!SentNow(k, "settle") => \E h : SettleSent(h, b)
            /\ Shares!SentNow(k, "forgive") => \E h : ForgiveSent(h, b)
        BY <3>2, <3>3 DEF SharesSent, SentOf, Shares!SentNow, Shares!Slots
      <4>2. ASSUME NEW h
            PROVE  /\ SettleSent(h, b) /\ seen.txn[b.txn] = db.txn[b.txn].amount =>
                         Shares!Paid(db, b.share) + db.share[b.share].forgiven + Shares!CreditOf(b)
                             <= db.share[b.share].amount
                   /\ ForgiveSent(h, b) => Shares!ForgiveShareOk(db, b.share, b.amount)
        BY <1>1, <3>1, <3>3, DrawerFits DEF NullsApart
      <4> QED  BY <4>1, <4>2
    <3> QED  BY <3>3
  <2>2. CASE page # "splitShares"
    BY <2>2
  <2> QED  BY <1>1, <2>1, <2>2 DEF Next
<1>2. DrawerAmountsFit <=> [][Kept]_screenVars
  BY DEF DrawerAmountsFit, Shares!DrawerAmountsFit, Shares!screenVars, screenVars
<1> HIDE DEF Kept
<1> QED  BY <1>1, <1>2, ClientInvariance, PTL DEF Spec

\* On every page, once nothing is under way and no answer was lost, each query in use
\* shows what the server has.
THEOREM ScreensAreCurrent == ASSUME NullsApart PROVE Spec => []ScreenCurrent
<1>1. ClientInv => ScreenCurrent
  BY ReviewShown, SharesShown, RowsShown, PilesShown, PlansShown, WalletsShown, GoalsShown
     DEF ClientInv, PagesInv, ScreenCurrent
<1> QED  BY <1>1, ClientInvariance, PTL

\* Who turned the pages of the list to the last was shown every row that matches.
THEOREM WalksShowAll == ASSUME NullsApart PROVE Spec => []WalkShowsAll
<1>1. ClientInv => WalkShowsAll
  BY WalkShown DEF ClientInv, PagesInv, WalkShowsAll
<1> QED  BY <1>1, ClientInvariance, PTL

\* Whatever is picked, the days asked for are those of one whole week, month, quarter or
\* year of the calendar, or the days clicked, and the weeks offered hold the month shown.
THEOREM PeriodsAreWhole == ASSUME NullsApart PROVE Spec => []PeriodIsWhole
<1>1. ClientInv => PeriodIsWhole
  <2>1. None \notin Int
    BY DEF NullsApart, NoAmount
  <2> QED  BY <2>1, PickedIsWhole DEF ClientInv, PagesInv, PeriodIsWhole
<1> QED  BY <1>1, ClientInvariance, PTL

\* In each browser the refresh token kept is good, arrives or was lost.
THEOREM KeptTokensAreGood == ASSUME NullsApart PROVE Spec => []StoredTokenIsGood
<1>1. ClientInv => StoredTokenIsGood
  BY OneTabGood, TwoTabsGood DEF ClientInv, SessionsInv, StoredTokenIsGood
<1> QED  BY <1>1, ClientInvariance, PTL

\* In each browser a refresh that is refused has a reason.
THEOREM RefusalsAreJustified == ASSUME NullsApart PROVE Spec => []RefusedForAReason
<1>1. ClientInv => RefusedForAReason
  BY OneTabGood, TwoTabsGood DEF ClientInv, SessionsInv, RefusedForAReason
<1> QED  BY <1>1, ClientInvariance, PTL

\* In each browser a call is done at most once.
THEOREM RepeatsAreDoneOnce == ASSUME NullsApart PROVE Spec => []DoneAtMostOnce
<1>1. ClientInv => DoneAtMostOnce
  BY OneTabGood, TwoTabsGood DEF ClientInv, SessionsInv, DoneAtMostOnce
<1> QED  BY <1>1, ClientInvariance, PTL
=============================================================================
