----------------------------- MODULE ScreenProofs -----------------------------
(***************************************************************************)
(* What the pages of Client show is what the server has, for any visit;    *)
(* what the split form shows and sends adds up, and what the split drawer  *)
(* sends fits the share.                                                   *)
(*                                                                         *)
(* A query may be behind the server for two reasons only, as long as no    *)
(* answer was lost: it is going to be fetched, or a call is under way that *)
(* the server did and whose callbacks will have it fetched.  Nothing else  *)
(* is left when no call is under way and nothing is to be fetched.         *)
(***************************************************************************)
EXTENDS PageProofs

\* A query that has had no answer does not hold a table.
NoTable == NoData # [x \in DOMAIN NoData |-> NoData[x]]

\* A call of one of the hooks H was done, and its callbacks are still to run.
Owed(n, c, H) == \E k \in 1..n : Going(c[k]) /\ c[k].state = "done" /\ c[k].hook \in H

\* That is so once the server did it,
LEMMA OwedNow ==
    ASSUME NoCalls, NEW n \in Nat, NEW c, Calling(n, c), NEW k \in 1..n, Going(c[k]),
           NEW d, Restated(c, d, k, "done"), NEW H, c[k].hook \in H
    PROVE  Owed(n, d, H)
<1>1. Going(d[k]) /\ d[k].state = "done" /\ Carries(c[k], d[k])
  BY RestatedRows
<1> QED  BY <1>1 DEF Owed, Carries

\* and such a call stays one while others are sent, go on or are over.
LEMMA DoneGoesOn ==
    ASSUME NoCalls, NEW n \in Nat, NEW c, Calling(n, c), NEW d,
           NEW j \in 1..n, Going(c[j]), c[j].state = "done",
           \/ d = c
           \/ \E h, b : Begun(n, c, d, h, b)
           \/ \E k \in 1..n :
                 k # j /\ Going(c[k]) /\ ((\E s : Restated(c, d, k, s)) \/ Dropped(n, c, d, k))
    PROVE  \E i \in 1..n : Going(d[i]) /\ d[i].state = "done" /\ Carries(c[j], d[i])
<1>2. CASE d = c
  BY <1>2 DEF Carries
<1>3. CASE \E h, b : Begun(n, c, d, h, b)
  <2>1. PICK h, b : Begun(n, c, d, h, b)
    BY <1>3
  <2>2. PICK new \in 1..n :
           /\ ~Going(c[new]) /\ Going(d[new])
           /\ d[new] = [hook |-> h, body |-> b, state |-> "sent", awaits |-> {}, heard |-> TRUE]
           /\ \A i \in 1..n : i # new =>
                 /\ Going(d[i]) <=> Going(c[i])
                 /\ ~Mine(c[i], h) => d[i] = c[i]
                 /\ Mine(c[i], h) => Carries(c[i], d[i]) /\ d[i].state = c[i].state /\ ~d[i].heard
    BY <2>1, BegunRows
  <2>3. j # new
    BY <2>2
  <2>4. Going(d[j]) /\ d[j].state = "done" /\ Carries(c[j], d[j])
    BY <2>2, <2>3 DEF Carries
  <2> QED  BY <2>4
<1>4. ASSUME NEW k \in 1..n, k # j, Going(c[k]), (\E s : Restated(c, d, k, s)) \/ Dropped(n, c, d, k)
      PROVE  \E i \in 1..n : Going(d[i]) /\ d[i].state = "done" /\ Carries(c[j], d[i])
  <2>2. CASE \E s : Restated(c, d, k, s)
    <3>1. d[j] = c[j]
      BY <1>4, <2>2, RestatedRows
    <3> QED  BY <3>1 DEF Carries
  <2>3. CASE Dropped(n, c, d, k)
    <3>1. After(k, j) \in 1..n /\ d[After(k, j)] = c[j]
      BY <1>4, <2>3, DroppedRows
    <3> QED  BY <3>1 DEF Carries
  <2> QED  BY <1>4, <2>2, <2>3
<1> QED  BY <1>2, <1>3, <1>4

\* So an answer owed stays so until the callbacks of its last call ran,
LEMMA OwedStays ==
    ASSUME NoCalls, NEW n \in Nat, NEW c, Calling(n, c), NEW d, NEW H, Owed(n, c, H),
           \/ d = c
           \/ \E h, b : Begun(n, c, d, h, b)
           \/ \E k \in 1..n :
                 /\ Going(c[k]) /\ (c[k].state # "done" \/ c[k].hook \notin H)
                 /\ (\E s : Restated(c, d, k, s)) \/ Dropped(n, c, d, k)
    PROVE  Owed(n, d, H)
<1>1. PICK j \in 1..n : Going(c[j]) /\ c[j].state = "done" /\ c[j].hook \in H
  BY DEF Owed
<1>2. \/ d = c
      \/ \E h, b : Begun(n, c, d, h, b)
      \/ \E k \in 1..n :
            k # j /\ Going(c[k]) /\ ((\E s : Restated(c, d, k, s)) \/ Dropped(n, c, d, k))
  BY Zenon, <1>1
<1>3. PICK i \in 1..n : Going(d[i]) /\ d[i].state = "done" /\ Carries(c[j], d[i])
  BY <1>1, <1>2, DoneGoesOn
<1> QED  BY <1>1, <1>3 DEF Owed, Carries

\* A query q that is to be fetched, or for which a call of H is owed, stays so: of the
\* queries due were it is still in are, and calls of H have it fetched when they return.
Reminded(n, c, d, H, q, were, are) ==
    /\ q \in were => q \in are
    /\ \/ d = c
       \/ \E h, b : Begun(n, c, d, h, b)
       \/ \E k \in 1..n :
             /\ Going(c[k]) /\ ((\E s : Restated(c, d, k, s)) \/ Dropped(n, c, d, k))
             /\ c[k].state = "done" /\ c[k].hook \in H => q \in are

\* and so a query that is behind stays one that is going to be fetched.
LEMMA StillReminded ==
    ASSUME NoCalls, NEW n \in Nat, NEW c, Calling(n, c), NEW d, NEW H, NEW q, NEW were, NEW are,
           Reminded(n, c, d, H, q, were, are), q \in were \/ Owed(n, c, H)
    PROVE  q \in are \/ Owed(n, d, H)
<1> SUFFICES ASSUME q \notin are PROVE Owed(n, d, H)
  OBVIOUS
<1>1. Owed(n, c, H)
  BY DEF Reminded
<1>2. CASE d = c \/ \E h, b : Begun(n, c, d, h, b)
  BY <1>1, <1>2, OwedStays
<1>3. CASE \E k \in 1..n :
             /\ Going(c[k]) /\ ((\E s : Restated(c, d, k, s)) \/ Dropped(n, c, d, k))
             /\ c[k].state = "done" /\ c[k].hook \in H => q \in are
  <2>1. PICK k \in 1..n :
             /\ Going(c[k]) /\ ((\E s : Restated(c, d, k, s)) \/ Dropped(n, c, d, k))
             /\ c[k].state = "done" /\ c[k].hook \in H => q \in are
    BY <1>3
  <2>2. c[k].state # "done" \/ c[k].hook \notin H
    BY <2>1
  <2> QED  BY <1>1, <2>1, <2>2, OwedStays
<1> QED  BY <1>2, <1>3 DEF Reminded

\* When no call is under way none is owed.
LEMMA NoneOwed == ASSUME NEW n, NEW c, NEW H, \A k \in 1..n : ~Going(c[k]) PROVE ~Owed(n, c, H)
BY DEF Owed

-----------------------------------------------------------------------------
(***************************************************************************)
(* The list of earmarks: every call has it fetched.                        *)
(***************************************************************************)
PilesTold ==
    ~lost => seen.list = db \/ "list" \in due \/ Owed(EarmarksCase.calls, call, PilesHooks)

\* A step that leaves the list and the tables alone keeps it so.
LEMMA PilesReminded ==
    ASSUME NoCalls, PilesInv, PilesTold, UNCHANGED db, lost => lost', seen'.list = seen.list,
           Reminded(EarmarksCase.calls, call, call', PilesHooks, "list", due, due')
    PROVE  PilesTold'
<1> DEFINE n == EarmarksCase.calls
<1>1. n \in Nat /\ Calling(n, call)
  BY ClientAssumption DEF PilesInv, Hooks
<1> HIDE DEF n
<1>2. "list" \in due \/ Owed(n, call, PilesHooks) => "list" \in due' \/ Owed(n, call', PilesHooks)
  BY <1>1, StillReminded DEF n
<1> QED  BY <1>2 DEF PilesTold, n

\* One more call.
LEMMA PilesBegun ==
    ASSUME NoCalls, NEW h, NEW b, Piles!Mutate(h, b)
    PROVE  Begun(EarmarksCase.calls, call, call', h, b)
<1> DEFINE n == EarmarksCase.calls
<1>1. Piles!Free # {} /\ Piles!Free \subseteq Nat /\ \A k \in Piles!Free : k \in 1..n /\ call[k] = Idle
  BY ClientAssumption DEF Piles!Mutate, Piles!Free, Piles!Slots
<1>2. Piles!Min(Piles!Free) \in Piles!Free /\ \A j \in Piles!Free : Piles!Min(Piles!Free) <= j
  BY <1>1, LeastIsIn DEF Piles!Min
<1>3. \A j \in 1..n : call[j] = Idle => j \in Piles!Free
  BY DEF Piles!Free, Piles!Slots
<1> QED
  BY <1>1, <1>2, <1>3 DEF Piles!Mutate, Piles!Started, Piles!Slots, Piles!Running, Begun, Going

\* What the user does changes neither, and has nothing but an earmark forgotten,
LEMMA PilesTellsUser == ASSUME NoCalls, PilesInv, PilesTold, Piles!EarmarkUser PROVE PilesTold'
<1>1. /\ UNCHANGED <<db, seen, lost>> /\ ("list" \in due => "list" \in due')
      /\ call' = call \/ \E h, b : Piles!Mutate(h, b)
  <2>1. CASE \E id : Piles!OpenDrawer(id)
    BY <2>1 DEF Piles!OpenDrawer
  <2>2. CASE \E h, b : Piles!Sends(h, b)
    BY <2>2 DEF Piles!Sends
  <2>3. CASE \E new : Piles!Locally(new)
    BY <2>3 DEF Piles!Locally
  <2> QED
    BY <2>1, <2>2, <2>3
    DEF Piles!EarmarkUser, Piles!HandleCreate, Piles!HandleEdit, Piles!HandleToggle, Piles!AskDelete,
        Piles!ConfirmDelete, Piles!CancelDelete, Piles!CloseDrawer, Piles!Edited, Piles!TypeAmount,
        Piles!TypeNote, Piles!HandleSubmit, Piles!ToggleInDrawer, Piles!AskDeleteInDrawer,
        Piles!ConfirmInDrawer, Piles!CancelInDrawer
<1>2. (\E h, b : Piles!Mutate(h, b)) => \E h, b : Begun(EarmarksCase.calls, call, call', h, b)
  BY PilesBegun
<1>3. Reminded(EarmarksCase.calls, call, call', PilesHooks, "list", due, due')
  BY <1>1, <1>2 DEF Reminded
<1> QED  BY <1>1, <1>3, PilesReminded

\* what the server does is owed,
LEMMA PilesTellsServed ==
    ASSUME NoCalls, PilesInv, PilesTold, NEW k \in 1..EarmarksCase.calls, Going(call[k]),
           Piles!ServeEarmark(k) \/ Piles!AnswerEarmark(k) \/ Piles!Fails(k, ui)
    PROVE  PilesTold'
<1> DEFINE n == EarmarksCase.calls
<1>1. n \in Nat /\ Calling(n, call) /\ call[k].hook \in PilesHooks
  BY ClientAssumption DEF PilesInv, Hooks
<1>2. CASE Piles!ServeEarmark(k)
  <2>1. Restated(call, call', k, "done")
    BY <1>2 DEF Piles!ServeEarmark, Piles!Serve, Restated
  <2> HIDE DEF n
  <2>2. Owed(n, call', PilesHooks)
    BY <1>1, <2>1, OwedNow DEF n
  <2> QED  BY <2>2 DEF PilesTold, n
<1>3. CASE Piles!AnswerEarmark(k)
  BY <1>3 DEF Piles!AnswerEarmark, Piles!Returns, Piles!InvalidatedByEarmark, PilesTold
<1>4. CASE Piles!Fails(k, ui)
  <2>1. /\ UNCHANGED <<db, seen, due>> /\ Dropped(n, call, call', k)
        /\ lost' = (lost \/ call[k].state = "done")
    BY <1>4 DEF Piles!Fails, Piles!Without, Piles!Slots, Dropped
  <2>2. CASE call[k].state = "done"
    BY <2>1, <2>2 DEF PilesTold
  <2>3. CASE call[k].state # "done"
    <3>1. Reminded(n, call, call', PilesHooks, "list", due, due')
      BY <2>1, <2>3 DEF Reminded
    <3>2. lost => lost'
      BY Zenon, <2>1
    <3> QED  BY <2>1, <3>1, <3>2, PilesReminded
  <2> QED  BY <2>2, <2>3
<1> QED  BY <1>2, <1>3, <1>4

\* and the list fetched is the server's.
LEMMA PilesTells == ASSUME NoCalls, PilesInv, PilesTold, Piles!EarmarkNext PROVE PilesTold'
<1>1. CASE Piles!FetchList
  BY <1>1 DEF Piles!FetchList, PilesInv, PilesTold
<1>2. CASE Piles!FetchItem \/ Piles!FetchItemFails
  <2>1. UNCHANGED <<db, lost, call>> /\ seen'.list = seen.list /\ ("list" \in due => "list" \in due')
    BY <1>2 DEF Piles!FetchItem, Piles!FetchItemFails, PilesInv
  <2> QED  BY <2>1, PilesReminded DEF Reminded
<1>3. ASSUME NEW k \in Piles!Slots, Piles!ServeEarmark(k) \/ Piles!AnswerEarmark(k) \/ Piles!Fails(k, ui)
      PROVE  k \in 1..EarmarksCase.calls /\ Going(call[k])
  BY <1>3 DEF Piles!Slots, Piles!ServeEarmark, Piles!AnswerEarmark, Piles!Fails, Piles!Running, Going
<1> QED  BY <1>1, <1>2, <1>3, PilesTellsUser, PilesTellsServed DEF Piles!EarmarkNext

\* Where nothing is under way the list is the server's.
LEMMA PilesShown == ASSUME PilesTold PROVE Piles!EarmarksCurrent
<1>1. (\A k \in Piles!Slots : ~Piles!Running(k)) => ~Owed(EarmarksCase.calls, call, PilesHooks)
  BY NoneOwed DEF Piles!Slots, Piles!Running, Going
<1> QED  BY <1>1 DEF PilesTold, Piles!EarmarksCurrent

\* The invariant holds when the page is opened,
LEMMA PilesToldInit == ASSUME Piles!EarmarkInit PROVE PilesTold
<1>1. due = {"list"}
  BY DEF Piles!EarmarkInit
<1> QED  BY <1>1 DEF PilesTold
-----------------------------------------------------------------------------
(***************************************************************************)
(* The list of budgets, of the period chosen.                              *)
(***************************************************************************)
PlansHooks == {"create", "delete"}

IsPlansUi(u) ==
    u = [period |-> u.period, creating |-> u.creating, form |-> u.form, changes |-> u.changes,
         target |-> u.target, scope |-> u.scope, drawer |-> u.drawer]

PlansShapes ==
    /\ Hooks(BudgetsCase.calls, call, PlansHooks)
    /\ IsPlansUi(ui) /\ ui.period \in Plans!Periods
    /\ seen = [list |-> seen.list, item |-> seen.item]
    /\ seen.list = [p \in Plans!Periods |-> seen.list[p]]

PlansTold ==
    ~lost => \/ seen.list[ui.period] = Plans!ListOf(db, ui.period)
             \/ "list" \in due
             \/ Owed(BudgetsCase.calls, call, PlansHooks)

PlansInv == PlansShapes /\ PlansTold

\* The calls a step leaves are those of the page,
LEMMA PlansCalls ==
    ASSUME NoCalls, PlansShapes,
           \/ call' = call
           \/ \E h \in PlansHooks : \E b : Plans!Mutate(h, b)
           \/ \E k \in 1..BudgetsCase.calls :
                 /\ Going(call[k])
                 /\ call' = Plans!Without(k) \/ \E s : call' = [call EXCEPT ![k].state = s]
    PROVE  /\ Hooks(BudgetsCase.calls, call', PlansHooks)
           /\ \A h, b : Plans!Mutate(h, b) => Begun(BudgetsCase.calls, call, call', h, b)
<1> DEFINE n == BudgetsCase.calls
<1>1. n \in Nat /\ Hooks(n, call, PlansHooks)
  BY ClientAssumption DEF PlansShapes
<1>2. ASSUME NEW h, NEW b, Plans!Mutate(h, b) PROVE Begun(n, call, call', h, b)
  <2>1. Plans!Free # {} /\ Plans!Free \subseteq Nat /\ \A k \in Plans!Free : k \in 1..n /\ call[k] = Idle
    BY <1>2 DEF Plans!Mutate, Plans!Free, Plans!Slots
  <2>2. Plans!Min(Plans!Free) \in Plans!Free /\ \A j \in Plans!Free : Plans!Min(Plans!Free) <= j
    BY <2>1, LeastIsIn DEF Plans!Min
  <2>3. \A j \in 1..n : call[j] = Idle => j \in Plans!Free
    BY DEF Plans!Free, Plans!Slots
  <2> QED
    BY <1>2, <2>1, <2>2, <2>3 DEF Plans!Mutate, Plans!Started, Plans!Slots, Plans!Running, Begun, Going
<1>3. \/ call' = call
      \/ \E h \in PlansHooks : \E b : Begun(n, call, call', h, b)
      \/ \E k \in 1..n : Going(call[k]) /\ ((\E s : Restated(call, call', k, s)) \/ Dropped(n, call, call', k))
  BY <1>2 DEF Plans!Without, Plans!Slots, Dropped, Restated
<1> HIDE DEF n
<1>4. Hooks(n, call', PlansHooks)
  BY <1>1, <1>3, HooksStay
<1> QED  BY <1>2, <1>4 DEF n

\* and one that leaves the period, its list and the tables alone keeps the invariant.
LEMMA PlansReminded ==
    ASSUME NoCalls, PlansInv, IsPlansUi(ui'), ui'.period = ui.period, UNCHANGED db, lost => lost',
           Hooks(BudgetsCase.calls, call', PlansHooks),
           seen' = [list |-> seen.list, item |-> seen'.item],
           Reminded(BudgetsCase.calls, call, call', PlansHooks, "list", due, due')
    PROVE  PlansInv'
<1> DEFINE n == BudgetsCase.calls
<1>1. n \in Nat /\ Calling(n, call)
  BY ClientAssumption DEF PlansInv, PlansShapes, Hooks
<1> HIDE DEF n
<1>2. "list" \in due \/ Owed(n, call, PlansHooks) => "list" \in due' \/ Owed(n, call', PlansHooks)
  BY <1>1, StillReminded DEF n
<1>3. seen'.list = seen.list
  OBVIOUS
<1> QED  BY <1>2, <1>3 DEF PlansInv, PlansShapes, PlansTold, n

\* What the user does leaves the list alone, but for another period,
LEMMA PlansUser == ASSUME NoCalls, PlansInv, Plans!BudgetUser PROVE PlansInv'
<1> DEFINE n == BudgetsCase.calls
<1>1. /\ ui = [period |-> ui.period, creating |-> ui.creating, form |-> ui.form, changes |-> ui.changes,
               target |-> ui.target, scope |-> ui.scope, drawer |-> ui.drawer]
      /\ seen = [list |-> seen.list, item |-> seen.item] /\ PlansShapes
  BY DEF PlansInv, PlansShapes, IsPlansUi
<1>2. CASE \E p \in Plans!Periods : Plans!ChoosePeriod(p)
  <2>1. /\ IsPlansUi(ui') /\ ui'.period \in Plans!Periods /\ "list" \in due'
        /\ UNCHANGED <<call, seen>>
    BY <1>1, <1>2 DEF Plans!ChoosePeriod, IsPlansUi
  <2> QED  BY <1>1, <2>1 DEF PlansInv, PlansShapes, PlansTold
<1>3. CASE (\E b : Plans!OpenBudget(b)) \/ Plans!CloseBudget
  <2>1. /\ IsPlansUi(ui') /\ ui'.period = ui.period /\ UNCHANGED <<call, db, lost>>
        /\ "list" \in due => "list" \in due'
        /\ seen' = [list |-> seen.list, item |-> seen'.item]
    <3>1. CASE \E b : Plans!OpenBudget(b)
      BY <1>1, <3>1 DEF Plans!OpenBudget, IsPlansUi
    <3>2. CASE Plans!CloseBudget
      BY <1>1, <3>2 DEF Plans!CloseBudget, IsPlansUi
    <3> QED  BY <1>3, <3>1, <3>2
  <2> QED  BY <1>1, <2>1, PlansCalls, PlansReminded DEF Reminded
<1>4. CASE \E h \in PlansHooks : \E b : Plans!Sends(h, b)
  <2>1. PICK h, b : h \in PlansHooks /\ Plans!Sends(h, b)
    BY <1>4
  <2>2. Plans!Mutate(h, b) /\ UNCHANGED <<db, seen, due, ui, lost>>
    BY <2>1 DEF Plans!Sends
  <2>3. Hooks(n, call', PlansHooks) /\ Begun(n, call, call', h, b)
    BY <1>1, <2>1, <2>2, PlansCalls
  <2>4. Reminded(n, call, call', PlansHooks, "list", due, due')
    BY <2>2, <2>3 DEF Reminded
  <2>5. IsPlansUi(ui') /\ ui'.period = ui.period /\ lost' = lost /\ seen' = [list |-> seen.list, item |-> seen'.item]
    BY <1>1, <2>2 DEF IsPlansUi
  <2> HIDE DEF n
  <2> QED  BY <2>2, <2>3, <2>4, <2>5, PlansReminded DEF n
<1>5. CASE \E new : Plans!Locally(new) /\ IsPlansUi(new) /\ new.period = ui.period
  BY <1>1, <1>5, PlansCalls, PlansReminded DEF Plans!Locally, Reminded
<1>6. \/ Plans!OpenCreate \/ Plans!CloseCreate \/ (\E form : Plans!Edited(form)) \/ Plans!CancelDelete
      \/ (\E b : Plans!AskDelete(b)) \/ (\E scope : Plans!ChooseScope(scope))
      => \E new : Plans!Locally(new) /\ IsPlansUi(new) /\ new.period = ui.period
  <2> SUFFICES ASSUME NEW new,
                      \/ \E b : new = [ui EXCEPT !.target = b]
                      \/ \E s : new = [ui EXCEPT !.scope = s]
                      \/ \E b, s : new = [ui EXCEPT !.target = b, !.scope = s]
                      \/ \E form, i : new = [ui EXCEPT !.form = form, !.changes = i]
                      \/ \E c : new = [Plans!ResetForm(ui) EXCEPT !.creating = c]
               PROVE  IsPlansUi(new) /\ new.period = ui.period
    BY Zenon DEF Plans!OpenCreate, Plans!CloseCreate, Plans!Edited, Plans!CancelDelete, Plans!AskDelete,
       Plans!ChooseScope
  <2>1. CASE \E b : new = [ui EXCEPT !.target = b]
    BY <1>1, <2>1 DEF IsPlansUi
  <2>2. CASE \E s : new = [ui EXCEPT !.scope = s]
    BY <1>1, <2>2 DEF IsPlansUi
  <2>3. CASE \E b, s : new = [ui EXCEPT !.target = b, !.scope = s]
    BY <1>1, <2>3 DEF IsPlansUi
  <2>4. CASE \E form, i : new = [ui EXCEPT !.form = form, !.changes = i]
    BY <1>1, <2>4 DEF IsPlansUi
  <2>5. CASE \E c : new = [Plans!ResetForm(ui) EXCEPT !.creating = c]
    BY <1>1, <2>5 DEF IsPlansUi, Plans!ResetForm
  <2> QED  BY <2>1, <2>2, <2>3, <2>4, <2>5
<1>7. Plans!HandleCreate \/ Plans!HandleDelete => \E h \in PlansHooks : \E b : Plans!Sends(h, b)
  BY DEF PlansHooks, Plans!HandleCreate, Plans!HandleDelete
<1>8. \/ (\E type \in {"adhoc", "recurring"} : Plans!ChooseType(type))
      \/ (\E kind \in {"predefined", "custom"} : Plans!ChooseSchedule(kind))
      \/ (\E rule \in BudgetsCase.rules : Plans!ChoosePredefined(rule))
      \/ (\E i \in BudgetsCase.days : Plans!TypeDays(i))
      => \E form : Plans!Edited(form)
  BY Zenon DEF Plans!ChooseType, Plans!ChooseSchedule, Plans!ChoosePredefined, Plans!TypeDays
<1> QED  BY <1>2, <1>3, <1>4, <1>5, <1>6, <1>7, <1>8 DEF Plans!BudgetUser

\* what the server does is owed, and what comes back has it fetched, also after a
\* created budget was put into the list,
LEMMA PlansServed ==
    ASSUME NoCalls, PlansInv, NEW k \in 1..BudgetsCase.calls, Going(call[k]),
           Plans!ServeBudget(k) \/ Plans!AnswerBudget(k) \/ Plans!Fails(k, Plans!FailedBudget(k))
    PROVE  PlansInv'
<1> DEFINE n == BudgetsCase.calls
<1>1. n \in Nat /\ Calling(n, call) /\ call[k].hook \in PlansHooks /\ PlansShapes
  BY ClientAssumption DEF PlansInv, PlansShapes, Hooks
<1>2. /\ ui = [period |-> ui.period, creating |-> ui.creating, form |-> ui.form, changes |-> ui.changes,
               target |-> ui.target, scope |-> ui.scope, drawer |-> ui.drawer]
      /\ seen = [list |-> seen.list, item |-> seen.item]
      /\ seen.list = [p \in Plans!Periods |-> seen.list[p]]
  BY <1>1 DEF PlansShapes, IsPlansUi
<1>3. Hooks(n, call', PlansHooks)
  <2>1. call' = Plans!Without(k) \/ \E s : call' = [call EXCEPT ![k].state = s]
    BY DEF Plans!ServeBudget, Plans!AnswerBudget, Plans!Fails, Plans!Serve
  <2> QED  BY <1>1, <2>1, PlansCalls
<1>4. ASSUME NEW new, new = [Plans!ResetForm(ui) EXCEPT !.creating = FALSE]
      PROVE  IsPlansUi(new) /\ new.period = ui.period
  BY <1>2, <1>4 DEF IsPlansUi, Plans!ResetForm
<1>5. ASSUME NEW new, new = [ui EXCEPT !.target = None, !.scope = Plans!DefaultScope]
      PROVE  IsPlansUi(new) /\ new.period = ui.period
  BY <1>2, <1>5 DEF IsPlansUi
<1>6. CASE Plans!ServeBudget(k)
  <2>1. Restated(call, call', k, "done") /\ UNCHANGED <<seen, ui>>
    BY <1>6 DEF Plans!ServeBudget, Plans!Serve, Restated
  <2>2. Owed(n, call', PlansHooks)
    <3> HIDE DEF n
    <3> QED  BY <1>1, <2>1, OwedNow DEF n
  <2> QED  BY <1>1, <1>3, <2>1, <2>2 DEF PlansInv, PlansShapes, PlansTold
<1>7. CASE Plans!AnswerBudget(k)
  <2>1. /\ "list" \in due' /\ ui' = Plans!HeardBudget(k) /\ seen' = Plans!WithCreated(k)
    BY <1>7 DEF Plans!AnswerBudget, Plans!InvalidatedByBudget
  <2>2. IsPlansUi(ui') /\ ui'.period = ui.period
    BY <1>4, <1>5, <2>1 DEF Plans!HeardBudget
  <2>3. /\ seen' = [list |-> seen'.list, item |-> seen'.item]
        /\ seen'.list = [p \in Plans!Periods |-> seen'.list[p]]
    <3>1. CASE seen' = seen
      BY <1>2, <3>1
    <3>2. CASE \E p, new : seen' = [seen EXCEPT !.list[p] = new]
      <4>1. PICK p, new : seen' = [seen EXCEPT !.list[p] = new]
        BY <3>2
      <4>2. seen' = [list |-> [seen.list EXCEPT ![p] = new], item |-> seen.item]
        BY <1>2, <4>1
      <4> QED  BY <1>2, <4>2
    <3> QED  BY <2>1, <3>1, <3>2 DEF Plans!WithCreated
  <2> QED  BY <1>1, <1>3, <2>1, <2>2, <2>3 DEF PlansInv, PlansShapes, PlansTold
<1>8. CASE Plans!Fails(k, Plans!FailedBudget(k))
  <2>1. /\ UNCHANGED <<db, seen, due>> /\ Dropped(n, call, call', k) /\ ui' = Plans!FailedBudget(k)
        /\ lost' = (lost \/ call[k].state = "done")
    BY <1>8 DEF Plans!Fails, Plans!Without, Plans!Slots, Dropped
  <2>2. IsPlansUi(ui') /\ ui'.period = ui.period
    BY <1>1, <1>5, <2>1 DEF Plans!FailedBudget, PlansShapes
  <2>3. CASE call[k].state = "done"
    BY <1>1, <1>3, <2>1, <2>2, <2>3 DEF PlansInv, PlansShapes, PlansTold
  <2>4. CASE call[k].state # "done"
    <3>1. Reminded(n, call, call', PlansHooks, "list", due, due')
      BY <2>1, <2>4 DEF Reminded
    <3>2. lost => lost'
      BY Zenon, <2>1
    <3>3. seen' = [list |-> seen.list, item |-> seen'.item]
      BY <1>2, <2>1
    <3> HIDE DEF n
    <3> QED  BY <1>3, <2>1, <2>2, <3>1, <3>2, <3>3, PlansReminded DEF n
  <2> QED  BY <2>3, <2>4
<1> QED  BY <1>6, <1>7, <1>8

\* and the list fetched is the server's.
LEMMA PlansFetched == ASSUME NoCalls, PlansInv, Plans!FetchList \/ Plans!FetchItem PROVE PlansInv'
<1>1. /\ seen = [list |-> seen.list, item |-> seen.item] /\ PlansShapes
      /\ seen.list = [p \in Plans!Periods |-> seen.list[p]] /\ ui.period \in Plans!Periods
  BY DEF PlansInv, PlansShapes
<1>2. CASE Plans!FetchList
  <2> DEFINE answer == Plans!ListOf(db, ui.period)
  <2>1. seen' = [list |-> [seen.list EXCEPT ![ui.period] = answer], item |-> seen.item] /\ UNCHANGED <<db, ui, call>>
    BY <1>1, <1>2 DEF Plans!FetchList
  <2> HIDE DEF answer
  <2>2. seen'.list = [p \in Plans!Periods |-> seen'.list[p]] /\ seen'.list[ui.period] = answer
    BY <1>1, <2>1
  <2>3. seen' = [list |-> seen'.list, item |-> seen'.item]
    BY <2>1
  <2> QED  BY <1>1, <2>1, <2>2, <2>3 DEF PlansInv, PlansShapes, PlansTold, answer
<1>3. CASE Plans!FetchItem
  <2>1. /\ UNCHANGED <<db, ui, call, lost>> /\ seen' = [list |-> seen.list, item |-> seen'.item]
        /\ "list" \in due => "list" \in due'
    BY <1>1, <1>3 DEF Plans!FetchItem
  <2> QED  BY <1>1, <2>1, PlansCalls, PlansReminded DEF Reminded, PlansShapes
<1> QED  BY <1>2, <1>3

\* The invariant holds when the page is opened,
LEMMA PlansInit == ASSUME Plans!BudgetInit PROVE PlansInv
<1>1. call = [k \in 1..BudgetsCase.calls |-> Idle]
  BY DEF Plans!BudgetInit, Plans!Slots
<1>2. Hooks(BudgetsCase.calls, call, PlansHooks)
  BY <1>1 DEF Hooks, Calling, Going
<1>3. /\ seen = [list |-> [p \in Plans!Periods |-> NoData], item |-> NoData]
      /\ "list" \in due /\ IsPlansUi(ui) /\ ui.period \in Plans!Periods
  BY DEF Plans!BudgetInit, IsPlansUi, Plans!Periods
<1> QED  BY <1>2, <1>3 DEF PlansInv, PlansShapes, PlansTold

\* each step keeps it, and where nothing is under way the list is the server's.
LEMMA PlansStep == ASSUME NoCalls, PlansInv, Plans!BudgetNext PROVE PlansInv'
<1>1. ASSUME NEW k \in Plans!Slots,
             Plans!ServeBudget(k) \/ Plans!AnswerBudget(k) \/ Plans!Fails(k, Plans!FailedBudget(k))
      PROVE  k \in 1..BudgetsCase.calls /\ Going(call[k])
  BY <1>1 DEF Plans!Slots, Plans!ServeBudget, Plans!AnswerBudget, Plans!Fails, Plans!Running, Going
<1> QED  BY <1>1, PlansUser, PlansServed, PlansFetched DEF Plans!BudgetNext

\* and the budgets page shows the server's rows once nothing is left to do.
LEMMA PlansShown == ASSUME PlansInv PROVE Plans!BudgetsCurrent
<1>1. (\A k \in Plans!Slots : ~Plans!Running(k)) => ~Owed(BudgetsCase.calls, call, PlansHooks)
  BY NoneOwed DEF Plans!Slots, Plans!Running, Going
<1> QED  BY <1>1 DEF PlansInv, PlansTold, Plans!BudgetsCurrent, Plans!List

-----------------------------------------------------------------------------
(***************************************************************************)
(* The list of accounts, and the payment methods in the panel shown.       *)
(***************************************************************************)
ListHooks == {"create", "edit", "toggle", "delete"}

\* The panel of the account a is owed an answer.
PanelOwed(n, c, a) ==
    \E k \in 1..n : /\ Going(c[k]) /\ c[k].state = "done"
                    /\ c[k].hook \in {"addMethod", "deleteMethod"} /\ c[k].body.account = a

\* What is shown is of accounts whose ids have been given out, and the panel of one of them.
WalletsShowing ==
    /\ DOMAIN seen.methods = Wallets!AccountIds /\ DOMAIN db.account \subseteq Wallets!AccountIds
    /\ Wallets!Shown \cap Wallets!Unused = {}
    /\ ui.expanded \in Wallets!Shown \cup {None}

ListTold == seen.list = db.account \/ "list" \in due \/ Owed(AccountsCase.calls, call, ListHooks)

PanelTold ==
    ui.expanded \in DOMAIN db.account =>
        \/ seen.methods[ui.expanded] = Wallets!MethodsOf(ui.expanded)
        \/ ui.expanded \in due
        \/ PanelOwed(AccountsCase.calls, call, ui.expanded)

WalletsTold == WalletsShowing /\ (~lost => ListTold /\ PanelTold)

\* The ids of accounts are no keys of other queries.
LEMMA WalletKeys == "list" \notin Wallets!AccountIds /\ None \notin Wallets!AccountIds
BY StartAssumption DEF Wallets!AccountIds

\* A panel owed an answer stays so,
LEMMA PanelStays ==
    ASSUME NoCalls, NEW n \in Nat, NEW c, Calling(n, c), NEW d, NEW a, PanelOwed(n, c, a),
           \/ d = c
           \/ \E h, b : Begun(n, c, d, h, b)
           \/ \E k \in 1..n :
                 /\ Going(c[k]) /\ c[k].state # "done"
                 /\ (\E s : Restated(c, d, k, s)) \/ Dropped(n, c, d, k)
    PROVE  PanelOwed(n, d, a)
<1>1. PICK j \in 1..n : /\ Going(c[j]) /\ c[j].state = "done"
                        /\ c[j].hook \in {"addMethod", "deleteMethod"} /\ c[j].body.account = a
  BY DEF PanelOwed
<1>2. \/ d = c
      \/ \E h, b : Begun(n, c, d, h, b)
      \/ \E k \in 1..n :
            k # j /\ Going(c[k]) /\ ((\E s : Restated(c, d, k, s)) \/ Dropped(n, c, d, k))
  BY Zenon, <1>1
<1>3. PICK i \in 1..n : Going(d[i]) /\ d[i].state = "done" /\ Carries(c[j], d[i])
  BY <1>1, <1>2, DoneGoesOn
<1> QED  BY <1>1, <1>3 DEF PanelOwed, Carries

\* and so is the list while calls of panels lose theirs.
LEMMA ListStays ==
    ASSUME WalletsInv, call' = Wallets!Unmounted, Owed(AccountsCase.calls, call, ListHooks)
    PROVE  Owed(AccountsCase.calls, call', ListHooks)
<1>1. PICK k \in 1..AccountsCase.calls : Going(call[k]) /\ call[k].state = "done" /\ call[k].hook \in ListHooks
  BY DEF Owed
<1>2. call'[k] = call[k]
  BY <1>1 DEF Wallets!Unmounted, Wallets!Slots, Wallets!PanelHooks, ListHooks
<1> QED  BY <1>1, <1>2 DEF Owed

\* The calls of a step that tells nothing new and takes no key away.
WalletsQuietly ==
    /\ \A q : q \in due => q \in due'
    /\ \/ call' = call
       \/ \E h, b : Begun(AccountsCase.calls, call, call', h, b)
       \/ \E k \in 1..AccountsCase.calls :
             /\ Going(call[k]) /\ call[k].state # "done"
             /\ (\E s : Restated(call, call', k, s)) \/ Dropped(AccountsCase.calls, call, call', k)

\* Such a step keeps what was told.
LEMMA WalletsReminded ==
    ASSUME NoCalls, WalletsInv, WalletsTold, WalletsQuietly, UNCHANGED <<db, seen>>, lost => lost',
           ui'.expanded = ui.expanded
    PROVE  WalletsTold'
<1> DEFINE n == AccountsCase.calls
<1>1. n \in Nat /\ Calling(n, call)
  BY ClientAssumption DEF WalletsInv, WalletCalls, Hooks
<1>2. \/ call' = call
      \/ \E h, b : Begun(n, call, call', h, b)
      \/ \E k \in 1..n :
            /\ Going(call[k]) /\ call[k].state # "done"
            /\ (\E s : Restated(call, call', k, s)) \/ Dropped(n, call, call', k)
  BY DEF WalletsQuietly
<1> HIDE DEF n
<1>3. Owed(n, call, ListHooks) => Owed(n, call', ListHooks)
  BY <1>1, <1>2, OwedStays
<1>4. \A a : PanelOwed(n, call, a) => PanelOwed(n, call', a)
  BY <1>1, <1>2, PanelStays
<1>5. ListTold => ListTold'
  BY <1>3 DEF ListTold, WalletsQuietly, n
<1>6. PanelTold => PanelTold'
  BY <1>4 DEF PanelTold, WalletsQuietly, n, Wallets!MethodsOf
<1>7. WalletsShowing'
  BY DEF WalletsTold, WalletsShowing, Wallets!Shown, Wallets!Unused
<1> QED  BY <1>5, <1>6, <1>7 DEF WalletsTold

\* The user's steps are such, but for showing another panel, whose methods are then due.
LEMMA WalletsTellsUser ==
    ASSUME NoCalls, WalletsInv, WalletsTold, Wallets!DialogUser \/ Wallets!PanelUser
    PROVE  WalletsTold'
<1>1. /\ ui = [creating |-> ui.creating, form |-> ui.form, edit |-> ui.edit, target |-> ui.target,
               expanded |-> ui.expanded, panel |-> ui.panel, drawer |-> ui.drawer, draft |-> ui.draft,
               opens |-> ui.opens]
  BY DEF WalletsInv, WalletShapes, IsWalletUi
<1>2. CASE \E a : Wallets!Expand(a)
  <2>1. PICK a : Wallets!Expand(a)
    BY <1>2
  <2>2. /\ UNCHANGED <<db, seen, lost>> /\ a \in Wallets!Shown /\ call' = Wallets!Unmounted
        /\ due' = (IF ui.expanded = a THEN due ELSE due \cup {a})
        /\ ui'.expanded = (IF ui.expanded = a THEN None ELSE a)
    BY <1>1, <2>1 DEF Wallets!Expand, Wallets!Opened
  <2>3. ListTold => ListTold'
    BY <2>2, ListStays DEF ListTold
  <2>4. PanelTold'
    BY <2>2 DEF PanelTold, WalletsInv, WalletShapes, WalletRows
  <2>5. WalletsShowing'
    BY <2>2 DEF WalletsTold, WalletsShowing, Wallets!Shown, Wallets!Unused
  <2> QED  BY <2>2, <2>3, <2>4, <2>5 DEF WalletsTold
<1>3. CASE \E a : Wallets!OpenDrawer(a)
  <2>1. PICK a : Wallets!OpenDrawer(a)
    BY <1>3
  <2>2. UNCHANGED <<db, seen, lost, call>> /\ ui'.expanded = ui.expanded /\ \A q : q \in due => q \in due'
    BY <1>1, <2>1 DEF Wallets!OpenDrawer, Wallets!Opened
  <2> QED  BY <2>2, WalletsReminded DEF WalletsQuietly
<1>4. CASE \E h, b : Wallets!Sends(h, b)
  <2>1. PICK h, b : Wallets!Sends(h, b)
    BY <1>4
  <2>2. UNCHANGED <<db, seen, lost, due, ui>> /\ Begun(AccountsCase.calls, call, call', h, b)
    BY <2>1, WalletBegun DEF Wallets!Sends
  <2> QED  BY <2>2, WalletsReminded DEF WalletsQuietly
<1>5. CASE /\ UNCHANGED <<db, seen, lost, due, call>>
           /\ \/ \E x : ui' = [ui EXCEPT !.creating = x]
              \/ \E x, i : ui' = [ui EXCEPT !.creating = x, !.opens = i]
              \/ \E x : ui' = [ui EXCEPT !.form = x]
              \/ \E x : ui' = [ui EXCEPT !.edit = x]
              \/ \E x, i : ui' = [ui EXCEPT !.edit = x, !.opens = i]
              \/ \E x : ui' = [ui EXCEPT !.target = x]
              \/ \E x, i : ui' = [ui EXCEPT !.target = x, !.opens = i]
              \/ \E x : ui' = [ui EXCEPT !.panel = x]
              \/ \E x, i : ui' = [ui EXCEPT !.panel = x, !.opens = i]
              \/ \E x : ui' = [ui EXCEPT !.drawer = x]
  <2>1. ui'.expanded = ui.expanded
    BY <1>1, <1>5
  <2> QED  BY <1>5, <2>1, WalletsReminded DEF WalletsQuietly
<1>6. \/ Wallets!CloseCreate \/ (\E form : Wallets!TypeAccount(form)) \/ Wallets!CloseEdit
      \/ (\E name, active : Wallets!TypeEdit(name, active)) \/ Wallets!CancelDelete \/ Wallets!CloseDrawer
      \/ Wallets!CloseAddMethod \/ (\E name : Wallets!TypeMethod(name)) \/ Wallets!CancelDeleteMethod
      => /\ UNCHANGED <<db, seen, lost, due, call>>
         /\ \/ \E x : ui' = [ui EXCEPT !.creating = x]
            \/ \E x : ui' = [ui EXCEPT !.form = x]
            \/ \E x : ui' = [ui EXCEPT !.edit = x]
            \/ \E x : ui' = [ui EXCEPT !.target = x]
            \/ \E x : ui' = [ui EXCEPT !.panel = x]
            \/ \E x : ui' = [ui EXCEPT !.drawer = x]
  BY <1>1 DEF Wallets!CloseCreate, Wallets!TypeAccount, Wallets!CloseEdit, Wallets!TypeEdit, Wallets!CancelDelete,
     Wallets!CloseDrawer, Wallets!CloseAddMethod, Wallets!TypeMethod, Wallets!CancelDeleteMethod, Wallets!Locally
<1>7. Wallets!OpenCreate => \E x, i : ui' = [ui EXCEPT !.creating = x, !.opens = i]
  BY <1>1 DEF Wallets!OpenCreate, Wallets!Opening, Wallets!Opened
<1>8. (\E a : Wallets!OpenEdit(a)) => \E x, i : ui' = [ui EXCEPT !.edit = x, !.opens = i]
  BY <1>1 DEF Wallets!OpenEdit, Wallets!Opening, Wallets!Opened
<1>9. (\E a : Wallets!AskDelete(a)) => \E x, i : ui' = [ui EXCEPT !.target = x, !.opens = i]
  BY <1>1 DEF Wallets!AskDelete, Wallets!Opening, Wallets!Opened
<1>10. Wallets!OpenAddMethod \/ (\E m : Wallets!AskDeleteMethod(m))
       => \E x, i : ui' = [ui EXCEPT !.panel = x, !.opens = i]
  BY <1>1 DEF Wallets!OpenAddMethod, Wallets!AskDeleteMethod, Wallets!Opening, Wallets!Opened
<1>11. \/ Wallets!OpenCreate \/ (\E a : Wallets!OpenEdit(a)) \/ (\E a : Wallets!AskDelete(a))
       \/ Wallets!OpenAddMethod \/ (\E m : Wallets!AskDeleteMethod(m))
       => UNCHANGED <<db, seen, lost, due, call>>
  BY DEF Wallets!OpenCreate, Wallets!OpenEdit, Wallets!AskDelete, Wallets!OpenAddMethod,
     Wallets!AskDeleteMethod, Wallets!Opening, Wallets!Opened
<1>12. \/ Wallets!HandleCreate \/ Wallets!HandleEdit \/ Wallets!ConfirmDelete \/ Wallets!ToggleActive
       \/ Wallets!HandleAddMethod \/ Wallets!ConfirmDeleteMethod
       => \E h, b : Wallets!Sends(h, b)
  BY Zenon DEF Wallets!HandleCreate, Wallets!HandleEdit, Wallets!ConfirmDelete, Wallets!ToggleActive,
     Wallets!HandleAddMethod, Wallets!ConfirmDeleteMethod
<1>13. CASE \/ Wallets!OpenCreate \/ (\E a : Wallets!OpenEdit(a)) \/ (\E a : Wallets!AskDelete(a))
            \/ Wallets!OpenAddMethod \/ (\E m : Wallets!AskDeleteMethod(m))
  BY Zenon, <1>5, <1>7, <1>8, <1>9, <1>10, <1>11, <1>13
<1>14. CASE \/ Wallets!CloseCreate \/ (\E form : Wallets!TypeAccount(form)) \/ Wallets!CloseEdit
            \/ (\E name, active : Wallets!TypeEdit(name, active)) \/ Wallets!CancelDelete
            \/ Wallets!CloseDrawer \/ Wallets!CloseAddMethod \/ (\E name : Wallets!TypeMethod(name))
            \/ Wallets!CancelDeleteMethod
  BY Zenon, <1>5, <1>6, <1>14
<1>15. CASE Wallets!DialogUser
  BY Zenon, <1>2, <1>3, <1>4, <1>12, <1>13, <1>14, <1>15 DEF Wallets!DialogUser
<1>16. CASE Wallets!PanelUser
  BY Zenon, <1>4, <1>12, <1>13, <1>14, <1>16 DEF Wallets!PanelUser
<1> QED  BY <1>15, <1>16

\* Restricting to the rows with a property is indifferent to the others.
LEMMA OthersMethods ==
    ASSUME NEW a, NEW d, WalletRows(db), db'.method = d,
           \/ \E new, row : new \notin DOMAIN db.method /\ row.account # a /\ d = Wallets!With(db.method, new, row)
           \/ \E id \in DOMAIN db.method : db.method[id].account # a /\ d = Wallets!Less(db.method, id)
           \/ d = db.method
    PROVE  Wallets!MethodsOf(a)' = Wallets!MethodsOf(a)
<1> DEFINE S == {m \in DOMAIN db.method : db.method[m].account = a}
           T == {m \in DOMAIN d : d[m].account = a}
<1>1. T = S /\ \A m \in S : d[m] = db.method[m]
  <2>1. CASE \E new, row : new \notin DOMAIN db.method /\ row.account # a /\ d = Wallets!With(db.method, new, row)
    BY <2>1 DEF Wallets!With
  <2>2. CASE \E id \in DOMAIN db.method : db.method[id].account # a /\ d = Wallets!Less(db.method, id)
    <3>1. PICK id \in DOMAIN db.method : db.method[id].account # a /\ d = Wallets!Less(db.method, id)
      BY <2>2
    <3>2. DOMAIN d = DOMAIN db.method \ {id} /\ \A m \in DOMAIN d : d[m] = db.method[m]
      BY <3>1 DEF Wallets!Less, Wallets!Restrict
    <3> QED  BY <3>1, <3>2
  <2>3. CASE d = db.method
    BY <2>3
  <2> QED  BY <2>1, <2>2, <2>3
<1>2. Wallets!MethodsOf(a) = [m \in S |-> db.method[m]] /\ Wallets!MethodsOf(a)' = [m \in T |-> d[m]]
  BY DEF Wallets!MethodsOf, Wallets!Restrict
<1> QED  BY <1>1, <1>2

\* What the server wrote.
LEMMA WalletsServes ==
    ASSUME WalletRows(db), NEW k, Going(call[k]), call[k].hook \in WalletHooks, call[k].state = "sent",
           Wallets!AccountAccepted(k), call[k].hook \in {"create", "addMethod"} => Wallets!Unused # {},
           db' = Wallets!AccountResult(k)
    PROVE  /\ Wallets!Unused' \subseteq Wallets!Unused
           /\ DOMAIN db'.account \subseteq DOMAIN db.account \cup Wallets!Unused
           /\ call[k].hook \notin ListHooks => db'.account = db.account
           /\ \A a : a # call[k].body.account \/ call[k].hook \in ListHooks
                        => Wallets!MethodsOf(a)' = Wallets!MethodsOf(a)
<1> DEFINE h == call[k].hook
           b == call[k].body
           new == CHOOSE id \in Wallets!Unused : TRUE
<1>1. /\ db = [account |-> db.account, method |-> db.method, gone |-> db.gone]
  BY DEF WalletRows
<1>2. CASE h = "create"
  <2> DEFINE row == [name |-> b.name, type |-> b.type, active |-> TRUE, draft |-> b.draft]
  <2>1. db' = [db EXCEPT !.account = Wallets!With(db.account, new, row)]
    BY <1>2 DEF Wallets!AccountResult
  <2>2. db'.account = Wallets!With(db.account, new, row) /\ db'.method = db.method /\ db'.gone = db.gone
    BY <1>1, <2>1
  <2>3. new \in Wallets!Unused /\ DOMAIN db'.account = DOMAIN db.account \cup {new}
    BY <1>2, <2>2 DEF Wallets!With
  <2>4. \A a : Wallets!MethodsOf(a)' = Wallets!MethodsOf(a)
    BY <2>2, OthersMethods
  <2> QED  BY <1>2, <2>2, <2>3, <2>4 DEF Wallets!Unused, ListHooks
<1>3. CASE h \in {"edit", "toggle"}
  <2>1. DOMAIN db'.account = DOMAIN db.account /\ db'.method = db.method /\ db'.gone = db.gone
    <3>1. CASE h = "edit"
      BY <1>1, <3>1 DEF Wallets!AccountResult
    <3>2. CASE h = "toggle"
      BY <1>1, <3>2 DEF Wallets!AccountResult
    <3> QED  BY <1>3, <3>1, <3>2
  <2>2. \A a : Wallets!MethodsOf(a)' = Wallets!MethodsOf(a)
    BY <2>1, OthersMethods
  <2> QED  BY <1>3, <2>1, <2>2 DEF Wallets!Unused, ListHooks
<1>4. CASE h = "delete"
  <2>1. /\ db'.account = Wallets!Less(db.account, b.id) /\ db'.method = db.method
        /\ db'.gone = db.gone \cup {b.id}
    BY <1>1, <1>4 DEF Wallets!AccountResult
  <2>2. DOMAIN db'.account = DOMAIN db.account \ {b.id}
    BY <2>1 DEF Wallets!Less, Wallets!Restrict
  <2>3. \A a : Wallets!MethodsOf(a)' = Wallets!MethodsOf(a)
    BY <2>1, OthersMethods
  <2> QED  BY <1>4, <2>1, <2>2, <2>3 DEF Wallets!Unused, ListHooks
<1>5. CASE h = "addMethod"
  <2> DEFINE row == [account |-> b.account, draft |-> b.draft]
  <2>1. db' = [db EXCEPT !.method = Wallets!With(db.method, new, row)]
    BY <1>5 DEF Wallets!AccountResult
  <2>2. db'.method = Wallets!With(db.method, new, row) /\ db'.account = db.account /\ db'.gone = db.gone
    BY <1>1, <2>1
  <2>3. new \in Wallets!Unused /\ new \notin DOMAIN db.method /\ DOMAIN db'.method = DOMAIN db.method \cup {new}
    BY <1>5, <2>2 DEF Wallets!With, Wallets!Unused
  <2>4. \A a : a # b.account => Wallets!MethodsOf(a)' = Wallets!MethodsOf(a)
    <3>1. row.account = b.account
      OBVIOUS
    <3> HIDE DEF row, new
    <3> QED  BY <2>2, <2>3, <3>1, OthersMethods
  <2> QED  BY <1>5, <2>2, <2>3, <2>4 DEF Wallets!Unused, ListHooks
<1>6. CASE h = "deleteMethod"
  <2>1. /\ db'.method = Wallets!Less(db.method, b.id) /\ db'.account = db.account
        /\ db'.gone = db.gone \cup {b.id}
    BY <1>1, <1>6 DEF Wallets!AccountResult
  <2>2. b.id \in DOMAIN db.method /\ db.method[b.id].account = b.account
    BY <1>6 DEF Wallets!AccountAccepted, Wallets!MethodsOf, Wallets!Restrict
  <2>3. \A a : a # b.account => Wallets!MethodsOf(a)' = Wallets!MethodsOf(a)
    BY <2>1, <2>2, OthersMethods
  <2>4. DOMAIN db'.method = DOMAIN db.method \ {b.id}
    BY <2>1 DEF Wallets!Less, Wallets!Restrict
  <2> QED  BY <1>6, <2>1, <2>3, <2>4 DEF Wallets!Unused, ListHooks
<1> QED  BY <1>2, <1>3, <1>4, <1>5, <1>6 DEF WalletHooks

\* What the server does is owed to the list, or to the panel of the account,
LEMMA WalletsTellsServed ==
    ASSUME NoCalls, WalletsInv, WalletsTold, NEW k \in 1..AccountsCase.calls, Going(call[k]),
           Wallets!ServeAccount(k)
    PROVE  WalletsTold'
<1> DEFINE n == AccountsCase.calls
           h == call[k].hook
<1>1. n \in Nat /\ Calling(n, call) /\ h \in WalletHooks /\ WalletRows(db)
  BY ClientAssumption DEF WalletsInv, WalletCalls, WalletShapes, Hooks
<1>2. /\ Restated(call, call', k, "done") /\ UNCHANGED <<seen, due, ui, lost>>
      /\ db' = Wallets!AccountResult(k) /\ call[k].state = "sent" /\ Wallets!AccountAccepted(k)
      /\ h \in {"create", "addMethod"} => Wallets!Unused # {}
  BY DEF Wallets!ServeAccount, Wallets!Serve, Restated
<1>3. /\ Wallets!Unused' \subseteq Wallets!Unused
      /\ DOMAIN db'.account \subseteq DOMAIN db.account \cup Wallets!Unused
      /\ h \notin ListHooks => db'.account = db.account
      /\ \A a : a # call[k].body.account \/ h \in ListHooks => Wallets!MethodsOf(a)' = Wallets!MethodsOf(a)
  BY <1>1, <1>2, WalletsServes
<1>4. WalletsShowing'
  <2>1. Wallets!Unused \subseteq Wallets!AccountIds
    BY DEF Wallets!Unused, Wallets!AccountIds
  <2> QED  BY <1>2, <1>3, <2>1 DEF WalletsTold, WalletsShowing, Wallets!Shown
<1>5. ui.expanded \in DOMAIN db'.account => ui.expanded \in DOMAIN db.account
  <2>1. None \notin Wallets!Unused
    BY StartAssumption DEF Wallets!Unused
  <2> QED  BY <1>3, <2>1 DEF WalletsTold, WalletsShowing
<1> HIDE DEF n
<1>6. Owed(n, call, ListHooks) \/ h \in ListHooks => Owed(n, call', ListHooks)
  <2>1. ASSUME h \in ListHooks PROVE Owed(n, call', ListHooks)
    BY <1>1, <1>2, <2>1, OwedNow DEF n
  <2>2. ASSUME Owed(n, call, ListHooks) PROVE Owed(n, call', ListHooks)
    BY <1>1, <1>2, <2>2, OwedStays DEF n
  <2> QED  BY <2>1, <2>2
<1>7. ListTold => ListTold'
  BY <1>2, <1>3, <1>6 DEF ListTold, n
<1>8. \A a : PanelOwed(n, call, a) \/ (h \notin ListHooks /\ call[k].body.account = a) => PanelOwed(n, call', a)
  <2>1. ASSUME NEW a, PanelOwed(n, call, a) PROVE PanelOwed(n, call', a)
    BY <1>1, <1>2, <2>1, PanelStays DEF n
  <2>2. ASSUME NEW a, h \notin ListHooks, call[k].body.account = a PROVE PanelOwed(n, call', a)
    <3>1. Going(call'[k]) /\ call'[k].state = "done" /\ Carries(call[k], call'[k])
      BY <1>1, <1>2, RestatedRows DEF n
    <3> QED  BY <1>1, <2>2, <3>1 DEF PanelOwed, Carries, WalletHooks, ListHooks, n
  <2> QED  BY <2>1, <2>2
<1>9. PanelTold => PanelTold'
  BY <1>2, <1>3, <1>5, <1>8 DEF PanelTold, n
<1> QED  BY <1>2, <1>4, <1>7, <1>9 DEF WalletsTold

\* is due once its callbacks run,
LEMMA WalletsTellsSettled ==
    ASSUME NoCalls, WalletsInv, WalletsTold, NEW k \in 1..AccountsCase.calls, Going(call[k]),
           Wallets!SettleAccount(k)
    PROVE  WalletsTold'
<1> DEFINE n == AccountsCase.calls
           h == call[k].hook
           keys == Wallets!InvalidatedByAccount(k)
<1>1. n \in Nat /\ Calling(n, call) /\ h \in WalletHooks /\ WalletRows(db)
  BY ClientAssumption DEF WalletsInv, WalletCalls, WalletShapes, Hooks
<1>2. /\ Restated(call, call', k, "settling") /\ UNCHANGED <<db, seen, ui, lost>>
      /\ due' = due \cup keys
  BY DEF Wallets!SettleAccount, Wallets!Settles, Restated
<1>3. h \in ListHooks => "list" \in keys
  BY DEF Wallets!InvalidatedByAccount, Wallets!PanelHooks, ListHooks
<1>4. h \notin ListHooks /\ call[k].body.account = ui.expanded /\ ui.expanded \in DOMAIN db.account
      => ui.expanded \in keys
  BY <1>1 DEF Wallets!InvalidatedByAccount, Wallets!PanelHooks, ListHooks, WalletHooks, Wallets!InUse,
     Wallets!InPanel, WalletsTold, WalletsShowing, WalletRows
<1>5. WalletsShowing'
  BY <1>2 DEF WalletsTold, WalletsShowing, Wallets!Shown, Wallets!Unused
<1> HIDE DEF n, keys
<1>6. Owed(n, call, ListHooks) /\ h \notin ListHooks => Owed(n, call', ListHooks)
  BY <1>1, <1>2, OwedStays DEF n
<1>7. ListTold => ListTold'
  BY <1>2, <1>3, <1>6 DEF ListTold, n
<1>8. ASSUME PanelOwed(n, call, ui.expanded), ui.expanded \notin keys, ui.expanded \in DOMAIN db.account
      PROVE  PanelOwed(n, call', ui.expanded)
  <2>1. PICK j \in 1..n : /\ Going(call[j]) /\ call[j].state = "done"
                          /\ call[j].hook \in {"addMethod", "deleteMethod"} /\ call[j].body.account = ui.expanded
    BY <1>8 DEF PanelOwed
  <2>2. j # k
    BY <1>4, <1>8, <2>1 DEF ListHooks
  <2>3. call'[j] = call[j]
    BY <1>1, <1>2, <2>2, RestatedRows DEF n
  <2> QED  BY <2>1, <2>3 DEF PanelOwed
<1>9. PanelTold => PanelTold'
  BY <1>2, <1>8 DEF PanelTold, Wallets!MethodsOf, n
<1> QED  BY <1>2, <1>5, <1>7, <1>9 DEF WalletsTold

\* and nothing more comes of the end of a call, unless its answer was lost.
LEMMA WalletsTellsEnded ==
    ASSUME NoCalls, WalletsInv, WalletsTold, NEW k \in 1..AccountsCase.calls, Going(call[k]),
           Wallets!AnswerAccount(k) \/ Wallets!Fails(k, Wallets!FailedAccount(k))
    PROVE  WalletsTold'
<1> DEFINE n == AccountsCase.calls
<1>1. call[k].hook \in WalletHooks
  BY DEF WalletsInv, WalletCalls, Hooks
<1>2. /\ UNCHANGED <<db, seen, due>> /\ Dropped(n, call, call', k)
      /\ ui' = Wallets!HeardAccount(k) \/ ui' = ui
      /\ \/ call[k].state # "done" /\ lost' = lost
         \/ lost' = (lost \/ call[k].state = "done")
  BY DEF Wallets!AnswerAccount, Wallets!Over, Wallets!Fails, Wallets!FailedAccount, Wallets!Without,
     Wallets!Slots, Dropped
<1>3. ui = [creating |-> ui.creating, form |-> ui.form, edit |-> ui.edit, target |-> ui.target,
            expanded |-> ui.expanded, panel |-> ui.panel, drawer |-> ui.drawer, draft |-> ui.draft,
            opens |-> ui.opens]
  BY DEF WalletsInv, WalletShapes, IsWalletUi
<1>4. ui'.expanded = ui.expanded
  <2>1. CASE ui' = ui
    BY <2>1
  <2>2. CASE ui' = Wallets!HeardAccount(k)
    <3>1. CASE call[k].hook \notin Wallets!PanelHooks
      BY <1>1, <1>3, <2>2, <3>1 DEF Wallets!HeardAccount, WalletHooks, Wallets!PanelHooks
    <3>2. CASE call[k].hook = "addMethod"
      <4>1. OfPanel(call[k])
        BY <3>2 DEF WalletsInv, WalletCalls, Mine
      <4> QED  BY <1>3, <2>2, <3>2, <4>1 DEF Wallets!HeardAccount, Wallets!PanelHooks, OfPanel
    <3>3. CASE call[k].hook = "deleteMethod"
      BY <1>3, <2>2, <3>3 DEF Wallets!HeardAccount, Wallets!PanelHooks
    <3> QED  BY <3>1, <3>2, <3>3 DEF Wallets!PanelHooks
  <2> QED  BY <1>2, <2>1, <2>2
<1>5. CASE call[k].state = "done" /\ lost' = (lost \/ call[k].state = "done")
  BY <1>2, <1>4, <1>5 DEF WalletsTold, WalletsShowing, Wallets!Shown, Wallets!Unused
<1>6. CASE call[k].state # "done"
  <2>1. lost => lost'
    BY Zenon, <1>2, <1>6
  <2> QED  BY <1>2, <1>4, <1>6, <2>1, WalletsReminded DEF WalletsQuietly
<1> QED  BY <1>2, <1>5, <1>6

\* The list fetched is the server's, and takes the panel of an account that is gone along,
LEMMA WalletsTellsList == ASSUME NoTable, WalletsInv, WalletsTold, Wallets!FetchList PROVE WalletsTold'
<1>1. /\ ui = [creating |-> ui.creating, form |-> ui.form, edit |-> ui.edit, target |-> ui.target,
               expanded |-> ui.expanded, panel |-> ui.panel, drawer |-> ui.drawer, draft |-> ui.draft,
               opens |-> ui.opens]
      /\ seen = [list |-> seen.list, methods |-> seen.methods]
      /\ db.account = [a \in DOMAIN db.account |-> db.account[a]]
  BY DEF WalletsInv, WalletShapes, IsWalletUi, WalletRows
<1>2. /\ UNCHANGED <<db, lost>> /\ due' = due \ {"list"}
      /\ seen' = [list |-> db.account, methods |-> seen.methods]
  BY <1>1 DEF Wallets!FetchList
<1>3. Wallets!Shown' = DOMAIN db.account
  <2>1. db.account # NoData
    BY <1>1 DEF NoTable
  <2> QED  BY <1>2, <2>1 DEF Wallets!Shown
<1>4. CASE ui.expanded # None /\ ui.expanded \notin DOMAIN db.account
  <2>1. ui'.expanded = None
    BY <1>1, <1>4 DEF Wallets!FetchList
  <2>2. None \notin DOMAIN db.account
    BY DEF WalletsInv, WalletShapes, WalletRows
  <2> QED  BY <1>2, <1>3, <2>1, <2>2 DEF WalletsTold, WalletsShowing, ListTold, PanelTold, Wallets!Unused
<1>5. CASE ui.expanded = None \/ ui.expanded \in DOMAIN db.account
  <2>1. UNCHANGED <<ui, call>>
    BY <1>5 DEF Wallets!FetchList
  <2>2. ui.expanded \in DOMAIN db.account => ui.expanded # "list"
    BY WalletKeys DEF WalletsTold, WalletsShowing
  <2>3. PanelTold => PanelTold'
    BY <1>2, <2>1, <2>2 DEF PanelTold, Wallets!MethodsOf
  <2> QED  BY <1>2, <1>3, <1>5, <2>1, <2>3 DEF WalletsTold, WalletsShowing, ListTold, Wallets!Unused
<1> QED  BY <1>4, <1>5

\* and so are the methods.
LEMMA WalletsTellsMethods ==
    ASSUME WalletsInv, WalletsTold, NEW a \in Wallets!AccountIds, Wallets!FetchMethods(a) PROVE WalletsTold'
<1>1. seen = [list |-> seen.list, methods |-> seen.methods] /\ a # "list"
  BY WalletKeys DEF WalletsInv, WalletShapes
<1>2. UNCHANGED <<db, ui, call, lost>> /\ due' = due \ {a}
  BY DEF Wallets!FetchMethods
<1>3. CASE a \notin DOMAIN db.account
  <2>1. seen' = seen
    BY <1>3 DEF Wallets!FetchMethods
  <2> QED
    BY <1>1, <1>2, <1>3, <2>1 DEF WalletsTold, WalletsShowing, ListTold, PanelTold, Wallets!Unused,
       Wallets!Shown, Wallets!MethodsOf
<1>4. CASE a \in DOMAIN db.account
  <2> DEFINE answer == Wallets!MethodsOf(a)
  <2>1. seen' = [list |-> seen.list, methods |-> [seen.methods EXCEPT ![a] = answer]]
    BY <1>1, <1>4 DEF Wallets!FetchMethods
  <2>2. answer = Wallets!MethodsOf(a)'
    BY <1>2 DEF Wallets!MethodsOf
  <2> HIDE DEF answer
  <2>3. /\ seen'.list = seen.list /\ DOMAIN seen'.methods = DOMAIN seen.methods
        /\ DOMAIN seen.methods = Wallets!AccountIds => seen'.methods[a] = answer
        /\ \A x : x # a /\ x \in Wallets!AccountIds /\ DOMAIN seen.methods = Wallets!AccountIds
                     => seen'.methods[x] = seen.methods[x]
    BY <2>1
  <2>4. WalletsShowing'
    BY <1>2, <2>3 DEF WalletsTold, WalletsShowing, Wallets!Unused, Wallets!Shown
  <2>5. ui.expanded \in DOMAIN db.account => ui.expanded \in Wallets!AccountIds
    BY DEF WalletsTold, WalletsShowing
  <2>6. WalletsShowing /\ PanelTold => PanelTold'
    <3>1. CASE ui.expanded = a
      BY <1>2, <2>2, <2>3, <3>1 DEF PanelTold, WalletsShowing
    <3>2. CASE ui.expanded # a
      BY <1>2, <2>3, <2>5, <3>2 DEF PanelTold, WalletsShowing, Wallets!MethodsOf
    <3> QED  BY <3>1, <3>2
  <2>7. ListTold => ListTold'
    BY <1>1, <1>2, <2>3 DEF ListTold
  <2> QED  BY <1>2, <2>4, <2>6, <2>7 DEF WalletsTold
<1> QED  BY <1>3, <1>4

\* What was told holds when the page is opened,
LEMMA WalletsToldInit == ASSUME Wallets!AccountInit PROVE WalletsTold
<1>1. /\ seen = [list |-> NoData, methods |-> [a \in Wallets!AccountIds |-> NoData]]
      /\ "list" \in due /\ ui.expanded = None /\ db.account = AccountsCase.startAccounts
  BY DEF Wallets!AccountInit
<1>2. None \notin DOMAIN db.account /\ DOMAIN db.account \subseteq Wallets!AccountIds
  BY <1>1, StartAssumption DEF Wallets!AccountIds
<1> QED  BY <1>1, <1>2 DEF WalletsTold, WalletsShowing, ListTold, PanelTold, Wallets!Shown

\* each step keeps it, and where nothing is under way the list and the panel are the
\* server's.
LEMMA WalletsTells == ASSUME NoCalls, NoTable, WalletsInv, WalletsTold, Wallets!AccountNext PROVE WalletsTold'
<1>1. ASSUME NEW k \in Wallets!Slots,
             \/ Wallets!ServeAccount(k) \/ Wallets!SettleAccount(k) \/ Wallets!AnswerAccount(k)
             \/ Wallets!Running(k) /\ Wallets!Fails(k, Wallets!FailedAccount(k))
      PROVE  k \in 1..AccountsCase.calls /\ Going(call[k])
  BY <1>1 DEF Wallets!Slots, Wallets!ServeAccount, Wallets!SettleAccount, Wallets!AnswerAccount,
     Wallets!Running, Going
<1> QED
  BY <1>1, WalletsTellsUser, WalletsTellsServed, WalletsTellsSettled, WalletsTellsEnded, WalletsTellsList,
     WalletsTellsMethods DEF Wallets!AccountNext

\* and the accounts page shows the server's rows once nothing is left to do.
LEMMA WalletsShown == ASSUME WalletsTold PROVE Wallets!AccountsCurrent
<1>1. (\A k \in Wallets!Slots : ~Wallets!Running(k)) =>
          /\ ~Owed(AccountsCase.calls, call, ListHooks)
          /\ ~PanelOwed(AccountsCase.calls, call, ui.expanded)
  BY NoneOwed DEF Wallets!Slots, Wallets!Running, Going, PanelOwed
<1>2. ASSUME ~lost, due = {}, \A k \in Wallets!Slots : ~Wallets!Running(k)
      PROVE  seen.list = db.account /\ (Wallets!InPanel => seen.methods[ui.expanded] = Wallets!MethodsOf(ui.expanded))
  <2>1. seen.list = db.account
    BY <1>1, <1>2 DEF WalletsTold, ListTold
  <2> QED  BY <1>1, <1>2, <2>1 DEF WalletsTold, PanelTold, Wallets!InPanel, Wallets!Shown
<1> QED  BY <1>2 DEF Wallets!AccountsCurrent
-----------------------------------------------------------------------------
(***************************************************************************)
(* Savings goals: the list, and the goal opened with its contributions.    *)
(***************************************************************************)
\* What the queries in use hold, but for those that are due.
GoalsFresh ==
    /\ ui.view = "list" => \/ seen.list = [p \in DOMAIN db.pig |-> Goals!Answer(db, p)]
                           \/ Goals!ListKey \in due
    /\ ui.subject \in DOMAIN db.pig =>
          /\ seen.item[ui.subject] = Goals!Answer(db, ui.subject) \/ <<"item", ui.subject>> \in due
          /\ ui.view # "form" =>
                \/ seen.contributions[ui.subject] = Goals!Contributions(db, ui.subject)
                \/ <<"contributions", ui.subject>> \in due

\* Every call has all the queries in use fetched.
GoalsTold ==
    /\ DOMAIN db.pig \subseteq Goals!PigIds /\ DOMAIN seen.contributions = Goals!PigIds
    /\ ~lost => GoalsFresh \/ Owed(GoalsCase.calls, call, GoalHooks)

\* No row has the key of the closed panel.
LEMMA GoalKeys == None \notin Goals!PigIds
BY StartAssumption DEF Goals!PigIds

\* A step that leaves what is shown and the tables alone keeps it so.
LEMMA GoalsReminded ==
    ASSUME NoCalls, GoalsInv, GoalsTold, UNCHANGED <<db, seen>>, lost => lost', GoalsFresh => GoalsFresh',
           Owed(GoalsCase.calls, call, GoalHooks) => Owed(GoalsCase.calls, call', GoalHooks)
    PROVE  GoalsTold'
BY DEF GoalsTold, Goals!PigIds

\* The same view of the same rows is as true as it was.
LEMMA GoalsShowSame ==
    ASSUME UNCHANGED <<db, seen>>, due \subseteq due', ui'.view = ui.view, ui'.subject = ui.subject
    PROVE  GoalsFresh => GoalsFresh'
<1>1. \A p : Goals!Answer(db, p)' = Goals!Answer(db, p) /\ Goals!Contributions(db, p)' = Goals!Contributions(db, p)
  BY DEF Goals!Answer, Goals!Total, Goals!Contributions
<1> QED  BY <1>1 DEF GoalsFresh

\* What the user does is such a step, but for opening a goal, whose answers are then due,
\* and closing it.
LEMMA GoalsTellsOpened ==
    ASSUME NoCalls, GoalsInv, GoalsTold, Goals!CloseDrawer \/ \E p : Goals!OpenDrawer(p)
    PROVE  GoalsTold'
<1>1. /\ ui = [view |-> ui.view, subject |-> ui.subject, adding |-> ui.adding, goal |-> ui.goal,
               contribution |-> ui.contribution, remove |-> ui.remove, deleting |-> ui.deleting,
               target |-> ui.target, touched |-> ui.touched, draft |-> ui.draft, opens |-> ui.opens]
      /\ None \notin DOMAIN db.pig
  BY GoalKeys DEF GoalsInv, GoalForm, IsGoalUi, GoalsTold
<1>2. UNCHANGED <<db, seen, call, lost>>
  BY DEF Goals!CloseDrawer, Goals!OpenDrawer
<1>3. \A p : Goals!Answer(db, p)' = Goals!Answer(db, p) /\ Goals!Contributions(db, p)' = Goals!Contributions(db, p)
  BY <1>2 DEF Goals!Answer, Goals!Total, Goals!Contributions
<1>4. GoalsFresh => GoalsFresh'
  <2>1. CASE Goals!CloseDrawer
    <3>1. ui'.view = ui.view /\ ui'.subject = None /\ due' = due \ Goals!KeysOf(ui.subject)
      BY <1>1, <2>1 DEF Goals!CloseDrawer
    <3>2. Goals!ListKey \notin Goals!KeysOf(ui.subject)
      BY DEF Goals!ListKey, Goals!KeysOf
    <3> QED  BY <1>1, <1>2, <1>3, <3>1, <3>2 DEF GoalsFresh, Goals!ListKey
  <2>2. CASE \E p : Goals!OpenDrawer(p)
    <3>1. PICK p : ui'.view = ui.view /\ ui'.subject = p /\ due' = due \cup Goals!KeysOf(p)
      BY <1>1, <2>2 DEF Goals!OpenDrawer
    <3> QED  BY <1>2, <1>3, <3>1 DEF GoalsFresh, Goals!KeysOf, Goals!ListKey
  <2> QED  BY <2>1, <2>2
<1> QED  BY <1>2, <1>4, GoalsReminded

\* The user's steps leave what is shown as true as it was.
LEMMA GoalsTellsUser == ASSUME NoCalls, GoalsInv, GoalsTold, Goals!GoalUser PROVE GoalsTold'
<1> DEFINE n == GoalsCase.calls
<1>1. ui = [view |-> ui.view, subject |-> ui.subject, adding |-> ui.adding, goal |-> ui.goal,
            contribution |-> ui.contribution, remove |-> ui.remove, deleting |-> ui.deleting,
            target |-> ui.target, touched |-> ui.touched, draft |-> ui.draft, opens |-> ui.opens]
  BY DEF GoalsInv, GoalForm, IsGoalUi
<1>2. n \in Nat /\ Calling(n, call)
  BY ClientAssumption DEF GoalsInv, GoalCalls, Hooks
<1>3. CASE Goals!CloseDrawer \/ \E p : Goals!OpenDrawer(p)
  BY <1>3, GoalsTellsOpened
<1> DEFINE Elsewhere(new) ==
               \/ \E v : new = [ui EXCEPT !.remove = v]
               \/ \E v : new = [ui EXCEPT !.deleting = v]
               \/ \E v : new = [ui EXCEPT !.target = v]
               \/ \E v : new = [ui EXCEPT !.adding = v]
               \/ \E v : new = [ui EXCEPT !.contribution = v]
               \/ \E g, t : new = [ui EXCEPT !.goal = g, !.touched = t]
               \/ \E v, w, d : new = [ui EXCEPT !.adding = v, !.goal = w, !.draft = d]
               \/ \E v, w, d : new = [ui EXCEPT !.adding = v, !.contribution = w, !.draft = d]
<1>4. CASE \E new : Elsewhere(new) /\ (Goals!Locally(new) \/ Goals!Opening(new))
  <2>1. PICK new : Elsewhere(new) /\ (Goals!Locally(new) \/ Goals!Opening(new))
    BY <1>4
  <2>2. /\ new = [view |-> new.view, subject |-> new.subject, adding |-> new.adding, goal |-> new.goal,
                  contribution |-> new.contribution, remove |-> new.remove, deleting |-> new.deleting,
                  target |-> new.target, touched |-> new.touched, draft |-> new.draft, opens |-> new.opens]
        /\ new.view = ui.view /\ new.subject = ui.subject
    BY <1>1, <2>1
  <2>3. UNCHANGED <<db, seen, due, call, lost>> /\ ui'.view = ui.view /\ ui'.subject = ui.subject
    BY <2>1, <2>2 DEF Goals!Opening, Goals!Locally
  <2> QED  BY <2>3, GoalsShowSame, GoalsReminded
<1>5. CASE \E h, b : Goals!Sends(h, b)
  <2>1. PICK h, b : Goals!Sends(h, b)
    BY <1>5
  <2>2. UNCHANGED <<db, seen, due, ui, lost>> /\ Begun(n, call, call', h, b)
    BY <2>1, GoalBegun DEF Goals!Sends
  <2> HIDE DEF n
  <2>3. Owed(n, call, GoalHooks) => Owed(n, call', GoalHooks)
    BY <1>2, <2>2, OwedStays
  <2> QED  BY <2>2, <2>3, GoalsShowSame, GoalsReminded DEF n
<1>6. CASE Goals!CancelContribution
  <2>1. ui'.view = ui.view /\ ui'.subject = ui.subject /\ UNCHANGED <<db, seen, due, lost>>
    BY <1>1, <1>6 DEF Goals!CancelContribution
  <2>2. Owed(n, call, GoalHooks) => Owed(n, call', GoalHooks)
    <3> SUFFICES ASSUME NEW k \in 1..n, Going(call[k]), call[k].state = "done", call[k].hook \in GoalHooks
                 PROVE  Going(call'[k]) /\ call'[k].state = "done" /\ call'[k].hook \in GoalHooks
      BY DEF Owed
    <3>1. DOMAIN call' = 1..n /\ \A j \in 1..n : \/ call'[j] = call[j]
                                                 \/ Going(call[j]) /\ call'[j] = [call[j] EXCEPT !.heard = FALSE]
      BY <1>6 DEF Goals!CancelContribution, Goals!Unheard, Goals!Slots, Goals!Running, Going
    <3>2. call'[k] = call[k] \/ call'[k] = [call[k] EXCEPT !.heard = FALSE]
      BY <3>1
    <3>3. IsCall(call[k])
      BY <1>2 DEF Calling
    <3>4. IsCall(call'[k]) /\ call'[k].state = "done" /\ call'[k].hook = call[k].hook
      BY <3>2, <3>3 DEF IsCall
    <3> QED  BY <3>4 DEF Going, NoCalls
  <2> QED  BY <2>1, <2>2, GoalsShowSame, GoalsReminded
<1>7. \/ Goals!CancelRemove \/ (\E c : Goals!AskRemove(c)) \/ Goals!OpenDelete \/ Goals!CancelDelete
      \/ Goals!CancelDeleteHere \/ (\E p : Goals!AskDeleteHere(p)) \/ Goals!CancelGoal
      \/ (\E t, a : Goals!TypeContribution(t, a)) \/ (\E g : Goals!TypeGoal(g))
      \/ Goals!OpenGoal \/ Goals!OpenContribution
      => \E new : Elsewhere(new) /\ (Goals!Locally(new) \/ Goals!Opening(new))
  <2>1. Goals!CancelRemove \/ (\E c : Goals!AskRemove(c)) =>
           \E new : Elsewhere(new) /\ (Goals!Locally(new) \/ Goals!Opening(new))
    BY Zenon DEF Goals!CancelRemove, Goals!AskRemove
  <2>2. Goals!OpenDelete \/ Goals!CancelDelete =>
           \E new : Elsewhere(new) /\ (Goals!Locally(new) \/ Goals!Opening(new))
    BY Zenon DEF Goals!OpenDelete, Goals!CancelDelete
  <2>3. Goals!CancelDeleteHere \/ (\E p : Goals!AskDeleteHere(p)) =>
           \E new : Elsewhere(new) /\ (Goals!Locally(new) \/ Goals!Opening(new))
    BY Zenon DEF Goals!CancelDeleteHere, Goals!AskDeleteHere
  <2>4. Goals!CancelGoal \/ (\E t, a : Goals!TypeContribution(t, a)) =>
           \E new : Elsewhere(new) /\ (Goals!Locally(new) \/ Goals!Opening(new))
    BY Zenon DEF Goals!CancelGoal, Goals!TypeContribution
  <2>5. (\E g : Goals!TypeGoal(g)) =>
           \E new : Elsewhere(new) /\ (Goals!Locally(new) \/ Goals!Opening(new))
    BY Zenon DEF Goals!TypeGoal
  <2>6. Goals!OpenGoal \/ Goals!OpenContribution =>
           \E new : Elsewhere(new) /\ (Goals!Locally(new) \/ Goals!Opening(new))
    BY Zenon DEF Goals!OpenGoal, Goals!OpenContribution
  <2> QED  BY Zenon, <2>1, <2>2, <2>3, <2>4, <2>5, <2>6
<1>8. \/ Goals!ConfirmRemove \/ Goals!ConfirmDelete \/ Goals!ConfirmDeleteHere \/ Goals!AddContribution
      \/ Goals!SubmitGoal
      => \E h, b : Goals!Sends(h, b)
  BY Zenon DEF Goals!ConfirmRemove, Goals!ConfirmDelete, Goals!ConfirmDeleteHere, Goals!AddContribution,
     Goals!SubmitGoal
<1> HIDE DEF Elsewhere
<1> QED  BY Zenon, <1>3, <1>4, <1>5, <1>6, <1>7, <1>8 DEF Goals!GoalUser

\* What the server does is owed to all of them,
LEMMA GoalsTellsServed ==
    ASSUME NoCalls, GoalsInv, GoalsTold, NEW k \in 1..GoalsCase.calls, Goals!ServePig(k)
    PROVE  GoalsTold'
<1> DEFINE n == GoalsCase.calls
<1>1. n \in Nat /\ Calling(n, call) /\ Hooks(n, call, GoalHooks) /\ GoalRows(db)
  BY ClientAssumption DEF GoalsInv, GoalCalls, Hooks
<1>2. /\ Going(call[k]) /\ call[k].state = "sent" /\ Restated(call, call', k, "done")
      /\ UNCHANGED seen /\ db' = Goals!PigResult(k)
      /\ Goals!PigAccepted(k) /\ (call[k].hook \in {"create", "add"} => Goals!Unused # {})
  BY DEF Goals!ServePig, Goals!Serve, Goals!Running, Going, Restated
<1>3. call[k].hook \in GoalHooks /\ (call[k].hook \in {"create", "patch"} => Positive(call[k].body.target))
  BY <1>1, <1>2 DEF GoalsInv, GoalCalls, Hooks
<1>4. DOMAIN db'.pig \subseteq Goals!PigIds
  <2>1. PICK id :
           /\ id \in Goals!Unused \/ call[k].hook \notin {"create", "add"}
           /\ SameDrafts(db.pig, db'.pig, id, call[k].body.draft)
           /\ call[k].hook # "create" => \A p \in DOMAIN db'.pig : p \in DOMAIN db.pig
    BY <1>1, <1>2, <1>3, GoalsWritten
  <2> QED  BY <2>1 DEF SameDrafts, GoalsTold, Goals!Unused, Goals!PigIds
<1> HIDE DEF n
<1>5. Owed(n, call', GoalHooks)
  BY <1>1, <1>2, <1>3, OwedNow DEF n
<1> QED  BY <1>2, <1>4, <1>5 DEF GoalsTold, Goals!PigIds, n

\* which are due once its callbacks run,
LEMMA GoalsTellsEnded ==
    ASSUME NoCalls, GoalsInv, GoalsTold, NEW k \in 1..GoalsCase.calls, Goals!AnswerPig(k) \/ Goals!Fails(k, ui)
    PROVE  GoalsTold'
<1> DEFINE n == GoalsCase.calls
<1>1. n \in Nat /\ Calling(n, call) /\ Hooks(n, call, GoalHooks) /\ None \notin DOMAIN db.pig
  BY ClientAssumption, GoalKeys DEF GoalsInv, GoalCalls, Hooks, GoalsTold
<1>2. Going(call[k]) /\ Dropped(n, call, call', k) /\ UNCHANGED <<db, seen>>
  BY DEF Goals!AnswerPig, Goals!Fails, Goals!Running, Going, Goals!Without, Goals!Slots, Dropped
<1>3. ui = [view |-> ui.view, subject |-> ui.subject, adding |-> ui.adding, goal |-> ui.goal,
            contribution |-> ui.contribution, remove |-> ui.remove, deleting |-> ui.deleting,
            target |-> ui.target, touched |-> ui.touched, draft |-> ui.draft, opens |-> ui.opens]
      /\ call[k].hook \in GoalHooks
  BY <1>1, <1>2 DEF GoalsInv, GoalForm, IsGoalUi, Hooks
<1>4. CASE Goals!AnswerPig(k)
  <2>1. ui' = Goals!HeardPig(k) /\ due' = (due \cup Goals!InUse) \cap Goals!InUse' /\ lost' = lost
    BY <1>4 DEF Goals!AnswerPig
  <2>2. \/ ui'.view = ui.view /\ ui'.subject \in {None, ui.subject}
        \/ ui'.view = "left" /\ ui'.subject = None
    <3>1. \/ ui' = ui \/ ui' = [ui EXCEPT !.target = None] \/ ui' = [ui EXCEPT !.remove = None]
          \/ ui' = [ui EXCEPT !.adding = FALSE] \/ ui' = [ui EXCEPT !.deleting = FALSE, !.subject = None]
          \/ ui' = Goals!Left
      BY <1>3, <2>1 DEF Goals!HeardPig, GoalHooks
    <3> QED  BY <1>3, <3>1 DEF Goals!Left
  <2>3. ui'.view = "list" => Goals!ListKey \in due'
    BY <2>1, <2>2 DEF Goals!InUse
  <2>4. ASSUME ui'.subject \in DOMAIN db.pig
        PROVE  /\ <<"item", ui'.subject>> \in due'
               /\ ui'.view # "form" => <<"contributions", ui'.subject>> \in due'
    <3>1. ui'.view = ui.view /\ ui'.subject = ui.subject /\ ui.subject # None
      BY <1>1, <2>2, <2>4
    <3>2. <<"item", ui.subject>> \in Goals!InUse /\ (ui.view # "form" => <<"contributions", ui.subject>> \in Goals!InUse)
      BY <3>1 DEF Goals!InUse, Goals!KeysOf
    <3>3. <<"item", ui.subject>> \in Goals!InUse' /\ (ui.view # "form" => <<"contributions", ui.subject>> \in Goals!InUse')
      BY <3>1 DEF Goals!InUse, Goals!KeysOf
    <3> QED  BY <2>1, <3>1, <3>2, <3>3
  <2>5. GoalsFresh'
    BY <1>2, <2>3, <2>4 DEF GoalsFresh
  <2> QED  BY <1>2, <2>5 DEF GoalsTold, Goals!PigIds
<1>5. CASE Goals!Fails(k, ui)
  <2>1. UNCHANGED <<due, ui>> /\ lost' = (lost \/ call[k].state = "done")
    BY <1>5 DEF Goals!Fails
  <2>2. CASE call[k].state = "done"
    BY <1>2, <2>1, <2>2 DEF GoalsTold, Goals!PigIds
  <2>3. CASE call[k].state # "done"
    <3>1. lost => lost'
      BY Zenon, <2>1
    <3>2. GoalsFresh => GoalsFresh'
      BY <1>2, <2>1, GoalsShowSame
    <3> HIDE DEF n
    <3>3. Owed(n, call, GoalHooks) => Owed(n, call', GoalHooks)
      BY <1>1, <1>2, <2>3, OwedStays DEF n
    <3> QED  BY <1>2, <3>1, <3>2, <3>3, GoalsReminded DEF n
  <2> QED  BY <2>2, <2>3
<1> QED  BY <1>4, <1>5

\* and what is fetched is the server's.
LEMMA GoalsTellsFetched ==
    ASSUME NoCalls, GoalsInv, GoalsTold,
           Goals!FetchList \/ \E p \in Goals!PigIds : Goals!FetchItem(p) \/ Goals!FetchContributions(p)
    PROVE  GoalsTold'
<1>1. /\ seen = [list |-> seen.list, item |-> seen.item, contributions |-> seen.contributions]
      /\ seen.item = [p \in Goals!PigIds |-> seen.item[p]]
      /\ DOMAIN seen.contributions = Goals!PigIds /\ DOMAIN db.pig \subseteq Goals!PigIds
  BY DEF GoalsInv, GoalForm, GoalsTold
<1>2. UNCHANGED <<db, call, lost>>
  BY DEF Goals!FetchList, Goals!FetchItem, Goals!FetchContributions
<1>3. \A p : Goals!Answer(db, p)' = Goals!Answer(db, p) /\ Goals!Contributions(db, p)' = Goals!Contributions(db, p)
  BY <1>2 DEF Goals!Answer, Goals!Total, Goals!Contributions
<1> SUFFICES (GoalsFresh => GoalsFresh') /\ DOMAIN seen'.contributions = Goals!PigIds
  BY <1>1, <1>2 DEF GoalsTold, Goals!PigIds
<1>4. CASE Goals!FetchList
  <2> DEFINE answer == [p \in DOMAIN db.pig |-> Goals!Answer(db, p)]
  <2>1. /\ seen' = [list |-> answer, item |-> seen.item, contributions |-> seen.contributions]
        /\ ui' = ui /\ due' = due \ {Goals!ListKey}
    BY <1>1, <1>4 DEF Goals!FetchList
  <2>2. answer = [p \in DOMAIN db'.pig |-> Goals!Answer(db, p)']
    BY <1>2, <1>3
  <2> HIDE DEF answer
  <2>3. \A s : /\ <<"item", s>> \in due => <<"item", s>> \in due'
               /\ <<"contributions", s>> \in due => <<"contributions", s>> \in due'
    BY <2>1 DEF Goals!ListKey
  <2> QED  BY <1>1, <1>2, <1>3, <2>1, <2>2, <2>3 DEF GoalsFresh
<1>5. CASE \E p \in Goals!PigIds : Goals!FetchItem(p)
  <2>1. PICK p \in Goals!PigIds : Goals!FetchItem(p)
    BY <1>5
  <2>2. PICK item :
          /\ item = IF p \in DOMAIN db.pig THEN Goals!Answer(db, p) ELSE seen.item[p]
          /\ seen' = [seen EXCEPT !.item[p] = item]
          /\ \/ ui' = [ui EXCEPT !.goal = Goals!FormOf(item), !.touched = FALSE]
             \/ ui' = ui
    BY <2>1 DEF Goals!FetchItem
  <2>3. ui'.view = ui.view /\ ui'.subject = ui.subject
    BY <2>2 DEF GoalsInv, GoalForm, IsGoalUi
  <2>4. seen' = [list |-> seen.list, item |-> [seen.item EXCEPT ![p] = item], contributions |-> seen.contributions]
    BY <1>1, <2>2
  <2>5. seen'.list = seen.list /\ seen'.contributions = seen.contributions
        /\ seen'.item[p] = item /\ \A s \in Goals!PigIds : s # p => seen'.item[s] = seen.item[s]
    BY <1>1, <2>4
  <2>6. due' = due \ {<<"item", p>>}
    BY <2>1 DEF Goals!FetchItem
  <2>7. /\ Goals!ListKey \in due => Goals!ListKey \in due'
        /\ \A s : /\ s # p /\ <<"item", s>> \in due => <<"item", s>> \in due'
                  /\ <<"contributions", s>> \in due => <<"contributions", s>> \in due'
    BY <2>6 DEF Goals!ListKey
  <2> QED  BY <1>1, <1>2, <1>3, <2>2, <2>3, <2>5, <2>7 DEF GoalsFresh
<1>6. CASE \E p \in Goals!PigIds : Goals!FetchContributions(p)
  <2>1. PICK p \in Goals!PigIds : Goals!FetchContributions(p)
    BY <1>6
  <2>2. PICK rows :
          /\ p \in DOMAIN db.pig => rows = Goals!Contributions(db, p)
          /\ seen' = [seen EXCEPT !.contributions[p] = rows] \/ (p \notin DOMAIN db.pig /\ seen' = seen)
    BY <2>1 DEF Goals!FetchContributions
  <2>3. ui' = ui /\ due' = due \ {<<"contributions", p>>}
    BY <2>1 DEF Goals!FetchContributions
  <2>4. /\ seen'.list = seen.list /\ seen'.item = seen.item /\ DOMAIN seen'.contributions = Goals!PigIds
        /\ p \in DOMAIN db.pig => seen'.contributions[p] = rows
        /\ \A s \in Goals!PigIds : s # p => seen'.contributions[s] = seen.contributions[s]
    <3>1. CASE seen' = seen /\ p \notin DOMAIN db.pig
      BY <1>1, <3>1
    <3>2. CASE seen' = [seen EXCEPT !.contributions[p] = rows]
      <4>1. seen' = [list |-> seen.list, item |-> seen.item,
                     contributions |-> [seen.contributions EXCEPT ![p] = rows]]
        BY <1>1, <3>2
      <4> QED  BY <1>1, <4>1
    <3> QED  BY <2>2, <3>1, <3>2
  <2>5. /\ Goals!ListKey \in due => Goals!ListKey \in due'
        /\ \A s : /\ s # p /\ <<"contributions", s>> \in due => <<"contributions", s>> \in due'
                  /\ <<"item", s>> \in due => <<"item", s>> \in due'
    BY <2>3 DEF Goals!ListKey
  <2> QED  BY <1>1, <1>2, <1>3, <2>2, <2>3, <2>4, <2>5 DEF GoalsFresh
<1> QED  BY <1>4, <1>5, <1>6

\* It holds when the page is opened,
LEMMA GoalsToldInit == ASSUME Goals!PigInit PROVE GoalsTold
<1>1. /\ db = [pig |-> GoalsCase.startPigs, contrib |-> GoalsCase.startContribs]
      /\ seen = [list |-> NoData, item |-> [p \in Goals!PigIds |-> NoData],
                 contributions |-> [p \in Goals!PigIds |-> NoData]]
      /\ due = Goals!InUse
  BY DEF Goals!PigInit
<1>2. DOMAIN db.pig \subseteq Goals!PigIds /\ DOMAIN seen.contributions = Goals!PigIds
  BY <1>1 DEF Goals!PigIds
<1>3. None \notin DOMAIN db.pig
  BY <1>2, GoalKeys
<1>4. GoalsFresh
  BY <1>1, <1>3 DEF GoalsFresh, Goals!InUse, Goals!KeysOf
<1> QED  BY <1>2, <1>4 DEF GoalsTold

\* each step keeps it, and where nothing is under way what is in use is the server's.
LEMMA GoalsTells == ASSUME NoCalls, GoalsInv, GoalsTold, Goals!PigNext PROVE GoalsTold'
<1>1. ASSUME NEW k \in Goals!Slots PROVE k \in 1..GoalsCase.calls
  BY <1>1 DEF Goals!Slots
<1> QED
  BY <1>1, GoalsTellsUser, GoalsTellsServed, GoalsTellsEnded, GoalsTellsFetched DEF Goals!PigNext

\* and the goals page shows the server's rows once nothing is left to do.
LEMMA GoalsShown == ASSUME GoalsTold PROVE Goals!PigsCurrent
<1>1. (\A k \in Goals!Slots : ~Goals!Running(k)) => ~Owed(GoalsCase.calls, call, GoalHooks)
  BY NoneOwed DEF Goals!Slots, Goals!Running, Going
<1> QED  BY <1>1 DEF GoalsTold, GoalsFresh, Goals!PigsCurrent

-----------------------------------------------------------------------------
(***************************************************************************)
(* The page of the list of transactions that the URL asks for.             *)
(***************************************************************************)
RowHooks == {"patch", "delete"}

AskedFor == List!ListAnswer(ui.url, ui.period, List!CursorOf(ui.url))

RowsTold == ~lost => seen.list = AskedFor \/ due # {} \/ Owed(ListCase.calls, call, RowHooks)

RowsInv ==
    /\ Hooks(ListCase.calls, call, RowHooks) /\ IsRowsUi(ui) /\ due \subseteq {"list"}
    /\ RowsTold

\* The same is asked for as long as URL, period and cursors stay.
LEMMA SameAskedFor ==
    ASSUME UNCHANGED db, ui'.url = ui.url, ui'.period = ui.period, ui'.cursors = ui.cursors
    PROVE  AskedFor' = AskedFor
<1>1. List!CursorOf(ui.url)' = List!CursorOf(ui.url)
  BY DEF List!CursorOf
<1>2. \A type, period : List!Matching(type, period)' = List!Matching(type, period)
  BY DEF List!Matching
<1> QED  BY <1>1, <1>2 DEF AskedFor, List!ListAnswer

\* The calls a step leaves are those of the page,
LEMMA RowsCalls ==
    ASSUME NoCalls, RowsInv,
           \/ call' = call
           \/ \E h \in RowHooks : \E b : List!Mutate(h, b)
           \/ \E k \in 1..ListCase.calls :
                 /\ Going(call[k])
                 /\ call' = List!Without(k) \/ \E s : call' = [call EXCEPT ![k].state = s]
    PROVE  /\ Hooks(ListCase.calls, call', RowHooks)
           /\ \A h, b : List!Mutate(h, b) => Begun(ListCase.calls, call, call', h, b)
<1> DEFINE n == ListCase.calls
<1>1. n \in Nat /\ Hooks(n, call, RowHooks)
  BY ClientAssumption DEF RowsInv
<1>2. ASSUME NEW h, NEW b, List!Mutate(h, b) PROVE Begun(n, call, call', h, b)
  <2>1. List!Free # {} /\ List!Free \subseteq Nat /\ \A k \in List!Free : k \in 1..n /\ call[k] = Idle
    BY <1>2 DEF List!Mutate, List!Free, List!Slots
  <2>2. List!Min(List!Free) \in List!Free /\ \A j \in List!Free : List!Min(List!Free) <= j
    BY <2>1, LeastIsIn DEF List!Min
  <2>3. \A j \in 1..n : call[j] = Idle => j \in List!Free
    BY DEF List!Free, List!Slots
  <2> QED
    BY <1>2, <2>1, <2>2, <2>3 DEF List!Mutate, List!Started, List!Slots, List!Running, Begun, Going
<1>3. \/ call' = call
      \/ \E h \in RowHooks : \E b : Begun(n, call, call', h, b)
      \/ \E k \in 1..n : Going(call[k]) /\ ((\E s : Restated(call, call', k, s)) \/ Dropped(n, call, call', k))
  BY <1>2 DEF List!Without, List!Slots, Dropped, Restated
<1> HIDE DEF n
<1>4. Hooks(n, call', RowHooks)
  BY <1>1, <1>3, HooksStay
<1> QED  BY <1>2, <1>4 DEF n

\* and one that asks for the same keeps the invariant.
LEMMA RowsReminded ==
    ASSUME NoCalls, RowsInv, IsRowsUi(ui'), ui'.url = ui.url, ui'.period = ui.period, ui'.cursors = ui.cursors,
           UNCHANGED <<db, seen, due>>, lost => lost', Hooks(ListCase.calls, call', RowHooks),
           Owed(ListCase.calls, call, RowHooks) => Owed(ListCase.calls, call', RowHooks)
    PROVE  RowsInv'
<1>1. AskedFor' = AskedFor
  BY SameAskedFor
<1> QED  BY <1>1 DEF RowsInv, RowsTold

\* Moving in the list asks for another page,
LEMMA RowsMoved ==
    ASSUME NoCalls, RowsInv,
           \/ List!ApplyFilters \/ List!ClearFilters \/ List!GoNext \/ List!GoPrev \/ List!BrowserBack
           \/ List!Reload \/ (\E n : List!ChangePageSize(n)) \/ (\E sort : List!ChangeSort(sort))
           \/ \E period : List!ChangePeriod(period)
    PROVE  RowsInv'
<1>1. ui = [url |-> ui.url, pending |-> ui.pending, cursors |-> ui.cursors, filters |-> ui.filters,
            deleting |-> ui.deleting, blocked |-> ui.blocked, drawer |-> ui.drawer, edit |-> ui.edit,
            period |-> ui.period, walk |-> ui.walk, back |-> ui.back, moves |-> ui.moves]
  BY DEF RowsInv, IsRowsUi
<1>2. ASSUME NEW u, NEW c, NEW w, List!Goto(u, c, w) PROVE IsRowsUi(ui') /\ due' = {"list"} /\ call' = call
  BY <1>1, <1>2 DEF List!Goto, IsRowsUi
<1>3. IsRowsUi(ui') /\ due' = {"list"} /\ call' = call
  <2>1. CASE \/ List!GoNext \/ List!GoPrev \/ (\E n : List!ChangePageSize(n)) \/ (\E sort : List!ChangeSort(sort))
    BY <1>2, <2>1 DEF List!GoNext, List!GoPrev, List!ChangePageSize, List!ChangeSort
  <2>2. CASE List!ApplyFilters
    BY <1>1, <2>2 DEF List!ApplyFilters, IsRowsUi
  <2>3. CASE List!ClearFilters
    BY <1>1, <2>3 DEF List!ClearFilters, IsRowsUi
  <2>4. CASE List!BrowserBack
    BY <1>1, <2>4 DEF List!BrowserBack, IsRowsUi
  <2>5. CASE List!Reload
    BY <2>5 DEF List!Reload, List!Entered, IsRowsUi
  <2>6. CASE \E period : List!ChangePeriod(period)
    BY <1>1, <2>6 DEF List!ChangePeriod, IsRowsUi
  <2> QED  BY <2>1, <2>2, <2>3, <2>4, <2>5, <2>6
<1> QED  BY <1>3 DEF RowsInv, RowsTold

\* and nothing else the user does, does.
LEMMA RowsUser == ASSUME NoCalls, RowsInv, List!ListUser PROVE RowsInv'
<1> DEFINE n == ListCase.calls
           Elsewhere(new) ==
               \/ \E v : new = [ui EXCEPT !.filters = v]
               \/ \E v : new = [ui EXCEPT !.pending = v]
               \/ \E v : new = [ui EXCEPT !.edit = v]
               \/ \E v : new = [ui EXCEPT !.edit.text = v]
               \/ \E v : new = [ui EXCEPT !.drawer = v]
               \/ \E v : new = [ui EXCEPT !.deleting = v]
               \/ \E v : new = [ui EXCEPT !.blocked = v]
<1>1. ui = [url |-> ui.url, pending |-> ui.pending, cursors |-> ui.cursors, filters |-> ui.filters,
            deleting |-> ui.deleting, blocked |-> ui.blocked, drawer |-> ui.drawer, edit |-> ui.edit,
            period |-> ui.period, walk |-> ui.walk, back |-> ui.back, moves |-> ui.moves]
      /\ n \in Nat /\ Calling(n, call) /\ Hooks(n, call, RowHooks)
  BY ClientAssumption DEF RowsInv, IsRowsUi, Hooks
<1>2. CASE \E new : Elsewhere(new) /\ List!Locally(new)
  <2>1. PICK new : Elsewhere(new) /\ List!Locally(new)
    BY <1>2
  <2>2. IsRowsUi(new) /\ new.url = ui.url /\ new.period = ui.period /\ new.cursors = ui.cursors
    BY <1>1, <2>1 DEF IsRowsUi
  <2>3. ui' = new /\ UNCHANGED <<db, seen, due, call, lost>>
    BY <2>1 DEF List!Locally
  <2> QED  BY <1>1, <2>2, <2>3, RowsReminded
<1>3. CASE \E h \in RowHooks : \E b : List!Sends(h, b)
  <2>1. PICK h, b : h \in RowHooks /\ List!Sends(h, b)
    BY <1>3
  <2>2. UNCHANGED <<db, seen, due, ui, lost>> /\ List!Mutate(h, b)
    BY <2>1 DEF List!Sends
  <2>3. Hooks(n, call', RowHooks) /\ Begun(n, call, call', h, b)
    BY <2>1, <2>2, RowsCalls
  <2> HIDE DEF n
  <2>4. Owed(n, call, RowHooks) => Owed(n, call', RowHooks)
    BY <1>1, <2>3, OwedStays
  <2> QED  BY <2>2, <2>3, <2>4, RowsReminded DEF RowsInv, n
<1>4. \/ List!ToggleFilters \/ (\E type : List!ChooseType(type)) \/ (\E t : List!RowUser(t)) \/ List!TypeDesc
      \/ List!CancelEditDesc \/ List!CloseDrawer \/ List!CancelDelete \/ List!CloseBlocked
      => \E new : Elsewhere(new) /\ List!Locally(new)
  <2>1. List!ToggleFilters \/ (\E type : List!ChooseType(type)) => \E new : Elsewhere(new) /\ List!Locally(new)
    BY Zenon DEF List!ToggleFilters, List!ChooseType
  <2>2. List!TypeDesc \/ List!CancelEditDesc \/ List!CloseDrawer => \E new : Elsewhere(new) /\ List!Locally(new)
    BY Zenon DEF List!TypeDesc, List!CancelEditDesc, List!CloseDrawer
  <2>3. List!CancelDelete \/ List!CloseBlocked => \E new : Elsewhere(new) /\ List!Locally(new)
    BY Zenon DEF List!CancelDelete, List!CloseBlocked
  <2>4. (\E t : List!RowUser(t)) => \E new : Elsewhere(new) /\ List!Locally(new)
    BY Zenon DEF List!RowUser, List!StartEditDesc, List!OpenDrawer, List!OpenDelete
  <2> QED  BY Zenon, <2>1, <2>2, <2>3, <2>4
<1>5. List!SaveEditDesc \/ List!ConfirmDelete
      => (\E new : Elsewhere(new) /\ List!Locally(new)) \/ \E h \in RowHooks : \E b : List!Sends(h, b)
  BY Zenon DEF List!SaveEditDesc, List!ConfirmDelete, RowHooks
<1> HIDE DEF Elsewhere
<1> QED  BY Zenon, <1>2, <1>3, <1>4, <1>5, RowsMoved DEF List!ListUser

\* What the server does is owed, and what comes back has the list fetched,
LEMMA RowsServed ==
    ASSUME NoCalls, RowsInv, NEW k \in 1..ListCase.calls, Going(call[k]),
           List!ServeRow(k) \/ List!AnswerRow(k) \/ List!RefuseRow(k) \/ List!FailRow(k)
    PROVE  RowsInv'
<1> DEFINE n == ListCase.calls
<1>1. n \in Nat /\ Calling(n, call) /\ call[k].hook \in RowHooks
  BY ClientAssumption DEF RowsInv, Hooks
<1>2. ui = [url |-> ui.url, pending |-> ui.pending, cursors |-> ui.cursors, filters |-> ui.filters,
            deleting |-> ui.deleting, blocked |-> ui.blocked, drawer |-> ui.drawer, edit |-> ui.edit,
            period |-> ui.period, walk |-> ui.walk, back |-> ui.back, moves |-> ui.moves]
  BY DEF RowsInv, IsRowsUi
<1>3. Hooks(n, call', RowHooks)
  <2>1. call' = List!Without(k) \/ \E s : call' = [call EXCEPT ![k].state = s]
    BY DEF List!ServeRow, List!AnswerRow, List!RefuseRow, List!FailRow, List!Fails, List!Returns, List!Serve
  <2> QED  BY <2>1, RowsCalls
<1>4. ASSUME NEW new, new = List!HeardRow(k) \/ new = [List!HeardRow(k) EXCEPT !.blocked = TRUE]
      PROVE  IsRowsUi(new) /\ new.url = ui.url /\ new.period = ui.period /\ new.cursors = ui.cursors
  <2>1. List!HeardRow(k) = [ui EXCEPT !.deleting = None] \/ List!HeardRow(k) = [ui EXCEPT !.edit = List!NoEdit]
    BY DEF List!HeardRow
  <2> QED  BY <1>2, <1>4, <2>1 DEF IsRowsUi
<1>5. CASE List!ServeRow(k)
  <2>1. Restated(call, call', k, "done") /\ UNCHANGED <<due, ui>>
    BY <1>5 DEF List!ServeRow, List!Serve, Restated
  <2>2. Owed(n, call', RowHooks)
    <3> HIDE DEF n
    <3> QED  BY <1>1, <2>1, OwedNow DEF n
  <2> QED  BY <1>3, <2>1, <2>2 DEF RowsInv, RowsTold
<1>6. CASE List!AnswerRow(k)
  <2>1. due' = due \cup {"list"} /\ ui' = List!HeardRow(k)
    BY <1>6 DEF List!AnswerRow, List!Returns, List!InvalidatedByRow
  <2> QED  BY <1>3, <1>4, <2>1 DEF RowsInv, RowsTold
<1>7. CASE List!RefuseRow(k) \/ List!FailRow(k)
  <2>1. /\ ui' = List!HeardRow(k) \/ ui' = [List!HeardRow(k) EXCEPT !.blocked = TRUE]
        /\ UNCHANGED <<db, seen, due>> /\ Dropped(n, call, call', k)
        /\ lost' = (lost \/ call[k].state = "done")
    BY <1>7 DEF List!RefuseRow, List!FailRow, List!Fails, List!Without, List!Slots, Dropped
  <2>2. CASE call[k].state = "done"
    BY <1>3, <1>4, <2>1, <2>2 DEF RowsInv, RowsTold
  <2>3. CASE call[k].state # "done"
    <3>1. lost => lost'
      BY Zenon, <2>1
    <3> HIDE DEF n
    <3>2. Owed(n, call, RowHooks) => Owed(n, call', RowHooks)
      BY <1>1, <2>1, <2>3, OwedStays DEF n
    <3> QED  BY <1>3, <1>4, <2>1, <3>1, <3>2, RowsReminded DEF n
  <2> QED  BY <2>2, <2>3
<1> QED  BY <1>5, <1>6, <1>7

\* and the list fetched is what was asked for.
LEMMA RowsFetched == ASSUME NoCalls, RowsInv, List!FetchList PROVE RowsInv'
<1>1. ui = [url |-> ui.url, pending |-> ui.pending, cursors |-> ui.cursors, filters |-> ui.filters,
            deleting |-> ui.deleting, blocked |-> ui.blocked, drawer |-> ui.drawer, edit |-> ui.edit,
            period |-> ui.period, walk |-> ui.walk, back |-> ui.back, moves |-> ui.moves]
  BY DEF RowsInv, IsRowsUi
<1>2. /\ seen' = [list |-> AskedFor] /\ due' = {} /\ UNCHANGED <<db, call, lost>>
      /\ \E w : ui' = [ui EXCEPT !.walk = w]
  BY Zenon DEF List!FetchList, AskedFor
<1>3. IsRowsUi(ui') /\ ui'.url = ui.url /\ ui'.period = ui.period /\ ui'.cursors = ui.cursors
  BY <1>1, <1>2 DEF IsRowsUi
<1>4. AskedFor' = AskedFor
  BY <1>2, <1>3, SameAskedFor
<1>5. seen'.list = AskedFor
  BY <1>2
<1> QED  BY <1>2, <1>3, <1>4, <1>5 DEF RowsInv, RowsTold

\* The invariant holds when the page is opened,
LEMMA RowsInit == ASSUME List!ListInit PROVE RowsInv
<1>1. call = [k \in 1..ListCase.calls |-> Idle]
  BY DEF List!ListInit, List!Slots
<1>2. Hooks(ListCase.calls, call, RowHooks)
  BY <1>1 DEF Hooks, Calling, Going
<1>3. due = {"list"} /\ IsRowsUi(ui)
  BY DEF List!ListInit, IsRowsUi
<1> QED  BY <1>2, <1>3 DEF RowsInv, RowsTold

\* each step keeps it, and where nothing is under way the list is the server's answer.
LEMMA RowsStep == ASSUME NoCalls, RowsInv, List!ListNext PROVE RowsInv'
<1>1. ASSUME NEW k \in List!Slots,
             List!ServeRow(k) \/ List!AnswerRow(k) \/ List!RefuseRow(k) \/ List!FailRow(k)
      PROVE  k \in 1..ListCase.calls /\ Going(call[k])
  BY <1>1 DEF List!Slots, List!ServeRow, List!AnswerRow, List!RefuseRow, List!FailRow, List!Running, Going
<1> QED  BY <1>1, RowsUser, RowsServed, RowsFetched DEF List!ListNext

\* and the list shows the server's rows once nothing is left to do.
LEMMA RowsShown == ASSUME RowsInv PROVE List!ListCurrent
<1>1. (\A k \in List!Slots : ~List!Running(k)) => ~Owed(ListCase.calls, call, RowHooks)
  BY NoneOwed DEF List!Slots, List!Running, Going
<1> QED  BY <1>1 DEF RowsInv, RowsTold, List!ListCurrent, AskedFor

-----------------------------------------------------------------------------
(***************************************************************************)
(* The split whose shares are worked on: every call has it fetched, unless *)
(* it is deleted.                                                          *)
(***************************************************************************)
OwedAny(n, c) == \E k \in 1..n : Going(c[k]) /\ c[k].state = "done"

\* An answer owed stays so until its callbacks ran.
LEMMA OwedAnyStays ==
    ASSUME NoCalls, NEW n \in Nat, NEW c, Calling(n, c), NEW d, OwedAny(n, c),
           \/ d = c
           \/ \E h, b : Begun(n, c, d, h, b)
           \/ \E k \in 1..n :
                 /\ Going(c[k]) /\ c[k].state # "done"
                 /\ (\E s : Restated(c, d, k, s)) \/ Dropped(n, c, d, k)
    PROVE  OwedAny(n, d)
<1>1. PICK j \in 1..n : Going(c[j]) /\ c[j].state = "done"
  BY DEF OwedAny
<1>2. \/ d = c
      \/ \E h, b : Begun(n, c, d, h, b)
      \/ \E k \in 1..n :
            k # j /\ Going(c[k]) /\ ((\E s : Restated(c, d, k, s)) \/ Dropped(n, c, d, k))
  BY Zenon, <1>1
<1>3. PICK i \in 1..n : Going(d[i]) /\ d[i].state = "done" /\ Carries(c[j], d[i])
  BY <1>1, <1>2, DoneGoesOn
<1> QED  BY <1>1, <1>3 DEF OwedAny

\* and callbacks taken away do not change that.
LEMMA OwedAnyUnheard ==
    ASSUME NoCalls, NEW n \in Nat, NEW c, Calling(n, c), NEW d, OwedAny(n, c),
           \A j \in 1..n : \/ d[j] = c[j]
                           \/ Going(c[j]) /\ d[j] = [c[j] EXCEPT !.heard = FALSE]
    PROVE  OwedAny(n, d)
<1>1. PICK k \in 1..n : Going(c[k]) /\ c[k].state = "done"
  BY DEF OwedAny
<1>2. IsCall(c[k]) /\ (d[k] = c[k] \/ d[k] = [c[k] EXCEPT !.heard = FALSE])
  BY <1>1 DEF Calling
<1>3. IsCall(d[k]) /\ d[k].state = "done"
  BY <1>1, <1>2 DEF IsCall
<1> QED  BY <1>3 DEF OwedAny, Going, NoCalls

SharesTold ==
    ~lost /\ Shares!IsLive(db.split, SplitSharesCase.theSplit) =>
        \/ seen.split = Shares!SplitView(db)
        \/ due # {}
        \/ OwedAny(SplitSharesCase.calls, call)

SharesInv == Calling(SplitSharesCase.calls, call) /\ SharesTold

\* A step that leaves what is shown and the tables alone keeps it so.
LEMMA SharesReminded ==
    ASSUME SharesInv, UNCHANGED <<db, seen, due>>, lost => lost', Calling(SplitSharesCase.calls, call'),
           OwedAny(SplitSharesCase.calls, call) => OwedAny(SplitSharesCase.calls, call')
    PROVE  SharesInv'
BY DEF SharesInv, SharesTold

\* The user's steps are such: they change local state, send a call, or have the answer of
\* one not heard.
LEMMA SharesUser == ASSUME NoCalls, SharesInv, Shares!ShareUser PROVE SharesInv'
<1> DEFINE n == SplitSharesCase.calls
<1>1. n \in Nat /\ Calling(n, call)
  BY ClientAssumption DEF SharesInv
<1>2. CASE \E new : Shares!Locally(new)
  BY <1>1, <1>2, SharesReminded DEF Shares!Locally
<1>3. CASE \E h, b : Shares!Sends(h, b)
  <2>1. PICK h, b : Shares!Sends(h, b)
    BY <1>3
  <2>2. UNCHANGED <<db, seen, due, lost>> /\ Shares!Mutate(h, b)
    BY <2>1 DEF Shares!Sends
  <2>3. Begun(n, call, call', h, b)
    <3>1. Shares!Free # {} /\ Shares!Free \subseteq Nat /\ \A k \in Shares!Free : k \in 1..n /\ call[k] = Idle
      BY <1>1, <2>2 DEF Shares!Mutate, Shares!Free, Shares!Slots
    <3>2. Shares!Min(Shares!Free) \in Shares!Free /\ \A j \in Shares!Free : Shares!Min(Shares!Free) <= j
      BY <3>1, LeastIsIn DEF Shares!Min
    <3>3. \A j \in 1..n : call[j] = Idle => j \in Shares!Free
      BY DEF Shares!Free, Shares!Slots
    <3> QED
      BY <2>2, <3>1, <3>2, <3>3 DEF Shares!Mutate, Shares!Started, Shares!Slots, Shares!Running, Begun, Going
  <2> HIDE DEF n
  <2>4. Calling(n, call')
    BY <1>1, <2>3, BegunRows
  <2>5. OwedAny(n, call) => OwedAny(n, call')
    BY <1>1, <2>3, OwedAnyStays
  <2> QED  BY <2>2, <2>4, <2>5, SharesReminded DEF n
<1>4. CASE \E h : Shares!ToggleShare(h)
  <2>1. UNCHANGED <<db, seen, due, lost>>
    BY <1>4 DEF Shares!ToggleShare
  <2>2. DOMAIN call' = 1..n /\ \A j \in 1..n : \/ call'[j] = call[j]
                                               \/ Going(call[j]) /\ call'[j] = [call[j] EXCEPT !.heard = FALSE]
    BY <1>4 DEF Shares!ToggleShare, Shares!Unheard, Shares!Slots, Shares!Running, Going
  <2>3. Calling(n, call')
    BY <1>1, <2>2, UnheardContinues
  <2>4. OwedAny(n, call) => OwedAny(n, call')
    <3> HIDE DEF n
    <3> QED  BY <1>1, <2>2, OwedAnyUnheard
  <2> QED  BY <2>1, <2>3, <2>4, SharesReminded
<1>5. ASSUME NEW h,
             \/ Shares!OpenSettle(h) \/ Shares!OpenForgive(h) \/ Shares!OpenEdit(h) \/ Shares!CancelForm(h)
             \/ (\E action : Shares!ActivateAction(action, h)) \/ Shares!AllRemaining(h) \/ Shares!OpenReset(h)
             \/ (\E t : Shares!PickPayment(h, t)) \/ (\E p : Shares!ChoosePayee(h, p))
             \/ (\E x : Shares!OpenUnlink(h, x))
             \/ \E a : Shares!TypeSettle(h, a) \/ Shares!TypeForgive(h, a) \/ Shares!TypeShareAmount(h, a)
      PROVE  \E new : Shares!Locally(new)
  BY Zenon, <1>5 DEF Shares!OpenSettle, Shares!OpenForgive, Shares!OpenEdit, Shares!CancelForm,
     Shares!ActivateAction, Shares!AllRemaining, Shares!OpenReset, Shares!PickPayment, Shares!ChoosePayee,
     Shares!OpenUnlink, Shares!TypeSettle, Shares!TypeForgive, Shares!TypeShareAmount, Shares!SetForm
<1>6. ASSUME NEW h, Shares!SendSettle(h) \/ Shares!SendForgive(h) \/ Shares!SendEdit(h)
      PROVE  \E g, b : Shares!Sends(g, b)
  BY Zenon, <1>6 DEF Shares!SendSettle, Shares!SendForgive, Shares!SendEdit
<1>7. Shares!OpenDelete \/ Shares!CancelDelete \/ Shares!CancelReset \/ Shares!CancelUnlink
      => \E new : Shares!Locally(new)
  BY Zenon DEF Shares!OpenDelete, Shares!CancelDelete, Shares!CancelReset, Shares!CancelUnlink
<1>8. Shares!SendDelete \/ Shares!SendReset \/ Shares!SendUnlink => \E h, b : Shares!Sends(h, b)
  BY Zenon DEF Shares!SendDelete, Shares!SendReset, Shares!SendUnlink
<1> QED  BY Zenon, <1>2, <1>3, <1>4, <1>5, <1>6, <1>7, <1>8 DEF Shares!ShareUser

\* What the server does is owed, and what comes back has the split fetched.
LEMMA SharesClient == ASSUME NoCalls, SharesInv, Shares!ShareClient PROVE SharesInv'
<1> DEFINE n == SplitSharesCase.calls
<1>1. n \in Nat /\ Calling(n, call)
  BY ClientAssumption DEF SharesInv
<1>2. ASSUME NEW k \in Shares!Slots, Shares!ServeShare(k) \/ Shares!AnswerShare(k) \/ Shares!Fails(k, ui)
      PROVE  k \in 1..n /\ Going(call[k])
  BY <1>2 DEF Shares!Slots, Shares!ServeShare, Shares!AnswerShare, Shares!Fails, Shares!Running, Going
<1>3. ASSUME NEW k \in Shares!Slots, Shares!ServeShare(k) PROVE SharesInv'
  <2>1. Restated(call, call', k, "done")
    BY <1>3 DEF Shares!ServeShare, Shares!Serve, Restated
  <2> HIDE DEF n
  <2>2. Calling(n, call') /\ Going(call'[k]) /\ call'[k].state = "done"
    BY <1>1, <1>2, <1>3, <2>1, RestatedRows
  <2>3. OwedAny(n, call')
    BY <1>2, <1>3, <2>2 DEF OwedAny
  <2> QED  BY <2>2, <2>3 DEF SharesInv, SharesTold, n
<1>4. ASSUME NEW k \in Shares!Slots, Shares!AnswerShare(k) PROVE SharesInv'
  <2>1. due' = due \cup {"split"} /\ Dropped(n, call, call', k)
    BY <1>4 DEF Shares!AnswerShare, Shares!Returns, Shares!InvalidatedByShare, Shares!Without, Shares!Slots, Dropped
  <2> HIDE DEF n
  <2>2. Calling(n, call')
    BY <1>1, <1>2, <1>4, <2>1, DroppedRows
  <2> QED  BY <2>1, <2>2 DEF SharesInv, SharesTold, n
<1>5. ASSUME NEW k \in Shares!Slots, Shares!Fails(k, ui) PROVE SharesInv'
  <2>1. /\ UNCHANGED <<db, seen, due>> /\ Dropped(n, call, call', k)
        /\ lost' = (lost \/ call[k].state = "done")
    BY <1>5 DEF Shares!Fails, Shares!Without, Shares!Slots, Dropped
  <2> HIDE DEF n
  <2>2. Calling(n, call')
    BY <1>1, <1>2, <1>5, <2>1, DroppedRows
  <2>3. CASE call[k].state = "done"
    BY <2>1, <2>2, <2>3 DEF SharesInv, SharesTold, n
  <2>4. CASE call[k].state # "done"
    <3>1. lost => lost'
      BY Zenon, <2>1
    <3>2. OwedAny(n, call) => OwedAny(n, call')
      BY <1>1, <1>2, <1>5, <2>1, <2>4, OwedAnyStays
    <3> QED  BY <2>1, <2>2, <3>1, <3>2, SharesReminded DEF n
  <2> QED  BY <2>3, <2>4
<1>6. CASE Shares!FetchSplit
  <2>1. UNCHANGED <<db, call, lost>>
    BY <1>6 DEF Shares!FetchSplit
  <2>2. CASE Shares!IsLive(db.split, SplitSharesCase.theSplit)
    <3>1. seen'.split = Shares!SplitView(db)
      BY <1>6, <2>2 DEF Shares!FetchSplit
    <3> QED  BY <2>1, <3>1 DEF SharesInv, SharesTold
  <2>3. CASE ~Shares!IsLive(db.split, SplitSharesCase.theSplit)
    BY <2>1, <2>3 DEF SharesInv, SharesTold
  <2> QED  BY <2>2, <2>3
\* An income's amount is nothing the split shows.
<1>7. CASE Shares!FetchIncomes
  <2>1. UNCHANGED <<db, due, call, lost>> /\ seen'.split = seen.split
    BY <1>7 DEF Shares!FetchIncomes
  <2> QED  BY <2>1 DEF SharesInv, SharesTold
<1>8. CASE \E t \in SplitSharesCase.txnIds, a \in SplitSharesCase.typed : Shares!EditIncome(t, a)
  <2>1. UNCHANGED <<seen, due, call, lost>> /\ db'.split = db.split /\ db'.share = db.share /\ db'.paid = db.paid
    BY <1>8 DEF Shares!EditIncome
  <2>2. Shares!SplitView(db') = Shares!SplitView(db)
    BY <2>1 DEF Shares!SplitView, Shares!SharesOf, Shares!SettlementsOf, Shares!Paid, Shares!IsLive
  <2> QED  BY <2>1, <2>2 DEF SharesInv, SharesTold
<1> QED  BY <1>3, <1>4, <1>5, <1>6, <1>7, <1>8 DEF Shares!ShareClient

\* The invariant holds when a split is opened,
LEMMA SharesInit == ASSUME Shares!ShareInit PROVE SharesInv
<1>1. call = [k \in 1..SplitSharesCase.calls |-> Idle] /\ due = {"split"}
  BY DEF Shares!ShareInit, Shares!Slots
<1> QED  BY <1>1 DEF SharesInv, SharesTold, Calling, Going

\* All steps keep it so, and where nothing is under way what is shown is the server's.
LEMMA SharesStep == ASSUME NoCalls, SharesInv, Shares!ShareNext PROVE SharesInv'
BY SharesUser, SharesClient DEF Shares!ShareNext

\* and the split pages show the server's rows once nothing is left to do.
LEMMA SharesShown == ASSUME SharesInv PROVE Shares!SharesCurrent
<1>1. (\A k \in Shares!Slots : ~Shares!Running(k)) => ~OwedAny(SplitSharesCase.calls, call)
  BY DEF OwedAny, Shares!Slots, Shares!Running, Going
<1> QED  BY <1>1 DEF SharesInv, SharesTold, Shares!SharesCurrent

-----------------------------------------------------------------------------
(***************************************************************************)
(* The review of a statement: every call has all queries in use fetched,   *)
(* and those the parsing of the statement changes are polled until it is   *)
(* known to be over.                                                       *)
(***************************************************************************)
RecordsIn(d, status) == [r \in {r \in DOMAIN d.rec : d.rec[r].status = status} |-> d.rec[r]]

HintsFor(d) ==
    IF d.account # Bank THEN {}
    ELSE {r \in ReviewCase.bills \cap DOMAIN d.rec : d.rec[r].status = "pending" /\ d.rec[r].type = "expense"}

Tab(new, t) ==
    new = [tab |-> t, selected |-> new.selected, resolve |-> new.resolve,
           replacing |-> new.replacing, rejecting |-> new.rejecting, row |-> new.row]

BatchTold == "batch" \in due \/ Import!Processing \/ seen.batch = [status |-> db.status, account |-> db.account]

\* Told, not yet fetched, or fetched while there was nothing.
RecordsTold ==
    \/ ui.tab \in due \cup seen.early
    \/ db.status # "processing" /\ seen.list = RecordsIn(db, ui.tab)

HintsTold ==
    ui.tab = "pending" /\ ~Import!Processing =>
        \/ "hints" \in due \cup seen.early
        \/ db.status # "processing" /\ seen.hints = HintsFor(db)

ReviewShapes ==
    /\ ui.tab \in Import!Tabs /\ Tab(ui, ui.tab)
    /\ due \subseteq {"batch", "hints", ui.tab}
    /\ db.status = "processing" => DOMAIN db.rec = {}

ReviewTold ==
    /\ ReviewShapes
    /\ ~lost => OwedAny(ReviewCase.calls, call) \/ (BatchTold /\ RecordsTold /\ HintsTold)

\* A step that leaves the tables, what is shown and the tab alone keeps it so.
LEMMA ReviewReminded ==
    ASSUME ReviewTold, UNCHANGED <<db, seen, due>>, lost => lost', Tab(ui', ui.tab),
           OwedAny(ReviewCase.calls, call) => OwedAny(ReviewCase.calls, call')
    PROVE  ReviewTold'
<1>1. ui'.tab = ui.tab /\ Tab(ui', ui'.tab)
  BY DEF Tab
<1>2. ReviewShapes'
  BY <1>1 DEF ReviewTold, ReviewShapes, Tab
<1>3. BatchTold /\ RecordsTold /\ HintsTold => BatchTold' /\ RecordsTold' /\ HintsTold'
  BY <1>1 DEF BatchTold, RecordsTold, HintsTold, Import!Processing, RecordsIn, HintsFor
<1> QED  BY <1>2, <1>3 DEF ReviewTold

\* Local steps are such,
LEMMA ReviewTabKept ==
    ASSUME ReviewTold, NEW new, NEW x,
           \/ new = ui
           \/ new = [ui EXCEPT !.selected = x] \/ new = [ui EXCEPT !.resolve = x]
           \/ new = [ui EXCEPT !.replacing = x] \/ new = [ui EXCEPT !.rejecting = x]
           \/ new = [ui EXCEPT !.row = x]
           \/ new = [ui EXCEPT !.selected = {}, !.rejecting = FALSE]
           \/ new = [ui EXCEPT !.resolve = None, !.replacing = FALSE]
    PROVE  Tab(new, ui.tab)
BY DEF ReviewTold, ReviewShapes, Tab

\* So such a step keeps the invariant,
LEMMA ReviewLocalTold ==
    ASSUME ReviewTold, NEW new, Import!Locally(new), Tab(new, ui.tab)
    PROVE  ReviewTold'
BY ReviewReminded DEF Import!Locally

\* one on a row of the statement included.
LEMMA ReviewRowTold ==
    ASSUME ReviewTold, NEW r, NEW new, Import!SetRow(r, new)
    PROVE  ReviewTold'
<1>1. Import!Locally([ui EXCEPT !.row[r] = new])
  BY DEF Import!SetRow
<1>2. [ui EXCEPT !.row[r] = new] = [ui EXCEPT !.row = [ui.row EXCEPT ![r] = new]]
  BY DEF ReviewTold, ReviewShapes, Tab
<1>3. Tab([ui EXCEPT !.row[r] = new], ui.tab)
  BY <1>2, ReviewTabKept
<1> QED  BY <1>1, <1>3, ReviewLocalTold

\* and so is a call that is sent,
LEMMA ReviewSendsTold ==
    ASSUME NoCalls, ReviewInv, ReviewTold, NEW h, NEW b, Import!Sends(h, b)
    PROVE  ReviewTold'
<1> DEFINE n == ReviewCase.calls
<1>1. n \in Nat /\ Calling(n, call)
  BY ClientAssumption DEF ReviewInv
<1>2. UNCHANGED <<db, seen, due, ui, lost>> /\ Import!Mutate(h, b)
  BY DEF Import!Sends
<1>3. Begun(n, call, call', h, b)
  <2>1. Import!Free # {} /\ Import!Free \subseteq Nat /\ \A k \in Import!Free : k \in 1..n /\ call[k] = Idle
    BY <1>1, <1>2 DEF Import!Mutate, Import!Free, Import!Slots
  <2>2. Import!Min(Import!Free) \in Import!Free /\ \A j \in Import!Free : Import!Min(Import!Free) <= j
    BY <2>1, LeastIsIn DEF Import!Min
  <2>3. \A j \in 1..n : call[j] = Idle => j \in Import!Free
    BY DEF Import!Free, Import!Slots
  <2> QED
    BY <1>2, <2>1, <2>2, <2>3 DEF Import!Mutate, Import!Started, Import!Slots, Import!Running, Begun, Going
<1> HIDE DEF n
<1>4. OwedAny(n, call) => OwedAny(n, call')
  BY <1>1, <1>3, OwedAnyStays
<1>5. Tab(ui', ui.tab)
  BY <1>2 DEF ReviewTold, ReviewShapes
<1> QED  BY <1>2, <1>4, <1>5, ReviewReminded DEF n

\* or one nobody hears the answer of.
LEMMA ReviewUnheardOwed ==
    ASSUME NoCalls, ReviewInv, NEW gone, call' = Import!Unheard(gone)
    PROVE  OwedAny(ReviewCase.calls, call) => OwedAny(ReviewCase.calls, call')
<1> DEFINE n == ReviewCase.calls
<1>1. n \in Nat /\ Calling(n, call)
  BY ClientAssumption DEF ReviewInv
<1>2. \A j \in 1..n : \/ call'[j] = call[j]
                      \/ Going(call[j]) /\ call'[j] = [call[j] EXCEPT !.heard = FALSE]
  BY DEF Import!Unheard, Import!Slots, Import!Running, Going
<1> HIDE DEF n
<1>3. OwedAny(n, call) => OwedAny(n, call')
  BY <1>1, <1>2, OwedAnyUnheard
<1> QED  BY <1>3 DEF n

\* A row's own steps are local or send a call.
LEMMA ReviewRowsTold ==
    ASSUME NoCalls, ReviewInv, ReviewTold, NEW r, Import!RowSteps(r)
    PROVE  ReviewTold'
<1>1. ASSUME NEW h, NEW b, Import!Sends(h, b) PROVE ReviewTold'
  BY <1>1, ReviewSendsTold
<1>2. ASSUME NEW new, Import!SetRow(r, new) PROVE ReviewTold'
  BY <1>2, ReviewRowTold
<1>3. ASSUME Import!StartEdit(r) \/ Import!CancelEdit(r) \/ Import!StartNameEdit(r)
               \/ (\E type, dest : Import!TypeDraft(r, type, dest))
      PROVE  \E new : Import!SetRow(r, new)
  BY Zenon, <1>3 DEF Import!StartEdit, Import!CancelEdit, Import!StartNameEdit, Import!TypeDraft
<1>4. ASSUME Import!SaveEdit(r) \/ Import!ApplySuggestion(r)
      PROVE  \E h, b : Import!Sends(h, b)
  BY Zenon, <1>4 DEF Import!SaveEdit, Import!ApplySuggestion
<1>5. ASSUME Import!SaveNameEdit(r)
      PROVE  (\E new : Import!SetRow(r, new)) \/ (\E h, b : Import!Sends(h, b))
  BY Zenon, <1>5 DEF Import!SaveNameEdit
<1> QED  BY Zenon, <1>1, <1>2, <1>3, <1>4, <1>5 DEF Import!RowSteps

\* Another tab shows nothing until it is fetched, and has its queries fetched.
LEMMA ReviewTabTold ==
    ASSUME NoCalls, ReviewInv, ReviewTold, NEW t \in Import!Tabs, Import!SelectTab(t)
    PROVE  ReviewTold'
<1>1. UNCHANGED <<db, lost>>
  BY DEF Import!SelectTab
<1>2. ui' = [ui EXCEPT !.tab = t, !.selected = {}, !.row = <<>>]
  BY DEF Import!SelectTab
<1>3. ui'.tab = t /\ Tab(ui', t)
  BY <1>2 DEF ReviewTold, ReviewShapes, Tab
<1>4. seen' = [batch |-> seen.batch, list |-> NoData, hints |-> seen.hints, early |-> {}]
  BY DEF Import!SelectTab, ReviewInv
<1>5. Import!Processing' <=> Import!Processing
  BY <1>4 DEF Import!Processing
<1>6. due' = (due \cap {"batch"}) \cup (Import!QueriesOn(t) \ {"batch"})
  BY DEF Import!SelectTab
<1>7. t \notin {"batch", "hints"}
  BY DEF Import!Tabs
<1>8. /\ due' \subseteq {"batch", "hints", t} /\ t \in due'
      /\ "batch" \in due => "batch" \in due'
      /\ t = "pending" /\ ~Import!Processing => "hints" \in due'
  BY <1>6, <1>7 DEF Import!QueriesOn
<1>9. ReviewShapes'
  BY <1>1, <1>3, <1>8 DEF ReviewTold, ReviewShapes
<1>10. BatchTold => BatchTold'
  BY <1>1, <1>4, <1>5, <1>8 DEF BatchTold
<1>11. RecordsTold' /\ HintsTold'
  BY <1>3, <1>5, <1>8 DEF RecordsTold, HintsTold
<1>12. OwedAny(ReviewCase.calls, call) => OwedAny(ReviewCase.calls, call')
  BY ReviewUnheardOwed DEF Import!SelectTab, Import!Leaving
<1> QED  BY <1>1, <1>9, <1>10, <1>11, <1>12 DEF ReviewTold

\* The user's steps are of these kinds.
LEMMA ReviewUserTold ==
    ASSUME NoCalls, ReviewInv, ReviewTold, Import!ImportUser
    PROVE  ReviewTold'
<1> DEFINE Elsewhere(new) == \E x :
               \/ new = [ui EXCEPT !.selected = x] \/ new = [ui EXCEPT !.resolve = x]
               \/ new = [ui EXCEPT !.replacing = x] \/ new = [ui EXCEPT !.rejecting = x]
<1>1. ASSUME NEW new, Elsewhere(new), Import!Locally(new) PROVE ReviewTold'
  <2>1. Tab(new, ui.tab)
    BY <1>1, ReviewTabKept
  <2> QED  BY <1>1, <2>1, ReviewLocalTold
<1>2. ASSUME NEW h, NEW b, Import!Sends(h, b) PROVE ReviewTold'
  BY <1>2, ReviewSendsTold
<1>3. ASSUME NEW t \in Import!Tabs, Import!SelectTab(t) PROVE ReviewTold'
  BY <1>3, ReviewTabTold
<1>4. ASSUME Import!ToggleAll PROVE ReviewTold'
  <2>1. PICK x : Import!Locally([ui EXCEPT !.selected = x])
    BY <1>4 DEF Import!ToggleAll
  <2> QED  BY Zenon, <1>1, <2>1
<1>5. ASSUME NEW r, Import!ToggleSelect(r) PROVE ReviewTold'
  <2>1. PICK x : Import!Locally([ui EXCEPT !.selected = x])
    BY <1>5 DEF Import!ToggleSelect
  <2> QED  BY Zenon, <1>1, <2>1
<1>6. Import!OpenReject \/ Import!CancelReject \/ Import!OpenReplace \/ Import!CancelReplace
        => \E new : Elsewhere(new) /\ Import!Locally(new)
  BY Zenon DEF Import!OpenReject, Import!CancelReject, Import!OpenReplace, Import!CancelReplace
<1>7. ASSUME NEW r, Import!OpenResolve(r) PROVE \E new : Elsewhere(new) /\ Import!Locally(new)
  BY Zenon, <1>7 DEF Import!OpenResolve
<1>8. ASSUME Import!CloseResolve PROVE ReviewTold'
  <2>1. /\ UNCHANGED <<db, seen, due, lost>> /\ ui' = [ui EXCEPT !.resolve = None]
        /\ \E gone : call' = Import!Unheard(gone)
    BY <1>8 DEF Import!CloseResolve
  <2>2. Tab(ui', ui.tab)
    BY <2>1, ReviewTabKept
  <2>3. OwedAny(ReviewCase.calls, call) => OwedAny(ReviewCase.calls, call')
    BY <2>1, ReviewUnheardOwed
  <2> QED  BY <2>1, <2>2, <2>3, ReviewReminded
<1>9. Import!RejectSelected \/ Import!KeepExisting \/ Import!ImportSeparate \/ Import!Replace
        => \E h, b : Import!Sends(h, b)
  BY Zenon DEF Import!RejectSelected, Import!KeepExisting, Import!ImportSeparate, Import!Replace
<1>10. ASSUME NEW x, Import!ConfirmSelected(x) \/ Import!SelectAccount(x) PROVE \E h, b : Import!Sends(h, b)
  BY Zenon, <1>10 DEF Import!ConfirmSelected, Import!SelectAccount
<1>11. ASSUME NEW r, Import!RowSteps(r) PROVE ReviewTold'
  BY <1>11, ReviewRowsTold
<1> HIDE DEF Elsewhere
<1> QED
  BY Zenon, <1>1, <1>2, <1>3, <1>4, <1>5, <1>6, <1>7, <1>8, <1>9, <1>10, <1>11
     DEF Import!ImportUser, Import!ModalSteps

\* The server stores records only while it parses the statement.
LEMMA ReviewServedTold ==
    ASSUME NoCalls, ReviewInv, ReviewTold, NEW k \in 1..ReviewCase.calls, Going(call[k]), Import!ServeImport(k)
    PROVE  ReviewTold'
<1> DEFINE n == ReviewCase.calls
<1>1. n \in Nat /\ Calling(n, call) /\ Statement(db)
  BY ClientAssumption DEF ReviewInv
<1>2. PICK new : new = db' /\ UNCHANGED <<seen, due, ui, lost>>
                 /\ call' = [call EXCEPT ![k].state = "done"]
  BY Zenon DEF Import!ServeImport, Import!Serve
<1>3. Restated(call, call', k, "done")
  BY <1>2 DEF Restated
<1> HIDE DEF n
<1>4. OwedAny(n, call')
  <2>1. Going(call'[k]) /\ call'[k].state = "done"
    BY <1>1, <1>3, RestatedRows DEF n
  <2> QED  BY <2>1 DEF OwedAny, n
<1>5. db'.status = db.status /\ DOMAIN db'.rec = DOMAIN db.rec
  <2> DEFINE b == call[k].body
  <2>1. CASE db' = Import!ConfirmEffect(b)
    BY <1>1, <2>1 DEF Import!ConfirmEffect, Statement
  <2>2. CASE db' = Import!RejectEffect(b)
    BY <1>1, <2>2 DEF Import!RejectEffect, Statement
  <2>3. CASE \E a : db' = [db EXCEPT !.account = a]
    BY <1>1, <2>3 DEF Statement
  <2>4. CASE \E r, s : db' = [db EXCEPT !.rec[r].status = s]
    BY <1>1, <2>4 DEF Statement
  <2>5. CASE db' = Import!PatchEffect(b)
    BY <1>1, <2>5 DEF Import!PatchEffect, Statement
  <2> QED  BY <2>1, <2>2, <2>3, <2>4, <2>5 DEF Import!ServeImport, Import!Serve
<1>6. ReviewShapes'
  BY <1>2, <1>5 DEF ReviewTold, ReviewShapes
<1> QED  BY <1>4, <1>6 DEF ReviewTold, n

\* What became of a call: its answer has all queries in use fetched.
LEMMA ReviewCallsTold ==
    ASSUME NoCalls, ReviewInv, ReviewTold, NEW k \in Import!Slots, Import!Running(k),
           \/ Import!ServeImport(k) \/ Import!SettleImport(k)
           \/ Import!Fails(k, Import!FailedImport(k)) \/ Import!Over(k, Import!HeardImport(k))
    PROVE  ReviewTold'
<1> DEFINE n == ReviewCase.calls
<1>1. n \in Nat /\ Calling(n, call) /\ k \in 1..n /\ Going(call[k])
  BY ClientAssumption DEF ReviewInv, Import!Slots, Import!Running, Going
<1>2. CASE Import!ServeImport(k)
  BY <1>1, <1>2, ReviewServedTold
<1>3. CASE Import!SettleImport(k)
  <2>1. due' = due \cup (Import!ImportQueries \cap Import!QueriesUsed) /\ UNCHANGED <<db, seen, ui>>
    BY <1>3 DEF Import!SettleImport, Import!Settles, Import!InvalidatedByImport
  <2>2. /\ "batch" \in due' /\ ui.tab \in due' /\ due' \subseteq {"batch", "hints", ui.tab}
        /\ ui.tab = "pending" /\ ~Import!Processing => "hints" \in due'
    BY <2>1 DEF ReviewTold, ReviewShapes, Import!ImportQueries, Import!QueriesUsed, Import!QueriesOn
  <2>3. Import!Processing' <=> Import!Processing
    BY <2>1 DEF Import!Processing
  <2>4. BatchTold' /\ RecordsTold' /\ HintsTold'
    BY <2>1, <2>2, <2>3 DEF BatchTold, RecordsTold, HintsTold
  <2>5. ReviewShapes'
    BY <2>1, <2>2 DEF ReviewTold, ReviewShapes
  <2> QED  BY <2>4, <2>5 DEF ReviewTold
<1>4. ASSUME NEW new, UNCHANGED <<db, seen, due>>, call' = Import!Without(k), lost => lost',
             ui' = new, Tab(new, ui.tab), call[k].state # "done" \/ lost'
      PROVE  ReviewTold'
  <2>1. Dropped(n, call, call', k)
    BY <1>4 DEF Import!Without, Import!Slots, Dropped
  <2> HIDE DEF n
  <2>2. CASE call[k].state # "done"
    <3>1. OwedAny(n, call) => OwedAny(n, call')
      BY <1>1, <2>1, <2>2, OwedAnyStays
    <3> QED  BY <1>4, <3>1, ReviewReminded DEF n
  <2>3. CASE lost'
    <3>1. ReviewShapes'
      BY <1>4 DEF ReviewTold, ReviewShapes, Tab
    <3> QED  BY <2>3, <3>1 DEF ReviewTold
  <2> QED  BY <1>4, <2>2, <2>3
<1>5. CASE Import!Fails(k, Import!FailedImport(k))
  <2>1. Tab(Import!FailedImport(k), ui.tab)
    <3>1. CASE Import!FailedImport(k) = ui
      BY <3>1, ReviewTabKept
    <3>2. CASE \E h, m : Import!FailedImport(k) = [ui EXCEPT !.row[h].mode = m]
      BY <3>2 DEF ReviewTold, ReviewShapes, Tab
    <3> QED  BY <3>1, <3>2 DEF Import!FailedImport
  <2>2. /\ UNCHANGED <<db, seen, due>> /\ call' = Import!Without(k)
        /\ lost' = (lost \/ call[k].state = "done") /\ ui' = Import!FailedImport(k)
    BY <1>5 DEF Import!Fails
  <2>3. (lost => lost') /\ (call[k].state = "done" => lost')
    BY Zenon, <2>2
  <2> QED  BY <1>4, <2>1, <2>2, <2>3
<1>6. CASE Import!Over(k, Import!HeardImport(k))
  <2>1. IsCall(call[k])
    BY <1>1 DEF Calling
  <2>2. Tab(Import!HeardImport(k), ui.tab)
    <3> DEFINE r == call[k].hook
    <3>1. \/ Import!HeardImport(k) = ui
          \/ Import!HeardImport(k) = [ui EXCEPT !.selected = {}]
          \/ Import!HeardImport(k) = [ui EXCEPT !.selected = {}, !.rejecting = FALSE]
          \/ Import!HeardImport(k) = [ui EXCEPT !.resolve = None, !.replacing = FALSE]
          \/ Import!HeardImport(k) =
                [ui EXCEPT !.row[r].mode = IF @ = call[k].body.from THEN "view" ELSE @]
      BY SMTT(60) DEF Import!HeardImport
    <3>2. CASE \E m : Import!HeardImport(k) = [ui EXCEPT !.row[r].mode = m]
      BY <3>2 DEF ReviewTold, ReviewShapes, Tab
    <3> HIDE DEF r
    <3>3. (Import!HeardImport(k) = [ui EXCEPT !.row[r].mode = IF @ = call[k].body.from THEN "view" ELSE @])
             => \E m : Import!HeardImport(k) = [ui EXCEPT !.row[r].mode = m]
      OBVIOUS
    <3>4. CASE \/ Import!HeardImport(k) = ui
               \/ Import!HeardImport(k) = [ui EXCEPT !.selected = {}]
               \/ Import!HeardImport(k) = [ui EXCEPT !.selected = {}, !.rejecting = FALSE]
               \/ Import!HeardImport(k) = [ui EXCEPT !.resolve = None, !.replacing = FALSE]
      BY <3>4, ReviewTabKept
    <3> QED  BY <3>1, <3>2, <3>3, <3>4
  <2>3. /\ UNCHANGED <<db, seen, due, lost>> /\ call' = Import!Without(k)
        /\ call[k].state = "settling" /\ ui' = Import!HeardImport(k)
    BY <1>6 DEF Import!Over
  <2> QED  BY <1>4, <2>2, <2>3
<1> QED  BY <1>2, <1>3, <1>5, <1>6

\* What is fetched is as the server has it, and the batch seen to be parsed has the hints fetched.
LEMMA ReviewFetchedTold ==
    ASSUME NoCalls, NoTable, ReviewInv, ReviewTold, NEW q, Import!FetchImport(q)
    PROVE  ReviewTold'
<1>1. /\ seen' = [Import!AnswerOf(q) EXCEPT !.early = Import!Early(q)] /\ due' = (due \ {q}) \cup Import!Enabled(q)
      /\ UNCHANGED <<db, lost>>
      /\ (\E x : ui' = [ui EXCEPT !.row = x]) \/ ui' = ui
      /\ (\E gone : call' = Import!Unheard(gone)) \/ call' = call
  BY DEF Import!FetchImport, Import!Leaving
<1>2. Tab(ui', ui.tab) /\ ui'.tab = ui.tab
  BY <1>1, ReviewTabKept DEF Tab
<1>3. OwedAny(ReviewCase.calls, call) => OwedAny(ReviewCase.calls, call')
  BY <1>1, ReviewUnheardOwed
<1>4. q \in {"batch", "hints", ui.tab} /\ ui.tab \notin {"batch", "hints"} /\ ui.tab \in Import!Tabs
  BY DEF Import!FetchImport, ReviewTold, ReviewShapes, Import!Polled, Import!Tabs
<1>5. /\ due' \subseteq {"batch", "hints", ui.tab}
      /\ \A p \in due : p # q => p \in due'
  BY <1>1 DEF Import!Enabled, ReviewTold, ReviewShapes
<1>6. ReviewShapes'
  BY <1>1, <1>2, <1>5 DEF ReviewTold, ReviewShapes, Tab
<1>7. /\ q # "batch" => seen'.batch = seen.batch
      /\ q # ui.tab => seen'.list = seen.list
      /\ q # "hints" => seen'.hints = seen.hints
      /\ q = "batch" => seen'.batch = [status |-> db.status, account |-> db.account]
      /\ q = ui.tab => seen'.list = RecordsIn(db, ui.tab)
      /\ q = "hints" => seen'.hints = HintsFor(db)
      /\ seen'.early = Import!Early(q)
  BY <1>1, <1>4 DEF Import!AnswerOf, ReviewInv, RecordsIn, HintsFor
<1>8. q # "batch" => (Import!Processing' <=> Import!Processing)
  BY <1>7 DEF Import!Processing
<1>9. BatchTold => BatchTold'
  BY <1>1, <1>5, <1>7, <1>8 DEF BatchTold
<1>12. /\ \A t \in seen.early : t # q => t \in seen'.early
       /\ db.status = "processing" => q \in seen'.early
  BY <1>7 DEF Import!Early
<1>10. RecordsTold => RecordsTold'
  BY <1>1, <1>2, <1>5, <1>7, <1>12 DEF RecordsTold
<1>11. ASSUME HintsTold PROVE HintsTold'
  <2>1. CASE q # "batch"
    BY <1>1, <1>2, <1>5, <1>7, <1>8, <1>11, <1>12, <2>1 DEF HintsTold
  <2>2. CASE q = "batch" /\ (Import!Processing => Import!Processing')
    BY <1>1, <1>2, <1>5, <1>7, <1>11, <1>12, <2>2 DEF HintsTold
  <2>3. CASE q = "batch" /\ Import!Processing /\ ~Import!Processing'
    <3>1. seen'.batch # NoData
      BY <1>7, <2>3 DEF NoTable
    <3>2. db.status # "processing"
      BY <1>7, <2>3, <3>1 DEF Import!Processing
    <3>3. ui.tab = "pending" => "hints" \in due'
      BY <1>1, <2>3, <3>2 DEF Import!Enabled
    <3> QED  BY <1>2, <3>3 DEF HintsTold
  <2> QED  BY <2>1, <2>2, <2>3
<1> QED  BY <1>1, <1>3, <1>6, <1>9, <1>10, <1>11 DEF ReviewTold

\* Lists and hints fetched before a statement is parsed are known to be.
LEMMA ReviewParsedTold ==
    ASSUME NoTable, ReviewInv, ReviewTold, Import!ParsingEnds
    PROVE  ReviewTold'
<1>1. UNCHANGED <<seen, due, ui, call, lost>> /\ db.status = "processing"
  BY DEF Import!ParsingEnds
<1>3. db'.status = "completed"
  BY DEF Import!ParsingEnds, ReviewInv, Statement
<1>4. ReviewShapes'
  BY <1>1, <1>3 DEF ReviewTold, ReviewShapes
<1>5. BatchTold => BatchTold'
  <2>1. seen.batch = [status |-> db.status, account |-> db.account] => Import!Processing
    BY <1>1 DEF Import!Processing, NoTable
  <2> QED  BY <1>1, <2>1 DEF BatchTold, Import!Processing
<1>6. RecordsTold => RecordsTold'
  BY <1>1 DEF RecordsTold
<1>7. HintsTold => HintsTold'
  BY <1>1 DEF HintsTold, Import!Processing
<1> QED  BY <1>1, <1>4, <1>5, <1>6, <1>7 DEF ReviewTold

\* The invariant holds when the page is opened,
LEMMA ReviewToldInit == ASSUME Import!ImportInit PROVE ReviewTold
<1>1. /\ ui = [tab |-> "pending", selected |-> {}, resolve |-> None,
               replacing |-> FALSE, rejecting |-> FALSE, row |-> <<>>]
      /\ due = {"batch", "pending", "hints"}
      /\ \E a \in ReviewCase.uploadedFor : db = [status |-> "processing", account |-> a, rec |-> <<>>]
  BY DEF Import!ImportInit
<1>2. ReviewShapes
  BY <1>1 DEF ReviewShapes, Tab, Import!Tabs
<1> QED  BY <1>1, <1>2 DEF ReviewTold, BatchTold, RecordsTold, HintsTold

\* All steps keep it so,
LEMMA ReviewTells ==
    ASSUME NoCalls, NoTable, ReviewInv, ReviewTold, Import!ImportNext
    PROVE  ReviewTold'
BY Zenon, ReviewUserTold, ReviewCallsTold, ReviewFetchedTold, ReviewParsedTold
   DEF Import!ImportNext, Import!ImportClient

\* and the review page shows the server's rows once nothing is left to do, but for what
\* was last fetched before there were any.
LEMMA ReviewShown == ASSUME ReviewInv, ReviewTold PROVE Import!ImportScreenCurrent
<1> SUFFICES ASSUME ~lost, \A k \in Import!Slots : ~Import!Running(k), due = {}, ~Import!Processing,
                    NEW q \in Import!QueriesUsed \ seen.early
             PROVE  Import!AnswerOf(q) = seen
  BY DEF Import!ImportScreenCurrent
<1>1. ~OwedAny(ReviewCase.calls, call)
  BY DEF OwedAny, Import!Slots, Import!Running, Going
<1>2. BatchTold /\ RecordsTold /\ HintsTold
  BY <1>1 DEF ReviewTold
<1>3. ui.tab \in Import!Tabs /\ ui.tab \notin {"batch", "hints"}
  BY DEF ReviewTold, ReviewShapes, Import!Tabs
<1>4. \/ q = "batch" \/ q = ui.tab
      \/ q = "hints" /\ ui.tab = "pending"
  BY DEF Import!QueriesUsed, Import!QueriesOn
<1>5. seen = [batch |-> seen.batch, list |-> seen.list, hints |-> seen.hints, early |-> seen.early]
  BY DEF ReviewInv
<1>6. CASE q = "batch"
  <2>1. seen.batch = [status |-> db.status, account |-> db.account]
    BY <1>2 DEF BatchTold
  <2> QED  BY <1>5, <1>6, <2>1 DEF Import!AnswerOf
<1>7. CASE q = ui.tab
  <2>1. seen.list = RecordsIn(db, q)
    BY <1>2, <1>7 DEF RecordsTold
  <2> QED  BY <1>3, <1>5, <1>7, <2>1 DEF Import!AnswerOf, RecordsIn
<1>8. CASE q = "hints" /\ ui.tab = "pending"
  <2>1. seen.hints = HintsFor(db)
    BY <1>2, <1>8 DEF HintsTold
  <2> QED  BY <1>5, <1>8, <2>1 DEF Import!AnswerOf, HintsFor
<1> QED  BY <1>4, <1>6, <1>7, <1>8

-----------------------------------------------------------------------------
(***************************************************************************)
(* The split form: its amounts follow the payments linked, and what it     *)
(* sends adds up.  Its tables are those of TableProofs.                    *)
(***************************************************************************)
FormTables == INSTANCE TableProofs WITH
    TxnIds <- SplitFormCase.txnIds, SplitIds <- SplitFormCase.splitIds,
    ShareIds <- SplitFormCase.shareIds, Payees <- SplitFormCase.payees,
    TxnTypes <- SplitFormCase.txnTypes, TxnPayee <- SplitFormCase.txnPayee,
    MaxMoney <- SplitFormCase.maxMoney

\* Its sums are those of TableProofs.
Sum(f, S) == FormTables!Total(f, S)

Amounts(d) == [t \in DOMAIN d.txn |-> d.txn[t].amount]

\* What TableProofs assumes of its constants holds of the form's.
LEMMA TablesGiven ==
    /\ NoPayee \notin SplitFormCase.payees
    /\ {"expense", "income"} \subseteq SplitFormCase.txnTypes
    /\ SplitFormCase.txnPayee \in [SplitFormCase.txnIds -> SplitFormCase.payees \cup {NoPayee}]
    /\ SplitFormCase.maxMoney \in Nat \ {0}
    /\ FormTables!IsFiniteSet(SplitFormCase.txnIds) /\ FormTables!IsFiniteSet(SplitFormCase.shareIds)
    /\ FormTables!IsFiniteSet(SplitFormCase.payees) /\ FormTables!IsFiniteSet(SplitFormCase.cards)
BY FormAssumption DEF Form!IsFiniteSet, FormTables!IsFiniteSet

\* A part of a finite set is one.
LEMMA FinitePart == ASSUME NEW S, FormTables!IsFiniteSet(S), NEW T, T \subseteq S PROVE FormTables!IsFiniteSet(T)
BY TablesGiven, FormTables!FS_Subset

\* What a cache says of the amounts, and those of the cards and of a body.
KnownAmounts(cache) == [t \in SplitFormCase.txnIds |-> IF cache[t] = NoData THEN 0 ELSE cache[t]]
CardAmounts == [c \in DOMAIN ui.card |-> ui.card[c].amount]
BodyAmounts(body) == [p \in DOMAIN body |-> body[p].amount]

\* The function the library takes as the sum of f over S is the one the form's sum is.
LEMMA KnownSum ==
    ASSUME NEW cache, NEW T, T \subseteq SplitFormCase.txnIds
    PROVE  Form!KnownIn(cache, T) = Sum(KnownAmounts(cache), T)
<1> DEFINE known(t) == IF cache[t] = NoData THEN 0 ELSE cache[t]
           sum(g) == g = [s \in SUBSET T |->
                            IF s = {} THEN 0
                            ELSE known(FormTables!Picked(s)) + g[s \ {FormTables!Picked(s)}]]
<1>1. Form!KnownIn(cache, T) = (CHOOSE g : sum(g))[T]
  BY DEF Form!KnownIn, Form!MapThenSumSet, Form!MapThenFoldSet, FormTables!Picked
<1>2. FormTables!IsFiniteSet(T)
  BY TablesGiven, FinitePart
<1>3. \A s \in SUBSET T : s # {} => FormTables!Picked(s) \in s
  BY TablesGiven, FormTables!PickedIsIn
<1>4. \A s \in SUBSET T :
         s # {} => KnownAmounts(cache)[FormTables!Picked(s)] = known(FormTables!Picked(s))
  BY <1>3 DEF KnownAmounts
<1> HIDE DEF known
<1>5. \A g : FormTables!IsSum(g, KnownAmounts(cache), T) <=> sum(g)
  BY <1>4 DEF FormTables!IsSum
<1> HIDE DEF sum
<1>6. \E g : sum(g)
  BY <1>2, <1>5, TablesGiven, FormTables!SumExists
<1>7. sum(CHOOSE g : sum(g))
  BY <1>6
<1> QED  BY <1>1, <1>2, <1>5, <1>7, TablesGiven, FormTables!TotalOfSum DEF Sum

\* The sum over the cards,
LEMMA CardSum ==
    ASSUME NEW C, C \subseteq DOMAIN ui.card, DOMAIN ui.card \subseteq SplitFormCase.cards
    PROVE  Form!CardTotal(C) = Sum(CardAmounts, C)
<1> DEFINE sum(g) == g = [s \in SUBSET C |->
                            IF s = {} THEN 0
                            ELSE ui.card[FormTables!Picked(s)].amount + g[s \ {FormTables!Picked(s)}]]
<1>1. Form!CardTotal(C) = (CHOOSE g : sum(g))[C]
  BY DEF Form!CardTotal, Form!MapThenSumSet, Form!MapThenFoldSet, FormTables!Picked
<1>2. FormTables!IsFiniteSet(C)
  BY TablesGiven, FinitePart
<1>3. \A s \in SUBSET C : s # {} => FormTables!Picked(s) \in s
  BY TablesGiven, FormTables!PickedIsIn
<1>4. \A s \in SUBSET C :
         s # {} => CardAmounts[FormTables!Picked(s)] = ui.card[FormTables!Picked(s)].amount
  BY <1>3 DEF CardAmounts
<1>5. \A g : FormTables!IsSum(g, CardAmounts, C) <=> sum(g)
  BY <1>4 DEF FormTables!IsSum
<1> HIDE DEF sum
<1>6. \E g : sum(g)
  BY <1>2, <1>5, TablesGiven, FormTables!SumExists
<1>7. sum(CHOOSE g : sum(g))
  BY <1>6
<1> QED  BY <1>1, <1>2, <1>5, <1>7, TablesGiven, FormTables!TotalOfSum DEF Sum

\* over a body,
LEMMA BodySum ==
    ASSUME NEW body, FormTables!IsFiniteSet(DOMAIN body)
    PROVE  Form!BodyTotal(body) = Sum(BodyAmounts(body), DOMAIN body)
<1> DEFINE P == DOMAIN body
           sum(g) == g = [s \in SUBSET P |->
                            IF s = {} THEN 0
                            ELSE body[FormTables!Picked(s)].amount + g[s \ {FormTables!Picked(s)}]]
<1>1. Form!BodyTotal(body) = (CHOOSE g : sum(g))[P]
  BY DEF Form!BodyTotal, Form!MapThenSumSet, Form!MapThenFoldSet, FormTables!Picked
<1>2. FormTables!IsFiniteSet(P)
  OBVIOUS
<1>3. \A s \in SUBSET P : s # {} => FormTables!Picked(s) \in s
  BY TablesGiven, FormTables!PickedIsIn
<1>4. \A s \in SUBSET P :
         s # {} => BodyAmounts(body)[FormTables!Picked(s)] = body[FormTables!Picked(s)].amount
  BY <1>3 DEF BodyAmounts
<1>5. \A g : FormTables!IsSum(g, BodyAmounts(body), P) <=> sum(g)
  BY <1>4 DEF FormTables!IsSum
<1> HIDE DEF sum, P
<1>6. \E g : sum(g)
  BY <1>2, <1>5, TablesGiven, FormTables!SumExists
<1>7. sum(CHOOSE g : sum(g))
  BY <1>6
<1>8. Form!BodyTotal(body) = Sum(BodyAmounts(body), P)
  BY <1>1, <1>2, <1>5, <1>7, TablesGiven, FormTables!TotalOfSum DEF Sum
<1> QED  BY <1>8 DEF P

\* over the transactions,
LEMMA TxnSum ==
    ASSUME NEW d, NEW T, T \subseteq DOMAIN d.txn, DOMAIN d.txn \subseteq SplitFormCase.txnIds
    PROVE  Form!TxnTotal(d, T) = Sum(Amounts(d), T)
<1>1. FormTables!IsFiniteSet(T)
  BY TablesGiven, FinitePart
<1>2. Form!TxnTotal(d, T) = FormTables!TxnTotal(d, T)
  BY DEF Form!TxnTotal, Form!MapThenSumSet, Form!MapThenFoldSet,
         FormTables!TxnTotal, FormTables!MapThenSumSet, FormTables!MapThenFoldSet
<1>3. FormTables!FullCredit(d) = Amounts(d)
  BY DEF FormTables!FullCredit, Amounts
<1> QED  BY <1>1, <1>2, <1>3, TablesGiven, FormTables!TxnTotalTotal DEF Sum

\* and over what is credited.
LEMMA CreditSum == ASSUME NEW credit, NEW T PROVE Form!CreditTotal(credit, T) = Sum(credit, T)
BY DEF Form!CreditTotal, Form!MapThenSumSet, Form!MapThenFoldSet, Sum, FormTables!Total,
       FormTables!MapThenSumSet, FormTables!MapThenFoldSet

\* Over what the cache has the amounts of, the two agree.
LEMMA KnownRight ==
    ASSUME NEW d, NEW T, T \subseteq DOMAIN d.txn, DOMAIN d.txn \subseteq SplitFormCase.txnIds,
           NEW cache, \A t \in T : cache[t] = d.txn[t].amount /\ cache[t] # NoData
    PROVE  Form!KnownIn(cache, T) = Form!TxnTotal(d, T)
<1>1. FormTables!IsFiniteSet(T) /\ \A t \in T : KnownAmounts(cache)[t] = Amounts(d)[t]
  BY TablesGiven, FinitePart DEF KnownAmounts, Amounts
<1>2. Sum(KnownAmounts(cache), T) = Sum(Amounts(d), T)
  BY <1>1, TablesGiven, FormTables!TotalSame DEF Sum
<1> QED  BY <1>2, KnownSum, TxnSum

-----------------------------------------------------------------------------
(***************************************************************************)
(* The invariant of the form.                                              *)
(***************************************************************************)
FormHooks == {"create", "update", "payee"}

\* What is there to be split and paid is within what a column holds, and no payment is
\* credited with more than it brought.
FormTxns(d) ==
    /\ DOMAIN d.txn \subseteq SplitFormCase.txnIds
    /\ \A t \in DOMAIN d.txn : d.txn[t].amount \in Nat \ {0}
    /\ Sum(Amounts(d), DOMAIN d.txn) <= SplitFormCase.maxMoney

CreditsFit(d) ==
    /\ {"txn", "paid"} \subseteq DOMAIN d
    /\ \A x \in d.paid : x.txn \in DOMAIN d.txn /\ x.amount \in Int /\ x.amount <= d.txn[x.txn].amount

IsCard(r, d) ==
    /\ r = [payee |-> r.payee, amount |-> r.amount, touched |-> r.touched,
            incomes |-> r.incomes, forgiven |-> r.forgiven]
    /\ r.payee \in SplitFormCase.payees \cup {NoPayee}
    /\ r.amount \in Int /\ r.forgiven \in Int /\ r.incomes \subseteq DOMAIN d.txn

\* A payment is linked on one card at most.
FormCards(u, d) ==
    /\ u = [open |-> u.open, split |-> u.split, expenses |-> u.expenses, own |-> u.own,
            excluded |-> u.excluded, card |-> u.card]
    /\ u.expenses \subseteq DOMAIN d.txn /\ u.own \in Int
    /\ u.card = [c \in DOMAIN u.card |-> u.card[c]] /\ DOMAIN u.card \subseteq SplitFormCase.cards
    /\ \A c \in DOMAIN u.card : IsCard(u.card[c], d)
    /\ \A b, c \in DOMAIN u.card : b # c => u.card[b].incomes \cap u.card[c].incomes = {}

\* The cache has an amount of each payment that an untouched amount follows.
Mirrors(r, cache, d) ==
    ~r.touched => /\ r.amount = 10 * Form!TxnTotal(d, r.incomes)
                  /\ \A t \in r.incomes : cache[t] = d.txn[t].amount

FormMirrors(u, cache, d) == \A c \in DOMAIN u.card : Mirrors(u.card[c], cache, d)

FormCache(s) ==
    /\ s = [txn |-> s.txn, splits |-> s.splits, payees |-> s.payees]
    /\ s.txn = [t \in SplitFormCase.txnIds |-> s.txn[t]]
    /\ \A t \in SplitFormCase.txnIds : s.txn[t] \in Int \cup {NoData}

\* A payee that was created is one.
PayeesCreated(c) ==
    \A k \in 1..SplitFormCase.calls :
        Mine(c[k], "payee") /\ c[k].state # "sent" => c[k].body.payee \in SplitFormCase.payees

FormCalls(c) ==
    Hooks(SplitFormCase.calls, c, FormHooks) /\ Filled(SplitFormCase.calls, c) /\ PayeesCreated(c)

FormInv ==
    /\ FormTxns(db) /\ CreditsFit(db) /\ FormCache(seen) /\ FormCards(ui, db)
    /\ FormMirrors(ui, seen.txn, db) /\ FormCalls(call)

\* Neither a query that has had no answer nor a field left out holds an amount.
NoAmount == NoData \notin Int /\ None \notin Int

-----------------------------------------------------------------------------
(***************************************************************************)
(* The user's steps.                                                       *)
(***************************************************************************)
\* Transactions being the same, so are the totals and what the form is about.
LEMMA TotalsStay ==
    ASSUME NEW d, NEW e, e.txn = d.txn, FormTxns(d)
    PROVE  /\ FormTxns(e)
           /\ \A T : T \subseteq DOMAIN d.txn => Form!TxnTotal(e, T) = Form!TxnTotal(d, T)
           /\ \A u : FormCards(u, d) => FormCards(u, e)
           /\ \A u, cache : FormCards(u, d) /\ FormMirrors(u, cache, d) => FormMirrors(u, cache, e)
<1>1. Amounts(e) = Amounts(d)
  BY DEF Amounts
<1>2. FormTxns(e)
  BY <1>1 DEF FormTxns
<1>3. \A T : T \subseteq DOMAIN d.txn => Form!TxnTotal(e, T) = Form!TxnTotal(d, T)
  BY <1>1, TxnSum DEF FormTxns
<1>4. \A u : FormCards(u, d) => FormCards(u, e)
  BY DEF FormCards, IsCard
<1>5. \A u, cache : FormCards(u, d) /\ FormMirrors(u, cache, d) => FormMirrors(u, cache, e)
  BY <1>3 DEF FormCards, IsCard, FormMirrors, Mirrors
<1> QED  BY <1>2, <1>3, <1>4, <1>5

\* A card that is changed by itself,
LEMMA CardSet ==
    ASSUME FormCards(ui, db), NEW cache, NEW c \in DOMAIN ui.card, NEW r, IsCard(r, db), Mirrors(r, cache, db),
           \A b \in DOMAIN ui.card : b # c => ui.card[b].incomes \cap r.incomes = {} /\ Mirrors(ui.card[b], cache, db)
    PROVE  FormCards(Form!SetCard(c, r), db) /\ FormMirrors(Form!SetCard(c, r), cache, db)
<1> DEFINE new == [ui.card EXCEPT ![c] = r]
<1>1. Form!SetCard(c, r) = [open |-> ui.open, split |-> ui.split, expenses |-> ui.expenses, own |-> ui.own,
                            excluded |-> ui.excluded, card |-> new]
  BY DEF Form!SetCard, FormCards
<1>2. /\ DOMAIN new = DOMAIN ui.card /\ new[c] = r /\ \A b \in DOMAIN ui.card : b # c => new[b] = ui.card[b]
      /\ new = [b \in DOMAIN new |-> new[b]]
  BY DEF FormCards
<1> HIDE DEF new
<1>3. \A b \in DOMAIN new : IsCard(new[b], db) /\ Mirrors(new[b], cache, db)
  BY <1>2 DEF FormCards
<1>4. \A a, b \in DOMAIN new : a # b => new[a].incomes \cap new[b].incomes = {}
  BY <1>2 DEF FormCards
<1>5. DOMAIN new \subseteq SplitFormCase.cards /\ ui.expenses \subseteq DOMAIN db.txn /\ ui.own \in Int
  BY <1>2 DEF FormCards
<1> QED  BY <1>1, <1>2, <1>3, <1>4, <1>5 DEF FormCards, FormMirrors

\* taken away,
LEMMA CardRemoved ==
    ASSUME FormCards(ui, db), FormMirrors(ui, seen.txn, db), NEW c
    PROVE  LET new == [ui EXCEPT !.card = [b \in DOMAIN ui.card \ {c} |-> ui.card[b]]]
           IN  FormCards(new, db) /\ FormMirrors(new, seen.txn, db)
<1> DEFINE card == [b \in DOMAIN ui.card \ {c} |-> ui.card[b]]
           new == [ui EXCEPT !.card = card]
<1>1. new = [open |-> ui.open, split |-> ui.split, expenses |-> ui.expenses, own |-> ui.own,
             excluded |-> ui.excluded, card |-> card]
  BY DEF FormCards
<1>2. /\ DOMAIN card \subseteq DOMAIN ui.card /\ \A b \in DOMAIN card : card[b] = ui.card[b]
      /\ card = [b \in DOMAIN card |-> card[b]]
  OBVIOUS
<1> HIDE DEF card
<1>3. \A b \in DOMAIN card : IsCard(card[b], db) /\ Mirrors(card[b], seen.txn, db)
  BY <1>2 DEF FormCards, FormMirrors
<1>4. /\ \A a, b \in DOMAIN card : a # b => card[a].incomes \cap card[b].incomes = {}
      /\ DOMAIN card \subseteq SplitFormCase.cards /\ ui.expenses \subseteq DOMAIN db.txn /\ ui.own \in Int
  BY <1>2 DEF FormCards
<1> HIDE DEF new
<1>5. FormCards(new, db) /\ FormMirrors(new, seen.txn, db)
  BY <1>1, <1>2, <1>3, <1>4 DEF FormCards, FormMirrors
<1> QED  BY <1>5 DEF new, card

\* or added leaves the form as it should be.
LEMMA CardAdded ==
    ASSUME FormCards(ui, db), FormMirrors(ui, seen.txn, db), FormTxns(db),
           NEW c \in SplitFormCase.cards, c \notin DOMAIN ui.card
    PROVE  LET new == [ui EXCEPT !.card = [b \in DOMAIN ui.card \cup {c} |->
                                              IF b = c THEN Form!NewCard ELSE ui.card[b]]]
           IN  FormCards(new, db) /\ FormMirrors(new, seen.txn, db)
<1> DEFINE card == [b \in DOMAIN ui.card \cup {c} |-> IF b = c THEN Form!NewCard ELSE ui.card[b]]
           new == [ui EXCEPT !.card = card]
<1>1. new = [open |-> ui.open, split |-> ui.split, expenses |-> ui.expenses, own |-> ui.own,
             excluded |-> ui.excluded, card |-> card]
  BY DEF FormCards
<1>2. /\ DOMAIN card = DOMAIN ui.card \cup {c} /\ \A b \in DOMAIN ui.card : card[b] = ui.card[b]
      /\ card = [b \in DOMAIN card |-> card[b]] /\ card[c] = Form!NewCard
  OBVIOUS
<1> HIDE DEF card
<1>3. Form!TxnTotal(db, {}) = 0
  BY TablesGiven, FormTables!TotalEmpty, TxnSum DEF Sum, FormTxns
<1>4. IsCard(Form!NewCard, db) /\ Form!NewCard.incomes = {} /\ Mirrors(Form!NewCard, seen.txn, db)
  BY <1>3 DEF Form!NewCard, IsCard, Mirrors
<1>5. \A b \in DOMAIN card : IsCard(card[b], db) /\ Mirrors(card[b], seen.txn, db)
  BY <1>2, <1>4 DEF FormCards, FormMirrors
<1>6. /\ \A a, b \in DOMAIN card : a # b => card[a].incomes \cap card[b].incomes = {}
      /\ DOMAIN card \subseteq SplitFormCase.cards /\ ui.expenses \subseteq DOMAIN db.txn /\ ui.own \in Int
  BY <1>2, <1>4 DEF FormCards
<1> HIDE DEF new
<1>7. FormCards(new, db) /\ FormMirrors(new, seen.txn, db)
  BY <1>1, <1>2, <1>5, <1>6 DEF FormCards, FormMirrors
<1> QED  BY <1>7 DEF new, card

\* What the remainder is worked out from are numbers.
LEMMA FormNumbers ==
    ASSUME FormTxns(db), FormCache(seen), FormCards(ui, db)
    PROVE  /\ Form!TotalExpense \in Int /\ Form!MyShare \in Int
           /\ \A C : C \subseteq DOMAIN ui.card => Form!CardTotal(C) \in Int
           /\ \A x \in Int : Form!Max({0, x}) \in Int /\ Form!Remainder(x) \in Int
<1>1. Form!TotalExpense \in Int
  <2>1. ui.expenses \subseteq SplitFormCase.txnIds
    BY DEF FormTxns, FormCards
  <2>2. FormTables!IsFiniteSet(ui.expenses)
    BY <2>1, TablesGiven, FinitePart
  <2>3. FormTables!Whole(KnownAmounts(seen.txn), ui.expenses)
    BY <2>1 DEF FormTables!Whole, KnownAmounts, FormCache
  <2> QED  BY <2>1, <2>2, <2>3, KnownSum, TablesGiven, FormTables!TotalWhole DEF Form!TotalExpense, Form!KnownTotal, Sum
<1>2. Form!MyShare \in Int
  BY DEF Form!MyShare, FormCards
<1>3. ASSUME NEW C, C \subseteq DOMAIN ui.card PROVE Form!CardTotal(C) \in Int
  <2>1. FormTables!IsFiniteSet(C) /\ DOMAIN ui.card \subseteq SplitFormCase.cards
    BY <1>3, TablesGiven, FinitePart DEF FormCards
  <2>2. FormTables!Whole(CardAmounts, C)
    BY <1>3 DEF FormTables!Whole, CardAmounts, FormCards, IsCard
  <2> QED  BY <1>3, <2>1, <2>2, CardSum, TablesGiven, FormTables!TotalWhole DEF Sum
<1>4. ASSUME NEW x \in Int PROVE Form!Max({0, x}) \in Int
  <2>1. \E y \in {0, x} : \A z \in {0, x} : y >= z
    BY <1>4
  <2> QED  BY <1>4, <2>1 DEF Form!Max
<1>5. ASSUME NEW x \in Int PROVE Form!Remainder(x) \in Int
  <2>1. PICK y : y = 10 * Form!TotalExpense - x
    OBVIOUS
  <2>2. y \in Int /\ Form!Max({0, y}) \in Int
    BY <1>1, <1>4, <1>5, <2>1
  <2> QED  BY <2>1, <2>2 DEF Form!Remainder, Form!Rounded, Form!Cent
<1> QED  BY <1>1, <1>2, <1>3, <1>4, <1>5

\* A card whose payments change keeps to what is linked, whoever worked its amount out,
\* if the cache it is read from has the payments an untouched amount follows.
Relinks(r, old, T, cache) ==
    /\ ~old.touched => \A t \in T : cache[t] = db.txn[t].amount
    /\ r = [payee |-> old.payee, amount |-> IF old.touched THEN old.amount ELSE 10 * Form!KnownIn(cache, T),
            touched |-> old.touched, incomes |-> T, forgiven |-> old.forgiven]

\* Such a card is one, and mirrors the payments it now has.
LEMMA CardRelinked ==
    ASSUME NoAmount, FormTxns(db), NEW old, IsCard(old, db), NEW T, T \subseteq DOMAIN db.txn, NEW cache,
           NEW r, Relinks(r, old, T, cache)
    PROVE  IsCard(r, db) /\ r.incomes = T /\ Mirrors(r, cache, db)
<1>1. CASE old.touched
  BY <1>1 DEF Relinks, IsCard, Mirrors
<1>2. CASE ~old.touched
  <2>1. \A t \in T : cache[t] = db.txn[t].amount /\ cache[t] # NoData
    BY <1>2 DEF Relinks, FormTxns, NoAmount
  <2>2. Form!KnownIn(cache, T) = Form!TxnTotal(db, T)
    BY <2>1, KnownRight DEF FormTxns
  <2>3. FormTables!IsFiniteSet(T)
    BY TablesGiven, FinitePart DEF FormTxns
  <2>4. FormTables!Whole(Amounts(db), T)
    BY DEF FormTables!Whole, Amounts, FormTxns
  <2>5. Form!TxnTotal(db, T) \in Int
    BY <2>3, <2>4, TxnSum, TablesGiven, FormTables!TotalWhole DEF Sum, FormTxns
  <2> QED  BY <1>2, <2>1, <2>2, <2>5 DEF Relinks, IsCard, Mirrors
<1> QED  BY <1>1, <1>2

\* A payment that is linked is put into the cache first, and the amount follows it from there.
LEMMA IncomeLinked ==
    ASSUME NoAmount, FormInv, NEW c \in DOMAIN ui.card, NEW t \in SplitFormCase.txnIds, Form!LinkIncome(c, t)
    PROVE  FormInv'
<1>1. PICK old, T, cache, r :
        /\ old = ui.card[c] /\ T = old.incomes \cup {t} /\ cache = [seen.txn EXCEPT ![t] = db.txn[t].amount]
        /\ r = Form!Relinked(c, T, cache)
  OBVIOUS
<1>2. /\ t \in DOMAIN db.txn /\ \A b \in DOMAIN ui.card : t \notin ui.card[b].incomes
      /\ seen' = [seen EXCEPT !.txn = cache] /\ ui' = Form!SetCard(c, r) /\ UNCHANGED <<db, call>>
  BY <1>1 DEF Form!LinkIncome, Form!PickerItems, Form!LinkedHere, Form!Picks, Form!PickedIn
<1>3. /\ cache = [u \in SplitFormCase.txnIds |-> cache[u]] /\ cache[t] = db.txn[t].amount
      /\ \A u \in SplitFormCase.txnIds : u # t => cache[u] = seen.txn[u]
  BY <1>1 DEF FormInv, FormCache
<1>4. seen' = [txn |-> cache, splits |-> seen.splits, payees |-> seen.payees]
  BY <1>2 DEF FormInv, FormCache
<1>5. FormCache(seen') /\ seen'.txn = cache
  BY <1>2, <1>3, <1>4 DEF FormCache, FormInv, FormTxns
<1>6. ASSUME NEW b \in DOMAIN ui.card PROVE Mirrors(ui.card[b], cache, db)
  <2>1. IsCard(ui.card[b], db) /\ Mirrors(ui.card[b], seen.txn, db)
    BY DEF FormInv, FormCards, FormMirrors
  <2>2. \A u \in ui.card[b].incomes : u # t /\ u \in SplitFormCase.txnIds
    BY <1>2, <2>1 DEF IsCard, FormInv, FormTxns
  <2> QED  BY <1>3, <2>1, <2>2 DEF Mirrors
<1>7. T \subseteq DOMAIN db.txn /\ IsCard(old, db) /\ FormTxns(db)
  BY <1>1, <1>2 DEF FormInv, FormCards, IsCard
<1>8. ~old.touched => \A u \in T : cache[u] = db.txn[u].amount
  BY <1>1, <1>3, <1>6 DEF Mirrors
<1>9. Relinks(r, old, T, cache)
  BY <1>1, <1>7, <1>8 DEF Form!Relinked, Form!Cent, IsCard, Relinks
<1>10. IsCard(r, db) /\ r.incomes = T /\ Mirrors(r, cache, db)
  BY <1>7, <1>9, CardRelinked
<1>11. \A b \in DOMAIN ui.card : b # c => ui.card[b].incomes \cap r.incomes = {}
  BY <1>1, <1>2, <1>10 DEF FormInv, FormCards
<1>12. FormCards(Form!SetCard(c, r), db) /\ FormMirrors(Form!SetCard(c, r), cache, db)
  BY <1>6, <1>10, <1>11, CardSet DEF FormInv
<1>13. FormTxns(db)' /\ CreditsFit(db)' /\ FormCalls(call)'
  BY <1>2 DEF FormInv, FormTxns, CreditsFit, FormCalls, PayeesCreated
<1>14. FormCards(ui, db)' /\ FormMirrors(ui, seen.txn, db)'
  BY <1>2, <1>5, <1>12, TotalsStay DEF FormInv
<1> QED  BY <1>5, <1>13, <1>14 DEF FormInv

\* Unlinking one leaves amounts that follow their payments.
LEMMA IncomeUnlinked ==
    ASSUME NoAmount, FormInv, NEW c \in DOMAIN ui.card, NEW t, NEW r,
           r = Form!Relinked(c, ui.card[c].incomes \ {t}, seen.txn)
    PROVE  IsCard(r, db) /\ r.incomes \subseteq ui.card[c].incomes /\ Mirrors(r, seen.txn, db)
<1>1. PICK old, T : old = ui.card[c] /\ T = old.incomes \ {t}
  OBVIOUS
<1>2. /\ IsCard(old, db) /\ T \subseteq DOMAIN db.txn /\ T \subseteq ui.card[c].incomes /\ FormTxns(db)
      /\ ~old.touched => \A u \in T : seen.txn[u] = db.txn[u].amount
  BY <1>1 DEF FormInv, FormCards, FormMirrors, IsCard, Mirrors
<1>3. Relinks(r, old, T, seen.txn)
  BY <1>1, <1>2 DEF Form!Relinked, Form!Cent, IsCard, Relinks
<1>4. IsCard(r, db) /\ r.incomes = T /\ Mirrors(r, seen.txn, db)
  BY <1>2, <1>3, CardRelinked
<1> QED  BY <1>2, <1>4

\* What only changes the form keeps the invariant if the form is as it should be.
LEMMA FormEdited ==
    ASSUME FormInv, UNCHANGED <<db, seen, call>>, FormCards(ui', db), FormMirrors(ui', seen.txn, db)
    PROVE  FormInv'
<1>1. FormTxns(db)' /\ CreditsFit(db)' /\ FormCalls(call)' /\ FormCache(seen)'
  BY DEF FormInv, FormTxns, CreditsFit, FormCalls, PayeesCreated, FormCache
<1>2. FormCards(ui, db)' /\ FormMirrors(ui, seen.txn, db)'
  BY TotalsStay DEF FormInv
<1> QED  BY <1>1, <1>2 DEF FormInv

\* A card changed by the user in what is no payment has its amount touched, or another payee.
LEMMA CardEdited ==
    ASSUME FormInv, NEW c \in DOMAIN ui.card, NEW r, UNCHANGED <<db, seen, call>>, ui' = Form!SetCard(c, r),
           IsCard(r, db), Mirrors(r, seen.txn, db), r.incomes \subseteq ui.card[c].incomes
    PROVE  FormInv'
<1>1. \A b \in DOMAIN ui.card : b # c => ui.card[b].incomes \cap r.incomes = {} /\ Mirrors(ui.card[b], seen.txn, db)
  BY DEF FormInv, FormCards, FormMirrors
<1>2. FormCards(Form!SetCard(c, r), db) /\ FormMirrors(Form!SetCard(c, r), seen.txn, db)
  BY <1>1, CardSet DEF FormInv
<1> QED  BY <1>2, FormEdited

-----------------------------------------------------------------------------
(***************************************************************************)
(* Its calls.                                                              *)
(***************************************************************************)
\* One more call,
LEMMA FormSends ==
    ASSUME NoCalls, NEW h, NEW b, Form!Mutate(h, b)
    PROVE  Begun(SplitFormCase.calls, call, call', h, b)
<1> DEFINE n == SplitFormCase.calls
<1>1. Form!Free # {} /\ Form!Free \subseteq Nat /\ \A k \in Form!Free : k \in 1..n /\ call[k] = Idle
  BY ClientAssumption DEF Form!Mutate, Form!Free, Form!Slots
<1>2. Form!Min(Form!Free) \in Form!Free /\ \A j \in Form!Free : Form!Min(Form!Free) <= j
  BY <1>1, LeastIsIn DEF Form!Min
<1>3. \A j \in 1..n : call[j] = Idle => j \in Form!Free
  BY DEF Form!Free, Form!Slots
<1> QED
  BY <1>1, <1>2, <1>3 DEF Form!Mutate, Form!Started, Form!Slots, Form!Running, Begun, Going

\* so a call that begins is the one sent.
LEMMA FormBegins ==
    ASSUME NoCalls, FormCalls(call), NEW h \in FormHooks, NEW b, Form!Mutate(h, b)
    PROVE  /\ FormCalls(call')
           /\ \A j \in 1..SplitFormCase.calls :
                 call[j] = Idle /\ call'[j] # Idle => call'[j].hook = h /\ call'[j].body = b
<1>1. PICK n : n = SplitFormCase.calls
  OBVIOUS
<1>2. n \in Nat /\ Hooks(n, call, FormHooks) /\ Calling(n, call) /\ Filled(n, call)
  BY <1>1, ClientAssumption DEF FormCalls, Hooks
<1>3. Begun(n, call, call', h, b)
  BY <1>1, FormSends
<1>4. Hooks(n, call', FormHooks)
  BY <1>2, <1>3, HooksStay
<1>5. /\ Filled(n, call')
      /\ \A j \in 1..n : call[j] = Idle /\ call'[j] # Idle => call'[j].hook = h /\ call'[j].body = b
  BY <1>2, <1>3, FilledBegins
<1>6. PICK new \in 1..n :
         /\ ~Going(call[new]) /\ Going(call'[new])
         /\ call'[new] = [hook |-> h, body |-> b, state |-> "sent", awaits |-> {}, heard |-> TRUE]
         /\ \A j \in 1..n : j # new =>
               /\ Going(call'[j]) <=> Going(call[j])
               /\ ~Mine(call[j], h) => call'[j] = call[j]
               /\ Mine(call[j], h) => Carries(call[j], call'[j]) /\ call'[j].state = call[j].state /\ ~call'[j].heard
  BY <1>2, <1>3, BegunRows
<1>7. ASSUME NEW j \in 1..n, Mine(call'[j], "payee"), call'[j].state # "sent"
      PROVE  Mine(call[j], "payee") /\ call[j].state # "sent" /\ call'[j].body = call[j].body
  <2>1. j # new
    BY <1>6, <1>7
  <2> QED  BY <1>6, <1>7, <2>1 DEF Mine, Carries
<1>8. PayeesCreated(call')
  BY <1>1, <1>7 DEF FormCalls, PayeesCreated
<1> QED  BY <1>1, <1>4, <1>5, <1>8 DEF FormCalls

\* one that goes on or is over,
LEMMA FormGoesOn ==
    ASSUME NoCalls, FormCalls(call), NEW k \in 1..SplitFormCase.calls, Going(call[k]),
           \/ call' = Form!Without(k)
           \/ /\ call[k].hook = "payee" => call[k].state # "sent"
              /\ \E s : Restated(call, call', k, s)
    PROVE  FormCalls(call') /\ \A j \in 1..SplitFormCase.calls : call[j] = Idle => call'[j] = Idle
<1>1. PICK n : n = SplitFormCase.calls
  OBVIOUS
<1>2. n \in Nat /\ Hooks(n, call, FormHooks) /\ Calling(n, call) /\ Filled(n, call) /\ k \in 1..n
  BY <1>1, ClientAssumption DEF FormCalls, Hooks
<1>3. Dropped(n, call, call', k) \/ \E s : Restated(call, call', k, s)
  BY <1>1 DEF Form!Without, Form!Slots, Dropped
<1>4. Hooks(n, call', FormHooks)
  BY <1>2, <1>3, HooksStay
<1>5. Filled(n, call') /\ \A j \in 1..n : call[j] = Idle => call'[j] = Idle
  BY <1>2, <1>3, FilledStays
<1>6. ASSUME NEW j \in 1..n, Mine(call'[j], "payee"), call'[j].state # "sent"
      PROVE  \E i \in 1..n : Mine(call[i], "payee") /\ call[i].state # "sent" /\ call'[j].body = call[i].body
  <2>1. CASE Dropped(n, call, call', k)
    <3>1. Before(k, j) \in 1..n /\ call'[j] = call[Before(k, j)]
      BY <1>2, <1>6, <2>1, DroppedRows DEF Mine
    <3> QED  BY <1>6, <3>1
  <2>2. CASE ~Dropped(n, call, call', k)
    <3>1. PICK s : Restated(call, call', k, s)
      BY <1>3, <2>2
    <3>2. /\ \A i \in 1..n : i # k => call'[i] = call[i]
          /\ Going(call'[k]) /\ Carries(call[k], call'[k])
      BY <1>2, <3>1, RestatedRows
    <3>3. call[k].hook = "payee" => call[k].state # "sent"
      BY <1>1, <2>2 DEF Form!Without, Form!Slots, Dropped
    <3>4. CASE j = k
      BY <1>6, <3>2, <3>3, <3>4 DEF Mine, Carries
    <3>5. CASE j # k
      BY <1>6, <3>2, <3>5
    <3> QED  BY <3>4, <3>5
  <2> QED  BY <2>1, <2>2
<1>7. PayeesCreated(call')
  BY <1>1, <1>6 DEF FormCalls, PayeesCreated
<1> QED  BY <1>1, <1>4, <1>5, <1>7 DEF FormCalls

\* or one that comes back with a payee leaves calls of the form.
LEMMA FormCreates ==
    ASSUME NoCalls, FormCalls(call), NEW k \in 1..SplitFormCase.calls, NEW p, Form!ServePayee(k, p)
    PROVE  FormCalls(call') /\ \A j \in 1..SplitFormCase.calls : call[j] = Idle => call'[j] = Idle
<1>1. PICK n : n = SplitFormCase.calls
  OBVIOUS
<1>2. /\ Hooks(n, call, FormHooks) /\ Calling(n, call) /\ Filled(n, call) /\ PayeesCreated(call)
  BY <1>1 DEF FormCalls, Hooks
<1>3. PICK b : b = [card |-> call[k].body.card, payee |-> p]
  OBVIOUS
<1>4. /\ call' = [[call EXCEPT ![k].state = "done"] EXCEPT ![k].body = b] /\ b.payee = p
      /\ p \in SplitFormCase.payees /\ Going(call[k]) /\ call[k].hook = "payee" /\ k \in 1..n /\ IsCall(call[k])
  BY <1>1, <1>2, <1>3 DEF Form!ServePayee, Form!Running, Going, Calling
<1>5. PICK old : old = call[k]
  OBVIOUS
<1>6. /\ DOMAIN call' = 1..n /\ \A j \in 1..n : j # k => call'[j] = call[j]
      /\ call'[k] = [[old EXCEPT !.state = "done"] EXCEPT !.body = b]
  BY <1>2, <1>4, <1>5 DEF Calling
<1>7. call'[k] = [hook |-> "payee", body |-> b, state |-> "done", awaits |-> old.awaits, heard |-> old.heard]
  BY <1>4, <1>5, <1>6 DEF IsCall
<1>8. IsCall(call'[k]) /\ Going(call'[k])
  BY <1>7 DEF IsCall, NoCalls, Going
<1>9. Hooks(n, call', FormHooks)
  BY <1>2, <1>6, <1>7, <1>8 DEF Hooks, Calling, FormHooks
<1>10. \A j \in 1..n : call'[j] = Idle <=> call[j] = Idle
  BY <1>4, <1>6, <1>8 DEF Going
<1>11. Filled(n, call')
  BY <1>2, <1>10 DEF Filled
<1>12. PayeesCreated(call')
  BY <1>1, <1>2, <1>4, <1>6, <1>7 DEF PayeesCreated, Mine
<1> QED  BY <1>1, <1>9, <1>10, <1>11, <1>12 DEF FormCalls

-----------------------------------------------------------------------------
(***************************************************************************)
(* Its steps.                                                              *)
(***************************************************************************)
\* A transaction's own amount in the cache leaves what follows it right, and so does one
\* that could not be fetched: no untouched amount follows what is not in the cache.
LEMMA CacheSet ==
    ASSUME NoAmount, FormInv, NEW t \in DOMAIN db.txn, NEW a,
           a = db.txn[t].amount \/ (a = 0 /\ seen.txn[t] = NoData),
           seen' = [seen EXCEPT !.txn = [seen.txn EXCEPT ![t] = a]]
    PROVE  FormCache(seen') /\ FormMirrors(ui, seen'.txn, db)
<1>1. PICK cache : cache = [seen.txn EXCEPT ![t] = a]
  OBVIOUS
<1>2. t \in SplitFormCase.txnIds /\ db.txn[t].amount \in Int /\ a \in Int
  BY DEF FormInv, FormTxns
<1>3. /\ cache = [u \in SplitFormCase.txnIds |-> cache[u]] /\ cache[t] = a
      /\ \A u \in SplitFormCase.txnIds : u # t => cache[u] = seen.txn[u]
  BY <1>1, <1>2 DEF FormInv, FormCache
<1>4. seen' = [txn |-> cache, splits |-> seen.splits, payees |-> seen.payees]
  BY <1>1 DEF FormInv, FormCache
<1>5. FormCache(seen') /\ seen'.txn = cache
  BY <1>2, <1>3, <1>4 DEF FormInv, FormCache
<1>6. ASSUME NEW b \in DOMAIN ui.card PROVE Mirrors(ui.card[b], cache, db)
  <2>1. IsCard(ui.card[b], db) /\ Mirrors(ui.card[b], seen.txn, db)
    BY DEF FormInv, FormCards, FormMirrors
  <2>2. ASSUME ~ui.card[b].touched, NEW u \in ui.card[b].incomes PROVE cache[u] = db.txn[u].amount
    <3>1. seen.txn[u] = db.txn[u].amount /\ u \in SplitFormCase.txnIds /\ db.txn[u].amount \in Int
      BY <2>1, <2>2 DEF Mirrors, IsCard, FormInv, FormTxns
    <3> QED  BY <1>3, <3>1 DEF NoAmount
  <2> QED  BY <2>1, <2>2 DEF Mirrors
<1> QED  BY <1>5, <1>6 DEF FormMirrors

\* The form's transactions, credits and calls are those of a step that leaves them alone.
LEMMA FormRest ==
    ASSUME FormInv, UNCHANGED <<db, call>>, FormCache(seen'), FormCards(ui', db), FormMirrors(ui', seen'.txn, db)
    PROVE  FormInv'
<1>1. FormTxns(db)' /\ CreditsFit(db)' /\ FormCalls(call)' /\ FormCache(seen)'
  BY DEF FormInv, FormTxns, CreditsFit, FormCalls, PayeesCreated, FormCache
<1>2. FormCards(ui, db)' /\ FormMirrors(ui, seen.txn, db)'
  BY TotalsStay DEF FormInv
<1> QED  BY <1>1, <1>2 DEF FormInv

\* So it is when a call is sent or fails.
LEMMA FormWaits ==
    ASSUME FormInv, UNCHANGED <<db, seen, ui>>, FormCalls(call')
    PROVE  FormInv'
<1>1. FormTxns(db)' /\ CreditsFit(db)' /\ FormCalls(call)' /\ FormCache(seen)'
  BY DEF FormInv, FormTxns, CreditsFit, FormCache
<1>2. FormCards(ui, db)' /\ FormMirrors(ui, seen.txn, db)'
  BY TotalsStay DEF FormInv
<1> QED  BY <1>1, <1>2 DEF FormInv

\* What the user does to a card,
LEMMA CardStep ==
    ASSUME NoAmount, NoCalls, FormInv, NEW c \in DOMAIN ui.card, Form!CardSteps(c)
    PROVE  FormInv'
<1>1. FormTxns(db) /\ FormCache(seen) /\ FormCards(ui, db) /\ FormMirrors(ui, seen.txn, db)
  BY DEF FormInv
<1>2. PICK old : /\ old = ui.card[c] /\ IsCard(old, db) /\ Mirrors(old, seen.txn, db)
                 /\ old = [payee |-> old.payee, amount |-> old.amount, touched |-> old.touched,
                           incomes |-> old.incomes, forgiven |-> old.forgiven]
  BY <1>1 DEF FormCards, FormMirrors, IsCard
<1>3. ASSUME NEW r, Form!Edits(Form!SetCard(c, r)), IsCard(r, db), Mirrors(r, seen.txn, db),
             r.incomes \subseteq ui.card[c].incomes
      PROVE  FormInv'
  BY <1>3, CardEdited DEF Form!Edits, Form!Locally
<1>4. CASE Form!RemoveCard(c)
  <2>1. /\ UNCHANGED <<db, seen, call>>
        /\ ui' = [ui EXCEPT !.card = [b \in DOMAIN ui.card \ {c} |-> ui.card[b]]]
    BY <1>4 DEF Form!RemoveCard, Form!Edits, Form!Locally
  <2>2. FormCards(ui', db) /\ FormMirrors(ui', seen.txn, db)
    BY <1>1, <2>1, CardRemoved
  <2> QED  BY <2>1, <2>2, FormEdited
<1>5. CASE Form!CreatePayee(c)
  <2>1. Form!Mutate("payee", [card |-> c]) /\ UNCHANGED <<db, seen, ui>>
    BY <1>5 DEF Form!CreatePayee, Form!Sends
  <2>2. FormCalls(call')
    BY <2>1, FormBegins DEF FormInv, FormHooks
  <2> QED  BY <2>1, <2>2, FormWaits
<1>6. CASE Form!CardRemainder(c)
  <2>1. PICK a : /\ a = Form!Remainder(Form!MyShare + Form!CardTotal(DOMAIN ui.card \ {c}))
                 /\ Form!Edits(Form!SetCard(c, [old EXCEPT !.touched = TRUE, !.amount = a]))
    BY <1>2, <1>6 DEF Form!CardRemainder
  <2>2. a \in Int
    <3>1. PICK x : x = Form!MyShare + Form!CardTotal(DOMAIN ui.card \ {c})
      OBVIOUS
    <3>2. x \in Int
      BY <1>1, <3>1, FormNumbers
    <3> QED  BY <1>1, <2>1, <3>1, <3>2, FormNumbers
  <2>3. PICK r : r = [old EXCEPT !.touched = TRUE, !.amount = a]
    OBVIOUS
  <2>4. IsCard(r, db) /\ Mirrors(r, seen.txn, db) /\ r.incomes = old.incomes
    BY <1>2, <2>2, <2>3 DEF IsCard, Mirrors
  <2> QED  BY <1>2, <1>3, <2>1, <2>3, <2>4
<1>7. CASE \E p \in Form!PayeeRef : Form!ChoosePayee(c, p)
  <2>1. PICK p \in SplitFormCase.payees \cup {NoPayee} : Form!ChoosePayee(c, p)
    BY <1>7 DEF Form!PayeeRef
  <2>2. PICK r : r = [old EXCEPT !.payee = p]
    OBVIOUS
  <2>3. IsCard(r, db) /\ Mirrors(r, seen.txn, db) /\ r.incomes = old.incomes
    BY <1>2, <2>2 DEF IsCard, Mirrors
  <2> QED  BY <1>2, <1>3, <2>1, <2>2, <2>3 DEF Form!ChoosePayee
<1>8. CASE \E a \in SplitFormCase.typed : Form!TypeAmount(c, a)
  <2>1. PICK a \in SplitFormCase.typed : Form!TypeAmount(c, a)
    BY <1>8
  <2>2. PICK r : r = [old EXCEPT !.amount = a, !.touched = TRUE]
    OBVIOUS
  <2>3. IsCard(r, db) /\ Mirrors(r, seen.txn, db) /\ r.incomes = old.incomes
    BY <1>2, <2>2, FormAssumption DEF IsCard, Mirrors
  <2> QED  BY <1>2, <1>3, <2>1, <2>2, <2>3 DEF Form!TypeAmount
<1>9. CASE \E a \in SplitFormCase.typed : Form!TypeForgiven(c, a)
  <2>1. PICK a \in SplitFormCase.typed : Form!TypeForgiven(c, a)
    BY <1>9
  <2>2. PICK r : r = [old EXCEPT !.forgiven = a, !.touched = TRUE]
    OBVIOUS
  <2>3. IsCard(r, db) /\ Mirrors(r, seen.txn, db) /\ r.incomes = old.incomes
    BY <1>2, <2>2, FormAssumption DEF IsCard, Mirrors
  <2> QED  BY <1>2, <1>3, <2>1, <2>2, <2>3 DEF Form!TypeForgiven
<1>10. CASE \E t \in SplitFormCase.txnIds : Form!LinkIncome(c, t)
  BY <1>10, IncomeLinked
<1>11. CASE \E t \in SplitFormCase.txnIds : Form!UnlinkIncome(c, t)
  <2>1. PICK t : Form!UnlinkIncome(c, t)
    BY <1>11
  <2>2. PICK r : r = Form!Relinked(c, ui.card[c].incomes \ {t}, seen.txn)
    OBVIOUS
  <2>3. Form!Edits(Form!SetCard(c, r))
    BY <2>1, <2>2 DEF Form!UnlinkIncome
  <2>4. IsCard(r, db) /\ r.incomes \subseteq ui.card[c].incomes /\ Mirrors(r, seen.txn, db)
    BY <2>2, IncomeUnlinked
  <2> QED  BY <1>3, <2>3, <2>4
<1> QED
  BY Zenon, <1>4, <1>5, <1>6, <1>7, <1>8, <1>9, <1>10, <1>11 DEF Form!CardSteps

\* to the rest of the form,
LEMMA FormKept ==
    ASSUME FormInv, NEW new, Form!Edits(new), new.card = ui.card,
           new = [open |-> new.open, split |-> new.split, expenses |-> new.expenses, own |-> new.own,
                  excluded |-> new.excluded, card |-> new.card],
           new.expenses \subseteq DOMAIN db.txn, new.own \in Int
    PROVE  FormInv'
<1>1. ui' = new /\ UNCHANGED <<db, seen, call>>
  BY DEF Form!Edits, Form!Locally
<1>2. FormCards(ui', db) /\ FormMirrors(ui', seen.txn, db)
  BY <1>1 DEF FormInv, FormCards, FormMirrors
<1> QED  BY <1>1, <1>2, FormEdited

\* and to the form as a whole keeps the invariant,
LEMMA FormUserStep == ASSUME NoAmount, NoCalls, FormInv, Form!FormUser PROVE FormInv'
<1>1. /\ FormTxns(db) /\ FormCache(seen) /\ FormCards(ui, db) /\ FormMirrors(ui, seen.txn, db)
      /\ ui = [open |-> ui.open, split |-> ui.split, expenses |-> ui.expenses, own |-> ui.own,
               excluded |-> ui.excluded, card |-> ui.card]
      /\ ui.expenses \subseteq DOMAIN db.txn /\ ui.own \in Int
  BY DEF FormInv, FormCards
<1>2. CASE \E t \in SplitFormCase.txnIds : Form!PickExpense(t)
  <2>1. PICK t : Form!PickExpense(t)
    BY <1>2
  <2>2. /\ t \in DOMAIN db.txn /\ UNCHANGED <<db, call>>
        /\ ui' = [ui EXCEPT !.expenses = @ \cup {t}]
        /\ seen' = [seen EXCEPT !.txn = [seen.txn EXCEPT ![t] = db.txn[t].amount]]
    BY <2>1 DEF Form!PickExpense, Form!PickerItems, Form!Picks, Form!PickedIn
  <2>3. FormCache(seen') /\ FormMirrors(ui, seen'.txn, db)
    BY <2>2, CacheSet
  <2>4. ui' = [open |-> ui.open, split |-> ui.split, expenses |-> ui.expenses \cup {t}, own |-> ui.own,
               excluded |-> ui.excluded, card |-> ui.card]
    BY <1>1, <2>2
  <2>5. /\ ui'.card = ui.card /\ ui'.expenses \subseteq DOMAIN db.txn /\ ui'.own \in Int
        /\ ui' = [open |-> ui'.open, split |-> ui'.split, expenses |-> ui'.expenses, own |-> ui'.own,
                  excluded |-> ui'.excluded, card |-> ui'.card]
    BY <1>1, <2>2, <2>4
  <2>6. FormCards(ui', db) /\ FormMirrors(ui', seen'.txn, db)
    BY <1>1, <2>3, <2>5 DEF FormCards, FormMirrors
  <2> QED  BY <2>2, <2>3, <2>6, FormRest
<1>3. CASE \E t \in SplitFormCase.txnIds : Form!RemoveExpense(t)
  <2>1. PICK t : Form!Edits([ui EXCEPT !.expenses = @ \ {t}])
    BY <1>3 DEF Form!RemoveExpense
  <2>2. PICK new : new = [open |-> ui.open, split |-> ui.split, expenses |-> ui.expenses \ {t}, own |-> ui.own,
                          excluded |-> ui.excluded, card |-> ui.card]
    OBVIOUS
  <2>3. new = [ui EXCEPT !.expenses = @ \ {t}]
    BY <1>1, <2>2
  <2> QED  BY <1>1, <2>1, <2>2, <2>3, FormKept
<1>4. CASE (\E a \in SplitFormCase.typed : Form!TypeMyShare(a)) \/ Form!MyShareRemainder
  <2>1. PICK a : a \in Int /\ Form!Edits([ui EXCEPT !.own = a])
    <3>1. CASE \E a \in SplitFormCase.typed : Form!TypeMyShare(a)
      BY <3>1, FormAssumption DEF Form!TypeMyShare
    <3>2. CASE Form!MyShareRemainder
      <4>1. PICK x : x = Form!CardTotal(DOMAIN ui.card)
        OBVIOUS
      <4>2. x \in Int
        BY <1>1, <4>1, FormNumbers
      <4>3. Form!Remainder(x) \in Int
        BY <1>1, <4>2, FormNumbers
      <4> QED  BY <3>2, <4>1, <4>3 DEF Form!MyShareRemainder
    <3> QED  BY <1>4, <3>1, <3>2
  <2>2. PICK new : new = [open |-> ui.open, split |-> ui.split, expenses |-> ui.expenses, own |-> a,
                          excluded |-> ui.excluded, card |-> ui.card]
    OBVIOUS
  <2>3. new = [ui EXCEPT !.own = a]
    BY <1>1, <2>2
  <2> QED  BY <1>1, <2>1, <2>2, <2>3, FormKept
<1>5. CASE Form!SetExcluded
  <2>1. PICK new : new = [open |-> ui.open, split |-> ui.split, expenses |-> ui.expenses, own |-> ui.own,
                          excluded |-> ~ui.excluded, card |-> ui.card]
    OBVIOUS
  <2>2. new = [ui EXCEPT !.excluded = ~@]
    BY <1>1, <2>1
  <2>3. Form!Edits(new)
    BY <1>5, <2>2 DEF Form!SetExcluded
  <2> QED  BY <1>1, <2>1, <2>3, FormKept
<1>6. CASE Form!AddCard
  <2>1. PICK c : c = CHOOSE b \in SplitFormCase.cards \ DOMAIN ui.card : TRUE
    OBVIOUS
  <2>2. c \in SplitFormCase.cards /\ c \notin DOMAIN ui.card
    BY <1>1, <1>6, <2>1 DEF Form!AddCard, FormCards
  <2>3. /\ UNCHANGED <<db, seen, call>>
        /\ ui' = [ui EXCEPT !.card = [b \in DOMAIN ui.card \cup {c} |->
                                        IF b = c THEN Form!NewCard ELSE ui.card[b]]]
    BY <1>6, <2>1 DEF Form!AddCard, Form!Edits, Form!Locally
  <2>4. FormCards(ui', db) /\ FormMirrors(ui', seen.txn, db)
    BY <1>1, <2>2, <2>3, CardAdded
  <2> QED  BY <2>3, <2>4, FormEdited
<1>7. CASE Form!Submit
  <2>1. PICK h, b : h \in FormHooks /\ Form!Mutate(h, b) /\ UNCHANGED <<db, seen, ui>>
    BY <1>7 DEF Form!Submit, Form!Sends, FormHooks
  <2>2. FormCalls(call')
    BY <2>1, FormBegins DEF FormInv
  <2> QED  BY <2>1, <2>2, FormWaits
<1>8. CASE Form!Cancel
  <2>1. ui' = Form!Closed /\ UNCHANGED <<db, seen, call>>
    BY <1>8 DEF Form!Cancel, Form!Edits, Form!Locally
  <2>2. FormCards(Form!Closed, db) /\ FormMirrors(Form!Closed, seen.txn, db)
    BY DEF Form!Closed, FormCards, FormMirrors
  <2> QED  BY <2>1, <2>2, FormEdited
<1>9. CASE \E c \in DOMAIN ui.card : Form!CardSteps(c)
  BY <1>9, CardStep
<1> QED
  BY Zenon, <1>2, <1>3, <1>4, <1>5, <1>6, <1>7, <1>8, <1>9 DEF Form!FormUser

\* What a handler of splits writes are rows of splits.
LEMMA RowsWritten ==
    ASSUME NEW d, {"txn", "paid"} \subseteq DOMAIN d, NEW s, NEW exps, NEW body, NEW ids, NEW credit
    PROVE  LET new == Form!InsertRows(d, s, exps, Form!BodyRows(body, credit), ids, credit)
           IN  /\ new.txn = d.txn /\ DOMAIN new = DOMAIN d
               /\ \A x \in new.paid : \/ x \in d.paid
                                      \/ \E p \in DOMAIN body : \E t \in body[p].incomes :
                                            x.txn = t /\ x.amount = credit[t]
<1>1. PICK rows : rows = Form!BodyRows(body, credit)
  OBVIOUS
<1>2. DOMAIN rows = DOMAIN body /\ \A p \in DOMAIN body : rows[p].incomes = body[p].incomes
  BY <1>1 DEF Form!BodyRows
<1>3. PICK new : new = Form!InsertRows(d, s, exps, rows, ids, credit)
  OBVIOUS
<1>4. /\ new.txn = d.txn /\ DOMAIN new = DOMAIN d
      /\ new.paid = d.paid \cup UNION {{[share |-> ids[k], txn |-> t, amount |-> credit[t]] :
                                          t \in rows[k].incomes} : k \in DOMAIN rows}
  BY <1>3 DEF Form!InsertRows
<1>5. \A x \in new.paid : \/ x \in d.paid
                          \/ \E p \in DOMAIN body : \E t \in body[p].incomes :
                                x.txn = t /\ x.amount = credit[t]
  BY <1>2, <1>4
<1> QED  BY <1>1, <1>3, <1>4, <1>5

\* What an income is credited with is not more than it brought, at first or when kept.
LEMMA CreditsKept ==
    ASSUME FormTxns(db), CreditsFit(db), NEW s
    PROVE  \A t \in DOMAIN db.txn :
              /\ Form!FullCredit(db)[t] \in Int /\ Form!FullCredit(db)[t] <= db.txn[t].amount
              /\ Form!KeptCredit(db, s)[t] \in Int /\ Form!KeptCredit(db, s)[t] <= db.txn[t].amount
<1> SUFFICES ASSUME NEW t \in DOMAIN db.txn
             PROVE  /\ Form!FullCredit(db)[t] \in Int /\ Form!FullCredit(db)[t] <= db.txn[t].amount
                    /\ Form!KeptCredit(db, s)[t] \in Int /\ Form!KeptCredit(db, s)[t] <= db.txn[t].amount
  OBVIOUS
<1>1. db.txn[t].amount \in Int
  BY DEF FormTxns
<1>2. PICK kept : kept = {x \in Form!CreditsOf(db, t) : x.share \in Form!SharesOf(db, s)}
  OBVIOUS
<1>3. \A x \in kept : x.amount \in Int /\ x.amount <= db.txn[t].amount
  BY <1>2 DEF Form!CreditsOf, CreditsFit
<1>4. Form!KeptCredit(db, s)[t] = IF kept # {} THEN (CHOOSE x \in kept : TRUE).amount ELSE db.txn[t].amount
  BY <1>2 DEF Form!KeptCredit
<1>5. kept # {} => (CHOOSE x \in kept : TRUE) \in kept
  OBVIOUS
<1> QED  BY <1>1, <1>3, <1>4, <1>5 DEF Form!FullCredit

\* So a split that is saved credits no income with more than it brought.
LEMMA FormServed ==
    ASSUME NoCalls, FormInv, NEW k \in 1..SplitFormCase.calls, Form!ServeForm(k)
    PROVE  FormInv'
<1>1. FormTxns(db) /\ CreditsFit(db) /\ FormCalls(call) /\ {"txn", "paid"} \subseteq DOMAIN db
  BY DEF FormInv, CreditsFit
<1>2. PICK b : b = call[k].body
  OBVIOUS
<1>3. /\ Going(call[k]) /\ call[k].hook # "payee" /\ Restated(call, call', k, "done")
      /\ UNCHANGED <<seen, ui>>
  BY DEF Form!ServeForm, Form!Serve, Form!Running, Going, Restated
<1>4. /\ db'.txn = db.txn /\ DOMAIN db' = DOMAIN db
      /\ \A x \in db'.paid : \/ x \in db.paid
                             \/ x.txn \in DOMAIN db.txn /\ x.amount \in Int /\ x.amount <= db.txn[x.txn].amount
  <2>1. CASE db' = Form!CreateResult(b).db /\ Form!CreateSplitOk(db, b.expenses, b.shares)
    <3>1. PICK s, ids : db' = Form!InsertRows(db, s, b.expenses, Form!BodyRows(b.shares, Form!FullCredit(db)),
                                              ids, Form!FullCredit(db))
      BY <2>1 DEF Form!CreateResult, Form!CreateSplitWrite, Form!SaveSplit, Form!Result
    <3>2. \A p \in DOMAIN b.shares : \A t \in b.shares[p].incomes : t \in DOMAIN db.txn
      BY <2>1 DEF Form!CreateSplitOk, Form!IsIncome, Form!LiveTxn
    <3>3. \A t \in DOMAIN db.txn : /\ Form!FullCredit(db)[t] \in Int
                                   /\ Form!FullCredit(db)[t] <= db.txn[t].amount
      BY <1>1, CreditsKept
    <3>4. /\ db'.txn = db.txn /\ DOMAIN db' = DOMAIN db
          /\ \A x \in db'.paid : \/ x \in db.paid
                                 \/ \E p \in DOMAIN b.shares : \E t \in b.shares[p].incomes :
                                       x.txn = t /\ x.amount = Form!FullCredit(db)[t]
      BY <1>1, <3>1, RowsWritten
    <3> QED  BY <3>2, <3>3, <3>4
  <2>2. CASE db' = Form!UpdateResult(b).db /\ Form!UpdateSplitOk(db, b.split, b.expenses, b.shares)
    <3> DEFINE cleared == Form!ClearSplit(db, b.split)
    <3>1. PICK ids : db' = Form!InsertRows(cleared, b.split, b.expenses,
                                           Form!BodyRows(b.shares, Form!KeptCredit(db, b.split)),
                                           ids, Form!KeptCredit(db, b.split))
      BY <2>2 DEF Form!UpdateResult, Form!UpdateSplitWrite, Form!SaveSplit, Form!Result
    <3>2. \A p \in DOMAIN b.shares : \A t \in b.shares[p].incomes : t \in DOMAIN db.txn
      BY <2>2 DEF Form!UpdateSplitOk, Form!IsIncome, Form!LiveTxn
    <3>3. \A t \in DOMAIN db.txn : /\ Form!KeptCredit(db, b.split)[t] \in Int
                                   /\ Form!KeptCredit(db, b.split)[t] <= db.txn[t].amount
      BY <1>1, CreditsKept
    <3>4. cleared.txn = db.txn /\ DOMAIN cleared = DOMAIN db /\ cleared.paid \subseteq db.paid
      BY <1>1 DEF Form!ClearSplit
    <3>5. PICK mid : mid = cleared
      OBVIOUS
    <3> HIDE DEF cleared
    <3>6. {"txn", "paid"} \subseteq DOMAIN mid
      BY <1>1, <3>4, <3>5
    <3>7. /\ db'.txn = mid.txn /\ DOMAIN db' = DOMAIN mid
          /\ \A x \in db'.paid : \/ x \in mid.paid
                                 \/ \E p \in DOMAIN b.shares : \E t \in b.shares[p].incomes :
                                       x.txn = t /\ x.amount = Form!KeptCredit(db, b.split)[t]
      BY <3>1, <3>5, <3>6, RowsWritten
    <3> QED  BY <3>2, <3>3, <3>4, <3>5, <3>7
  <2> QED  BY <1>2, <2>1, <2>2 DEF Form!ServeForm, Form!Serve
<1>5. CreditsFit(db')
  BY <1>1, <1>4 DEF CreditsFit
<1>6. FormCalls(call')
  BY <1>1, <1>3, FormGoesOn
<1>7. FormCache(seen') /\ FormTxns(db') /\ FormCards(ui', db') /\ FormMirrors(ui', seen'.txn, db')
  BY <1>1, <1>3, <1>4, TotalsStay DEF FormInv
<1> QED  BY <1>5, <1>6, <1>7 DEF FormInv

\* and what comes back does too.
LEMMA FormAnswered ==
    ASSUME NoCalls, FormInv, NEW k \in 1..SplitFormCase.calls,
           Form!SaveAnswered(k) \/ Form!PayeeSettles(k) \/ Form!PayeeAnswered(k) \/ Form!Fails(k, ui)
    PROVE  FormInv'
<1>1. /\ FormTxns(db) /\ FormCards(ui, db) /\ FormMirrors(ui, seen.txn, db) /\ FormCalls(call)
      /\ UNCHANGED <<db, seen>> /\ Going(call[k])
  BY DEF FormInv, Form!SaveAnswered, Form!Returns, Form!PayeeSettles, Form!Settles, Form!PayeeAnswered,
         Form!Over, Form!Fails, Form!Running, Going
<1>2. CASE Form!PayeeSettles(k)
  <2>1. UNCHANGED ui /\ call[k].state = "done" /\ Restated(call, call', k, "settling")
    BY <1>2 DEF Form!PayeeSettles, Form!Settles, Restated
  <2>2. FormCalls(call')
    BY <1>1, <2>1, FormGoesOn
  <2> QED  BY <1>1, <2>1, <2>2, FormWaits
<1>3. ASSUME call' = Form!Without(k), FormCards(ui', db), FormMirrors(ui', seen.txn, db)
      PROVE  FormInv'
  <2>1. FormCalls(call')
    BY <1>1, <1>3, FormGoesOn
  <2>2. CreditsFit(db)' /\ FormTxns(db)' /\ FormCache(seen)'
    BY <1>1 DEF FormInv, CreditsFit, FormTxns, FormCache
  <2>3. FormCards(ui, db)' /\ FormMirrors(ui, seen.txn, db)'
    BY <1>1, <1>3, TotalsStay
  <2> QED  BY <2>1, <2>2, <2>3 DEF FormInv
<1>4. CASE Form!SaveAnswered(k)
  <2>1. call' = Form!Without(k) /\ ui' = Form!Closed
    BY <1>4 DEF Form!SaveAnswered, Form!Returns
  <2>2. FormCards(Form!Closed, db) /\ FormMirrors(Form!Closed, seen.txn, db)
    BY DEF Form!Closed, FormCards, FormMirrors
  <2> QED  BY <1>3, <2>1, <2>2
<1>5. CASE Form!Fails(k, ui)
  <2>1. call' = Form!Without(k) /\ ui' = ui
    BY <1>5 DEF Form!Fails
  <2> QED  BY <1>1, <1>3, <2>1
<1>6. CASE Form!PayeeAnswered(k)
  <2>1. PICK c, p : c = call[k].body.card /\ p = call[k].body.payee
    OBVIOUS
  <2>2. /\ call' = Form!Without(k) /\ call[k].hook = "payee" /\ call[k].state = "settling"
        /\ ui' = IF c \notin DOMAIN ui.card THEN ui ELSE Form!SetCard(c, [ui.card[c] EXCEPT !.payee = p])
    BY <1>6, <2>1 DEF Form!PayeeAnswered, Form!Over
  <2>3. p \in SplitFormCase.payees
    BY <1>1, <2>1, <2>2 DEF FormCalls, PayeesCreated, Mine
  <2>4. CASE c \notin DOMAIN ui.card
    BY <1>1, <1>3, <2>2, <2>4
  <2>5. CASE c \in DOMAIN ui.card
    <3>1. PICK old, r : old = ui.card[c] /\ r = [old EXCEPT !.payee = p]
      OBVIOUS
    <3>2. IsCard(old, db) /\ Mirrors(old, seen.txn, db)
      BY <1>1, <2>5, <3>1 DEF FormCards, FormMirrors
    <3>3. IsCard(r, db) /\ Mirrors(r, seen.txn, db) /\ r.incomes = old.incomes
      BY <2>3, <3>1, <3>2 DEF IsCard, Mirrors
    <3>4. \A b \in DOMAIN ui.card : b # c => ui.card[b].incomes \cap r.incomes = {} /\ Mirrors(ui.card[b], seen.txn, db)
      BY <1>1, <2>5, <3>1, <3>3 DEF FormCards, FormMirrors
    <3>5. FormCards(Form!SetCard(c, r), db) /\ FormMirrors(Form!SetCard(c, r), seen.txn, db)
      BY <1>1, <2>5, <3>3, <3>4, CardSet
    <3> QED  BY <1>3, <2>2, <2>5, <3>1, <3>5
  <2> QED  BY <2>4, <2>5
<1> QED  BY <1>2, <1>4, <1>5, <1>6

\* The queries answer with what the database has.
LEMMA FormFetched ==
    ASSUME NoAmount, FormInv,
           \/ \E q \in {"splits", "payees"} : Form!FetchForm(q)
           \/ \E t \in SplitFormCase.txnIds : Form!FetchTxn(t) \/ Form!FetchTxnFails(t)
    PROVE  FormInv'
<1>1. FormCards(ui, db) /\ FormMirrors(ui, seen.txn, db) /\ UNCHANGED <<db, call, ui>>
  BY DEF FormInv, Form!FetchForm, Form!FetchTxn, Form!FetchTxnFails
<1>2. CASE \E q \in {"splits", "payees"} : Form!FetchForm(q)
  <2>1. PICK x, y : seen' = [seen EXCEPT !.splits = x] \/ seen' = [seen EXCEPT !.payees = y]
    BY <1>2 DEF Form!FetchForm
  <2>2. FormCache(seen') /\ seen'.txn = seen.txn
    BY <2>1 DEF FormInv, FormCache
  <2> QED  BY <1>1, <2>2, FormRest
<1>3. CASE \E t \in SplitFormCase.txnIds : Form!FetchTxn(t) \/ Form!FetchTxnFails(t)
  <2>1. PICK t : Form!FetchTxn(t) \/ Form!FetchTxnFails(t)
    BY <1>3
  <2>2. t \in DOMAIN db.txn
    BY <1>1, <2>1 DEF Form!FetchTxn, Form!FetchTxnFails, Form!Referenced, Form!LinkedHere, FormCards, IsCard
  <2>3. PICK a : /\ a = db.txn[t].amount \/ (a = 0 /\ seen.txn[t] = NoData)
                 /\ seen' = [seen EXCEPT !.txn = [seen.txn EXCEPT ![t] = a]]
    BY <2>1 DEF Form!FetchTxn, Form!FetchTxnFails
  <2>4. FormCache(seen') /\ FormMirrors(ui, seen'.txn, db)
    BY <2>2, <2>3, CacheSet
  <2> QED  BY <1>1, <2>4, FormRest
<1> QED  BY <1>2, <1>3

\* A payee being created and chosen keeps the invariant.
LEMMA FormPayee ==
    ASSUME NoCalls, FormInv, NEW k \in 1..SplitFormCase.calls, NEW p, Form!ServePayee(k, p)
    PROVE  FormInv'
<1>1. FormCalls(call')
  BY FormCreates DEF FormInv
<1>2. PICK x : db' = [db EXCEPT !.payee = x] /\ UNCHANGED <<seen, ui>>
  BY DEF Form!ServePayee
<1>3. /\ db'.txn = db.txn /\ db'.paid = db.paid /\ DOMAIN db' = DOMAIN db
  BY <1>2 DEF FormInv, CreditsFit
<1>4. CreditsFit(db') /\ FormCache(seen')
  BY <1>2, <1>3 DEF FormInv, CreditsFit
<1>5. FormTxns(db') /\ FormCards(ui', db') /\ FormMirrors(ui', seen'.txn, db')
  BY <1>2, <1>3, TotalsStay DEF FormInv
<1> QED  BY <1>1, <1>4, <1>5 DEF FormInv

\* Every step of the form keeps the invariant,
LEMMA FormStep == ASSUME NoAmount, NoCalls, FormInv, Form!FormNext PROVE FormInv'
<1>1. CASE Form!FormUser
  BY <1>1, FormUserStep
<1>2. CASE Form!FormClient
  <2>1. Form!Slots = 1..SplitFormCase.calls
    BY DEF Form!Slots
  <2> QED
    BY Zenon, <1>2, <2>1, FormServed, FormAnswered, FormFetched, FormPayee DEF Form!FormClient
<1> QED  BY <1>1, <1>2 DEF Form!FormNext

\* The form opens on the split of a database as its handlers leave it,
LEMMA FormOpens ==
    ASSUME Form!FormInit
    PROVE  FormInv
<1>1. PICK s \in SplitFormCase.starts :
        /\ db = s.db /\ ui = Form!OpenedOn(s.db, s.split)
        /\ seen = [txn |-> [t \in SplitFormCase.txnIds |-> NoData], splits |-> Form!SplitList(s.db),
                   payees |-> DOMAIN s.db.payee]
        /\ call = [k \in 1..SplitFormCase.calls |-> Idle]
  BY DEF Form!FormInit, Form!Slots
<1>2. /\ Form!IsDatabase(db) /\ Form!Constraints(db)
      /\ Form!TxnTotal(db, DOMAIN db.txn) <= SplitFormCase.maxMoney
      /\ \A x, y \in db.paid : x.txn = y.txn => x = y
      /\ \A x \in db.paid : x.amount <= db.txn[x.txn].amount
      /\ \E place \in [Form!SharesOf(db, s.split) \ Form!OwnShares(db, s.split) -> SplitFormCase.cards] :
            Form!IsInjective(place)
  BY <1>1, FormAssumption
<1>3. FormTxns(db) /\ CreditsFit(db)
  <2>1. DOMAIN db.txn \subseteq SplitFormCase.txnIds /\ \A t \in DOMAIN db.txn : db.txn[t].amount \in Nat \ {0}
    BY <1>2, FormAssumption DEF Form!IsDatabase, Form!IsTable, Form!TxnRow
  <2>2. Sum(Amounts(db), DOMAIN db.txn) <= SplitFormCase.maxMoney
    BY <1>2, <2>1, TxnSum
  <2>3. \A x \in db.paid : x.txn \in DOMAIN db.txn /\ x.amount \in Int
    BY <1>2, FormAssumption DEF Form!Constraints, Form!ForeignKeys, Form!ColumnDomains, Form!Money
  <2>4. {"txn", "paid"} \subseteq DOMAIN db
    BY <1>2 DEF Form!IsDatabase
  <2> QED  BY <1>2, <2>1, <2>2, <2>3, <2>4 DEF FormTxns, CreditsFit
<1>4. FormCache(seen)
  BY <1>1 DEF FormCache
<1>5. FormCalls(call)
  BY <1>1 DEF FormCalls, Hooks, Calling, Filled, PayeesCreated, Mine, Going
<1>6. FormCards(ui, db) /\ FormMirrors(ui, seen.txn, db)
  <2>1. CASE s.split = None
    BY <1>1, <2>1 DEF Form!OpenedOn, FormCards, FormMirrors
  <2>2. CASE s.split # None
    <3> DEFINE shares == Form!SharesOf(db, s.split) \ Form!OwnShares(db, s.split)
               place == CHOOSE f \in [shares -> SplitFormCase.cards] : Form!IsInjective(f)
               own == IF Form!OwnShares(db, s.split) = {} THEN 0
                      ELSE 10 * db.share[CHOOSE h \in Form!OwnShares(db, s.split) : TRUE].amount
               card == [c \in {place[h] : h \in shares} |->
                         LET h == CHOOSE h \in shares : place[h] = c
                         IN  [payee |-> db.share[h].payee, amount |-> 10 * db.share[h].amount,
                              touched |-> TRUE, forgiven |-> 10 * db.share[h].forgiven,
                              incomes |-> {x.txn : x \in Form!SettlementsOf(db, h)}]]
    <3>1. ui = [open |-> TRUE, split |-> s.split, expenses |-> Form!ExpensesOf(db, s.split), own |-> own,
                excluded |-> Form!OwnShares(db, s.split) = {}, card |-> card]
      <4>1. ui = Form!OpenedOn(db, s.split) /\ Form!Cent = 10
        BY <1>1 DEF Form!Cent
      <4>2. ui = [open |-> TRUE, split |-> s.split, expenses |-> Form!ExpensesOf(db, s.split),
                  own |-> IF Form!OwnShares(db, s.split) = {} THEN 0
                          ELSE Form!Cent * db.share[CHOOSE h \in Form!OwnShares(db, s.split) : TRUE].amount,
                  excluded |-> Form!OwnShares(db, s.split) = {},
                  card |-> [c \in {place[h] : h \in shares} |->
                      LET h == CHOOSE h \in shares : place[h] = c
                      IN  [payee |-> db.share[h].payee, amount |-> Form!Cent * db.share[h].amount,
                           touched |-> TRUE, forgiven |-> Form!Cent * db.share[h].forgiven,
                           incomes |-> {x.txn : x \in Form!SettlementsOf(db, h)}]]]
        BY <4>1, <2>2 DEF Form!OpenedOn
      <4> QED  BY <4>1, <4>2
    <3>2. place \in [shares -> SplitFormCase.cards] /\ Form!IsInjective(place)
      BY <1>2
    <3> HIDE DEF place, shares
    <3>3. \A g, h \in shares : place[g] = place[h] => g = h
      BY <3>2 DEF Form!IsInjective
    <3>4. \A h \in shares : /\ h \in DOMAIN db.share /\ db.share[h].amount \in Int /\ db.share[h].forgiven \in Int
                            /\ db.share[h].payee \in SplitFormCase.payees \cup {NoPayee}
      BY <1>2, FormAssumption
         DEF shares, Form!SharesOf, Form!IsDatabase, Form!IsTable, Form!ShareRow, Form!PayeeRef, Form!Money
    <3>5. ASSUME NEW c \in DOMAIN card
          PROVE  \E h \in shares :
                    /\ place[h] = c
                    /\ card[c] = [payee |-> db.share[h].payee, amount |-> 10 * db.share[h].amount,
                                  touched |-> TRUE, forgiven |-> 10 * db.share[h].forgiven,
                                  incomes |-> {x.txn : x \in Form!SettlementsOf(db, h)}]
      <4>1. PICK h : h = CHOOSE g \in shares : place[g] = c
        OBVIOUS
      <4>2. h \in shares /\ place[h] = c
        BY <3>5, <4>1
      <4>3. card[c] = [payee |-> db.share[h].payee, amount |-> 10 * db.share[h].amount,
                       touched |-> TRUE, forgiven |-> 10 * db.share[h].forgiven,
                       incomes |-> {x.txn : x \in Form!SettlementsOf(db, h)}]
        BY <3>5, <4>1
      <4> QED  BY <4>2, <4>3
    <3> HIDE DEF card, own
    <3>6. \A c \in DOMAIN card : IsCard(card[c], db) /\ card[c].touched
      BY <1>3, <3>4, <3>5 DEF IsCard, CreditsFit, Form!SettlementsOf
    <3>7. \A b, c \in DOMAIN card : b # c => card[b].incomes \cap card[c].incomes = {}
      <4>1. SUFFICES ASSUME NEW b \in DOMAIN card, NEW c \in DOMAIN card, b # c,
                            NEW t \in card[b].incomes, t \in card[c].incomes
                     PROVE  FALSE
        OBVIOUS
      <4>2. PICK g \in shares : place[g] = b /\ card[b].incomes = {x.txn : x \in Form!SettlementsOf(db, g)}
        BY <3>5
      <4>3. PICK h \in shares : place[h] = c /\ card[c].incomes = {x.txn : x \in Form!SettlementsOf(db, h)}
        BY <3>5
      <4>4. PICK x \in db.paid : x.share = g /\ x.txn = t
        BY <4>1, <4>2 DEF Form!SettlementsOf
      <4>5. PICK y \in db.paid : y.share = h /\ y.txn = t
        BY <4>1, <4>3 DEF Form!SettlementsOf
      <4>6. x = y
        BY <1>2, <4>4, <4>5
      <4> QED  BY <4>1, <4>2, <4>3, <4>4, <4>5, <4>6
    <3>8. own \in Int
      <4>1. \A h \in Form!OwnShares(db, s.split) : db.share[h].amount \in Int
        BY <1>2, FormAssumption DEF Form!OwnShares, Form!SharesOf, Form!Constraints, Form!ColumnDomains, Form!Money
      <4> QED  BY <4>1 DEF own
    <3>9. Form!ExpensesOf(db, s.split) \subseteq DOMAIN db.txn
      BY <1>2 DEF Form!ExpensesOf, Form!LinksOf, Form!Constraints, Form!ForeignKeys
    <3>10. DOMAIN card \subseteq SplitFormCase.cards /\ card = [c \in DOMAIN card |-> card[c]]
      BY <3>2 DEF card
    <3> QED  BY <3>1, <3>6, <3>7, <3>8, <3>9, <3>10 DEF FormCards, FormMirrors, Mirrors
  <2> QED  BY <2>1, <2>2
<1> QED  BY <1>3, <1>4, <1>5, <1>6 DEF FormInv

\* and an amount nobody has touched is what the linked payments bring.
LEMMA FormShown == ASSUME FormInv PROVE Form!AmountMirrorsPayments
BY DEF FormInv, FormMirrors, Mirrors, Form!AmountMirrorsPayments, Form!Cent

\* Nothing of that changes while another page is looked at.
LEMMA FormStutter == ASSUME FormInv, UNCHANGED <<db, seen, ui, call>> PROVE FormInv'
BY FormWaits DEF FormInv

-----------------------------------------------------------------------------
(***************************************************************************)
(* What the form sends.                                                    *)
(***************************************************************************)
\* The amounts the form works with are the transactions' own.
AmountsRight == \A t \in Form!Referenced : seen.txn[t] = db.txn[t].amount

\* A share of the body is that of a card or the user's own, its amounts rounded.
RoundedCard(c) ==
    [amount |-> Form!Rounded(ui.card[c].amount), forgiven |-> Form!Rounded(ui.card[c].forgiven),
     incomes |-> ui.card[c].incomes]

RoundedOwn == [amount |-> Form!Rounded(Form!MyShare), forgiven |-> 0, incomes |-> {}]

IsBody(body) ==
    /\ DOMAIN body = {ui.card[c].payee : c \in DOMAIN ui.card} \cup (IF Form!MyShare > 0 THEN {NoPayee} ELSE {})
    /\ \A c \in DOMAIN ui.card :
          /\ ui.card[c].payee \in SplitFormCase.payees
          /\ body[ui.card[c].payee] = RoundedCard(c)
          /\ \A b \in DOMAIN ui.card : ui.card[b].payee = ui.card[c].payee => b = c
    /\ NoPayee \notin SplitFormCase.payees
    /\ Form!MyShare > 0 => body[NoPayee] = RoundedOwn

\* The body has one share for each card, and one for the user if any is left.
LEMMA BodyShares == ASSUME FormInv, Form!Fits PROVE IsBody(Form!FormBody)
<1> DEFINE body == Form!FormBody
<1>1. ASSUME NEW c \in DOMAIN ui.card
      PROVE  /\ ui.card[c].payee # NoPayee /\ ui.card[c].payee \in SplitFormCase.payees
             /\ \A b \in DOMAIN ui.card : ui.card[b].payee = ui.card[c].payee => b = c
  BY <1>1 DEF Form!Fits, Form!CardFits, FormInv, FormCards, IsCard
<1>2. NoPayee \notin SplitFormCase.payees
  BY TablesGiven
<1>3. PICK named, own : /\ named = {ui.card[c].payee : c \in DOMAIN ui.card}
                        /\ own = IF Form!MyShare > 0 THEN {NoPayee} ELSE {}
  OBVIOUS
<1> DEFINE CardOf(p) == CHOOSE c \in DOMAIN ui.card : ui.card[c].payee = p
<1>4. body = [p \in named \cup own |->
                IF p = NoPayee THEN RoundedOwn ELSE RoundedCard(CardOf(p))]
  BY <1>3 DEF Form!FormBody, RoundedOwn, RoundedCard
<1>5. ASSUME NEW c \in DOMAIN ui.card PROVE CardOf(ui.card[c].payee) = c
  <2>1. PICK b : b = CardOf(ui.card[c].payee)
    OBVIOUS
  <2>2. b \in DOMAIN ui.card /\ ui.card[b].payee = ui.card[c].payee
    BY <2>1
  <2> QED  BY <1>1, <2>1, <2>2
<1> HIDE DEF CardOf
<1>6. ASSUME NEW c \in DOMAIN ui.card
      PROVE  body[ui.card[c].payee] = RoundedCard(c)
  <2>1. PICK p : p = ui.card[c].payee /\ p \in named /\ p # NoPayee /\ CardOf(p) = c
    BY <1>1, <1>3, <1>5
  <2> QED  BY <1>4, <2>1
<1>7. Form!MyShare > 0 => body[NoPayee] = RoundedOwn
  BY <1>3, <1>4
<1>8. DOMAIN body = named \cup own
  BY <1>4
<1> HIDE DEF body
<1>9. IsBody(body)
  BY <1>1, <1>2, <1>3, <1>6, <1>7, <1>8 DEF IsBody
<1> QED  BY <1>9 DEF body

\* Where nothing is finer than a cent, nothing is lost when it is rounded,
LEMMA RoundedIsIt == ASSUME NEW x \in Int, x % 10 = 0 PROVE Form!Rounded(x) \in Int /\ x = 10 * Form!Rounded(x)
BY DEF Form!Rounded, Form!Cent

LEMMA WholeIsIt ==
    ASSUME NEW x \in Int
    PROVE  Form!Rounded(10 * x) = x
BY DEF Form!Rounded, Form!Cent

LEMMA CentsAreKept ==
    ASSUME FormInv, Form!WholeCents
    PROVE  /\ Form!Rounded(Form!MyShare) \in Int /\ Form!MyShare = 10 * Form!Rounded(Form!MyShare)
           /\ \A c \in DOMAIN ui.card :
                 /\ Form!Rounded(ui.card[c].amount) \in Int /\ Form!Rounded(ui.card[c].forgiven) \in Int
                 /\ ui.card[c].amount = 10 * Form!Rounded(ui.card[c].amount)
                 /\ ui.card[c].forgiven = 10 * Form!Rounded(ui.card[c].forgiven)
<1>1. FormTxns(db) /\ FormCache(seen) /\ FormCards(ui, db)
  BY DEF FormInv
<1>2. Form!MyShare \in Int /\ Form!MyShare % 10 = 0
  BY <1>1, FormNumbers DEF Form!WholeCents, Form!Cent
<1>3. ASSUME NEW c \in DOMAIN ui.card
      PROVE  /\ ui.card[c].amount \in Int /\ ui.card[c].amount % 10 = 0
             /\ ui.card[c].forgiven \in Int /\ ui.card[c].forgiven % 10 = 0
  BY <1>1, <1>3 DEF FormCards, IsCard, Form!WholeCents, Form!Cent
<1> QED  BY <1>2, <1>3, RoundedIsIt

\* the shares add up to what the expenses come to,
LEMMA BodyAddsUp ==
    ASSUME NoAmount, FormInv, Form!Fits, Form!WholeCents, AmountsRight, NEW body, IsBody(body)
    PROVE  /\ FormTables!IsFiniteSet(DOMAIN body)
           /\ Form!BodyTotal(body) = Form!TxnTotal(db, ui.expenses)
           /\ Form!TxnTotal(db, ui.expenses) \in 1..SplitFormCase.maxMoney
<1>1. PICK C, named, own, share, E :
        /\ C = DOMAIN ui.card /\ named = {ui.card[c].payee : c \in C} /\ share = Form!Rounded(Form!MyShare)
        /\ own = (IF Form!MyShare > 0 THEN {NoPayee} ELSE {}) /\ E = ui.expenses
  OBVIOUS
<1>2. /\ DOMAIN body = named \cup own
      /\ \A c \in C : /\ ui.card[c].payee \in SplitFormCase.payees
                      /\ body[ui.card[c].payee].amount = Form!Rounded(ui.card[c].amount)
                      /\ \A b \in C : ui.card[b].payee = ui.card[c].payee => b = c
      /\ NoPayee \notin SplitFormCase.payees
      /\ Form!MyShare > 0 => body[NoPayee].amount = share
  <2>1. DOMAIN body = named \cup own /\ NoPayee \notin SplitFormCase.payees
    BY <1>1 DEF IsBody
  <2>2. ASSUME NEW c \in C
        PROVE  /\ ui.card[c].payee \in SplitFormCase.payees
               /\ body[ui.card[c].payee].amount = Form!Rounded(ui.card[c].amount)
               /\ \A b \in C : ui.card[b].payee = ui.card[c].payee => b = c
    <3>1. /\ ui.card[c].payee \in SplitFormCase.payees
          /\ body[ui.card[c].payee] = RoundedCard(c)
          /\ \A b \in DOMAIN ui.card : ui.card[b].payee = ui.card[c].payee => b = c
      BY Zenon, <1>1, <2>2 DEF IsBody
    <3> QED  BY <1>1, <3>1 DEF RoundedCard
  <2>3. Form!MyShare > 0 => body[NoPayee].amount = share
    BY <1>1 DEF IsBody, RoundedOwn
  <2> QED  BY <2>1, <2>2, <2>3
<1>3. /\ FormTxns(db) /\ FormCache(seen) /\ FormCards(ui, db)
      /\ E \subseteq DOMAIN db.txn /\ DOMAIN db.txn \subseteq SplitFormCase.txnIds
      /\ C \subseteq SplitFormCase.cards /\ \A c \in C : ui.card[c].amount \in Int
      /\ \A c \in C : Form!Rounded(ui.card[c].amount) \in Int /\ ui.card[c].amount = 10 * Form!Rounded(ui.card[c].amount)
      /\ \A t \in DOMAIN db.txn : db.txn[t].amount \in Nat \ {0}
  BY <1>1, CentsAreKept DEF FormInv, FormCards, FormTxns, IsCard
<1>4. FormTables!IsFiniteSet(C) /\ FormTables!IsFiniteSet(named) /\ FormTables!IsFiniteSet(named \cup own)
  <2>1. named \subseteq SplitFormCase.payees
    BY <1>1, <1>2
  <2>2. FormTables!IsFiniteSet(named) /\ FormTables!IsFiniteSet(C)
    BY <1>3, <2>1, TablesGiven, FinitePart
  <2>3. FormTables!IsFiniteSet(named \cup {NoPayee})
    BY <2>2, TablesGiven, FormTables!FS_AddElement
  <2>4. named \cup own \subseteq named \cup {NoPayee}
    BY <1>1
  <2> QED  BY <2>2, <2>3, <2>4, FinitePart
<1>5. /\ share \in Int /\ share >= 0 /\ E # {} /\ Form!MyShare = 10 * share
      /\ (Form!MyShare > 0 <=> share > 0)
  <2>1. Form!MyShare >= 0 /\ E # {}
    BY <1>1 DEF Form!Fits
  <2>2. share \in Int /\ Form!MyShare = 10 * share
    BY <1>1, CentsAreKept
  <2> QED  BY <2>1, <2>2
<1>6. Form!KnownIn(seen.txn, E) = Form!TxnTotal(db, E)
  <2>1. \A t \in E : seen.txn[t] = db.txn[t].amount /\ seen.txn[t] # NoData
    BY <1>1, <1>3 DEF AmountsRight, Form!Referenced, NoAmount
  <2> QED  BY <1>3, <2>1, KnownRight
<1>7. Sum(CardAmounts, C) = 10 * Sum(BodyAmounts(body), named)
  <2>1. PICK m, cents : m = [c \in C |-> ui.card[c].payee] /\ cents = [c \in C |-> Form!Rounded(ui.card[c].amount)]
    OBVIOUS
  <2>2. ASSUME NEW c \in C PROVE cents[c] = BodyAmounts(body)[m[c]] /\ cents[c] \in Int
    <3>1. m[c] = ui.card[c].payee /\ cents[c] = Form!Rounded(ui.card[c].amount)
      BY <2>1, <2>2
    <3>2. m[c] \in DOMAIN body
      BY <1>1, <1>2, <2>2, <3>1
    <3> QED  BY <1>2, <1>3, <2>2, <3>1, <3>2 DEF BodyAmounts
  <2>3. \A b, c \in C : m[b] = m[c] => b = c
    BY <1>2, <2>1
  <2>4. {m[c] : c \in C} = named
    BY <1>1, <2>1
  <2>5. Sum(cents, C) = Sum(BodyAmounts(body), named)
    BY <1>4, <2>2, <2>3, <2>4, TablesGiven, FormTables!TotalRenamed DEF Sum
  <2>6. FormTables!Whole(cents, C) /\ \A c \in C : CardAmounts[c] = 10 * cents[c]
    BY <1>1, <1>3, <2>1, <2>2 DEF CardAmounts, FormTables!Whole
  <2>7. Sum(CardAmounts, C) = 10 * Sum(cents, C)
    BY <1>4, <2>6, TablesGiven, FormTables!TotalTenfold DEF Sum
  <2> QED  BY <2>5, <2>7
<1>8. FormTables!Whole(BodyAmounts(body), named \cup own)
  BY <1>1, <1>2, <1>3, <1>5 DEF FormTables!Whole, BodyAmounts
<1>9. Sum(BodyAmounts(body), named \cup own) = share + Sum(BodyAmounts(body), named)
  <2>1. CASE share > 0
    <3>1. own = {NoPayee} /\ NoPayee \notin named /\ BodyAmounts(body)[NoPayee] = share
      BY <1>1, <1>2, <1>5, <2>1 DEF BodyAmounts
    <3> QED  BY <1>4, <1>8, <3>1, TablesGiven, FormTables!TotalAdd DEF Sum
  <2>2. CASE ~(share > 0)
    <3>1. own = {} /\ share = 0 /\ named \cup own = named
      BY <1>1, <1>5, <2>2
    <3>2. Sum(BodyAmounts(body), named) \in Int
      BY <1>4, <1>8, <3>1, TablesGiven, FormTables!TotalWhole DEF Sum
    <3> QED  BY <3>1, <3>2
  <2> QED  BY <2>1, <2>2
<1>10. Form!BodyTotal(body) = Form!TxnTotal(db, E)
  <2>1. Form!CardTotal(C) = Sum(CardAmounts, C)
    BY <1>1, <1>3, CardSum
  <2>2. Form!BodyTotal(body) = Sum(BodyAmounts(body), DOMAIN body)
    BY <1>2, <1>4, BodySum
  <2>3. PICK x, y : x = Sum(BodyAmounts(body), named) /\ y = Form!KnownIn(seen.txn, E)
    OBVIOUS
  <2>4. x \in Int
    <3>1. FormTables!Whole(BodyAmounts(body), named)
      BY <1>8 DEF FormTables!Whole
    <3> QED  BY <1>4, <2>3, <3>1, TablesGiven, FormTables!TotalWhole DEF Sum
  <2>5. y \in Int
    BY <1>1, <1>3, <2>3, FormNumbers DEF Form!TotalExpense, Form!KnownTotal
  <2>6. -5 <= 10 * share + 10 * x - 10 * y /\ 10 * share + 10 * x - 10 * y <= 5
    BY <1>1, <1>5, <1>7, <2>1, <2>3 DEF Form!Fits, Form!Balance, Form!Tolerance, Form!Cent, Form!TotalExpense,
       Form!KnownTotal
  <2>7. share + x = y
    BY <1>5, <2>4, <2>5, <2>6
  <2> QED  BY <1>2, <1>6, <1>9, <2>2, <2>3, <2>7
<1>11. Form!TxnTotal(db, E) \in 1..SplitFormCase.maxMoney
  <2>1. PICK all, some : all = Sum(Amounts(db), DOMAIN db.txn) /\ some = Form!TxnTotal(db, E)
    OBVIOUS
  <2>2. FormTables!IsFiniteSet(DOMAIN db.txn) /\ FormTables!IsFiniteSet(E)
    BY <1>3, TablesGiven, FinitePart
  <2>3. \A t \in DOMAIN db.txn : Amounts(db)[t] \in Nat /\ Amounts(db)[t] > 0
    BY <1>3 DEF Amounts
  <2>4. some = Sum(Amounts(db), E)
    BY <1>3, <2>1, TxnSum
  <2>5. some \in Nat /\ some <= all
    BY <1>3, <2>1, <2>2, <2>3, <2>4, TablesGiven, FormTables!TotalOfPart DEF Sum
  <2>6. PICK e : e \in E
    BY <1>5
  <2>7. some > 0
    BY <1>3, <2>2, <2>3, <2>4, <2>6, TablesGiven, FormTables!TotalPositive DEF Sum
  <2>8. all <= SplitFormCase.maxMoney /\ SplitFormCase.maxMoney \in Nat
    BY <1>3, <2>1, TablesGiven DEF FormTxns
  <2>9. all \in Nat
    BY <2>1, <2>2, <2>3, TablesGiven, FormTables!TotalNat DEF Sum
  <2> QED  BY <2>1, <2>5, <2>7, <2>8, <2>9
<1> QED  BY <1>1, <1>2, <1>4, <1>10, <1>11

\* and each covers what was received and forgiven on it.
LEMMA BodyIsFit ==
    ASSUME NoAmount, FormInv, Form!Fits, Form!WholeCents, AmountsRight, NEW body, IsBody(body), NEW credit,
           \A t \in DOMAIN db.txn : credit[t] \in Int /\ credit[t] <= db.txn[t].amount
    PROVE  Form!ValidBody(body) /\ Form!BodyFits(db, ui.expenses, body, credit)
<1>1. PICK total, max : total = Form!TxnTotal(db, ui.expenses) /\ max = SplitFormCase.maxMoney
  OBVIOUS
<1>2. /\ FormTables!IsFiniteSet(DOMAIN body) /\ Form!BodyTotal(body) = total
      /\ total \in 1..max /\ max \in Nat
  BY <1>1, BodyAddsUp, TablesGiven
<1>3. /\ FormTxns(db) /\ FormCards(ui, db) /\ FormCache(seen)
      /\ DOMAIN db.txn \subseteq SplitFormCase.txnIds /\ \A t \in DOMAIN db.txn : db.txn[t].amount \in Nat \ {0}
  BY DEF FormInv, FormTxns
\* The linked payments are worth no more than the share.
<1>4. ASSUME NEW c \in DOMAIN ui.card
      PROVE  /\ Form!CreditTotal(credit, RoundedCard(c).incomes) \in Int
             /\ Form!CreditTotal(credit, RoundedCard(c).incomes) + RoundedCard(c).forgiven <= RoundedCard(c).amount
             /\ RoundedCard(c).amount > 0 /\ RoundedCard(c).forgiven >= 0
             /\ RoundedCard(c).forgiven <= RoundedCard(c).amount
             /\ RoundedCard(c).amount \in Int /\ RoundedCard(c).forgiven \in Int
             /\ RoundedCard(c).incomes \subseteq SplitFormCase.txnIds
  <2>1. PICK T, paid : T = ui.card[c].incomes /\ paid = Form!TxnTotal(db, T)
    OBVIOUS
  <2>2. /\ T \subseteq DOMAIN db.txn /\ ui.card[c].amount \in Int /\ ui.card[c].forgiven \in Int
        /\ T \subseteq SplitFormCase.txnIds
    BY <1>3, <2>1 DEF FormCards, IsCard
  <2>3. /\ ui.card[c].amount > 0 /\ ui.card[c].forgiven >= 0
        /\ 10 * Form!KnownIn(seen.txn, T) + ui.card[c].forgiven <= ui.card[c].amount + 5
    BY <2>1 DEF Form!Fits, Form!CardFits, Form!KnownTotal, Form!Cent, Form!Tolerance
  <2>4. Form!KnownIn(seen.txn, T) = paid
    <3>1. \A t \in T : seen.txn[t] = db.txn[t].amount /\ seen.txn[t] # NoData
      BY <1>3, <2>1, <2>2 DEF AmountsRight, Form!Referenced, Form!LinkedHere, NoAmount
    <3> QED  BY <1>3, <2>1, <2>2, <3>1, KnownRight
  <2>5. FormTables!IsFiniteSet(T) /\ paid = Sum(Amounts(db), T)
    BY <1>3, <2>1, <2>2, TablesGiven, FinitePart, TxnSum
  <2>6. \A t \in T : Amounts(db)[t] \in Nat /\ credit[t] \in Int /\ credit[t] <= Amounts(db)[t]
    BY <1>3, <2>2 DEF Amounts
  <2>7. paid \in Nat
    BY <2>5, <2>6, TablesGiven, FormTables!TotalNat DEF Sum
  <2>8. FormTables!Whole(credit, T) /\ FormTables!Whole(Amounts(db), T)
    BY <2>6 DEF FormTables!Whole
  <2>9. Sum(credit, T) <= paid /\ Sum(credit, T) \in Int
    BY <2>5, <2>6, <2>8, TablesGiven, FormTables!TotalAtMost, FormTables!TotalWhole DEF Sum
  <2>10. Form!CreditTotal(credit, T) = Sum(credit, T)
    BY CreditSum
  <2>11. PICK a, b : a = RoundedCard(c).amount /\ b = RoundedCard(c).forgiven
    OBVIOUS
  <2>12. a \in Int /\ b \in Int /\ ui.card[c].amount = 10 * a /\ ui.card[c].forgiven = 10 * b
    BY <2>11, CentsAreKept DEF RoundedCard
  <2>13. a > 0 /\ b >= 0 /\ paid + b <= a
    BY <2>3, <2>4, <2>7, <2>12
  <2>14. RoundedCard(c).incomes = T
    BY <2>1 DEF RoundedCard
  <2> QED  BY <2>2, <2>7, <2>9, <2>10, <2>11, <2>12, <2>13, <2>14
\* So is the user's own share, on which there are none.
<1>5. Form!CreditTotal(credit, {}) = 0
  BY CreditSum, TablesGiven, FormTables!TotalEmpty DEF Sum
<1>6. /\ RoundedOwn.amount \in Int /\ RoundedOwn.forgiven = 0 /\ RoundedOwn.incomes = {}
      /\ Form!MyShare > 0 => RoundedOwn.amount > 0
  <2>1. PICK x : x = Form!Rounded(Form!MyShare) /\ x \in Int /\ Form!MyShare = 10 * x
    BY CentsAreKept
  <2> QED  BY <2>1 DEF RoundedOwn
<1>7. ASSUME NEW p \in DOMAIN body
      PROVE  \/ /\ p = NoPayee /\ Form!MyShare > 0
                /\ body[p] = RoundedOwn
             \/ \E c \in DOMAIN ui.card :
                   /\ p = ui.card[c].payee /\ p \in SplitFormCase.payees
                   /\ body[p] = RoundedCard(c)
  BY DEF IsBody
<1>8. ASSUME NEW p \in DOMAIN body
      PROVE  /\ body[p] = [amount |-> body[p].amount, forgiven |-> body[p].forgiven, incomes |-> body[p].incomes]
             /\ body[p].amount \in Int /\ body[p].amount > 0
             /\ body[p].forgiven \in Int /\ body[p].forgiven >= 0 /\ body[p].forgiven <= body[p].amount
             /\ body[p].incomes \subseteq SplitFormCase.txnIds
             /\ Form!CreditTotal(credit, body[p].incomes) + body[p].forgiven <= body[p].amount
  <2>1. CASE body[p] = RoundedOwn /\ Form!MyShare > 0
    <3>1. RoundedOwn = [amount |-> RoundedOwn.amount, forgiven |-> RoundedOwn.forgiven,
                        incomes |-> RoundedOwn.incomes]
      BY DEF RoundedOwn
    <3>2. PICK own : own = RoundedOwn
      OBVIOUS
    <3>3. /\ own = [amount |-> own.amount, forgiven |-> own.forgiven, incomes |-> own.incomes]
          /\ own.amount \in Int /\ own.amount > 0 /\ own.forgiven = 0 /\ own.incomes = {} /\ body[p] = own
      BY <1>6, <2>1, <3>1, <3>2
    <3>4. Form!CreditTotal(credit, own.incomes) = 0 /\ own.incomes \subseteq SplitFormCase.txnIds
      BY <1>5, <3>3
    <3> QED  BY <3>3, <3>4
  <2>2. CASE \E c \in DOMAIN ui.card : body[p] = RoundedCard(c)
    <3>1. PICK c \in DOMAIN ui.card : body[p] = RoundedCard(c)
      BY <2>2
    <3>2. RoundedCard(c) = [amount |-> RoundedCard(c).amount, forgiven |-> RoundedCard(c).forgiven,
                            incomes |-> RoundedCard(c).incomes]
      BY DEF RoundedCard
    <3> QED  BY <1>4, <3>1, <3>2
  <2> QED  BY <1>7, <1>8, <2>1, <2>2
<1>9. ASSUME NEW p \in DOMAIN body PROVE body[p].amount <= total
  <2>1. \A q \in DOMAIN body : BodyAmounts(body)[q] \in Nat /\ BodyAmounts(body)[q] = body[q].amount
    BY <1>8 DEF BodyAmounts
  <2>2. total = Sum(BodyAmounts(body), DOMAIN body)
    BY <1>2, BodySum
  <2>3. PICK f : f = BodyAmounts(body) /\ f[p] = body[p].amount /\ f[p] \in Int
    BY <1>9, <2>1
  <2>4. Sum(f, {p}) = f[p]
    BY <2>3, TablesGiven, FormTables!TotalOne DEF Sum
  <2>5. Sum(f, {p}) <= Sum(f, DOMAIN body)
    BY <1>2, <1>9, <2>1, <2>3, TablesGiven, FormTables!TotalOfPart DEF Sum
  <2> QED  BY <2>2, <2>3, <2>4, <2>5
<1>10. DOMAIN body # {}
  <2>1. CASE DOMAIN body = {}
    <3>1. Sum(BodyAmounts(body), DOMAIN body) = 0
      BY <2>1, TablesGiven, FormTables!TotalEmpty DEF Sum
    <3> QED  BY <1>2, <3>1, BodySum
  <2> QED  BY <2>1
<1>11. \A p \in DOMAIN body : body[p] \in Form!Draft
  <2> SUFFICES ASSUME NEW p \in DOMAIN body PROVE body[p] \in Form!Draft
    OBVIOUS
  <2>1. /\ body[p].amount \in 1..max /\ body[p].forgiven \in 0..max
        /\ body[p].incomes \in SUBSET SplitFormCase.txnIds
    BY <1>2, <1>8, <1>9
  <2> QED  BY <1>1, <1>8, <2>1 DEF Form!Draft
<1>12. NoPayee \in DOMAIN body => body[NoPayee].incomes = {} /\ body[NoPayee].forgiven = 0
  BY <1>6, <1>7, TablesGiven
<1>13. \A p, q \in DOMAIN body : p # q => body[p].incomes \cap body[q].incomes = {}
  <2> SUFFICES ASSUME NEW p \in DOMAIN body, NEW q \in DOMAIN body, p # q
               PROVE  body[p].incomes \cap body[q].incomes = {}
    OBVIOUS
  <2>1. CASE body[p].incomes = {} \/ body[q].incomes = {}
    BY <2>1
  <2>2. CASE body[p].incomes # {} /\ body[q].incomes # {}
    <3>1. PICK b \in DOMAIN ui.card : p = ui.card[b].payee /\ body[p].incomes = ui.card[b].incomes
      BY <1>6, <1>7, <2>2 DEF RoundedCard
    <3>2. PICK c \in DOMAIN ui.card : q = ui.card[c].payee /\ body[q].incomes = ui.card[c].incomes
      BY <1>6, <1>7, <2>2 DEF RoundedCard
    <3> QED  BY <1>3, <3>1, <3>2 DEF FormCards
  <2> QED  BY <2>1, <2>2
<1>14. DOMAIN body \subseteq Form!PayeeRef
  BY <1>7 DEF Form!PayeeRef
<1>15. Form!ValidBody(body)
  BY <1>10, <1>11, <1>12, <1>13, <1>14 DEF Form!ValidBody
<1>16. Form!BodyFits(db, ui.expenses, body, credit)
  BY <1>1, <1>2, <1>8, <1>9 DEF Form!BodyFits
<1> QED  BY <1>15, <1>16

\* What the form sends is its own shares, and it sends them only when they fit.
LEMMA FormSubmits ==
    ASSUME NoAmount, NoCalls, FormInv, Form!FormNext, NEW k \in 1..SplitFormCase.calls,
           call[k] = Idle, call'[k] # Idle, call'[k].hook \in {"create", "update"}
    PROVE  /\ Form!Fits /\ UNCHANGED <<db, seen, ui>>
           /\ call'[k].body = [split |-> ui.split, expenses |-> ui.expenses, shares |-> Form!FormBody]
<1>1. FormCalls(call)
  BY DEF FormInv
<1>2. CASE Form!Submit
  <2>1. PICK h, b :
          /\ h \in FormHooks /\ b = [split |-> ui.split, expenses |-> ui.expenses, shares |-> Form!FormBody]
          /\ Form!Fits /\ Form!Mutate(h, b) /\ UNCHANGED <<db, seen, ui>>
    BY <1>2 DEF Form!Submit, Form!CanSubmit, Form!Sends, FormHooks
  <2> QED  BY <1>1, <2>1, FormBegins
<1>3. CASE \E c \in DOMAIN ui.card : Form!CreatePayee(c)
  <2>1. PICK c : Form!Mutate("payee", [card |-> c])
    BY <1>3 DEF Form!CreatePayee, Form!Sends
  <2>2. call'[k].hook = "payee"
    BY <1>1, <2>1, FormBegins DEF FormHooks
  <2> QED  BY <2>2
<1>4. CASE call' = call
  BY <1>4
<1>5. CASE \E j \in 1..SplitFormCase.calls :
             \/ \E p \in SplitFormCase.payees : Form!ServePayee(j, p)
             \/ Form!ServeForm(j) \/ Form!SaveAnswered(j) \/ Form!PayeeSettles(j)
             \/ Form!PayeeAnswered(j) \/ Form!Fails(j, ui)
  <2>1. PICK j \in 1..SplitFormCase.calls :
             \/ \E p \in SplitFormCase.payees : Form!ServePayee(j, p)
             \/ Form!ServeForm(j) \/ Form!SaveAnswered(j) \/ Form!PayeeSettles(j)
             \/ Form!PayeeAnswered(j) \/ Form!Fails(j, ui)
    BY <1>5
  <2>2. CASE \E p \in SplitFormCase.payees : Form!ServePayee(j, p)
    BY <1>1, <2>2, FormCreates
  <2>3. CASE ~\E p \in SplitFormCase.payees : Form!ServePayee(j, p)
    <3>1. /\ Going(call[j])
          /\ \/ call' = Form!Without(j)
             \/ /\ call[j].hook = "payee" => call[j].state # "sent"
                /\ \E s : Restated(call, call', j, s)
      BY <2>1, <2>3 DEF Form!ServeForm, Form!Serve, Form!SaveAnswered, Form!Returns, Form!PayeeSettles,
         Form!Settles, Form!PayeeAnswered, Form!Over, Form!Fails, Form!Running, Going, Restated
    <3> QED  BY <1>1, <3>1, FormGoesOn
  <2> QED  BY <2>2, <2>3
<1>6. CASE Form!FormUser
  <2>1. \/ Form!Submit \/ (\E c \in DOMAIN ui.card : Form!CreatePayee(c)) \/ UNCHANGED call
    BY <1>6 DEF Form!FormUser, Form!CardSteps, Form!PickExpense, Form!RemoveExpense, Form!TypeMyShare,
       Form!SetExcluded, Form!MyShareRemainder, Form!AddCard, Form!Cancel, Form!RemoveCard,
       Form!CardRemainder, Form!ChoosePayee, Form!TypeAmount, Form!TypeForgiven, Form!LinkIncome,
       Form!UnlinkIncome, Form!Picks, Form!Edits, Form!Locally
  <2> QED  BY <1>2, <1>3, <1>4, <2>1
<1>7. CASE Form!FormClient
  <2>1. Form!Slots = 1..SplitFormCase.calls
    BY DEF Form!Slots
  <2>2. (\E q \in {"splits", "payees"} : Form!FetchForm(q)) => call' = call
    BY DEF Form!FetchForm
  <2>3. (\E t \in SplitFormCase.txnIds : Form!FetchTxn(t) \/ Form!FetchTxnFails(t)) => call' = call
    BY DEF Form!FetchTxn, Form!FetchTxnFails
  <2> QED  BY Zenon, <1>4, <1>5, <1>7, <2>1, <2>2, <2>3 DEF Form!FormClient
<1> QED  BY <1>6, <1>7 DEF Form!FormNext

\* So what it sends passes the handlers' arithmetic, if the form knows the amounts and
\* nothing on it is finer than a cent.
LEMMA FormFits ==
    ASSUME NoAmount, NoCalls, FormInv, Form!FormNext, Form!WholeCents, AmountsRight, NEW k \in 1..SplitFormCase.calls,
           call[k] = Idle, call'[k] # Idle, call'[k].hook \in {"create", "update"}
    PROVE  LET b == call'[k].body
           IN  Form!ValidBody(b.shares) /\ Form!BodyFits(db, b.expenses, b.shares, Form!FormCredit(b.split))
<1>1. PICK b : b = call'[k].body
  OBVIOUS
<1>2. /\ Form!Fits
      /\ b = [split |-> ui.split, expenses |-> ui.expenses, shares |-> Form!FormBody]
  BY <1>1, FormSubmits
<1>3. IsBody(b.shares)
  BY <1>2, BodyShares
<1>4. PICK credit : credit = Form!FormCredit(b.split)
  OBVIOUS
<1>5. \A t \in DOMAIN db.txn : credit[t] \in Int /\ credit[t] <= db.txn[t].amount
  <2>1. FormTxns(db) /\ CreditsFit(db)
    BY DEF FormInv
  <2>2. CASE b.split = None
    BY <1>4, <2>1, <2>2, CreditsKept DEF Form!FormCredit
  <2>3. CASE b.split # None
    BY <1>4, <2>1, <2>3, CreditsKept DEF Form!FormCredit
  <2> QED  BY <2>2, <2>3
<1>6. Form!ValidBody(b.shares) /\ Form!BodyFits(db, ui.expenses, b.shares, credit)
  BY <1>2, <1>3, <1>5, BodyIsFit
<1> QED  BY <1>1, <1>2, <1>4, <1>6

-----------------------------------------------------------------------------
(***************************************************************************)
(* What is sent of a split's shares.  Its tables are those of TableProofs  *)
(* too.                                                                    *)
(***************************************************************************)
ShareTables == INSTANCE TableProofs WITH
    TxnIds <- SplitSharesCase.txnIds, SplitIds <- SplitSharesCase.splitIds,
    ShareIds <- SplitSharesCase.shareIds, Payees <- SplitSharesCase.payees,
    TxnTypes <- SplitSharesCase.txnTypes, TxnPayee <- SplitSharesCase.txnPayee,
    MaxMoney <- SplitSharesCase.maxMoney

\* What TableProofs assumes of its constants holds of the page's.
LEMMA ShareTablesGiven ==
    /\ NoPayee \notin SplitSharesCase.payees
    /\ {"expense", "income"} \subseteq SplitSharesCase.txnTypes
    /\ SplitSharesCase.txnPayee \in [SplitSharesCase.txnIds -> SplitSharesCase.payees \cup {NoPayee}]
    /\ SplitSharesCase.maxMoney \in Nat \ {0}
    /\ ShareTables!IsFiniteSet(SplitSharesCase.txnIds) /\ ShareTables!IsFiniteSet(SplitSharesCase.shareIds)
    /\ ShareTables!IsFiniteSet(SplitSharesCase.payees)
BY SharesAssumption DEF Shares!IsFiniteSet, ShareTables!IsFiniteSet

\* The tables have their columns, their amounts are numbers, and constraints hold.
ShareRows(d) ==
    /\ {"txn", "split", "share", "links", "paid"} \subseteq DOMAIN d
    /\ DOMAIN d.txn \subseteq SplitSharesCase.txnIds /\ DOMAIN d.share \subseteq SplitSharesCase.shareIds
    /\ \A t \in DOMAIN d.txn : d.txn[t].amount \in Int
    /\ Shares!Constraints(d)

\* The split shown has numbers for amounts, and payments that are transactions.
ShareView(v) ==
    v # NoData =>
        /\ DOMAIN v \subseteq SplitSharesCase.shareIds
        /\ \A h \in DOMAIN v :
              /\ v[h].amount \in Int /\ v[h].paid \in Int /\ v[h].forgiven \in Int
              /\ \A x \in v[h].settlements : x.txn \in SplitSharesCase.txnIds

\* The forms hold numbers.
IsShareForm(f) ==
    /\ f = [action |-> f.action, txn |-> f.txn, settle |-> f.settle, forgive |-> f.forgive,
            payee |-> f.payee, amount |-> f.amount]
    /\ f.settle \in Int /\ f.forgive \in Int

ShareUi(u) ==
    /\ u = [view |-> u.view, open |-> u.open, row |-> u.row, form |-> u.form, reset |-> u.reset,
            unlink |-> u.unlink, deleting |-> u.deleting]
    /\ IsShareForm(u.form)
    /\ u.row \in SplitSharesCase.shareIds \cup {None} /\ (u.reset => u.row \in SplitSharesCase.shareIds)
    /\ u.unlink # None => u.unlink.txn \in SplitSharesCase.txnIds

\* So they do after a change of the forms, of the row or of a dialog.
LEMMA ShareUiOf ==
    ASSUME NEW u, ShareUi(u)
    PROVE  /\ \A r, f : /\ IsShareForm(f) /\ r \in SplitSharesCase.shareIds \cup {None}
                        /\ u.reset => r \in SplitSharesCase.shareIds
                        => ShareUi([u EXCEPT !.row = r, !.form = f])
           /\ \A f : IsShareForm(f) => ShareUi([u EXCEPT !.form = f])
           /\ \A r \in SplitSharesCase.shareIds : ShareUi([u EXCEPT !.reset = TRUE, !.row = r])
           /\ \A r \in {u.row, None} : ShareUi([u EXCEPT !.reset = FALSE, !.row = r])
           /\ \A x : (x # None => x.txn \in SplitSharesCase.txnIds) => ShareUi([u EXCEPT !.unlink = x])
           /\ \A x \in BOOLEAN : ShareUi([u EXCEPT !.deleting = x])
           /\ \A x \in BOOLEAN : \A o : ShareUi([u EXCEPT !.deleting = x, !.open = o])
<1>1. /\ u = [view |-> u.view, open |-> u.open, row |-> u.row, form |-> u.form, reset |-> u.reset,
              unlink |-> u.unlink, deleting |-> u.deleting]
      /\ IsShareForm(u.form) /\ u.row \in SplitSharesCase.shareIds \cup {None}
      /\ u.reset => u.row \in SplitSharesCase.shareIds
      /\ u.unlink # None => u.unlink.txn \in SplitSharesCase.txnIds
  BY DEF ShareUi
<1>2. ASSUME NEW r, NEW f, IsShareForm(f), r \in SplitSharesCase.shareIds \cup {None},
             u.reset => r \in SplitSharesCase.shareIds
      PROVE  ShareUi([u EXCEPT !.row = r, !.form = f])
  <2>1. PICK w : w = [u EXCEPT !.row = r, !.form = f]
    OBVIOUS
  <2>2. w = [view |-> w.view, open |-> w.open, row |-> w.row, form |-> w.form, reset |-> w.reset,
             unlink |-> w.unlink, deleting |-> w.deleting]
    BY <1>1, <2>1
  <2>3. w.row = r /\ w.form = f /\ w.reset = u.reset /\ w.unlink = u.unlink
    BY <1>1, <2>1
  <2> QED  BY <1>1, <1>2, <2>1, <2>2, <2>3 DEF ShareUi
<1>3. ASSUME NEW f, IsShareForm(f) PROVE ShareUi([u EXCEPT !.form = f])
  BY <1>1, <1>3 DEF ShareUi
<1>4. ASSUME NEW r \in SplitSharesCase.shareIds PROVE ShareUi([u EXCEPT !.reset = TRUE, !.row = r])
  <2>1. PICK w : w = [u EXCEPT !.reset = TRUE, !.row = r]
    OBVIOUS
  <2>2. w = [view |-> w.view, open |-> w.open, row |-> w.row, form |-> w.form, reset |-> w.reset,
             unlink |-> w.unlink, deleting |-> w.deleting]
    BY <1>1, <2>1
  <2>3. w.row = r /\ w.form = u.form /\ w.reset /\ w.unlink = u.unlink
    BY <1>1, <2>1
  <2> QED  BY <1>1, <1>4, <2>1, <2>2, <2>3 DEF ShareUi
<1>5. ASSUME NEW r \in {u.row, None} PROVE ShareUi([u EXCEPT !.reset = FALSE, !.row = r])
  <2>1. PICK w : w = [u EXCEPT !.reset = FALSE, !.row = r]
    OBVIOUS
  <2>2. w = [view |-> w.view, open |-> w.open, row |-> w.row, form |-> w.form, reset |-> w.reset,
             unlink |-> w.unlink, deleting |-> w.deleting]
    BY <1>1, <2>1
  <2>3. w.row = r /\ w.form = u.form /\ ~w.reset /\ w.unlink = u.unlink
    BY <1>1, <2>1
  <2> QED  BY <1>1, <1>5, <2>1, <2>2, <2>3 DEF ShareUi
<1>6. ASSUME NEW x, x # None => x.txn \in SplitSharesCase.txnIds PROVE ShareUi([u EXCEPT !.unlink = x])
  BY <1>1, <1>6 DEF ShareUi
<1>7. ASSUME NEW x PROVE ShareUi([u EXCEPT !.deleting = x])
  BY <1>1, <1>7 DEF ShareUi
<1>8. ASSUME NEW x, NEW o PROVE ShareUi([u EXCEPT !.deleting = x, !.open = o])
  <2>1. PICK w : w = [u EXCEPT !.deleting = x, !.open = o]
    OBVIOUS
  <2>2. w = [view |-> w.view, open |-> w.open, row |-> w.row, form |-> w.form, reset |-> w.reset,
             unlink |-> w.unlink, deleting |-> w.deleting]
    BY <1>1, <2>1
  <2>3. w.row = u.row /\ w.form = u.form /\ w.reset = u.reset /\ w.unlink = u.unlink
    BY <1>1, <2>1
  <2> QED  BY <1>1, <1>8, <2>1, <2>2, <2>3 DEF ShareUi
<1> QED  BY Zenon, <1>2, <1>3, <1>4, <1>5, <1>6, <1>7, <1>8

\* So are the amounts the incomes are known with.
IncomesKnown(known) == \A t \in DOMAIN known : known[t] \in Int

DrawerInv ==
    /\ ShareRows(db) /\ ShareView(seen.split) /\ IncomesKnown(seen.txn) /\ ShareUi(ui)
    /\ Hooks(SplitSharesCase.calls, call, Shares!Hooks) /\ Filled(SplitSharesCase.calls, call)

\* What was received on a share is a number,
LEMMA PaidNumber == ASSUME NEW d, ShareRows(d), NEW h PROVE Shares!Paid(d, h) \in Int
<1> DEFINE S == Shares!SettlementsOf(d, h)
           f == [x \in S |-> x.amount]
           key == [x \in S |-> x.txn]
           sum(g) == g = [s \in SUBSET S |->
                            IF s = {} THEN 0
                            ELSE ShareTables!Picked(s).amount + g[s \ {ShareTables!Picked(s)}]]
<1>1. \A x \in S : x.share = h /\ x.txn \in SplitSharesCase.txnIds /\ x.amount \in Int
  BY ShareTablesGiven
     DEF ShareRows, Shares!Constraints, Shares!ForeignKeys, Shares!ColumnDomains, Shares!Money, Shares!SettlementsOf
<1>2. \A x, y \in S : x.txn = y.txn => x = y
  BY <1>1 DEF ShareRows, Shares!Constraints, Shares!OneLinkPerShareAndIncome, Shares!SettlementsOf
<1>3. Shares!Paid(d, h) = (CHOOSE g : sum(g))[S]
  BY DEF Shares!Paid, Shares!MapThenSumSet, Shares!MapThenFoldSet, ShareTables!Picked
<1> HIDE DEF S
<1>4. key \in ShareTables!Injection(S, SplitSharesCase.txnIds)
  BY <1>1, <1>2 DEF ShareTables!Injection, ShareTables!IsInjective
<1>5. ShareTables!IsFiniteSet(S)
  BY <1>4, ShareTablesGiven, ShareTables!FS_Injection
<1>6. \A s \in SUBSET S : s # {} => f[ShareTables!Picked(s)] = ShareTables!Picked(s).amount
  BY ShareTablesGiven, ShareTables!PickedIsIn
<1>7. ShareTables!Whole(f, S)
  BY <1>1 DEF ShareTables!Whole
<1> HIDE DEF f
<1>8. \A g : ShareTables!IsSum(g, f, S) <=> sum(g)
  BY <1>6 DEF ShareTables!IsSum
<1> HIDE DEF sum
<1>9. sum(CHOOSE g : sum(g))
  BY <1>5, <1>8, ShareTablesGiven, ShareTables!SumExists
<1>10. Shares!Paid(d, h) = ShareTables!Total(f, S)
  BY <1>3, <1>5, <1>8, <1>9, ShareTablesGiven, ShareTables!TotalOfSum
<1> QED  BY <1>5, <1>7, <1>10, ShareTablesGiven, ShareTables!TotalWhole

\* so what is shown of a split are numbers.
LEMMA ShareViewFits == ASSUME ShareRows(db) PROVE ShareView(Shares!SplitView(db))
<1>1. SUFFICES ASSUME Shares!SplitView(db) # NoData PROVE ShareView(Shares!SplitView(db))
  BY DEF ShareView
<1>2. PICK v : v = Shares!SplitView(db)
  OBVIOUS
<1>3. v = [h \in Shares!SharesOf(db, SplitSharesCase.theSplit) |->
             [payee |-> db.share[h].payee, amount |-> db.share[h].amount,
              forgiven |-> db.share[h].forgiven, paid |-> Shares!Paid(db, h),
              settlements |-> Shares!SettlementsOf(db, h)]]
  BY <1>1, <1>2 DEF Shares!SplitView
<1>4. /\ \A h \in DOMAIN db.share : db.share[h].amount \in Int /\ db.share[h].forgiven \in Int
      /\ \A x \in db.paid : x.txn \in SplitSharesCase.txnIds
  BY ShareTablesGiven
     DEF ShareRows, Shares!Constraints, Shares!ForeignKeys, Shares!ColumnDomains, Shares!Money
<1>5. DOMAIN v \subseteq DOMAIN db.share
  BY <1>3 DEF Shares!SharesOf
<1>6. \A h \in DOMAIN v :
         /\ v[h].amount \in Int /\ v[h].paid \in Int /\ v[h].forgiven \in Int
         /\ \A x \in v[h].settlements : x.txn \in SplitSharesCase.txnIds
  BY <1>3, <1>4, <1>5, PaidNumber DEF Shares!SettlementsOf
<1> QED  BY <1>2, <1>5, <1>6 DEF ShareView, ShareRows

\* What remains of a share shown.
LEMMA RemainingFits ==
    ASSUME ShareView(seen.split), NEW h \in Shares!ShownShares
    PROVE  /\ h \in SplitSharesCase.shareIds
           /\ Shares!TotalLess(h) \in Int /\ Shares!Remaining(h) \in Int
           /\ Shares!Remaining(h) > 0 => Shares!Remaining(h) = Shares!TotalLess(h) - Shares!Share(h).forgiven
<1>1. PICK v : v = seen.split[h]
  OBVIOUS
<1>2. h \in SplitSharesCase.shareIds /\ v.amount \in Int /\ v.paid \in Int /\ v.forgiven \in Int
  BY <1>1 DEF Shares!ShownShares, ShareView
<1>3. Shares!TotalLess(h) = v.amount - v.paid /\ Shares!Share(h).forgiven = v.forgiven
  BY <1>1 DEF Shares!TotalLess, Shares!Share
<1>4. PICK x \in Int : x = v.amount - v.paid - v.forgiven
  BY <1>2
<1>5. Shares!Max({0, x}) = IF x > 0 THEN x ELSE 0
  BY <1>4 DEF Shares!Max
<1>6. Shares!Remaining(h) = Shares!Max({0, x})
  BY <1>3, <1>4 DEF Shares!Remaining
<1> QED  BY <1>2, <1>3, <1>4, <1>5, <1>6

\* What is sent of a form: an amount it lets through.
SettleSent(h, b) ==
    /\ Shares!InForm("settle", h) /\ Shares!SettleAllowed(h)
    /\ b = [share |-> h, txn |-> ui.form.txn, amount |-> Shares!SettleAmount(ui.form.txn)]

ForgiveSent(h, b) ==
    /\ Shares!InForm("forgive", h) /\ Shares!ForgiveAllowed(h)
    /\ b = [share |-> h, amount |-> ui.form.forgive]

SentOf(c) ==
    /\ c.hook = "settle" => \E h : SettleSent(h, c.body)
    /\ c.hook = "forgive" => \E h : ForgiveSent(h, c.body)

SharesSent ==
    \A k \in 1..SplitSharesCase.calls : call[k] = Idle /\ call'[k] # Idle => SentOf(call'[k])

\* A step in the page alone,
LEMMA DrawerLocally ==
    ASSUME DrawerInv, NEW new, Shares!Locally(new), ShareUi(new)
    PROVE  DrawerInv' /\ SharesSent
<1>1. ui' = new /\ UNCHANGED <<db, seen, call>>
  BY DEF Shares!Locally
<1>2. ShareRows(db') /\ ShareView(seen'.split) /\ IncomesKnown(seen'.txn) /\ ShareUi(ui')
  BY <1>1 DEF DrawerInv
<1> QED  BY <1>1, <1>2 DEF DrawerInv, SharesSent

\* a call that is sent,
LEMMA DrawerSends ==
    ASSUME NoCalls, DrawerInv, NEW h \in Shares!Hooks, NEW b, Shares!Sends(h, b),
           h = "settle" => \E g : SettleSent(g, b),
           h = "forgive" => \E g : ForgiveSent(g, b)
    PROVE  DrawerInv' /\ SharesSent
<1>1. PICK n : n = SplitSharesCase.calls
  OBVIOUS
<1>2. n \in Nat /\ Calling(n, call) /\ Hooks(n, call, Shares!Hooks) /\ Filled(n, call)
  BY <1>1, ClientAssumption DEF DrawerInv, Hooks
<1>3. UNCHANGED <<db, seen, ui>> /\ Shares!Mutate(h, b)
  BY DEF Shares!Sends
<1>4. Begun(n, call, call', h, b)
  <2>1. Shares!Free # {} /\ Shares!Free \subseteq Nat /\ \A k \in Shares!Free : k \in 1..n /\ call[k] = Idle
    BY <1>1, <1>2, <1>3 DEF Shares!Mutate, Shares!Free, Shares!Slots
  <2>2. Shares!Min(Shares!Free) \in Shares!Free /\ \A j \in Shares!Free : Shares!Min(Shares!Free) <= j
    BY <2>1, LeastIsIn DEF Shares!Min
  <2>3. \A j \in 1..n : call[j] = Idle => j \in Shares!Free
    BY <1>1 DEF Shares!Free, Shares!Slots
  <2> QED
    BY <1>1, <1>3, <2>1, <2>2, <2>3
       DEF Shares!Mutate, Shares!Started, Shares!Slots, Shares!Running, Begun, Going
<1>5. Hooks(n, call', Shares!Hooks)
  BY <1>2, <1>4, HooksStay
<1>6. Filled(n, call') /\ \A j \in 1..n : call[j] = Idle /\ call'[j] # Idle => call'[j].hook = h /\ call'[j].body = b
  BY <1>2, <1>4, FilledBegins
<1>7. ShareRows(db') /\ ShareView(seen'.split) /\ IncomesKnown(seen'.txn) /\ ShareUi(ui')
  BY <1>3 DEF DrawerInv
<1>8. DrawerInv'
  BY <1>1, <1>3, <1>5, <1>6, <1>7 DEF DrawerInv
<1>9. SharesSent
  BY <1>1, <1>6 DEF SharesSent, SentOf
<1> QED  BY <1>8, <1>9

\* or one that goes on or is over.
LEMMA DrawerGoesOn ==
    ASSUME NoCalls, DrawerInv, NEW k \in 1..SplitSharesCase.calls, Going(call[k]),
           Dropped(SplitSharesCase.calls, call, call', k) \/ \E s : Restated(call, call', k, s),
           ShareRows(db'), ShareUi(ui'), UNCHANGED seen
    PROVE  DrawerInv' /\ SharesSent
<1>1. PICK n : n = SplitSharesCase.calls
  OBVIOUS
<1>2. n \in Nat /\ Calling(n, call) /\ Hooks(n, call, Shares!Hooks) /\ Filled(n, call) /\ k \in 1..n
  BY <1>1, ClientAssumption DEF DrawerInv, Hooks
<1>3. Filled(n, call') /\ \A j \in 1..n : call[j] = Idle => call'[j] = Idle
  BY <1>1, <1>2, FilledStays
<1>4. Hooks(n, call', Shares!Hooks)
  BY <1>1, <1>2, HooksStay
<1>5. ShareView(seen'.split) /\ IncomesKnown(seen'.txn)
  BY DEF DrawerInv
<1>6. DrawerInv'
  BY <1>1, <1>3, <1>4, <1>5 DEF DrawerInv
<1>7. SharesSent
  BY <1>1, <1>3 DEF SharesSent
<1> QED  BY <1>6, <1>7

\* The forms as they open.
LEMMA FreshForms ==
    ASSUME DrawerInv
    PROVE  /\ IsShareForm(Shares!NoForm)
           /\ \A h \in Shares!ShownShares : \A action : IsShareForm(Shares!FreshForm(action, h))
<1>1. IsShareForm(Shares!NoForm)
  BY DEF IsShareForm, Shares!NoForm
<1>2. ASSUME NEW h \in Shares!ShownShares, NEW action PROVE IsShareForm(Shares!FreshForm(action, h))
  <2>1. Shares!Remaining(h) \in Int
    BY <1>2, RemainingFits DEF DrawerInv
  <2>2. PICK n, e, p, m : n = Shares!NoForm /\ e = Shares!Remaining(h)
                          /\ p = Shares!Share(h).payee /\ m = Shares!Share(h).amount
    OBVIOUS
  <2>3. n = [action |-> None, txn |-> None, settle |-> 0, forgive |-> 0, payee |-> NoPayee, amount |-> 0]
    BY <2>2 DEF Shares!NoForm
  <2>4. PICK f : f = [n EXCEPT !.action = action, !.forgive = e, !.payee = p, !.amount = m]
    OBVIOUS
  <2>5. f = [action |-> f.action, txn |-> f.txn, settle |-> f.settle, forgive |-> f.forgive,
             payee |-> f.payee, amount |-> f.amount]
    BY <2>3, <2>4
  <2>6. f.settle = 0 /\ f.forgive = e
    BY <2>3, <2>4
  <2>7. f = Shares!FreshForm(action, h)
    BY <2>2, <2>4 DEF Shares!FreshForm
  <2> QED  BY <2>1, <2>2, <2>5, <2>6, <2>7 DEF IsShareForm
<1> QED  BY <1>1, <1>2

\* What the user does is such a step.
LEMMA DrawerUserForms ==
    ASSUME DrawerInv, NEW h \in Shares!ShownShares,
           \/ Shares!OpenSettle(h) \/ Shares!OpenForgive(h) \/ Shares!OpenEdit(h) \/ Shares!CancelForm(h)
           \/ (\E action \in {"settle", "forgive", "edit"} : Shares!ActivateAction(action, h))
           \/ Shares!AllRemaining(h) \/ Shares!OpenReset(h)
           \/ (\E t \in SplitSharesCase.txnIds : Shares!PickPayment(h, t))
           \/ (\E a \in SplitSharesCase.typed :
                  Shares!TypeSettle(h, a) \/ Shares!TypeForgive(h, a) \/ Shares!TypeShareAmount(h, a))
           \/ (\E p \in Shares!PayeeRef : Shares!ChoosePayee(h, p))
           \/ \E x \in Shares!Share(h).settlements : Shares!OpenUnlink(h, x)
    PROVE  DrawerInv' /\ SharesSent
<1>1. /\ h \in SplitSharesCase.shareIds
      /\ Shares!TotalLess(h) \in Int /\ Shares!Remaining(h) \in Int
  BY RemainingFits DEF DrawerInv
<1>2. /\ ui = [view |-> ui.view, open |-> ui.open, row |-> ui.row, form |-> ui.form, reset |-> ui.reset,
               unlink |-> ui.unlink, deleting |-> ui.deleting]
      /\ IsShareForm(ui.form) /\ ui.row \in SplitSharesCase.shareIds \cup {None} /\ (ui.reset => ui.row \in SplitSharesCase.shareIds)
      /\ ui.unlink # None => ui.unlink.txn \in SplitSharesCase.txnIds
  BY DEF DrawerInv, ShareUi
<1>3. /\ ui.form = [action |-> ui.form.action, txn |-> ui.form.txn, settle |-> ui.form.settle,
                    forgive |-> ui.form.forgive, payee |-> ui.form.payee, amount |-> ui.form.amount]
      /\ ui.form.settle \in Int /\ ui.form.forgive \in Int
  BY <1>2 DEF IsShareForm
<1>4. ASSUME NEW f, IsShareForm(f), Shares!SetForm(f) PROVE DrawerInv' /\ SharesSent
  <2>1. ShareUi([ui EXCEPT !.form = f])
    BY <1>2, <1>4 DEF ShareUi
  <2> QED  BY <1>4, <2>1, DrawerLocally DEF Shares!SetForm
<1>5. CASE Shares!OpenSettle(h) \/ Shares!OpenForgive(h) \/ Shares!OpenEdit(h)
  <2>1. PICK f : /\ Shares!Locally([ui EXCEPT !.row = h, !.form = f])
                 /\ f \in {[Shares!NoForm EXCEPT !.action = "settle", !.settle = Shares!Remaining(h)],
                           [Shares!NoForm EXCEPT !.action = "forgive", !.forgive = Shares!Remaining(h)],
                           [Shares!NoForm EXCEPT !.action = "edit", !.payee = Shares!Share(h).payee,
                                                 !.amount = Shares!Share(h).amount]}
    BY <1>5 DEF Shares!OpenSettle, Shares!OpenForgive, Shares!OpenEdit
  <2>2. IsShareForm(f)
    <3>1. PICK g, p, m, n : /\ g = Shares!Remaining(h) /\ p = Shares!Share(h).payee /\ m = Shares!Share(h).amount
                            /\ n = Shares!NoForm
      OBVIOUS
    <3>2. f \in {[n EXCEPT !.action = "settle", !.settle = g], [n EXCEPT !.action = "forgive", !.forgive = g],
                 [n EXCEPT !.action = "edit", !.payee = p, !.amount = m]}
      BY <2>1, <3>1
    <3>3. n = [action |-> None, txn |-> None, settle |-> 0, forgive |-> 0, payee |-> NoPayee, amount |-> 0]
      BY <3>1 DEF Shares!NoForm
    <3>4. f = [action |-> f.action, txn |-> f.txn, settle |-> f.settle, forgive |-> f.forgive,
               payee |-> f.payee, amount |-> f.amount]
      BY <3>2, <3>3
    <3>5. f.settle \in {0, g} /\ f.forgive \in {0, g}
      BY <3>2, <3>3
    <3> QED  BY <1>1, <3>1, <3>4, <3>5 DEF IsShareForm
  <2>3. ShareUi([ui EXCEPT !.row = h, !.form = f])
    BY <1>1, <2>2, ShareUiOf DEF DrawerInv
  <2> QED  BY <2>1, <2>3, DrawerLocally
<1>6. CASE Shares!CancelForm(h)
  <2>1. Shares!Locally(Shares!Closing) /\ ~ui.reset
    BY <1>6 DEF Shares!CancelForm, Shares!InRow
  <2>2. ShareUi(Shares!Closing)
    BY <1>2, <2>1, FreshForms, ShareUiOf DEF Shares!Closing, DrawerInv
  <2> QED  BY <2>1, <2>2, DrawerLocally
<1>7. CASE \E action \in {"settle", "forgive", "edit"} : Shares!ActivateAction(action, h)
  <2>1. PICK action : Shares!SetForm(Shares!FreshForm(action, h))
    BY <1>7 DEF Shares!ActivateAction
  <2> QED  BY <1>4, <2>1, FreshForms
<1>8. CASE Shares!AllRemaining(h)
  <2>1. Shares!SetForm([ui.form EXCEPT !.forgive = Shares!TotalLess(h)])
    BY <1>8 DEF Shares!AllRemaining
  <2>2. IsShareForm([ui.form EXCEPT !.forgive = Shares!TotalLess(h)])
    BY <1>1, <1>3 DEF IsShareForm
  <2> QED  BY <1>4, <2>1, <2>2
<1>9. CASE Shares!OpenReset(h)
  <2>1. Shares!Locally([ui EXCEPT !.reset = TRUE, !.row = h])
    BY <1>9 DEF Shares!OpenReset
  <2>2. ShareUi([ui EXCEPT !.reset = TRUE, !.row = h])
    BY <1>1, ShareUiOf DEF DrawerInv
  <2> QED  BY <2>1, <2>2, DrawerLocally
<1>10. CASE \E t \in SplitSharesCase.txnIds : Shares!PickPayment(h, t)
  <2>1. PICK t \in SplitSharesCase.txnIds : Shares!PickPayment(h, t)
    BY <1>10
  <2>2. PICK a : a = IF ui.view = "drawer" /\ Shares!Remaining(h) = 0 THEN ui.form.settle
                     ELSE Shares!Min({seen.txn[t], Shares!Remaining(h)})
    OBVIOUS
  <2>3. a \in Int
    <3>1. seen.txn[t] \in Int
      BY <2>1 DEF Shares!PickPayment, IncomesKnown, DrawerInv
    <3>2. ASSUME NEW y \in Int, NEW z \in Int PROVE Shares!Min({y, z}) \in Int
      BY <3>2 DEF Shares!Min
    <3> QED  BY <1>1, <1>3, <2>2, <3>1, <3>2
  <2>4. Shares!SetForm([ui.form EXCEPT !.txn = t, !.settle = a])
    BY <1>3, <2>1, <2>2 DEF Shares!PickPayment
  <2>5. IsShareForm([ui.form EXCEPT !.txn = t, !.settle = a])
    <3>1. PICK w : w = [ui.form EXCEPT !.txn = t, !.settle = a]
      OBVIOUS
    <3>2. w = [action |-> w.action, txn |-> w.txn, settle |-> w.settle, forgive |-> w.forgive,
               payee |-> w.payee, amount |-> w.amount]
      BY <1>3, <3>1
    <3>3. w.settle = a /\ w.forgive = ui.form.forgive
      BY <1>3, <3>1
    <3> QED  BY <1>3, <2>3, <3>1, <3>2, <3>3 DEF IsShareForm
  <2> QED  BY <1>4, <2>4, <2>5
<1>11. CASE \E a \in SplitSharesCase.typed :
               Shares!TypeSettle(h, a) \/ Shares!TypeForgive(h, a) \/ Shares!TypeShareAmount(h, a)
  <2>1. PICK a, f :
           /\ a \in SplitSharesCase.typed /\ Shares!SetForm(f)
           /\ f \in {[ui.form EXCEPT !.settle = a], [ui.form EXCEPT !.forgive = a], [ui.form EXCEPT !.amount = a]}
    BY <1>11 DEF Shares!TypeSettle, Shares!TypeForgive, Shares!TypeShareAmount
  <2>2. IsShareForm(f)
    BY <1>3, <2>1, SharesAssumption DEF IsShareForm
  <2> QED  BY <1>4, <2>1, <2>2
<1>12. CASE \E p \in Shares!PayeeRef : Shares!ChoosePayee(h, p)
  <2>1. PICK p : Shares!SetForm([ui.form EXCEPT !.payee = p])
    BY <1>12 DEF Shares!ChoosePayee
  <2>2. IsShareForm([ui.form EXCEPT !.payee = p])
    BY <1>3 DEF IsShareForm
  <2> QED  BY <1>4, <2>1, <2>2
<1>13. CASE \E x \in Shares!Share(h).settlements : Shares!OpenUnlink(h, x)
  <2>1. PICK x \in Shares!Share(h).settlements : Shares!Locally([ui EXCEPT !.unlink = x])
    BY <1>13 DEF Shares!OpenUnlink
  <2>2. x.txn \in SplitSharesCase.txnIds
    BY <2>1 DEF DrawerInv, ShareView, Shares!ShownShares, Shares!Share
  <2>3. ShareUi([ui EXCEPT !.unlink = x])
    BY <1>2, <2>2 DEF ShareUi
  <2> QED  BY <2>1, <2>3, DrawerLocally
<1> QED
  BY Zenon, <1>5, <1>6, <1>7, <1>8, <1>9, <1>10, <1>11, <1>12, <1>13

LEMMA UnheardStays ==
    ASSUME NEW n \in Nat, NEW c, NEW H, Hooks(n, c, H), NEW d, DOMAIN d = 1..n,
           \A j \in 1..n : \/ d[j] = c[j]
                           \/ Going(c[j]) /\ d[j] = [c[j] EXCEPT !.heard = FALSE]
    PROVE  Hooks(n, d, H)
<1>1. Calling(n, d) /\ Continues(n, c, d)
  BY UnheardContinues DEF Hooks
<1> QED  BY <1>1 DEF Hooks, Continues, Carries

LEMMA DrawerUser == ASSUME NoCalls, DrawerInv, Shares!ShareUser PROVE DrawerInv' /\ SharesSent
<1>1. /\ ui = [view |-> ui.view, open |-> ui.open, row |-> ui.row, form |-> ui.form, reset |-> ui.reset,
               unlink |-> ui.unlink, deleting |-> ui.deleting]
      /\ IsShareForm(ui.form) /\ ui.row \in SplitSharesCase.shareIds \cup {None} /\ (ui.reset => ui.row \in SplitSharesCase.shareIds)
      /\ ui.unlink # None => ui.unlink.txn \in SplitSharesCase.txnIds
  BY DEF DrawerInv, ShareUi
<1>2. CASE Shares!OpenDelete \/ Shares!CancelDelete \/ Shares!CancelReset \/ Shares!CancelUnlink
  <2>1. PICK new :
           /\ Shares!Locally(new)
           /\ new \in {[ui EXCEPT !.deleting = TRUE], [ui EXCEPT !.deleting = FALSE], [ui EXCEPT !.unlink = None],
                       [ui EXCEPT !.reset = FALSE, !.row = IF ui.view = "page" THEN None ELSE @]}
    BY <1>2 DEF Shares!OpenDelete, Shares!CancelDelete, Shares!CancelReset, Shares!CancelUnlink
  <2>2. ShareUi(new)
    BY <1>1, <2>1 DEF ShareUi
  <2> QED  BY <2>1, <2>2, DrawerLocally
<1>3. CASE Shares!SendDelete \/ Shares!SendReset \/ Shares!SendUnlink
  <2>1. PICK g \in Shares!Confirmed : \E b : Shares!Sends(g, b)
    BY <1>1, <1>3 DEF Shares!SendDelete, Shares!SendReset, Shares!SendUnlink, Shares!Confirmed
  <2>2. g \in Shares!Hooks /\ g \notin {"settle", "forgive"}
    BY <2>1, SharesAssumption DEF Shares!Confirmed, Shares!Hooks
  <2> QED  BY <2>1, <2>2, DrawerSends
<1>4. ASSUME NEW h \in Shares!ShownShares, Shares!ToggleShare(h) PROVE DrawerInv' /\ SharesSent
  <2>1. PICK n : n = SplitSharesCase.calls
    OBVIOUS
  <2>2. n \in Nat /\ Calling(n, call) /\ Hooks(n, call, Shares!Hooks) /\ Filled(n, call)
    BY <2>1, ClientAssumption DEF DrawerInv, Hooks
  <2>3. /\ UNCHANGED <<db, seen>> /\ DOMAIN call' = 1..n
        /\ \A j \in 1..n : \/ call'[j] = call[j]
                           \/ Going(call[j]) /\ call'[j] = [call[j] EXCEPT !.heard = FALSE]
    BY <1>4, <2>1 DEF Shares!ToggleShare, Shares!Unheard, Shares!Slots, Shares!Running, Going
  <2>4. Hooks(n, call', Shares!Hooks)
    BY <2>2, <2>3, UnheardStays
  <2>5. \A j \in 1..n : call'[j] = Idle <=> call[j] = Idle
    <3>1. SUFFICES ASSUME NEW j \in 1..n, Going(call[j]), call'[j] = [call[j] EXCEPT !.heard = FALSE]
                   PROVE  call'[j] # Idle
      BY <2>3 DEF Going
    <3>2. IsCall(call'[j])
      BY <2>2, <3>1 DEF Calling, IsCall
    <3> QED  BY <3>2 DEF NoCalls
  <2>6. Filled(n, call')
    BY <2>2, <2>5 DEF Filled
  <2>7. ShareUi(ui')
    <3>1. PICK r \in {None, h} : ui' = [ui EXCEPT !.row = r, !.form = Shares!NoForm] /\ ~ui.reset
      BY <1>4 DEF Shares!ToggleShare
    <3>2. h \in SplitSharesCase.shareIds
      BY RemainingFits DEF DrawerInv
    <3> QED  BY <3>1, <3>2, FreshForms, ShareUiOf DEF DrawerInv
  <2>8. ShareRows(db') /\ ShareView(seen'.split) /\ IncomesKnown(seen'.txn)
    BY <2>3 DEF DrawerInv
  <2> QED  BY <2>1, <2>3, <2>4, <2>5, <2>6, <2>7, <2>8 DEF DrawerInv, SharesSent
<1>5. ASSUME NEW h \in Shares!ShownShares, Shares!SendSettle(h) PROVE DrawerInv' /\ SharesSent
  <2>1. PICK b : SettleSent(h, b) /\ Shares!Sends("settle", b)
    BY <1>5 DEF Shares!SendSettle, SettleSent
  <2> QED  BY <2>1, DrawerSends DEF Shares!Hooks
<1>6. ASSUME NEW h \in Shares!ShownShares, Shares!SendForgive(h) PROVE DrawerInv' /\ SharesSent
  <2>1. PICK b : ForgiveSent(h, b) /\ Shares!Sends("forgive", b)
    BY <1>6 DEF Shares!SendForgive, ForgiveSent
  <2> QED  BY <2>1, DrawerSends DEF Shares!Hooks
<1>7. ASSUME NEW h \in Shares!ShownShares, Shares!SendEdit(h) PROVE DrawerInv' /\ SharesSent
  <2>1. PICK b : Shares!Sends("patch", b)
    BY <1>7 DEF Shares!SendEdit
  <2> QED  BY <2>1, DrawerSends DEF Shares!Hooks
<1> QED
  BY Zenon, <1>2, <1>3, <1>4, <1>5, <1>6, <1>7, DrawerUserForms DEF Shares!ShareUser

\* No handler changes a transaction or the columns of the tables,
SameRows(d, new) ==
    DOMAIN new = DOMAIN d /\ new.txn = d.txn /\ DOMAIN new.share = DOMAIN d.share

LEMMA SavesRows ==
    ASSUME NEW v, NEW d, NEW h, NEW row, {"txn", "split", "share", "links", "paid"} \subseteq DOMAIN d
    PROVE  SameRows(d, Shares!UpdateShare(v, d, h, row)) /\ SameRows(d, Shares!SaveShare(v, d, h, row).db)
<1>1. SameRows(d, Shares!UpdateShare(v, d, h, row))
  BY DEF SameRows, Shares!UpdateShare
<1>2. Shares!SaveShare(v, d, h, row).db = Shares!UpdateShare(v, d, h, row)
  BY DEF Shares!SaveShare, Shares!Result
<1> QED  BY <1>1, <1>2

LEMMA WritesRows ==
    ASSUME {"txn", "split", "share", "links", "paid"} \subseteq DOMAIN db, NEW h
    PROVE  /\ \A t, a : SameRows(db, Shares!SettleShareWrite(db, db, h, t, a).db)
           /\ \A a : SameRows(db, Shares!ForgiveShareWrite(db, db, h, a).db)
           /\ \A f, a, p : SameRows(db, Shares!PatchShareWrite(db, db, h, f, a, p).db)
           /\ SameRows(db, Shares!UnsettleShareWrite(db, db, h).db)
           /\ \A x : SameRows(db, Shares!UnlinkSettlementWrite(db, db, h, x).db)
           /\ \A s : SameRows(db, Shares!DeleteSplitWrite(db, db, s).db)
<1>1. ASSUME NEW d, SameRows(db, d), NEW p PROVE SameRows(db, [d EXCEPT !.paid = p])
  BY <1>1 DEF SameRows
<1>2. ASSUME NEW d, SameRows(db, d), NEW row PROVE SameRows(db, Shares!SaveShare(db, d, h, row).db)
  BY <1>2, SavesRows DEF SameRows
<1>3. SameRows(db, db)
  BY DEF SameRows
<1>4. ASSUME NEW t, NEW a PROVE SameRows(db, Shares!SettleShareWrite(db, db, h, t, a).db)
  <2>1. PICK row, p : Shares!SettleShareWrite(db, db, h, t, a).db
                         = [Shares!SaveShare(db, db, h, row).db EXCEPT !.paid = p]
    BY DEF Shares!SettleShareWrite, Shares!Result
  <2> QED  BY <1>1, <1>2, <1>3, <2>1
<1>5. ASSUME NEW a PROVE SameRows(db, Shares!ForgiveShareWrite(db, db, h, a).db)
  BY <1>2, <1>3 DEF Shares!ForgiveShareWrite
<1>6. ASSUME NEW f, NEW a, NEW p PROVE SameRows(db, Shares!PatchShareWrite(db, db, h, f, a, p).db)
  BY SavesRows DEF Shares!PatchShareWrite, Shares!Result
<1>7. SameRows(db, Shares!UnsettleShareWrite(db, db, h).db)
  <2>1. PICK p, row : Shares!UnsettleShareWrite(db, db, h) = Shares!SaveShare(db, [db EXCEPT !.paid = p], h, row)
    BY DEF Shares!UnsettleShareWrite
  <2> QED  BY <1>1, <1>2, <1>3, <2>1
<1>8. ASSUME NEW x PROVE SameRows(db, Shares!UnlinkSettlementWrite(db, db, h, x).db)
  <2>1. PICK p, row : Shares!UnlinkSettlementWrite(db, db, h, x) = Shares!SaveShare(db, [db EXCEPT !.paid = p], h, row)
    BY DEF Shares!UnlinkSettlementWrite
  <2> QED  BY <1>1, <1>2, <1>3, <2>1
<1>9. ASSUME NEW s PROVE SameRows(db, Shares!DeleteSplitWrite(db, db, s).db)
  BY DEF SameRows, Shares!DeleteSplitWrite, Shares!Result
<1> QED  BY <1>4, <1>5, <1>6, <1>7, <1>8, <1>9

\* and what commits meets the constraints.
LEMMA SharesServed ==
    ASSUME ShareRows(db), NEW k, Shares!Commits(Shares!ShareResult(k)), call[k].hook \in Shares!Hooks
    PROVE  ShareRows(Shares!ShareResult(k).db)
<1>1. PICK new : new = Shares!ShareResult(k).db
  OBVIOUS
<1>2. Shares!Constraints(new)
  BY <1>1 DEF Shares!Commits, Shares!CommitAccepts
<1>3. SameRows(db, new)
  <2>1. \E res : /\ res = Shares!ShareResult(k)
                 /\ \E h, t, a, f, p, x, s : res \in
                       {Shares!SettleShareWrite(db, db, h, t, a), Shares!ForgiveShareWrite(db, db, h, a),
                        Shares!PatchShareWrite(db, db, h, f, a, p), Shares!UnsettleShareWrite(db, db, h),
                        Shares!UnlinkSettlementWrite(db, db, h, x), Shares!DeleteSplitWrite(db, db, s)}
    BY DEF Shares!ShareResult, Shares!Hooks, Shares!Confirmed
  <2> QED  BY <1>1, <2>1, WritesRows DEF ShareRows
<1> QED  BY <1>1, <1>2, <1>3 DEF ShareRows, SameRows

\* So does what another tab makes of an income.
LEMMA IncomeRows ==
    ASSUME ShareRows(db), NEW t, NEW a \in Int
    PROVE  ShareRows([db EXCEPT !.txn[t].amount = a])
<1>1. PICK new : new = [db EXCEPT !.txn[t].amount = a]
  OBVIOUS
<1>2. /\ DOMAIN new = DOMAIN db /\ DOMAIN new.txn = DOMAIN db.txn
      /\ \A c \in DOMAIN db \ {"txn"} : new[c] = db[c]
      /\ \A z \in DOMAIN db.txn : new.txn[z].amount \in Int
  BY <1>1 DEF ShareRows
<1>3. new.split = db.split /\ new.share = db.share /\ new.links = db.links /\ new.paid = db.paid /\ new.payee = db.payee
  BY <1>1
<1>4. Shares!Constraints(new)
  BY <1>2, <1>3
     DEF ShareRows, Shares!Constraints, Shares!ForeignKeys, Shares!OneParentPerExpense, Shares!OneSharePerPayee,
         Shares!OneLinkPerShareAndIncome, Shares!ColumnDomains
<1> QED  BY <1>1, <1>2, <1>3, <1>4 DEF ShareRows

\* What an answer leaves of the page.
LEMMA SharesHeard == ASSUME DrawerInv, NEW k PROVE ShareUi(Shares!HeardShare(k))
<1>1. /\ ui = [view |-> ui.view, open |-> ui.open, row |-> ui.row, form |-> ui.form, reset |-> ui.reset,
               unlink |-> ui.unlink, deleting |-> ui.deleting]
      /\ IsShareForm(ui.form) /\ ui.row \in SplitSharesCase.shareIds \cup {None} /\ (ui.reset => ui.row \in SplitSharesCase.shareIds)
      /\ ui.unlink # None => ui.unlink.txn \in SplitSharesCase.txnIds
  BY DEF DrawerInv, ShareUi
<1>2. /\ ShareUi(ui) /\ ShareUi([ui EXCEPT !.deleting = FALSE, !.open = FALSE])
      /\ \A r \in {ui.row, None} : ShareUi([ui EXCEPT !.reset = FALSE, !.row = r])
      /\ \A x \in {ui.unlink, None} : ShareUi([ui EXCEPT !.unlink = x])
      /\ ShareUi([ui EXCEPT !.form = Shares!NoForm])
      /\ ~ui.reset => ShareUi(Shares!Closing)
  BY <1>1, FreshForms, ShareUiOf DEF DrawerInv, Shares!Closing
<1>3. /\ ShareUi([ui EXCEPT !.reset = FALSE, !.row = IF ui.view = "page" /\ ui.reset THEN None ELSE @])
      /\ ShareUi([ui EXCEPT !.unlink = IF @ = call[k].body.x THEN None ELSE @])
  BY <1>2
<1> QED  BY <1>2, <1>3 DEF Shares!HeardShare

\* Fresh data leave numbers in the forms.
LEMMA SharesSynced == ASSUME DrawerInv, NEW v PROVE ShareUi(Shares!Synced(v))
<1>1. /\ ui = [view |-> ui.view, open |-> ui.open, row |-> ui.row, form |-> ui.form, reset |-> ui.reset,
               unlink |-> ui.unlink, deleting |-> ui.deleting]
      /\ IsShareForm(ui.form) /\ ui.row \in SplitSharesCase.shareIds \cup {None} /\ (ui.reset => ui.row \in SplitSharesCase.shareIds)
      /\ ui.unlink # None => ui.unlink.txn \in SplitSharesCase.txnIds
  BY DEF DrawerInv, ShareUi
<1>2. PICK x, p, a :
         /\ Shares!Synced(v) = [ui EXCEPT !.unlink = x, !.form.payee = p, !.form.amount = a]
         /\ x \in {ui.unlink, None}
  BY <1>1 DEF Shares!Synced
<1>3. IsShareForm([ui.form EXCEPT !.payee = p, !.amount = a])
  <2>1. PICK f : f = ui.form
    OBVIOUS
  <2>2. PICK w : w = [f EXCEPT !.payee = p, !.amount = a]
    OBVIOUS
  <2>3. w = [action |-> w.action, txn |-> w.txn, settle |-> w.settle, forgive |-> w.forgive,
             payee |-> w.payee, amount |-> w.amount]
    BY <1>1, <2>1, <2>2 DEF IsShareForm
  <2>4. w.settle = f.settle /\ w.forgive = f.forgive
    BY <1>1, <2>1, <2>2 DEF IsShareForm
  <2> QED  BY <1>1, <2>1, <2>2, <2>3, <2>4 DEF IsShareForm
<1>4. Shares!Synced(v) = [ui EXCEPT !.unlink = x, !.form = [ui.form EXCEPT !.payee = p, !.amount = a]]
  BY <1>1, <1>2 DEF IsShareForm
<1> QED  BY <1>1, <1>2, <1>3, <1>4 DEF ShareUi

\* The steps of calls and answers.
LEMMA DrawerClient ==
    ASSUME NoCalls, DrawerInv, Shares!ShareClient
    PROVE  DrawerInv' /\ SharesSent
<1>1. ASSUME NEW k \in Shares!Slots, Shares!ServeShare(k) PROVE DrawerInv' /\ SharesSent
  <2>1. /\ k \in 1..SplitSharesCase.calls /\ Going(call[k]) /\ Restated(call, call', k, "done")
        /\ UNCHANGED <<seen, ui>> /\ db' = Shares!ShareResult(k).db
        /\ Shares!Commits(Shares!ShareResult(k))
    BY <1>1 DEF Shares!ServeShare, Shares!Serve, Shares!Running, Shares!Slots, Going, Restated
  <2>2. ShareRows(Shares!ShareResult(k).db)
    BY <2>1, SharesServed DEF DrawerInv, Hooks
  <2>3. ShareRows(db') /\ ShareUi(ui')
    BY <2>1, <2>2 DEF DrawerInv
  <2> QED  BY <2>1, <2>3, DrawerGoesOn
<1>2. ASSUME NEW k \in Shares!Slots, Shares!AnswerShare(k) \/ Shares!Fails(k, ui) PROVE DrawerInv' /\ SharesSent
  <2>1. /\ k \in 1..SplitSharesCase.calls /\ Going(call[k]) /\ UNCHANGED <<db, seen>>
        /\ Dropped(SplitSharesCase.calls, call, call', k) /\ ui' \in {ui, Shares!HeardShare(k)}
    BY <1>2 DEF Shares!AnswerShare, Shares!Returns, Shares!Fails, Shares!Running, Shares!Slots, Shares!Without,
                Going, Dropped
  <2>2. ShareRows(db') /\ ShareUi(ui')
    BY <2>1, SharesHeard DEF DrawerInv
  <2> QED  BY <2>1, <2>2, DrawerGoesOn
<1>3. CASE Shares!FetchSplit
  <2>1. /\ UNCHANGED <<db, call>>
        /\ \/ UNCHANGED <<seen, ui>>
           \/ seen' = [split |-> Shares!SplitView(db), txn |-> seen.txn] /\ ui' = Shares!Synced(Shares!SplitView(db))
    BY <1>3 DEF Shares!FetchSplit
  <2>2. ShareView(seen'.split) /\ IncomesKnown(seen'.txn)
    BY <2>1, ShareViewFits DEF DrawerInv
  <2>3. ShareRows(db') /\ ShareUi(ui')
    BY <2>1, SharesSynced DEF DrawerInv
  <2> QED  BY <2>1, <2>2, <2>3 DEF DrawerInv, SharesSent
<1>4. CASE Shares!FetchIncomes
  <2>1. UNCHANGED <<db, ui, call>> /\ seen' = [split |-> seen.split, txn |-> Shares!IncomeAmounts]
    BY <1>4 DEF Shares!FetchIncomes
  <2>2. IncomesKnown(Shares!IncomeAmounts)
    BY DEF IncomesKnown, Shares!IncomeAmounts, DrawerInv, ShareRows
  <2>3. ShareRows(db') /\ ShareView(seen'.split) /\ IncomesKnown(seen'.txn) /\ ShareUi(ui')
    BY <2>1, <2>2 DEF DrawerInv
  <2> QED  BY <2>1, <2>3 DEF DrawerInv, SharesSent
<1>5. CASE \E t \in SplitSharesCase.txnIds, a \in SplitSharesCase.typed : Shares!EditIncome(t, a)
  <2>1. PICK t, a :
           a \in 1..SplitSharesCase.maxMoney /\ db' = [db EXCEPT !.txn[t].amount = a] /\ UNCHANGED <<seen, ui, call>>
    BY <1>5 DEF Shares!EditIncome
  <2>2. ShareRows(db')
    <3>1. a \in Int
      BY <2>1, ShareTablesGiven
    <3> QED  BY <2>1, <3>1, IncomeRows DEF DrawerInv
  <2>3. ShareView(seen'.split) /\ IncomesKnown(seen'.txn) /\ ShareUi(ui')
    BY <2>1 DEF DrawerInv
  <2> QED  BY <2>1, <2>2, <2>3 DEF DrawerInv, SharesSent
<1> QED  BY <1>1, <1>2, <1>3, <1>4, <1>5 DEF Shares!ShareClient

\* So every step keeps the invariant, and what it sends is what a form lets through.
LEMMA DrawerStep ==
    ASSUME NoCalls, DrawerInv, Shares!ShareNext
    PROVE  DrawerInv' /\ SharesSent
BY DrawerUser, DrawerClient DEF Shares!ShareNext

\* The page opens with the invariant.
LEMMA DrawerOpens == ASSUME Shares!ShareInit PROVE DrawerInv
<1>1. ShareRows(db)
  BY SharesAssumption DEF Shares!ShareInit, ShareRows, Shares!IsDatabase, Shares!IsTable, Shares!TxnRow
<1>2. ShareView(seen.split) /\ IncomesKnown(seen.txn)
  <2>1. seen.split = NoData /\ seen.txn = Shares!IncomeAmounts
    BY DEF Shares!ShareInit
  <2> QED  BY <1>1, <2>1 DEF ShareView, IncomesKnown, Shares!IncomeAmounts, ShareRows
<1>3. ShareUi(ui)
  BY DEF Shares!ShareInit, ShareUi, IsShareForm, Shares!NoForm
<1>4. Hooks(SplitSharesCase.calls, call, Shares!Hooks) /\ Filled(SplitSharesCase.calls, call)
  BY DEF Shares!ShareInit, Shares!Slots, Hooks, Calling, Filled, Going
<1> QED  BY <1>1, <1>2, <1>3, <1>4 DEF DrawerInv

LEMMA DrawerStutter == ASSUME DrawerInv, UNCHANGED <<db, seen, ui, call>> PROVE DrawerInv'
BY DEF DrawerInv, ShareRows, ShareView, IncomesKnown, ShareUi

\* What the server will credit is what the form shows, if it knows what the payment is worth,
LEMMA SettleShown ==
    ASSUME NoAmount, DrawerInv, NEW h, NEW b, SettleSent(h, b), seen.txn[b.txn] = db.txn[b.txn].amount
    PROVE  Shares!CreditOf(b) = ui.form.settle
<1>1. ui.form.settle \in Int
  BY DEF DrawerInv, ShareUi, IsShareForm
<1> QED  BY <1>1 DEF NoAmount, SettleSent, Shares!SettleAmount, Shares!CreditOf

\* and it fits into the share as it is shown, and so does what is forgiven.
LEMMA DrawerFits ==
    ASSUME NoAmount, DrawerInv, ui.view = "drawer", seen.split = Shares!SplitView(db), NEW h, NEW b
    PROVE  /\ SettleSent(h, b) /\ seen.txn[b.txn] = db.txn[b.txn].amount
              => Shares!Paid(db, b.share) + db.share[b.share].forgiven + Shares!CreditOf(b)
                    <= db.share[b.share].amount
           /\ ForgiveSent(h, b) => Shares!ForgiveShareOk(db, b.share, b.amount)
<1> DEFINE known == seen.txn[b.txn] = db.txn[b.txn].amount
<1>1. SUFFICES ASSUME SettleSent(h, b) \/ ForgiveSent(h, b)
               PROVE  /\ SettleSent(h, b) /\ known => Shares!Paid(db, h) + db.share[h].forgiven + Shares!CreditOf(b)
                                                <= db.share[h].amount
                      /\ ForgiveSent(h, b) => Shares!ForgiveShareOk(db, h, ui.form.forgive)
                      /\ b.share = h /\ (ForgiveSent(h, b) => b.amount = ui.form.forgive)
  OBVIOUS
<1>2. h \in Shares!ShownShares
  BY <1>1 DEF SettleSent, ForgiveSent, Shares!InForm, Shares!InRow
<1>3. /\ Shares!IsLive(db.split, SplitSharesCase.theSplit) /\ h \in Shares!SharesOf(db, SplitSharesCase.theSplit)
      /\ seen.split[h].amount = db.share[h].amount /\ seen.split[h].forgiven = db.share[h].forgiven
      /\ seen.split[h].paid = Shares!Paid(db, h)
  BY <1>2 DEF Shares!ShownShares, Shares!SplitView
<1>4. /\ Shares!TotalLess(h) \in Int /\ Shares!Remaining(h) \in Int
      /\ Shares!Remaining(h) > 0 => Shares!Remaining(h) = Shares!TotalLess(h) - Shares!Share(h).forgiven
  BY <1>2, RemainingFits DEF DrawerInv
<1>5. seen.split[h].amount \in Int /\ seen.split[h].forgiven \in Int /\ seen.split[h].paid \in Int
  BY <1>2 DEF DrawerInv, ShareView, Shares!ShownShares
<1>6. ui.form.settle \in Int /\ ui.form.forgive \in Int
  BY DEF DrawerInv, ShareUi, IsShareForm
<1>7. CASE SettleSent(h, b)
  <2>1. ui.form.settle > 0 /\ ui.form.settle <= Shares!Remaining(h) /\ b.share = h
    BY <1>7 DEF SettleSent, Shares!SettleAllowed
  <2>2. known => Shares!CreditOf(b) = ui.form.settle
    BY <1>7, SettleShown
  <2>3. ~ForgiveSent(h, b)
    BY <1>7 DEF SettleSent, ForgiveSent, Shares!InForm
  <2> QED  BY <1>3, <1>4, <1>5, <1>6, <2>1, <2>2, <2>3 DEF Shares!TotalLess, Shares!Share
<1>8. CASE ForgiveSent(h, b)
  <2>1. ui.form.forgive <= Shares!TotalLess(h) /\ b.share = h /\ b.amount = ui.form.forgive
    BY <1>8 DEF ForgiveSent, Shares!ForgiveAllowed
  <2>2. Shares!ShareFound(db, h)
    BY <1>3 DEF Shares!ShareFound, Shares!SharesOf
  <2>3. ~SettleSent(h, b)
    BY <1>8 DEF SettleSent, ForgiveSent, Shares!InForm
  <2>4. Shares!ForgiveShareOk(db, h, ui.form.forgive)
    BY <1>3, <1>5, <1>6, <2>1, <2>2 DEF Shares!ForgiveShareOk, Shares!TotalLess, Shares!Share
  <2> QED  BY <2>1, <2>3, <2>4
<1> QED  BY <1>1, <1>7, <1>8
=============================================================================
