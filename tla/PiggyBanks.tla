----------------------------- MODULE PiggyBanks -----------------------------
(***************************************************************************)
(* Savings goals: the list with its drawer (pages/PiggyBanks.tsx,          *)
(* components/drawers/PiggyBankDrawer.tsx), the page of one goal           *)
(* (pages/PiggyBankDetail.tsx) and its form (pages/PiggyBankForm.tsx).     *)
(*                                                                         *)
(* The drafts the user began are counted (draft), and a row remembers the  *)
(* draft it was made from.  No transaction is edited or deleted and no     *)
(* earmark is tagged during a visit.                                       *)
(***************************************************************************)
EXTENDS Screen

CONSTANTS StartPigs,      \* the goals there are when the page is opened
          StartContribs,  \* and the contributions to them
          Txns,           \* the live transactions of the user
          Unknown,        \* something typed that is no transaction's id
          Typed,          \* bound: the amounts typed
          NewIds,         \* the ids of the rows created
          Opens           \* bound: how often the user opens or types something

PigIds == DOMAIN StartPigs \cup NewIds

-----------------------------------------------------------------------------
(***************************************************************************)
(* The server.  Amounts are summed when they are read; whether the goal is *)
(* reached is stored.                                                      *)
(***************************************************************************)
Contributions(d, p) == Restrict(d.contrib, {c \in DOMAIN d.contrib : d.contrib[c].pig = p})

AmountOf(rows) == MapThenSumSet(LAMBDA c : rows[c].amount, DOMAIN rows)

Total(d, p) == AmountOf(Contributions(d, p))

Answer(d, p) ==
    [target |-> d.pig[p].target, notes |-> d.pig[p].notes, completed |-> d.pig[p].completed,
     current |-> Total(d, p)]

Unused == NewIds \ (DOMAIN db.pig \cup DOMAIN db.contrib)

PigAccepted(k) ==
    LET b == call[k].body
    IN  /\ call[k].hook # "create" => b.pig \in DOMAIN db.pig
        /\ call[k].hook = "add" => b.txn \in Txns
        /\ call[k].hook = "remove" => b.id \in DOMAIN Contributions(db, b.pig)

\* Mutant: a goal once completed stays so.
OnlyCompletes(d, p) ==
    IF Total(d, p) >= d.pig[p].target THEN [d EXCEPT !.pig[p].completed = TRUE] ELSE d

UpdateCompletion(d, p) == [d EXCEPT !.pig[p].completed = Total(d, p) >= d.pig[p].target]

With(rows, id, row) == [x \in DOMAIN rows \cup {id} |-> IF x = id THEN row ELSE rows[x]]

Less(rows, ids) == Restrict(rows, DOMAIN rows \ ids)

\* An empty field is left out of the body, and what is left out stays.
Patched(row, b) ==
    [row EXCEPT !.target = b.target, !.notes = IF b.notes = None THEN @ ELSE b.notes]

PigResult(k) ==
    LET b == call[k].body
        new == CHOOSE id \in Unused : TRUE
    IN  CASE call[k].hook = "create" ->
                 [db EXCEPT !.pig = With(@, new, [target |-> b.target, notes |-> b.notes,
                                                 completed |-> FALSE, draft |-> b.draft])]
          [] call[k].hook = "patch" ->
                 UpdateCompletion([db EXCEPT !.pig[b.pig] = Patched(@, b)], b.pig)
          [] call[k].hook \in {"delete", "deleteHere"} ->
                 [db EXCEPT !.pig = Less(@, {b.pig}),
                            !.contrib = Less(@, DOMAIN Contributions(db, b.pig))]
          [] call[k].hook = "add" ->
                 UpdateCompletion([db EXCEPT !.contrib =
                     With(@, new, [pig |-> b.pig, amount |-> b.amount, draft |-> b.draft])], b.pig)
          [] call[k].hook = "remove" ->
                 UpdateCompletion([db EXCEPT !.contrib = Less(@, {b.id})], b.pig)

\* Bound: rows are created as long as there are ids for them.
ServePig(k) ==
    /\ Running(k) /\ PigAccepted(k)
    /\ call[k].hook \in {"create", "add"} => Unused # {}
    /\ Serve(k, TRUE, PigResult(k))

-----------------------------------------------------------------------------
(***************************************************************************)
(* What is shown: in the drawer of the list, or on the page of one goal.   *)
(***************************************************************************)
ListKey == <<"list", None>>
KeysOf(p) == {<<"item", p>>, <<"contributions", p>>}

\* The queries mounted; every mutation invalidates them all, by the prefix of their keys.
InUse ==
    (IF ui.view = "list" THEN {ListKey} ELSE {}) \cup
    CASE ui.subject = None -> {}
      [] ui.subject # None /\ ui.view = "form" -> {<<"item", ui.subject>>}
      [] ui.subject # None /\ ui.view # "form" -> KeysOf(ui.subject)

BlankGoal == [target |-> None, notes |-> None]
BlankContribution == [txn |-> None, amount |-> None]

Shown == IF seen.list = NoData THEN {} ELSE DOMAIN seen.list

Loaded == ui.subject # None /\ seen.item[ui.subject] # NoData

ContributionsShown ==
    IF seen.contributions[ui.subject] = NoData THEN {} ELSE DOMAIN seen.contributions[ui.subject]

InDialog == ui.remove # None \/ ui.deleting \/ ui.target # None

OnList == ui.view = "list" /\ seen.list # NoData /\ ui.subject = None /\ ~ui.adding /\ ~InDialog

InGoal == ui.view \in {"list", "detail"} /\ Loaded /\ ~InDialog

Opening(new) == ui.opens < Opens /\ Locally([new EXCEPT !.opens = @ + 1])

OpenDrawer(p) ==
    /\ OnList /\ p \in Shown /\ ui.opens < Opens
    /\ ui' = [ui EXCEPT !.subject = p, !.opens = @ + 1]
    /\ due' = due \cup KeysOf(p)
    /\ UNCHANGED <<page, db, seen, call, lost>>

CloseDrawer ==
    /\ ui.view = "list" /\ ui.subject # None /\ ~InDialog
    /\ ui' = [ui EXCEPT !.subject = None]
    /\ due' = due \ KeysOf(ui.subject)
    /\ UNCHANGED <<page, db, seen, call, lost>>

AskRemove(c) == InGoal /\ c \in ContributionsShown /\ Opening([ui EXCEPT !.remove = c])

CancelRemove == ui.remove # None /\ Locally([ui EXCEPT !.remove = None])

\* No button of a confirmation is disabled while its call is under way.
ConfirmRemove ==
    /\ ui.remove # None /\ Loaded
    /\ Sends("remove", [pig |-> ui.subject, id |-> ui.remove])

OpenDelete == InGoal /\ Opening([ui EXCEPT !.deleting = TRUE])

CancelDelete == ui.deleting /\ Locally([ui EXCEPT !.deleting = FALSE])

ConfirmDelete == ui.deleting /\ Loaded /\ Sends("delete", [pig |-> ui.subject])

AskDeleteHere(p) == OnList /\ p \in Shown /\ Opening([ui EXCEPT !.target = p])

CancelDeleteHere == ui.target # None /\ Locally([ui EXCEPT !.target = None])

ConfirmDeleteHere == ui.target # None /\ Sends("deleteHere", [pig |-> ui.target])

-----------------------------------------------------------------------------
(***************************************************************************)
(* Adding a contribution, on the page of the goal.  The form holds its     *)
(* mutation: once it is closed nothing is heard of it.                     *)
(***************************************************************************)
OpenContribution ==
    /\ ui.view = "detail" /\ Loaded /\ ~InDialog /\ ~ui.adding
    /\ Opening([ui EXCEPT !.adding = TRUE, !.contribution = BlankContribution, !.draft = @ + 1])

CancelContribution ==
    /\ ui.view = "detail" /\ ui.adding /\ ~InDialog
    /\ ui' = [ui EXCEPT !.adding = FALSE]
    /\ call' = Unheard([h \in {"add", "remove", "delete"} |-> h = "add"])
    /\ UNCHANGED <<page, db, seen, due, lost>>

TypeContribution(t, a) ==
    /\ ui.view = "detail" /\ ui.adding /\ ~InDialog
    /\ Opening([ui EXCEPT !.contribution = [txn |-> t, amount |-> a]])

AddContribution ==
    /\ ui.view = "detail" /\ ui.adding /\ ~InDialog /\ ~Pending("add")
    /\ ui.contribution.txn # None /\ ui.contribution.amount # None
    /\ Sends("add", [pig |-> ui.subject, txn |-> ui.contribution.txn,
                     amount |-> ui.contribution.amount, draft |-> ui.draft])

-----------------------------------------------------------------------------
(***************************************************************************)
(* The form of a goal: in a dialog of the list, or a page of its own.      *)
(***************************************************************************)
FormOf(item) == [target |-> item.target, notes |-> item.notes]

OpenGoal == OnList /\ Opening([ui EXCEPT !.adding = TRUE, !.goal = BlankGoal, !.draft = @ + 1])

CancelGoal == ui.view = "list" /\ ui.adding /\ Locally([ui EXCEPT !.adding = FALSE])

TypeGoal(goal) ==
    /\ ui.view = "form" \/ (ui.view = "list" /\ ui.adding /\ goal.notes = None)
    /\ goal # ui.goal
    /\ Opening([ui EXCEPT !.goal = goal, !.touched = TRUE])

SubmitGoal ==
    /\ ui.view = "form" \/ (ui.view = "list" /\ ui.adding)
    /\ ~Pending("create") /\ ~Pending("patch") /\ ui.goal.target # None
    /\ IF ui.view = "form" /\ ui.subject # None
       THEN Sends("patch", [pig |-> ui.subject, target |-> ui.goal.target, notes |-> ui.goal.notes])
       ELSE Sends("create", [target |-> ui.goal.target, notes |-> ui.goal.notes, draft |-> ui.draft])

GoalUser ==
    \/ CloseDrawer \/ CancelRemove \/ ConfirmRemove \/ OpenDelete \/ CancelDelete \/ ConfirmDelete
    \/ CancelDeleteHere \/ ConfirmDeleteHere \/ OpenGoal \/ CancelGoal \/ SubmitGoal
    \/ OpenContribution \/ CancelContribution \/ AddContribution
    \/ \E p \in Shown : OpenDrawer(p) \/ AskDeleteHere(p)
    \/ Loaded /\ \E c \in ContributionsShown : AskRemove(c)
    \/ \E t \in Txns \cup {Unknown}, a \in Typed : TypeContribution(t, a)
    \/ \E a \in Typed, n \in {None, "new"} : TypeGoal([target |-> a, notes |-> n])

-----------------------------------------------------------------------------
(***************************************************************************)
(* What comes back.  Callbacks given to mutate act on whatever is open by  *)
(* then; those of an earlier mutate of the same hook are not run.          *)
(***************************************************************************)
Left == [ui EXCEPT !.view = "left", !.subject = None, !.adding = FALSE, !.deleting = FALSE,
                   !.remove = None, !.target = None]

HeardPig(k) ==
    CASE ~call[k].heard -> ui
      [] call[k].heard /\ call[k].hook = "deleteHere" -> [ui EXCEPT !.target = None]
      [] call[k].heard /\ call[k].hook = "remove" -> [ui EXCEPT !.remove = None]
      [] call[k].heard /\ call[k].hook = "add" -> [ui EXCEPT !.adding = FALSE]
      [] call[k].heard /\ call[k].hook = "delete" ->
             IF ui.view = "detail" THEN Left ELSE [ui EXCEPT !.deleting = FALSE, !.subject = None]
      [] call[k].heard /\ call[k].hook \in {"create", "patch"} ->
             IF ui.view = "form" THEN Left ELSE [ui EXCEPT !.adding = FALSE]

AnswerPig(k) ==
    /\ Running(k) /\ call[k].state = "done"
    /\ ui' = HeardPig(k)
    /\ due' = (due \cup InUse) \cap InUse'
    /\ call' = Without(k)
    /\ UNCHANGED <<page, db, seen, lost>>

FetchList ==
    /\ ListKey \in due
    /\ due' = due \ {ListKey}
    /\ seen' = [seen EXCEPT !.list = [p \in DOMAIN db.pig |-> Answer(db, p)]]
    /\ UNCHANGED <<page, db, ui, call, lost>>

\* A goal that was deleted is not answered, and what was known of it stays.  On its page the
\* form takes over what it is answered, if it is news.
FetchItem(p) ==
    /\ <<"item", p>> \in due
    /\ due' = due \ {<<"item", p>>}
    /\ LET item == IF p \in DOMAIN db.pig THEN Answer(db, p) ELSE seen.item[p]
       IN  /\ seen' = [seen EXCEPT !.item[p] = item]
           /\ ui' = IF ui.view = "form" /\ item # seen.item[p]
                    THEN [ui EXCEPT !.goal = FormOf(item), !.touched = FALSE] ELSE ui
    /\ UNCHANGED <<page, db, call, lost>>

FetchContributions(p) ==
    /\ <<"contributions", p>> \in due
    /\ due' = due \ {<<"contributions", p>>}
    /\ seen' = IF p \in DOMAIN db.pig
               THEN [seen EXCEPT !.contributions[p] = Contributions(db, p)] ELSE seen
    /\ UNCHANGED <<page, db, ui, call, lost>>

-----------------------------------------------------------------------------
PigInit ==
    /\ page = "piggyBanks"
    /\ db = [pig |-> StartPigs, contrib |-> StartContribs]
    /\ seen = [list |-> NoData, item |-> [p \in PigIds |-> NoData],
               contributions |-> [p \in PigIds |-> NoData]]
    /\ \E view \in {"list", "detail", "form"}, p \in DOMAIN StartPigs \cup {None} :
          /\ view = "list" => p = None
          /\ view = "detail" => p # None
          /\ ui = [view |-> view, subject |-> p, adding |-> FALSE, goal |-> BlankGoal,
                   contribution |-> BlankContribution, remove |-> None, deleting |-> FALSE,
                   target |-> None, touched |-> FALSE, draft |-> 0, opens |-> 0]
    /\ due = InUse
    /\ call = [k \in Slots |-> Idle]
    /\ lost = FALSE

PigNext ==
    \/ GoalUser
    \/ \E k \in Slots : ServePig(k) \/ AnswerPig(k) \/ Fails(k, ui)
    \/ FetchList
    \/ \E p \in PigIds : FetchItem(p) \/ FetchContributions(p)

-----------------------------------------------------------------------------
(***************************************************************************)
(* Properties.                                                             *)
(***************************************************************************)
PigsTypeOK ==
    /\ DOMAIN db.pig \subseteq PigIds
    /\ \A c \in DOMAIN db.contrib : db.contrib[c].pig \in DOMAIN db.pig
    /\ ui.view \in {"list", "detail", "form", "left"} /\ ui.subject \in PigIds \cup {None}
    /\ due \subseteq InUse
    /\ CallRow({"create", "patch", "delete", "deleteHere", "add", "remove"})

\* Once all calls are answered and nothing is being fetched, list, goal and contributions
\* are the server's - unless an answer was lost.
PigsCurrent ==
    ~lost /\ due = {} /\ (\A k \in Slots : ~Running(k)) =>
        /\ ui.view = "list" => seen.list = [p \in DOMAIN db.pig |-> Answer(db, p)]
        /\ ui.subject \in DOMAIN db.pig =>
              /\ seen.item[ui.subject] = Answer(db, ui.subject)
              /\ ui.view # "form" => seen.contributions[ui.subject] = Contributions(db, ui.subject)

\* A draft of a goal or of a contribution makes one row, however often it is submitted -
\* unless an answer was lost.
OneRowPerDraft ==
    ~lost => \A rows \in {db.pig, db.contrib} :
        \A r, s \in DOMAIN rows \cap NewIds : rows[r].draft = rows[s].draft => r = s

\* Until the user types, the form of a goal shows it as last fetched.
FormIsTheGoal == ui.view = "form" /\ Loaded /\ ~ui.touched => ui.goal = FormOf(seen.item[ui.subject])

\* A goal is marked as completed exactly when its contributions reach its target, through
\* adding, removing, lowering and raising the target in any order.
CompletedMeansReached ==
    \A p \in DOMAIN db.pig : db.pig[p].completed <=> Total(db, p) >= db.pig[p].target
=============================================================================
