--------------------------- MODULE TransactionList ---------------------------
(***************************************************************************)
(* The list of transactions (pages/Transactions.tsx, api/transactions.ts): *)
(* filters, sorting and pages, the description edited in its row, deleting *)
(* and the drawer of one transaction.                                      *)
(*                                                                         *)
(* The filters, the order, the size of a page, its number and the cursor   *)
(* that loads it live in the URL, the period in the bar above every page.  *)
(* A cursor is the last row of the page before, encoded by what the list   *)
(* is sorted by.  What the page remembers is the cursor of each page it    *)
(* has been to.                                                            *)
(***************************************************************************)
EXTENDS Screen, SequencesExt

CONSTANTS Rows,        \* ids of the transactions, numbers: they break ties
          Day, Amount, Kind,  \* of each transaction
          Linked,      \* those linked into a split
          SettledIn,   \* the split each is a payment for, or None
          ExpenseOf,   \* the split each is an expense of, or None
          FilterTypes, \* bound: the types filtered by, None among them
          Sorts,       \* bound: the orders chosen, as <<by, dir>>
          Sizes,       \* bound: the sizes of a page
          Periods,     \* bound: the periods chosen, as sets of days
          ThisMonth,   \* the period of a page just loaded
          Moves        \* bound: how often the user moves in the list in a visit

DefaultSort == <<"date", "desc">>
DefaultSize == 1

-----------------------------------------------------------------------------
(***************************************************************************)
(* The URL, and what the page asks for.                                    *)
(***************************************************************************)
NewUrl == [type |-> None, sort |-> DefaultSort, size |-> DefaultSize, page |-> 1, cursor |-> None]

\* The cursor remembered for the page's number comes before the URL's own.
CursorOf(u) ==
    IF u.page \in DOMAIN ui.cursors /\ ui.cursors[u.page] # None THEN ui.cursors[u.page] ELSE u.cursor

FreshCursors == [n \in {1} |-> None]

CursorsOf(u) ==
    IF u.page > 1 /\ u.cursor # None
    THEN [n \in {1, u.page} |-> IF n = 1 THEN None ELSE u.cursor] ELSE FreshCursors

Matching(type, period) ==
    {t \in db.live : (type # None => Kind[t] = type) /\ Day[t] \in period}

\* order_by(sort column, id), both in the one direction.
Before(s, t, sort) ==
    LET key(r) == IF sort[1] = "amount" THEN Amount[r] ELSE Day[r]
        ascending == key(s) < key(t) \/ (key(s) = key(t) /\ s < t)
    IN  s # t /\ (ascending <=> sort[2] = "asc")

\* The row that i - 1 others come before is the i-th.
InOrder(S, sort) ==
    [i \in 1..Cardinality(S) |-> CHOOSE t \in S : Cardinality({s \in S : Before(s, t, sort)}) = i - 1]

\* A cursor made for one column cannot be decoded as one for the other.
Decodes(cursor, sort) == cursor # None => cursor.by = sort[1]

After(S, cursor, sort) == {t \in S : cursor # None => Before(cursor.row, t, sort)}

\* GET /transactions: one row more than the page holds tells whether there is a next.
ListAnswer(u, period, cursor) ==
    LET matching == Matching(u.type, period)
        rest == InOrder(After(matching, cursor, u.sort), u.sort)
        items == SubSeq(rest, 1, Min({u.size, Len(rest)}))
    IN  IF ~Decodes(cursor, u.sort) THEN NoData
        ELSE [items |-> items, total |-> Cardinality(matching),
              text |-> [t \in ToSet(items) |-> db.text[t]],
              next |-> IF Len(rest) > u.size
                       THEN [by |-> u.sort[1], row |-> items[Len(items)]] ELSE None]

Items == IF seen.list = NoData THEN {} ELSE ToSet(seen.list.items)

NextCursor == IF seen.list = NoData THEN None ELSE seen.list.next

Total == IF seen.list = NoData THEN 0 ELSE seen.list.total

ShowPagination == Total > ui.url.size \/ ui.url.page > 1

NoEdit == [row |-> None, text |-> None]
NoDrawer == [txn |-> None, split |-> None]

\* A dialog or the drawer covers the page.
Covered == ui.deleting # None \/ ui.blocked \/ ui.drawer # NoDrawer

\* A description being typed: leaving its input, for whatever else, saves it first.
Typing == ui.edit.row \in Items /\ ~Pending("patch")

\* The rest of the page can be used.
PageFree == ~Covered /\ ~Typing

-----------------------------------------------------------------------------
(***************************************************************************)
(* Moving in the list.  walk is kept for the properties: the rows shown    *)
(* since the first page was, as long as the user only turned its pages.    *)
(***************************************************************************)
\* pushSearch: a new entry in the browser's history; what another URL showed is
\* not kept.  Turning to a page that is not the first takes the walk as far.
Goto(u, cursors, walk) ==
    /\ ui.moves < Moves
    /\ ui' = [ui EXCEPT !.url = u, !.back = Append(@, ui.url), !.cursors = cursors,
                        !.walk = walk, !.moves = @ + 1]
    /\ seen' = [list |-> NoData]
    /\ due' = {"list"}
    /\ UNCHANGED <<page, db, call, lost>>

\* Mutant: the cursor stays in the URL.
KeepsTheCursor(u) == [u EXCEPT !.page = 1]

FirstPage(u) == [u EXCEPT !.page = 1, !.cursor = None]

ToggleFilters == PageFree /\ ui.moves < Moves /\ Locally([ui EXCEPT !.filters = ~@])

ChooseType(type) ==
    PageFree /\ ui.filters /\ type # ui.pending /\ Locally([ui EXCEPT !.pending = type])

ApplyFilters ==
    /\ PageFree /\ ui.filters /\ ui.moves < Moves
    /\ ui' = [ui EXCEPT !.url = [FirstPage(@) EXCEPT !.type = ui.pending], !.filters = FALSE,
                        !.back = Append(@, ui.url), !.cursors = FreshCursors, !.moves = @ + 1]
    /\ seen' = [list |-> NoData]
    /\ due' = {"list"}
    /\ UNCHANGED <<page, db, call, lost>>

\* The panel stays open.
ClearFilters ==
    /\ PageFree /\ ui.filters /\ ui.moves < Moves
    /\ ui' = [ui EXCEPT !.url = [FirstPage(@) EXCEPT !.type = None], !.pending = None,
                        !.back = Append(@, ui.url), !.cursors = FreshCursors, !.moves = @ + 1]
    /\ seen' = [list |-> NoData]
    /\ due' = {"list"}
    /\ UNCHANGED <<page, db, call, lost>>

ChangePageSize(n) ==
    /\ PageFree /\ ShowPagination /\ n # ui.url.size
    /\ Goto([FirstPage(ui.url) EXCEPT !.size = n], FreshCursors, ui.walk)

ChangeSort(sort) ==
    /\ PageFree /\ sort # ui.url.sort
    /\ Goto([FirstPage(ui.url) EXCEPT !.sort = sort], FreshCursors, ui.walk)

GoNext ==
    /\ PageFree /\ Items # {} /\ NextCursor # None
    /\ LET n == ui.url.page + 1
       IN  Goto([ui.url EXCEPT !.page = n, !.cursor = NextCursor],
                [m \in DOMAIN ui.cursors \cup {n} |->
                    IF m = n THEN NextCursor ELSE ui.cursors[m]], ui.walk)

\* A page whose cursor is not remembered, after a reload, is given up for the first.
GoPrev ==
    /\ PageFree /\ Items # {} /\ ui.url.page > 1
    /\ LET n == IF ui.url.page - 1 \in DOMAIN ui.cursors THEN ui.url.page - 1 ELSE 1
       IN  Goto([ui.url EXCEPT !.page = n, !.cursor = ui.cursors[n]], ui.cursors, ui.walk)

-----------------------------------------------------------------------------
(***************************************************************************)
(* What the page does not know of: the browser's history and its reload,   *)
(* and the period.  Each leaves the page's number and cursor as they are.  *)
(***************************************************************************)
BrokenWalk(n) == IF n = 1 THEN ui.walk ELSE None

BrowserBack ==
    /\ ui.back # <<>> /\ ui.moves < Moves
    /\ LET u == Last(ui.back)
       IN  ui' = [ui EXCEPT !.url = u, !.back = Front(@), !.walk = BrokenWalk(u.page),
                            !.moves = @ + 1]
    /\ seen' = [list |-> NoData]
    /\ due' = {"list"}
    /\ UNCHANGED <<page, db, call, lost>>

Entered(u, period, walk, back, moves) ==
    [url |-> u, pending |-> u.type, cursors |-> CursorsOf(u), filters |-> FALSE,
     deleting |-> None, blocked |-> FALSE, drawer |-> NoDrawer, edit |-> NoEdit,
     period |-> period, walk |-> walk, back |-> back, moves |-> moves]

Reload ==
    /\ ui.moves < Moves
    /\ \A k \in Slots : ~Running(k)
    /\ ui' = Entered(ui.url, ThisMonth, BrokenWalk(ui.url.page), ui.back, ui.moves + 1)
    /\ seen' = [list |-> NoData]
    /\ due' = {"list"}
    /\ UNCHANGED <<page, db, call, lost>>

ChangePeriod(period) ==
    /\ PageFree /\ period # ui.period /\ ui.moves < Moves
    /\ ui' = [ui EXCEPT !.period = period, !.walk = BrokenWalk(ui.url.page), !.moves = @ + 1]
    /\ seen' = [list |-> NoData]
    /\ due' = {"list"}
    /\ UNCHANGED <<page, db, call, lost>>

-----------------------------------------------------------------------------
(***************************************************************************)
(* A row: its description, its drawer, deleting it.                        *)
(***************************************************************************)
StartEditDesc(t) ==
    /\ PageFree /\ t \in Items /\ ui.edit.row # t
    /\ Locally([ui EXCEPT !.edit = [row |-> t, text |-> seen.list.text[t]]])

TypeDesc ==
    /\ ~Covered /\ Typing /\ ui.edit.text # "new"
    /\ Locally([ui EXCEPT !.edit.text = "new"])

\* Enter, or leaving the input; nothing is sent for a text that did not change.
SaveEditDesc ==
    /\ ~Covered /\ Typing
    /\ IF ui.edit.text = seen.list.text[ui.edit.row]
       THEN Locally([ui EXCEPT !.edit = NoEdit])
       ELSE Sends("patch", ui.edit)

CancelEditDesc == ~Covered /\ ui.edit.row \in Items /\ Locally([ui EXCEPT !.edit = NoEdit])

\* The split the transaction pays for comes before the one it is an expense of.
OpenDrawer(t) ==
    /\ PageFree /\ t \in Items
    /\ Locally([ui EXCEPT !.drawer =
          [txn |-> t, split |-> IF SettledIn[t] # None THEN SettledIn[t] ELSE ExpenseOf[t]]])

CloseDrawer == ui.drawer # NoDrawer /\ Locally([ui EXCEPT !.drawer = NoDrawer])

OpenDelete(t) == PageFree /\ t \in Items /\ Locally([ui EXCEPT !.deleting = t])

\* The button is not disabled while the call is under way.
ConfirmDelete == ui.deleting # None /\ Sends("delete", [row |-> ui.deleting, text |-> None])

CancelDelete == ui.deleting # None /\ Locally([ui EXCEPT !.deleting = None])

CloseBlocked == ui.blocked /\ Locally([ui EXCEPT !.blocked = FALSE])

RowUser(t) == StartEditDesc(t) \/ OpenDrawer(t) \/ OpenDelete(t)

ListUser ==
    \/ ToggleFilters \/ ApplyFilters \/ ClearFilters \/ GoNext \/ GoPrev \/ BrowserBack \/ Reload
    \/ TypeDesc \/ SaveEditDesc \/ CancelEditDesc
    \/ CloseDrawer \/ ConfirmDelete \/ CancelDelete \/ CloseBlocked
    \/ \E type \in FilterTypes : ChooseType(type)
    \/ \E n \in Sizes : ChangePageSize(n)
    \/ \E sort \in Sorts : ChangeSort(sort)
    \/ \E period \in Periods : ChangePeriod(period)
    \/ \E t \in Items : RowUser(t)

-----------------------------------------------------------------------------
(***************************************************************************)
(* The server, and what comes back.                                        *)
(***************************************************************************)
RowAccepted(k) ==
    /\ call[k].body.row \in db.live
    /\ call[k].hook = "delete" => call[k].body.row \notin Linked

RowResult(k) ==
    IF call[k].hook = "delete" THEN [db EXCEPT !.live = @ \ {call[k].body.row}]
    ELSE [db EXCEPT !.text[call[k].body.row] = call[k].body.text]

ServeRow(k) == Running(k) /\ Serve(k, RowAccepted(k), RowResult(k))

\* Whichever row is being edited by then, or deleted, is given up.
HeardRow(k) ==
    IF call[k].hook = "delete" THEN [ui EXCEPT !.deleting = None] ELSE [ui EXCEPT !.edit = NoEdit]

\* useDeleteTransaction and usePatchTransaction
InvalidatedByRow(k) == {"list"}

AnswerRow(k) == Running(k) /\ Returns(k, InvalidatedByRow(k), HeardRow(k))

\* A linked transaction is refused, with the reason in a dialog.
RefuseRow(k) ==
    /\ Running(k) /\ call[k].state = "sent"
    /\ call[k].hook = "delete" /\ call[k].body.row \in Linked
    /\ Fails(k, [HeardRow(k) EXCEPT !.blocked = TRUE])

FailRow(k) == Running(k) /\ Fails(k, HeardRow(k))

WalkedTo(answer) ==
    IF ui.url.page = 1 THEN ToSet(answer.items)
    ELSE IF ui.walk = None THEN None ELSE ui.walk \cup ToSet(answer.items)

FetchList ==
    /\ due # {}
    /\ due' = {}
    /\ LET answer == ListAnswer(ui.url, ui.period, CursorOf(ui.url))
       IN  /\ seen' = [list |-> answer]
           /\ ui' = [ui EXCEPT !.walk = IF answer = NoData THEN None ELSE WalkedTo(answer)]
    /\ UNCHANGED <<page, db, call, lost>>

-----------------------------------------------------------------------------
ListInit ==
    /\ page = "transactions"
    /\ db = [live |-> Rows, text |-> [t \in Rows |-> "old"]]
    /\ seen = [list |-> NoData]
    /\ due = {"list"}
    /\ ui = [url |-> NewUrl, pending |-> None, cursors |-> FreshCursors, filters |-> FALSE,
             deleting |-> None, blocked |-> FALSE, drawer |-> NoDrawer, edit |-> NoEdit,
             period |-> ThisMonth, walk |-> None, back |-> <<>>, moves |-> 0]
    /\ call = [k \in Slots |-> Idle]
    /\ lost = FALSE

ListNext ==
    \/ ListUser
    \/ \E k \in Slots : ServeRow(k) \/ AnswerRow(k) \/ RefuseRow(k) \/ FailRow(k)
    \/ FetchList

-----------------------------------------------------------------------------
(***************************************************************************)
(* Properties.                                                             *)
(***************************************************************************)
ListTypeOK ==
    /\ db.live \subseteq Rows /\ ui.url.page \in Nat \ {0} /\ ui.url.size \in Sizes
    /\ seen.list # NoData => Len(seen.list.items) <= ui.url.size
    /\ ui.edit.row \in Rows \cup {None} /\ ui.deleting \in Rows \cup {None}
    /\ CallRow({"patch", "delete"})

\* Who turns the pages of the list from the first to the last has been shown every
\* transaction that matches, whatever was deleted or renamed on the way.
WalkShowsAll ==
    due = {} /\ seen.list # NoData /\ ui.walk # None /\ NextCursor = None
        => Matching(ui.url.type, ui.period) \subseteq ui.walk

\* Once nothing is under way, the list is what the server would answer.
ListCurrent ==
    ~lost /\ due = {} /\ (\A k \in Slots : ~Running(k))
        => seen.list = ListAnswer(ui.url, ui.period, CursorOf(ui.url))
=============================================================================
