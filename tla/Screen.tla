------------------------------- MODULE Screen -------------------------------
(***************************************************************************)
(* What every page of the client is built on: TanStack Query and fetch.    *)
(*                                                                         *)
(* A query keeps the answer it last had (seen) until it is refetched; one  *)
(* whose answer is to be fetched, because it has just been mounted, is     *)
(* polled or was invalidated, is due.  A mutation is a call: sent, then    *)
(* answered "ok" or "failed" - perhaps failed although the server did it,  *)
(* when the answer is lost - and its callbacks run after that.  Several    *)
(* calls may be under way, and the server takes them in any order.         *)
(*                                                                         *)
(* A fetch that fails, its retries too, leaves a query as it was.  That is *)
(* a step of its own where a page then shows a form it did not show while  *)
(* loading, or does without the answer (the earmarks, the transaction and  *)
(* the split form); elsewhere a fetch is assumed to come back in the end.  *)
(*                                                                         *)
(* A behaviour is one visit of one page: the page's local state (ui) lives *)
(* no longer than that.                                                    *)
(***************************************************************************)
EXTENDS Integers, FiniteSets, FiniteSetsExt

CONSTANTS None,    \* null, undefined, or nothing chosen
          NoData,  \* a query that has had no answer yet
          Idle,    \* the place of a call not sent yet
          Ended,   \* the place of a call whose callbacks have run
          Calls    \* bound: how many calls are sent in a visit

VARIABLES page,  \* the page visited
          db,    \* the tables of the server the page is about
          seen,  \* what each query of the page holds
          due,   \* the queries whose answer is to be fetched
          ui,    \* the local state of the page's components
          call,  \* the mutations of the visit, in the order they were sent
          lost   \* whether an answer has been lost during the visit

screenVars == <<page, db, seen, due, ui, call, lost>>

Slots == 1..Calls

Running(k) == call[k] \notin {Idle, Ended}

(***************************************************************************)
(* mutate and mutateAsync of the hook h with the variables b.  A second    *)
(* mutate of one hook takes the callbacks of the first away (heard).       *)
(***************************************************************************)
Free == {k \in Slots : call[k] = Idle}

Unheard(gone) ==
    [k \in Slots |-> IF Running(k) /\ gone[call[k].hook]
                     THEN [call[k] EXCEPT !.heard = FALSE] ELSE call[k]]

Started(h, b) ==
    [k \in Slots |->
        IF k = Min(Free)
        THEN [hook |-> h, body |-> b, state |-> "sent", awaits |-> {}, heard |-> TRUE]
        ELSE IF Running(k) /\ call[k].hook = h THEN [call[k] EXCEPT !.heard = FALSE]
        ELSE call[k]]

Mutate(h, b) == Free # {} /\ call' = Started(h, b)

\* Of a call that is over only its number is kept: those sent before move up.
Without(k) ==
    [j \in Slots |-> IF j = 1 THEN Ended ELSE IF j <= k THEN call[j - 1] ELSE call[j]]

\* isPending
Pending(h) == \E k \in Slots : Running(k) /\ call[k].hook = h /\ call[k].heard

(***************************************************************************)
(* The server does the call k (if ok), leaving the tables new.  The client *)
(* hears of it later, or not at all; a call may also fail before the       *)
(* server did anything.  new is the local state the callbacks leave.       *)
(***************************************************************************)
Serve(k, ok, new) ==
    /\ Running(k) /\ call[k].state = "sent" /\ ok
    /\ db' = new
    /\ call' = [call EXCEPT ![k].state = "done"]
    /\ UNCHANGED <<page, seen, due, ui, lost>>

Fails(k, new) ==
    /\ Running(k) /\ call[k].state \in {"sent", "done"}
    /\ call' = Without(k)
    /\ lost' = (lost \/ call[k].state = "done")
    /\ ui' = new
    /\ UNCHANGED <<page, db, seen, due>>

\* The hook's own onSuccess invalidates queries: they are fetched again.  One that
\* returns the promise of that holds the call until they are.
Settles(k, keys) ==
    /\ Running(k) /\ call[k].state = "done"
    /\ due' = due \cup keys
    /\ call' = [call EXCEPT ![k].state = "settling", ![k].awaits = keys]
    /\ UNCHANGED <<page, db, seen, ui, lost>>

Over(k, new) ==
    /\ Running(k) /\ call[k].state = "settling" /\ call[k].awaits \cap due = {}
    /\ call' = Without(k)
    /\ ui' = new
    /\ UNCHANGED <<page, db, seen, due, lost>>

\* One that returns nothing does not.
Returns(k, keys, new) ==
    /\ Running(k) /\ call[k].state = "done"
    /\ due' = due \cup keys
    /\ call' = Without(k)
    /\ ui' = new
    /\ UNCHANGED <<page, db, seen, lost>>

\* A step of the user that only changes local state.
Locally(new) == ui' = new /\ UNCHANGED <<page, db, seen, due, call, lost>>

\* A step of the user that sends a call.
Sends(h, b) == Mutate(h, b) /\ UNCHANGED <<page, db, seen, due, ui, lost>>

CallRow(hooks) ==
    \A k \in Slots : Running(k) =>
        /\ call[k].hook \in hooks
        /\ call[k].state \in {"sent", "done", "settling"}
        /\ call[k].heard \in BOOLEAN
=============================================================================
