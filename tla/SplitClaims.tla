---------------------------- MODULE SplitClaims ----------------------------
(***************************************************************************)
(* What splitting promises about transactions, without shares, amounts or  *)
(* statuses: a split claims expense transactions as its parents and income *)
(* transactions as its payments.  In each role a transaction is claimed by *)
(* at most one split; an open split always has a parent; a step rewrites   *)
(* the claims of one split, taking only what is free; and closing a split  *)
(* frees all it held, for good.                                            *)
(***************************************************************************)
CONSTANTS TxnIds, SplitIds, Unclaimed

VARIABLES status,     \* of each split: "unused", "open" or "closed"
          parentOf,   \* the split each transaction is a parent expense of
          paymentOf   \* the split each transaction is a payment in

claims == <<status, parentOf, paymentOf>>

ClaimsInit ==
    /\ status = [s \in SplitIds |-> "unused"]
    /\ parentOf = [t \in TxnIds |-> Unclaimed]
    /\ paymentOf = [t \in TxnIds |-> Unclaimed]

Holders == [TxnIds -> SplitIds \cup {Unclaimed}]

\* Between holder and next, split s only takes free transactions and frees its own.
OnlyMoves(s, holder, next) ==
    \A t \in TxnIds : next[t] = holder[t] \/ {holder[t], next[t]} = {s, Unclaimed}

\* Open a split, or change what an open one claims.
Claim(s) ==
    /\ status[s] # "closed"
    /\ status' = [status EXCEPT ![s] = "open"]
    /\ parentOf' \in Holders /\ OnlyMoves(s, parentOf, parentOf')
    /\ \E t \in TxnIds : parentOf'[t] = s
    /\ paymentOf' \in Holders /\ OnlyMoves(s, paymentOf, paymentOf')

Freed(s, holder) == [t \in TxnIds |-> IF holder[t] = s THEN Unclaimed ELSE holder[t]]

Close(s) ==
    /\ status[s] = "open"
    /\ status' = [status EXCEPT ![s] = "closed"]
    /\ parentOf' = Freed(s, parentOf)
    /\ paymentOf' = Freed(s, paymentOf)

\* Payments that leave the database for good are no longer claimed.
Forget ==
    /\ paymentOf' \in Holders
    /\ \A t \in TxnIds : paymentOf'[t] \in {paymentOf[t], Unclaimed}
    /\ UNCHANGED <<status, parentOf>>

ClaimsNext == (\E s \in SplitIds : Claim(s) \/ Close(s)) \/ Forget

ClaimsSpec == ClaimsInit /\ [][ClaimsNext]_claims
=============================================================================
