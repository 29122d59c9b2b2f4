---------------------------- MODULE MCSplitRaces ----------------------------
(***************************************************************************)
(* Two request slots, on a database with one split of one expense between  *)
(* the user and a friend, a free expense, and an income that is free or has   *)
(* paid the friend's share.                                                *)
(***************************************************************************)
EXTENDS SplitRaces, TLC

WorkerSymmetry == Permutations(Workers)

MCTxnIds == {"e1", "e2", "i1"}
MCSplitIds == {"s1", "s2"}
MCShareIds == 1..8
MCPayees == {"friend"}
MCTxnTypes == {"expense", "income"}
MCTxnPayee == [t \in MCTxnIds |-> NoPayee]
MCAmounts == 1..2
MCTxnValues == {<<"expense", 1>>, <<"income", 2>>}

ShareOf(payee, status) ==
    [split |-> "s1", payee |-> payee, amount |-> 1, forgiven |-> 0, status |-> status]

\* The friend has not paid yet, or has paid with the income.
DbWith(status, paid) ==
    [txn |-> [t \in MCTxnIds |-> [type |-> IF t = "i1" THEN "income" ELSE "expense",
                                  amount |-> IF t = "e1" THEN 2 ELSE 1,
                                  state |-> "live"]],
     payee |-> [p \in MCPayees |-> "live"],
     split |-> [s \in {"s1"} |-> "live"],
     share |-> [h \in 1..2 |-> IF h = 1 THEN ShareOf("friend", status)
                               ELSE ShareOf(NoPayee, "pending")],
     links |-> {[split |-> "s1", txn |-> "e1"]},
     paid  |-> paid]

MCInitialDbs ==
    {DbWith("pending", {}),
     DbWith("settled", {[share |-> 1, txn |-> "i1", amount |-> 1]})}

Draft1(amount, incomes) == [amount |-> amount, forgiven |-> 0, incomes |-> incomes]

MCBodies ==
    {[p \in {"friend"} |-> Draft1(a, T)] : a \in 1..2, T \in {{}, {"i1"}}}
    \cup {[p \in {"friend", NoPayee} |-> Draft1(1, {})]}
=============================================================================
