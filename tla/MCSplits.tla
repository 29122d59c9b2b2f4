------------------------------ MODULE MCSplits ------------------------------
(***************************************************************************)
(* A small household: two expenses, two incomes, one friend.               *)
(***************************************************************************)
EXTENDS Splits, TLC

MCTxnIds == {"e1", "e2", "i1", "i2"}
MCSplitIds == {"s1", "s2"}
ShareSymmetry == Permutations(ShareIds)
MCPayees == {"friend"}
MCTxnTypes == {"expense", "income"}
MCTxnPayee == [t \in MCTxnIds |-> IF t = "i1" THEN "friend" ELSE NoPayee]
MCAmounts == 1..2
MCTxnValues == {<<"expense", 2>>, <<"income", 2>>}

MCInitialTxns ==
    [t \in {"e1", "e2", "i1"} |->
        [type |-> IF t = "i1" THEN "income" ELSE "expense",
         amount |-> IF t = "i1" THEN 2 ELSE 1,
         state |-> "live"]]

\* Bodies of one or two shares; the friend may owe, be forgiven part, or have
\* paid with an income, and there may be an own share.
Share(amount, forgiven, incomes) ==
    [amount |-> amount, forgiven |-> forgiven, incomes |-> incomes]

FriendShares == {Share(a, f, T) : a \in 1..2, f \in 0..1, T \in {{}, {"i1"}, {"i2"}}}

MCBodies ==
    {[p \in {"friend"} |-> x] : x \in FriendShares}
    \cup {[p \in {"friend", NoPayee} |-> IF p = "friend" THEN x ELSE Share(1, 0, {})] :
             x \in FriendShares}

MCWriteOffs == {[p \in {} |-> 0], [p \in {NoPayee} |-> 1]}
=============================================================================
