----------------------------- MODULE MCImports -----------------------------
(***************************************************************************)
(* Two files, the second of which repeats a line of the first, as two       *)
(* statements with overlapping periods do.                                 *)
(***************************************************************************)
EXTENDS Imports, TLC

SlotSymmetry == Permutations(Slots)

MCLine(day, amount) == [day |-> day, amount |-> amount]

MCBatches == {"b1", "b2"}
MCStatement ==
    [b \in MCBatches |-> IF b = "b1" THEN <<MCLine(1, 1), MCLine(2, 1)>> ELSE <<MCLine(1, 1)>>]

\* Time zones: behind UTC, and ahead of it as the default Asia/Kolkata is.
MCBehindUtc == -5
MCAheadOfUtc == 5

MCPatchStatuses == {"pending", "rejected"}
=============================================================================
