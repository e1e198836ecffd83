---------------------------- MODULE MCStockEntries ----------------------------
(* Instances of StockEntries for TLC. *)
EXTENDS StockEntries, TLC

CONSTANTS v1, x1, x2

MCCaixa == [v \in Vehicles |-> IF v = v1 THEN x1 ELSE x2]

\* The dearer purchase may be the older one, and days may be equal.
MCInputs == {[valor |-> 1, dia |-> 2], [valor |-> 2, dia |-> 1]}

MCOneInput == {[valor |-> 1, dia |-> 1]}

Symmetry == Permutations(Requests) \cup Permutations(Keys)
=============================================================================
