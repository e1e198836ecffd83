---------------------------- MODULE MCSaleClosing ----------------------------
(* Instances of SaleClosing for TLC. *)
EXTENDS SaleClosing, TLC

CONSTANTS i1, i2, i3

Parte(i, p) == [investidor |-> i, percentual |-> p]

\* Shares with two decimals: valid, too small, incomplete, repeated, unknown,
\* none.
RateiosExatos ==
  { <<Parte(i1, 3333), Parte(i2, 3333), Parte(i3, 3334)>>,
    <<Parte(i1, 9999), Parte(i3, 1)>>,
    <<Parte(i1, 9000)>>,
    <<Parte(i1, 5000), Parte(i1, 5000)>>,
    <<Parte(i1, 5000), Parte(Ninguem, 5000)>>,
    <<>> }

\* One share of 99.9975%; shares of 50.0025% and 50%.
RateiosAproximados == { <<Parte(i1, 39999)>>, <<Parte(i1, 20001), Parte(i2, 20000)>> }

Symmetry == Permutations(Requests) \cup Permutations(Sales)
=============================================================================
