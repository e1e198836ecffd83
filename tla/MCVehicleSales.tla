---------------------------- MODULE MCVehicleSales ----------------------------
(* Instances of VehicleSales for TLC. *)
EXTENDS VehicleSales, TLC

CONSTANTS TradeIns,       \* vehicles that may be given in trade-in
          SaleStatuses,   \* statuses the requests ask for
          SoldVehicles    \* vehicles the requests sell

\* No request offers the vehicle it sells as the trade-in.
MCRows ==
  {row \in [veiculo : SoldVehicles, troca : TradeIns \cup {None}, status : SaleStatuses] :
     row.veiculo # row.troca}

Symmetry == Permutations(Requests) \cup Permutations(Sales)
=============================================================================
