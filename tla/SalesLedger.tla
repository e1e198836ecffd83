------------------------------ MODULE SalesLedger ------------------------------
(***************************************************************************)
(* What the sales operations promise, without transactions: each one       *)
(* changes the sales table and the status of every vehicle it concerns in  *)
(* a single step.  VehicleSales is checked to implement this module for    *)
(* requests one at a time, and for concurrent creates and deletes.         *)
(***************************************************************************)
EXTENDS SaleRules

VARIABLES
  venda,    \* the sales table
  status    \* the status of every vehicle

ledger == <<venda, status>>

Init ==
  /\ venda = [s \in Sales |-> NoRow]
  /\ status = [v \in Vehicles |-> "disponivel"]

Concerned(row) == IF row = NoRow THEN {} ELSE {row.veiculo, row.troca}

\* The new rows, and the vehicles of the old and of the new row recomputed.
Put(s, row) ==
  /\ \A u \in Sales \ {s} : ~Clash(venda[u], row)
  /\ venda' = [venda EXCEPT ![s] = row]
  /\ status' = [v \in Vehicles |->
       IF v \in Concerned(venda[s]) \cup Concerned(row)
         THEN Recomputado(venda', v, {}, status[v]) ELSE status[v]]

Create(s, row) ==
  /\ venda[s] = NoRow
  /\ status[row.veiculo] = "disponivel"
  /\ Put(s, row)

Update(s, row) ==
  /\ venda[s] # NoRow
  /\ row.veiculo # venda[s].veiculo => status[row.veiculo] = "disponivel"
  /\ Put(s, row)

Delete(s) ==
  /\ venda[s] # NoRow
  /\ Put(s, NoRow)

\* A manual edit; a purchase or a consignment cancelled or made valid again.
SetStatus(v, st) ==
  /\ status' = [status EXCEPT ![v] = st]
  /\ UNCHANGED venda

Next ==
  \/ \E s \in Sales, row \in Rows : Create(s, row) \/ Update(s, row)
  \/ \E s \in Sales : Delete(s)
  \/ \E v \in Vehicles, st \in StatusVeiculo : SetStatus(v, st)

Spec == Init /\ [][Next]_ledger

=============================================================================
