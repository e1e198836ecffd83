------------------------------ MODULE SaleRules ------------------------------
(***************************************************************************)
(* The rules that tie the status of a vehicle to the rows of the sales     *)
(* table: components/xtreme_system/venda/status_veiculo.py.  There is no   *)
(* state here; SalesLedger and VehicleSales share these definitions.       *)
(*                                                                         *)
(* A row of the table is reduced to the three columns the rules read.      *)
(***************************************************************************)
EXTENDS Naturals, FiniteSets

CONSTANTS
  Vehicles,     \* ids of vehicles; a vehicle a sale refers to is never deleted
  Sales,        \* ids a sale may be given
  None,         \* "no vehicle", "no status": Python's None
  NoRow         \* the value of a sale id that has no row

StatusVenda == {"pendente", "aprovado", "cancelado", "concluido"}

StatusVeiculo ==
  {"disponivel", "indisponivel", "vendido", "reservado", "cancelado"}

Rows == [veiculo : Vehicles, troca : Vehicles \cup {None}, status : StatusVenda]

\* Sentinels are not members of the sets they extend.
ASSUME SentinelAssumption ==
  /\ None \notin Vehicles \cup Sales \cup StatusVeiculo
  /\ NoRow \notin Rows

-----------------------------------------------------------------------------
(* The three queries of the recomputation; excl is {} or the excluded id.  *)

TemOutraVenda(rows, v, st, excl) ==
  \E s \in Sales \ excl :
    rows[s] # NoRow /\ rows[s].veiculo = v /\ rows[s].status = st

TemOutraTrocaConcluida(rows, v, excl) ==
  \E s \in Sales \ excl :
    rows[s] # NoRow /\ rows[s].troca = v /\ rows[s].status = "concluido"

\* The status the sales give to v: a completed trade-in is looked at first.
StatusPorVendas(rows, v, excl) ==
  IF TemOutraTrocaConcluida(rows, v, excl)            THEN "disponivel"
  ELSE IF TemOutraVenda(rows, v, "concluido", excl)   THEN "vendido"
  ELSE IF TemOutraVenda(rows, v, "pendente", excl)    THEN "reservado"
  ELSE "disponivel"

\* recomputar_status_veiculo_por_vendas: "indisponivel" is never replaced.
Recomputado(rows, v, excl, atual) ==
  IF atual = "indisponivel" THEN atual ELSE StatusPorVendas(rows, v, excl)

\* Two rows the partial unique index uq_venda_veiculo_concluida keeps apart.
Clash(a, b) ==
  /\ a # NoRow /\ b # NoRow
  /\ a.status = "concluido" /\ b.status = "concluido"
  /\ a.veiculo = b.veiculo

=============================================================================
