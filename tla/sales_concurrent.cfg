SPECIFICATION Spec
CONSTANTS
  Vehicles = {v1, v2}
  Sales = {s1, s2}
  None = None
  NoRow = NoRow
  Requests = {r1, r2}
  Kinds = {"create", "update", "manual"}
  RowInputs <- MCRows
  EditInputs = {"disponivel"}
  TradeIns = {v2}
  SaleStatuses = {"pendente", "concluido"}
  SoldVehicles = {v1, v2}
SYMMETRY Symmetry
CHECK_DEADLOCK FALSE
INVARIANTS TypeOK UniqueConcluded
