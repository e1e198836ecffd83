SPECIFICATION Spec
CONSTANTS
  Vehicles = {v1, v2}
  Sales = {s1}
  None = None
  NoRow = NoRow
  Requests = {r1}
  Kinds = {"create", "update"}
  RowInputs <- MCRows
  EditInputs = {"disponivel"}
  TradeIns = {v1, v2}
  SaleStatuses = {"pendente"}
  SoldVehicles = {v1, v2}
SYMMETRY Symmetry
CHECK_DEADLOCK FALSE
INVARIANT PendingIsReserved
