SPECIFICATION Spec
CONSTANTS
  Vehicles = {v1}
  Sales = {s1}
  None = None
  NoRow = NoRow
  Requests = {r1, r2}
  Kinds = {"create", "delete", "manual"}
  RowInputs <- MCRows
  EditInputs = {"indisponivel"}
  TradeIns = {}
  SaleStatuses = {"pendente"}
  SoldVehicles = {v1}
SYMMETRY Symmetry
CHECK_DEADLOCK FALSE
PROPERTY OverrideIsKept
