SPECIFICATION Spec
CONSTANTS
  Vehicles = {v1, v2}
  Sales = {s1, s2, s3}
  None = None
  NoRow = NoRow
  Requests = {r1, r2, r3}
  Kinds = {"create", "delete"}
  RowInputs <- MCRows
  EditInputs = {"disponivel"}
  TradeIns = {}
  SaleStatuses = {"pendente", "concluido", "aprovado"}
  SoldVehicles = {v1, v2}
SYMMETRY Symmetry
CHECK_DEADLOCK FALSE
PROPERTIES OnlyAvailableIsSold ImplementsLedger
