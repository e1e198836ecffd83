SPECIFICATION Spec
CONSTANTS
  Vehicles = {v1, v2, v3}
  Sales = {s1, s2}
  None = None
  NoRow = NoRow
  Requests = {r1}
  Kinds = {"create", "update", "delete", "manual", "purchase"}
  RowInputs <- MCRows
  EditInputs = {"indisponivel", "disponivel", "cancelado"}
  TradeIns = {v3}
  SaleStatuses = {"pendente", "concluido", "cancelado"}
  SoldVehicles = {v1, v2}
SYMMETRY Symmetry
CHECK_DEADLOCK FALSE
PROPERTIES ImplementsLedger OnlyAvailableIsSold OverrideIsKept
