SPECIFICATION Spec
CONSTANTS
  Requests = {r1, r2}
  Vehicles = {v1}
  v1 = v1
  x1 = x1
  x2 = x2
  Caixa <- MCCaixa
  Clients = {c1}
  Entries = {1, 2}
  Keys = {k1, k2}
  Donos = {d1}
  Consignado = Consignado
  Inputs <- MCInputs
  Ops = {"buy", "consign", "update", "delete", "json_delete", "register", "edit", "drop"}
  NoRow = NoRow
  Untouched = Untouched
  None = None
SYMMETRY Symmetry
CHECK_DEADLOCK FALSE
INVARIANTS TypeStock OneEntryPerKey CashMirrors CreatesNeverDeadlock
PROPERTY NothingHalfCreated
