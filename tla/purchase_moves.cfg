SPECIFICATION Spec
CONSTANTS
  Requests = {r1}
  Vehicles = {v1, v2}
  v1 = v1
  x1 = x1
  x2 = x2
  Caixa <- MCCaixa
  Clients = {c1}
  Entries = {1, 2}
  Keys = {k1, k2}
  Donos = {d1}
  Consignado = Consignado
  Inputs <- MCOneInput
  Ops = {"buy", "update", "json_update", "json_delete", "register"}
  NoRow = NoRow
  Untouched = Untouched
  None = None
SYMMETRY Symmetry
CHECK_DEADLOCK FALSE
INVARIANT CashAlwaysMirrors
