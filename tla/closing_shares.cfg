SPECIFICATION Spec
CONSTANTS
  Investidores = {i1, i2, i3}
  Ninguem = Ninguem
  i1 = i1
  i2 = i2
  i3 = i3
  Cem = 40000
  Centesimo = 4
  Requests = {r1}
  Sales = {s1}
  None = None
  Dono = i1
  Precos = {50001}
  Debitos = {0}
  Custos = {1}
  Rateios <- RateiosAproximados
SYMMETRY Symmetry
CHECK_DEADLOCK FALSE
INVARIANT PartesSomamLucro
