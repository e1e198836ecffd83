SPECIFICATION Spec
CONSTANTS
  Investidores = {i1, i2, i3}
  Ninguem = Ninguem
  i1 = i1
  i2 = i2
  i3 = i3
  Cem = 10000
  Centesimo = 1
  Requests = {r1, r2}
  Sales = {s1}
  None = None
  Dono = i1
  Precos = {110}
  Debitos = {0, 4}
  Custos = {100, 110}
  Rateios <- RateiosExatos
SYMMETRY Symmetry
CHECK_DEADLOCK FALSE
INVARIANTS TypeClosing CaixaEspelhaFechamentos RateioJusto
PROPERTY FechamentoDefinitivo
