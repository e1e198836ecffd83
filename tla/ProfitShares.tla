----------------------------- MODULE ProfitShares -----------------------------
(***************************************************************************)
(* How the profit of a sale is shared: the validation of the shares and    *)
(* the distribution of the cents, components/xtreme_system/                *)
(* fechamento_venda/core.py.                                               *)
(*                                                                         *)
(* Money is counted in cents, a percentage in the smallest unit anybody    *)
(* sends: Cem units are 100%, Centesimo units are 0.01%.                   *)
(***************************************************************************)
EXTENDS Integers, Sequences, FiniteSets, Functions

CONSTANTS
  Investidores,   \* ids of investors
  Ninguem,        \* an id no investor has
  Cem,            \* units of 100%
  Centesimo       \* units of 0.01%

ASSUME ScaleAssumption ==
  /\ Centesimo \in Nat \ {0}
  /\ Cem = 10000 * Centesimo
  /\ Ninguem \notin Investidores

\* ParticipacaoFechamentoVendaCreate: more than 0% and at most 100%.
Participacoes == [investidor : Investidores \cup {Ninguem}, percentual : 1..Cem]

-----------------------------------------------------------------------------
(* _validar_participacoes.                                                 *)

\* ROUND_HALF_UP to two decimals.
Quantizar(p) == (p + Centesimo \div 2) \div Centesimo

Percentual(ps) == SumFunction([i \in DOMAIN ps |-> ps[i].percentual])

ParticipacoesValidas(ps, lucro) ==
  IF lucro <= 0 THEN ps = <<>>
  ELSE /\ ps # <<>>
       /\ \A i, j \in DOMAIN ps : i # j => ps[i].investidor # ps[j].investidor
       /\ \A i \in DOMAIN ps : ps[i].investidor \in Investidores
       /\ Quantizar(Percentual(ps)) = Quantizar(Cem)

-----------------------------------------------------------------------------
(* _distribuir_lucro: rounded down, then one cent to the largest rests.    *)

Truncado(lucro, p) == (lucro * p) \div Cem

Resto(lucro, p) == (lucro * p) % Cem

CentavosRestantes(ps, lucro) ==
  lucro - SumFunction([i \in DOMAIN ps |-> Truncado(lucro, ps[i].percentual)])

\* Shares before i in the order by rest; the sort is stable.
Antes(ps, lucro, i) ==
  LET resto(j) == Resto(lucro, ps[j].percentual)
  IN  {j \in DOMAIN ps : resto(j) > resto(i) \/ (resto(j) = resto(i) /\ j < i)}

\* Mutant: the first shares of the list get the cents.
PremiadosEmOrdem(ps, lucro) == {i \in DOMAIN ps : i <= CentavosRestantes(ps, lucro)}

\* The shares that get one cent more: a prefix of that order.  A negative
\* number of cents counts from the end, as a slice does.
Premiados(ps, lucro) ==
  LET k == CentavosRestantes(ps, lucro)
      n == IF k >= 0 THEN k ELSE Len(ps) + k
  IN  {i \in DOMAIN ps : Cardinality(Antes(ps, lucro, i)) < n}

DistribuirLucro(ps, lucro) ==
  [i \in DOMAIN ps |->
     Truncado(lucro, ps[i].percentual) + (IF i \in Premiados(ps, lucro) THEN 1 ELSE 0)]

-----------------------------------------------------------------------------
(* What a distribution should be.                                          *)

SomaDe(valores) == SumFunction(valores)

\* Each share is its exact part rounded down or up, and nobody is rounded up
\* before somebody with a larger rest.
MaioresRestos(ps, lucro, valores) ==
  LET a_mais(i) == valores[i] - Truncado(lucro, ps[i].percentual)
  IN  /\ \A i \in DOMAIN ps : a_mais(i) \in {0, 1}
      /\ \A i, j \in DOMAIN ps :
           a_mais(i) < a_mais(j)
             => Resto(lucro, ps[i].percentual) <= Resto(lucro, ps[j].percentual)

=============================================================================
