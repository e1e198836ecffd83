------------------------------ MODULE SaleClosing ------------------------------
(***************************************************************************)
(* The closing of a sale: the profit is calculated, shared among the       *)
(* investors and entered in the cash book, while other requests close the  *)
(* same sale, edit it, delete it or change what its vehicle cost.          *)
(*                                                                         *)
(* confirmar (components/xtreme_system/fechamento_venda/core.py) is one    *)
(* transaction, and locks nothing before its INSERT.  The other operations *)
(* change rows that it only reads, and appear here as their commits.       *)
(***************************************************************************)
EXTENDS ProfitShares

CONSTANTS
  Requests,   \* closings that may be open at once
  Sales,      \* ids of sales; each sells a vehicle of its own
  None,       \* no sale, no closing
  Dono,       \* the investor that owns the vehicles
  Precos,     \* values a sale may have
  Debitos,    \* debts of its vehicle that a sale may pay
  Custos,     \* what a vehicle may have cost: its purchase and its expenses
  Rateios     \* shares a request may ask for

Vendas ==
  [valor : Precos, debitos : Debitos, concluida : BOOLEAN, pagamento_pendente : BOOLEAN]

Partes == [investidor : Investidores, percentual : Nat \ {0}, valor : Nat \ {0}]

Fechamentos ==
  [receita : Precos, custo : Custos, debitos : Debitos, lucro : Int,
   participacoes : Seq(Partes)]

Lancamentos ==
  [investidor : Investidores, valor : Nat \ {0},
   tipo : {"receita_venda", "distribuicao_lucro"}]

ASSUME ClosingAssumption ==
  /\ None \notin Vendas \cup Fechamentos \cup Sales
  /\ Dono \in Investidores
  /\ Precos \subseteq Nat \ {0} /\ Debitos \subseteq Nat /\ Custos \subseteq Nat
  /\ Rateios \subseteq Seq(Participacoes)

VARIABLES
  venda,         \* committed sales
  custo,         \* what the vehicle of each sale has cost
  fechamento,    \* committed closing of each sale
  lancamentos,   \* committed cash entries of the closing of each sale
  pc,            \* where each request is
  tx             \* what each request works on

vars == <<venda, custo, fechamento, lancamentos, pc, tx>>

PCs == {"idle", "calcular", "validar", "inserir", "distribuir", "commit"}

\* sale, venda: the sale as it was loaded; novo, novos: the closing of this
\* transaction (calculated, then written) and its cash entries.
Transacoes ==
  [sale : Sales \cup {None}, venda : Vendas \cup {None},
   rateio : Seq(Participacoes), novo : Fechamentos \cup {None},
   novos : Seq(Lancamentos)]

Transacao(s, v, rateio) ==
  [sale |-> s, venda |-> v, rateio |-> rateio, novo |-> None, novos |-> <<>>]

Nenhuma == Transacao(None, None, <<>>)

Init ==
  /\ venda = [s \in Sales |-> None]
  /\ custo \in [Sales -> Custos]
  /\ fechamento = [s \in Sales |-> None]
  /\ lancamentos = [s \in Sales |-> <<>>]
  /\ pc = [r \in Requests |-> "idle"]
  /\ tx = [r \in Requests |-> Nenhuma]

-----------------------------------------------------------------------------
\* Requests whose uncommitted closing of s is inserted.
Inseridos(s) == {r \in Requests : pc[r] \in {"distribuir", "commit"} /\ tx[r].sale = s}

\* caixa.criar_lancamento_fechamento, for the revenue and for each share.
LancamentosDe(f) ==
  <<[investidor |-> Dono, tipo |-> "receita_venda", valor |-> f.receita]>> \o
  [i \in DOMAIN f.participacoes |->
     [investidor |-> f.participacoes[i].investidor, tipo |-> "distribuicao_lucro",
      valor |-> f.participacoes[i].valor]]

\* The rows of the shares; a sale without profit has none.
ParticipacoesDe(rateio, lucro) ==
  IF lucro <= 0 THEN <<>>
  ELSE LET valores == DistribuirLucro(rateio, lucro)
       IN  [i \in DOMAIN rateio |->
              [investidor |-> rateio[i].investidor,
               percentual |-> Quantizar(rateio[i].percentual), valor |-> valores[i]]]

\* Mutant: no CHECK constraint on the entries.
DistribuicaoFalhaNunca(ps) == FALSE

\* The CHECK constraints: a share of 0.00%, or an entry of 0.00.
DistribuicaoFalha(ps) == \E i \in DOMAIN ps : ps[i].percentual = 0 \/ ps[i].valor = 0

-----------------------------------------------------------------------------
(* confirmar.                                                              *)

\* The route loads the sale; the html route then awaits the form.
Abrir(r) ==
  \E s \in Sales, rateio \in Rateios :
    /\ pc[r] = "idle" /\ venda[s] # None
    /\ pc' = [pc EXCEPT ![r] = "calcular"]
    /\ tx' = [tx EXCEPT ![r] = Transacao(s, venda[s], rateio)]
    /\ UNCHANGED <<venda, custo, fechamento, lancamentos>>

\* _calcular: value and debts of the loaded sale, the cost as it is now.
Calcular(r) ==
  LET s == tx[r].sale
      v == tx[r].venda
  IN  /\ pc[r] = "calcular"
      /\ tx' = [tx EXCEPT ![r].novo =
                  [receita |-> v.valor, custo |-> custo[s], debitos |-> v.debitos,
                   lucro |-> v.valor - custo[s] - v.debitos, participacoes |-> <<>>]]
      /\ pc' = [pc EXCEPT ![r] = "validar"]
      /\ UNCHANGED <<venda, custo, fechamento, lancamentos>>

\* _motivo_inelegivel, on the loaded sale.
Elegivel(r) ==
  /\ fechamento[tx[r].sale] = None
  /\ tx[r].venda.concluida /\ ~tx[r].venda.pagamento_pendente

Validar(r) ==
  /\ pc[r] = "validar"
  /\ Elegivel(r) /\ ParticipacoesValidas(tx[r].rateio, tx[r].novo.lucro)
  /\ pc' = [pc EXCEPT ![r] = "inserir"]
  /\ UNCHANGED <<venda, custo, fechamento, lancamentos, tx>>

\* The INSERT fails: the sale is gone, or has been closed meanwhile.
InsercaoFalha(s) == venda[s] = None \/ fechamento[s] # None

\* Mutant: no unique constraint on the sale.
InserirSemUnicidade(r) ==
  /\ pc[r] = "inserir"
  /\ venda[tx[r].sale] # None
  /\ pc' = [pc EXCEPT ![r] = "distribuir"]
  /\ UNCHANGED <<venda, custo, fechamento, lancamentos, tx>>

\* The INSERT waits for another closing of the sale to end.
Inserir(r) ==
  /\ pc[r] = "inserir"
  /\ ~InsercaoFalha(tx[r].sale) /\ Inseridos(tx[r].sale) = {}
  /\ pc' = [pc EXCEPT ![r] = "distribuir"]
  /\ UNCHANGED <<venda, custo, fechamento, lancamentos, tx>>

\* The entry of the revenue, then a share and an entry for each investor.
Distribuir(r) ==
  LET f == [tx[r].novo EXCEPT
              !.participacoes = ParticipacoesDe(tx[r].rateio, tx[r].novo.lucro)]
  IN  /\ pc[r] = "distribuir"
      /\ ~DistribuicaoFalha(f.participacoes)
      /\ tx' = [tx EXCEPT ![r].novo = f, ![r].novos = LancamentosDe(f)]
      /\ pc' = [pc EXCEPT ![r] = "commit"]
      /\ UNCHANGED <<venda, custo, fechamento, lancamentos>>

Terminar(r) ==
  /\ pc' = [pc EXCEPT ![r] = "idle"]
  /\ tx' = [tx EXCEPT ![r] = Nenhuma]

Commit(r) ==
  LET s == tx[r].sale
  IN  /\ pc[r] = "commit"
      /\ fechamento' = [fechamento EXCEPT ![s] = tx[r].novo]
      /\ lancamentos' = [lancamentos EXCEPT ![s] = @ \o tx[r].novos]
      /\ Terminar(r)
      /\ UNCHANGED <<venda, custo>>

\* FechamentoVendaError: 400, and nothing was written.
Recusar(r) ==
  /\ pc[r] = "validar"
  /\ ~(Elegivel(r) /\ ParticipacoesValidas(tx[r].rateio, tx[r].novo.lucro))
  /\ Terminar(r)
  /\ UNCHANGED <<venda, custo, fechamento, lancamentos>>

\* An IntegrityError, which no route catches, or any other failure: rollback.
Falhar(r) ==
  /\ pc[r] # "idle"
  /\ Terminar(r)
  /\ UNCHANGED <<venda, custo, fechamento, lancamentos>>

-----------------------------------------------------------------------------
(* The other requests, as they commit.                                     *)

\* A sale is created, under an id that no request knows, or edited, closed or
\* not: its value, its debts, its status and whether a payment is pending.
GravarVenda ==
  \E s \in Sales, v \in Vendas :
    /\ venda[s] = None => \A r \in Requests : tx[r].sale # s
    /\ venda' = [venda EXCEPT ![s] = v]
    /\ UNCHANGED <<custo, fechamento, lancamentos, pc, tx>>

\* Its closing and the entries of the closing go with a sale (ON DELETE
\* CASCADE); the DELETE waits for a closing that refers to it.
ExcluirVenda ==
  \E s \in Sales :
    /\ venda[s] # None /\ Inseridos(s) = {}
    /\ venda' = [venda EXCEPT ![s] = None]
    /\ fechamento' = [fechamento EXCEPT ![s] = None]
    /\ lancamentos' = [lancamentos EXCEPT ![s] = <<>>]
    /\ UNCHANGED <<custo, pc, tx>>

\* A purchase, the price or an expense of the vehicle changes.
GravarCusto ==
  \E s \in Sales, c \in Custos :
    /\ custo' = [custo EXCEPT ![s] = c]
    /\ UNCHANGED <<venda, fechamento, lancamentos, pc, tx>>

-----------------------------------------------------------------------------
Confirmar(r) ==
  \/ Abrir(r) \/ Calcular(r) \/ Validar(r) \/ Recusar(r) \/ Inserir(r)
  \/ Distribuir(r) \/ Commit(r) \/ Falhar(r)

Next ==
  \/ \E r \in Requests : Confirmar(r)
  \/ GravarVenda \/ ExcluirVenda \/ GravarCusto

Spec == Init /\ [][Next]_vars

-----------------------------------------------------------------------------
(* Properties.                                                             *)

\* Types, and the CHECK constraints: nobody is entered for nothing.
TypeClosing ==
  /\ venda \in [Sales -> Vendas \cup {None}]
  /\ custo \in [Sales -> Custos]
  /\ fechamento \in [Sales -> Fechamentos \cup {None}]
  /\ lancamentos \in [Sales -> Seq(Lancamentos)]
  /\ pc \in [Requests -> PCs]
  /\ tx \in [Requests -> Transacoes]

\* The cash book has exactly the entries of the committed closings: one
\* revenue and one entry per share, although a sale is closed twice at once,
\* closed while it is deleted, or a closing fails half way.
CaixaEspelhaFechamentos ==
  \A s \in Sales :
    lancamentos[s] = IF fechamento[s] = None THEN <<>> ELSE LancamentosDe(fechamento[s])

\* A closing refers to a sale.
FechamentoTemVenda == \A s \in Sales : fechamento[s] # None => venda[s] # None

\* A closing is final: it goes with its sale, and nothing else changes it.
FechamentoDefinitivo ==
  [][\A s \in Sales :
       fechamento[s] # None /\ venda'[s] # None => fechamento'[s] = fechamento[s]]_vars

\* What the investors are left with after a closing is the cost and the debts
\* (or all they received, where there was no profit): no cent is lost or made.
Saldo(ls) ==
  SumFunction([i \in DOMAIN ls |->
                 IF ls[i].tipo = "receita_venda" THEN ls[i].valor ELSE -ls[i].valor])

NenhumCentavoSePerde ==
  \A s \in Sales :
    fechamento[s] # None =>
      Saldo(lancamentos[s]) =
        IF fechamento[s].lucro > 0 THEN fechamento[s].custo + fechamento[s].debitos
        ELSE fechamento[s].receita

\* Every share is its exact part rounded to a cent next to it, and the cents
\* left over went to the largest rests.
PartesJustas ==
  \A s \in Sales :
    LET f  == fechamento[s]
        ps == [i \in DOMAIN f.participacoes |->
                 [percentual |-> f.participacoes[i].percentual * Centesimo]]
    IN  f # None =>
          MaioresRestos(ps, f.lucro, [i \in DOMAIN ps |-> f.participacoes[i].valor])

\* What a closing hands out is fair to the cent and complete.
RateioJusto == NenhumCentavoSePerde /\ PartesJustas

\* The shares of a closing add up to its profit.
PartesSomamLucro ==
  \A s \in Sales :
    fechamento[s] # None /\ fechamento[s].lucro > 0 =>
      SomaDe([i \in DOMAIN fechamento[s].participacoes |->
                fechamento[s].participacoes[i].valor]) = fechamento[s].lucro

=============================================================================
