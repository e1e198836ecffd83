--------------------------- MODULE SaleClosingProofs ---------------------------
(***************************************************************************)
(* The cash book mirrors the closings, a closing has its sale and is       *)
(* final, and hands out its profit to the cent: for any number of sales,   *)
(* of concurrent closings and of shares.                                   *)
(***************************************************************************)
EXTENDS SaleClosing, FiniteSetTheorems, WellFoundedInduction, TLAPS

(***************************************************************************)
(* What a request carries in each phase.                                   *)
(***************************************************************************)
Fase(t, where) ==
  /\ where = "idle" => t = Nenhuma
  /\ where # "idle" => t.sale \in Sales /\ t.venda \in Vendas
  /\ where \in {"validar", "inserir", "distribuir"} => t.novo \in Fechamentos
  /\ where \in {"inserir", "distribuir"} => ParticipacoesValidas(t.rateio, t.novo.lucro)
  /\ where = "commit" => t.novo \in Fechamentos /\ t.novos = LancamentosDe(t.novo)

Fases == \A r \in Requests : Fase(tx[r], pc[r])

\* A sale with an inserted, uncommitted closing is there, has no other closing
\* and no other insertion.
InsercaoUnica ==
  \A r \in Requests :
    pc[r] \in {"distribuir", "commit"} =>
      /\ venda[tx[r].sale] # None
      /\ fechamento[tx[r].sale] = None
      /\ Inseridos(tx[r].sale) = {r}

IInv == TypeClosing /\ Fases /\ InsercaoUnica /\ CaixaEspelhaFechamentos /\ FechamentoTemVenda

-----------------------------------------------------------------------------
(* Sums.  SumFunction is a fold: the function h of an equation on subsets. *)

LEMMA Least ==
  ASSUME NEW S, S \subseteq Nat, S # {}
  PROVE  \E x \in S : \A y \in S : x <= y
<1> DEFINE R == OpToRel(<, Nat)
<1>1. IsWellFoundedOn(R, Nat)
  BY NatLessThanWellFounded
<1>2. \A x, y \in Nat : <<x, y>> \in R <=> x < y
  BY DEF OpToRel
<1> HIDE DEF R
<1>3. PICK x \in S : \A y \in S : ~(<<y, x>> \in R)
  BY <1>1, WFMin
<1>4. ASSUME NEW y \in S PROVE x <= y
  <2>1. x \in Nat /\ y \in Nat /\ ~(y < x)
    BY <1>2, <1>3
  <2> QED BY <2>1
<1> QED BY <1>4

\* Induction over the subsets of a finite set.
LEMMA SubsetInduction ==
  ASSUME NEW D, IsFiniteSet(D), NEW B,
         \A s \in SUBSET D : (\A x \in s : s \ {x} \in B) => s \in B
  PROVE  \A s \in SUBSET D : s \in B
<1> SUFFICES ASSUME NEW w \in SUBSET D, w \notin B PROVE FALSE
  OBVIOUS
<1> DEFINE Fora == {s \in SUBSET D : s \notin B}
           N == {Cardinality(s) : s \in Fora}
<1>1. ASSUME NEW s \in SUBSET D PROVE IsFiniteSet(s) /\ Cardinality(s) \in Nat
  BY FS_Subset, FS_CardinalityType
<1>2. N \subseteq Nat /\ N # {}
  BY <1>1
<1>3. PICK n \in N : \A m \in N : n <= m
  BY <1>2, Least
<1>4. PICK s \in Fora : n = Cardinality(s)
  OBVIOUS
<1>5. ASSUME NEW x \in s PROVE s \ {x} \in B
  <2>1. Cardinality(s \ {x}) = Cardinality(s) - 1 /\ s \ {x} \in SUBSET D
    BY <1>1, <1>4, FS_RemoveElement
  <2>2. CASE s \ {x} \in Fora
    <3>1. n <= Cardinality(s \ {x})
      BY <1>3, <2>2
    <3> QED BY <1>1, <1>4, <2>1, <3>1
  <2> QED BY <2>1, <2>2
<1> QED BY <1>4, <1>5

Algum(s) == CHOOSE x \in s : TRUE

ESoma(h, f, D) ==
  h = [s \in SUBSET D |-> IF s = {} THEN 0 ELSE f[Algum(s)] + h[s \ {Algum(s)}]]

Inteira(f, D) == \A i \in D : f[i] \in Int

LEMMA ExisteSoma ==
  ASSUME NEW D, IsFiniteSet(D), NEW f
  PROVE  \E h : ESoma(h, f, D)
<1> DEFINE Nivel(n) == {s \in SUBSET D : Cardinality(s) <= n}
           EAte(h, n) ==
             h = [s \in Nivel(n) |-> IF s = {} THEN 0 ELSE f[Algum(s)] + h[s \ {Algum(s)}]]
           Fora == {n \in Nat : ~(\E h : EAte(h, n))}
<1>1. ASSUME NEW s \in SUBSET D
      PROVE  /\ IsFiniteSet(s) /\ Cardinality(s) \in Nat
             /\ s = {} \/ (Algum(s) \in s /\ Cardinality(s \ {Algum(s)}) = Cardinality(s) - 1)
  <2>1. IsFiniteSet(s) /\ Cardinality(s) \in Nat
    BY FS_Subset, FS_CardinalityType
  <2>2. s # {} => Algum(s) \in s
    BY DEF Algum
  <2> QED BY <2>1, <2>2, FS_RemoveElement
<1>2. ASSUME Fora # {} PROVE FALSE
  <2>1. PICK n \in Fora : \A m \in Fora : n <= m
    BY <1>2, Least
  <2>2. CASE n = 0
    <3> DEFINE h == [s \in Nivel(0) |-> 0]
    <3>1. \A s \in Nivel(0) : s = {}
      <4>1. ASSUME NEW s \in Nivel(0) PROVE s = {}
        <5>1. s \in SUBSET D /\ Cardinality(s) <= 0
          OBVIOUS
        <5>2. IsFiniteSet(s) /\ Cardinality(s) \in Nat
          BY <1>1, <5>1
        <5>3. Cardinality(s) = 0
          BY <5>1, <5>2
        <5> QED BY <5>2, <5>3, FS_EmptySet
      <4> QED BY <4>1
    <3>2. EAte(h, 0)
      BY <3>1
    <3> QED BY <2>1, <2>2, <3>2
  <2>3. CASE n # 0
    <3>0. n \in Nat /\ n - 1 \in Nat /\ ~(n <= n - 1)
      BY <2>1, <2>3
    <3>1. n - 1 \in Nat /\ n - 1 \notin Fora
      <4> HIDE DEF Fora
      <4> QED BY <2>1, <3>0
    <3>2. PICK h : EAte(h, n - 1)
      BY <3>1
    <3> DEFINE g == [s \in Nivel(n) |->
                       IF s = {} THEN 0 ELSE f[Algum(s)] + h[s \ {Algum(s)}]]
    <3>3. ASSUME NEW u \in Nivel(n - 1) PROVE g[u] = h[u]
      <4>1. u \in Nivel(n)
        <5>1. u \in SUBSET D /\ Cardinality(u) <= n - 1
          OBVIOUS
        <5>2. Cardinality(u) \in Nat
          BY <1>1, <5>1
        <5>3. Cardinality(u) <= n
          BY <3>0, <5>1, <5>2
        <5> QED BY <5>1, <5>3
      <4>2. g[u] = IF u = {} THEN 0 ELSE f[Algum(u)] + h[u \ {Algum(u)}]
        BY <4>1
      <4>3. h[u] = IF u = {} THEN 0 ELSE f[Algum(u)] + h[u \ {Algum(u)}]
        BY <3>2
      <4> QED BY <4>2, <4>3
    <3>4. ASSUME NEW s \in Nivel(n), s # {} PROVE s \ {Algum(s)} \in Nivel(n - 1)
      <4>1. Cardinality(s \ {Algum(s)}) = Cardinality(s) - 1 /\ Cardinality(s) \in Nat
        BY <1>1, <3>4
      <4> QED BY <2>1, <4>1
    <3>5. g = [s \in Nivel(n) |-> IF s = {} THEN 0 ELSE f[Algum(s)] + g[s \ {Algum(s)}]]
      <4>1. ASSUME NEW s \in Nivel(n)
            PROVE  (IF s = {} THEN 0 ELSE f[Algum(s)] + h[s \ {Algum(s)}]) =
                   (IF s = {} THEN 0 ELSE f[Algum(s)] + g[s \ {Algum(s)}])
        <5> HIDE DEF g
        <5>1. CASE s = {}
          BY <5>1
        <5>2. CASE s # {}
          BY <3>3, <3>4, <5>2
        <5> QED BY <5>1, <5>2
      <4> QED BY <4>1, Zenon
    <3> HIDE DEF g
    <3>6. EAte(g, n)
      BY <3>5
    <3> QED BY <2>1, <3>6
  <2> QED BY <2>2, <2>3
<1>3. Cardinality(D) \in Nat /\ Nivel(Cardinality(D)) = SUBSET D
  BY FS_CardinalityType, FS_Subset
<1>4. PICK h : EAte(h, Cardinality(D))
  BY <1>2, <1>3
<1>5. ESoma(h, f, D)
  BY <1>3, <1>4 DEF ESoma
<1> QED BY <1>5

LEMMA SomaDesdobra ==
  ASSUME NEW f, IsFiniteSet(DOMAIN f)
  PROVE  \E h : ESoma(h, f, DOMAIN f) /\ SumFunction(f) = h[DOMAIN f]
<1> DEFINE iter == CHOOSE h : ESoma(h, f, DOMAIN f)
<1>1. ESoma(iter, f, DOMAIN f)
  BY ExisteSoma
<1>2. SumFunction(f) = iter[DOMAIN f]
  BY DEF SumFunction, SumFunctionOnSet, FoldFunction, FoldFunctionOnSet, MapThenFoldSet,
         ESoma, Algum
<1> QED BY <1>1, <1>2

\* The sum over no element, and one step of the sum over any subset.
LEMMA SomaVazia ==
  ASSUME NEW D, NEW f, NEW h, ESoma(h, f, D)
  PROVE  h[{}] = 0
BY DEF ESoma

Passo(h, f, s) == Algum(s) \in s /\ h[s] = f[Algum(s)] + h[s \ {Algum(s)}]

LEMMA UmPasso ==
  ASSUME NEW D, NEW f, NEW h, ESoma(h, f, D), NEW s \in SUBSET D, s # {}
  PROVE  Passo(h, f, s)
<1>1. h[s] = f[Algum(s)] + h[s \ {Algum(s)}]
  BY DEF ESoma
<1>2. Algum(s) \in s
  BY DEF Algum
<1> QED BY <1>1, <1>2 DEF Passo

LEMMA SomaInteira ==
  ASSUME NEW D, IsFiniteSet(D), NEW f, \A i \in D : f[i] \in Int, NEW h, ESoma(h, f, D)
  PROVE  \A s \in SUBSET D : h[s] \in Int
<1> DEFINE B == {s \in SUBSET D : h[s] \in Int}
<1>1. ASSUME NEW s \in SUBSET D, \A x \in s : s \ {x} \in B PROVE s \in B
  <2>1. CASE s = {}
    BY <2>1, SomaVazia
  <2>2. CASE s # {}
    <3>2. Algum(s) \in s /\ h[s] = f[Algum(s)] + h[s \ {Algum(s)}]
      BY <2>2, UmPasso DEF Passo
    <3> QED BY <1>1, <3>2
  <2> QED BY <2>1, <2>2
<1> HIDE DEF B
<1>2. \A s \in SUBSET D : s \in B
  BY <1>1, SubsetInduction
<1> QED BY <1>2 DEF B

LEMMA Distribui ==
  ASSUME NEW a \in Int, NEW b \in Int, NEW x \in Int, NEW y \in Int, NEW z \in Int,
         NEW u \in Int, NEW v \in Int, NEW w \in Int,
         a * x = b * y + z, a * u = b * v + w
  PROVE  a * (x + u) = b * (y + v) + (z + w)
<1>1. a * (x + u) = a * x + a * u /\ b * (y + v) = b * y + b * v
  OBVIOUS
<1>2. a * x \in Int /\ a * u \in Int /\ b * y \in Int /\ b * v \in Int
  OBVIOUS
<1> QED BY <1>1, <1>2

\* A linear relation between the terms holds between the sums.
LEMMA SomaLinear ==
  ASSUME NEW D, IsFiniteSet(D), NEW a \in Int, NEW b \in Int, NEW f, NEW g, NEW e,
         DOMAIN f = D, DOMAIN g = D, DOMAIN e = D,
         \A i \in D : /\ f[i] \in Int /\ g[i] \in Int /\ e[i] \in Int
                      /\ a * f[i] = b * g[i] + e[i]
  PROVE  /\ SumFunction(f) \in Int /\ SumFunction(g) \in Int /\ SumFunction(e) \in Int
         /\ a * SumFunction(f) = b * SumFunction(g) + SumFunction(e)
<1>1. PICK hf : ESoma(hf, f, D) /\ SumFunction(f) = hf[D]
  BY SomaDesdobra
<1>2. PICK hg : ESoma(hg, g, D) /\ SumFunction(g) = hg[D]
  BY SomaDesdobra
<1>3. PICK he : ESoma(he, e, D) /\ SumFunction(e) = he[D]
  BY SomaDesdobra
<1>4. \A s \in SUBSET D : hf[s] \in Int
  BY <1>1, SomaInteira
<1>5. \A s \in SUBSET D : hg[s] \in Int
  BY <1>2, SomaInteira
<1>6. \A s \in SUBSET D : he[s] \in Int
  BY <1>3, SomaInteira
<1> DEFINE B == {s \in SUBSET D : a * hf[s] = b * hg[s] + he[s]}
<1>7. ASSUME NEW s \in SUBSET D, \A x \in s : s \ {x} \in B PROVE s \in B
  <2>1. CASE s = {}
    <3>1. hf[s] = 0 /\ hg[s] = 0 /\ he[s] = 0
      BY <1>1, <1>2, <1>3, <2>1, SomaVazia
    <3>2. a * 0 = 0 /\ b * 0 = 0
      OBVIOUS
    <3> QED BY <3>1, <3>2
  <2>2. CASE s # {}
    <3> DEFINE i == Algum(s)
               r == s \ {i}
    <3>1. /\ i \in s /\ r \in SUBSET D
          /\ hf[s] = f[i] + hf[r]
      <4>1. Passo(hf, f, s)
        BY <1>1, <2>2, UmPasso
      <4> QED BY <4>1 DEF Passo
    <3>2. hg[s] = g[i] + hg[r]
      <4>1. Passo(hg, g, s)
        BY <1>2, <2>2, UmPasso
      <4> QED BY <4>1 DEF Passo
    <3>3. he[s] = e[i] + he[r]
      <4>1. Passo(he, e, s)
        BY <1>3, <2>2, UmPasso
      <4> QED BY <4>1 DEF Passo
    <3>4. a * hf[r] = b * hg[r] + he[r]
      BY <1>7, <3>1
    <3>5. /\ f[i] \in Int /\ g[i] \in Int /\ e[i] \in Int /\ a * f[i] = b * g[i] + e[i]
          /\ hf[r] \in Int /\ hg[r] \in Int /\ he[r] \in Int
      BY <1>4, <1>5, <1>6, <3>1
    <3> HIDE DEF i, r
    <3>6. a * (f[i] + hf[r]) = b * (g[i] + hg[r]) + (e[i] + he[r])
      <4> DEFINE x == f[i]  y == g[i]  z == e[i]  u == hf[r]  v == hg[r]  w == he[r]
      <4>1. /\ x \in Int /\ y \in Int /\ z \in Int /\ u \in Int /\ v \in Int /\ w \in Int
            /\ a * x = b * y + z /\ a * u = b * v + w
        BY <3>4, <3>5
      <4> HIDE DEF x, y, z, u, v, w
      <4>2. a * (x + u) = b * (y + v) + (z + w)
        BY ONLY a \in Int, b \in Int, <4>1, Distribui
      <4> QED BY <4>2 DEF x, y, z, u, v, w
    <3> QED BY <3>1, <3>2, <3>3, <3>6
  <2> QED BY <2>1, <2>2
<1> HIDE DEF B
<1>8. \A s \in SUBSET D : s \in B
  BY <1>7, SubsetInduction
<1>9. D \in B
  BY <1>8
<1> QED BY <1>1, <1>2, <1>3, <1>4, <1>5, <1>6, <1>9 DEF B

\* A sum of terms between 0 and c.
LEMMA SomaLimitada ==
  ASSUME NEW D, IsFiniteSet(D), NEW c \in Int, NEW f, DOMAIN f = D,
         \A i \in D : f[i] \in Int /\ 0 <= f[i] /\ f[i] <= c
  PROVE  SumFunction(f) \in Int /\ 0 <= SumFunction(f) /\ SumFunction(f) <= c * Cardinality(D)
<1>1. PICK h : ESoma(h, f, D) /\ SumFunction(f) = h[D]
  BY SomaDesdobra
<1>2. \A s \in SUBSET D : h[s] \in Int
  BY <1>1, SomaInteira
<1>3. \A s \in SUBSET D : IsFiniteSet(s) /\ Cardinality(s) \in Nat
  BY FS_Subset, FS_CardinalityType
<1> DEFINE B == {s \in SUBSET D : 0 <= h[s] /\ h[s] <= c * Cardinality(s)}
<1>4. ASSUME NEW s \in SUBSET D, \A x \in s : s \ {x} \in B PROVE s \in B
  <2>1. CASE s = {}
    <3>1. h[s] = 0 /\ Cardinality(s) = 0
      BY <1>1, <2>1, SomaVazia, FS_EmptySet
    <3>2. c * 0 = 0
      OBVIOUS
    <3> QED BY <3>1, <3>2
  <2>2. CASE s # {}
    <3> DEFINE i == Algum(s)
               r == s \ {i}
    <3>1. i \in s /\ r \in SUBSET D /\ h[s] = f[i] + h[r]
      <4>1. Passo(h, f, s)
        BY <1>1, <2>2, UmPasso
      <4> QED BY <4>1 DEF Passo
    <3>2. 0 <= h[r] /\ h[r] <= c * Cardinality(r) /\ h[r] \in Int
      BY <1>2, <1>4, <3>1
    <3>3. Cardinality(r) = Cardinality(s) - 1 /\ Cardinality(s) \in Nat
      BY <1>3, <3>1, FS_RemoveElement
    <3>4. f[i] \in Int /\ 0 <= f[i] /\ f[i] <= c
      BY <3>1
    <3> HIDE DEF i, r
    <3>5. ASSUME NEW m \in Nat PROVE c * (m - 1) = c * m - c /\ c * m \in Int
      OBVIOUS
    <3>6. c * Cardinality(r) = c * Cardinality(s) - c /\ c * Cardinality(s) \in Int
      BY <3>3, <3>5
    <3>7. 0 <= h[s] /\ h[s] <= c * Cardinality(s)
      BY <3>1, <3>2, <3>4, <3>6
    <3> QED BY <3>7
  <2> QED BY <2>1, <2>2
<1> HIDE DEF B
<1>5. \A s \in SUBSET D : s \in B
  BY <1>4, SubsetInduction
<1>6. D \in B
  BY <1>5
<1> QED BY <1>1, <1>2, <1>6 DEF B

\* A sum of ones and zeros counts the ones.
LEMMA SomaConta ==
  ASSUME NEW D, IsFiniteSet(D), NEW P \in SUBSET D
  PROVE  SumFunction([i \in D |-> IF i \in P THEN 1 ELSE 0]) = Cardinality(P)
<1> DEFINE f == [i \in D |-> IF i \in P THEN 1 ELSE 0]
<1>0. DOMAIN f = D
  OBVIOUS
<1> HIDE DEF f
<1>1. PICK h : ESoma(h, f, D) /\ SumFunction(f) = h[D]
  BY <1>0, SomaDesdobra
<1>2. \A s \in SUBSET D : IsFiniteSet(s \cap P) /\ Cardinality(s \cap P) \in Nat
  BY FS_Subset, FS_CardinalityType
<1> DEFINE B == {s \in SUBSET D : h[s] = Cardinality(s \cap P)}
<1>3. ASSUME NEW s \in SUBSET D, \A x \in s : s \ {x} \in B PROVE s \in B
  <2>1. CASE s = {}
    <3>1. h[s] = 0 /\ Cardinality(s \cap P) = 0
      BY <1>1, <2>1, SomaVazia, FS_EmptySet
    <3> QED BY <3>1
  <2>2. CASE s # {}
    <3> DEFINE i == Algum(s)
               r == s \ {i}
    <3>1. i \in s /\ r \in SUBSET D /\ h[s] = f[i] + h[r]
      <4>1. Passo(h, f, s)
        BY <1>1, <2>2, UmPasso
      <4> QED BY <4>1 DEF Passo
    <3>2. h[r] = Cardinality(r \cap P)
      BY <1>3, <3>1
    <3>3. CASE i \in P
      <4>1. r \cap P = (s \cap P) \ {i} /\ i \in s \cap P
        BY <3>1, <3>3
      <4>2. Cardinality(r \cap P) = Cardinality(s \cap P) - 1
        <5>1. IsFiniteSet(s \cap P) /\ Cardinality(s \cap P) \in Nat
          BY <1>2
        <5>2. Cardinality((s \cap P) \ {i}) = Cardinality(s \cap P) - 1
          BY <4>1, <5>1, FS_RemoveElement
        <5> QED BY <4>1, <5>2
      <4>3. f[i] = 1
        BY <3>1, <3>3 DEF f
      <4>4. h[s] = Cardinality(s \cap P)
        BY <1>2, <3>1, <3>2, <4>2, <4>3
      <4> QED BY <4>4
    <3>4. CASE i \notin P
      <4>1. r \cap P = s \cap P /\ f[i] = 0
        BY <3>1, <3>4 DEF f
      <4>2. Cardinality(s \cap P) \in Nat
        BY <1>2
      <4>3. h[r] = Cardinality(s \cap P)
        BY <3>2, <4>1
      <4>4. h[s] = Cardinality(s \cap P)
        BY <3>1, <4>1, <4>2, <4>3
      <4> QED BY <4>4
    <3> QED BY <3>3, <3>4
  <2> QED BY <2>1, <2>2
<1> HIDE DEF B
<1>4. \A s \in SUBSET D : s \in B
  BY <1>3, SubsetInduction
<1>5. D \in B /\ D \cap P = P
  BY <1>4
<1> QED BY <1>1, <1>5 DEF B, f

\* Any term may be taken first.
LEMMA SomaQualquer ==
  ASSUME NEW D, IsFiniteSet(D), NEW f, Inteira(f, D), NEW h, ESoma(h, f, D),
         NEW w \in SUBSET D, NEW y \in w
  PROVE  h[w] = f[y] + h[w \ {y}]
<1>1. (\A i \in D : f[i] \in Int) /\ \A s \in SUBSET D : h[s] \in Int
  BY SomaInteira DEF Inteira
<1> DEFINE B == {s \in SUBSET D : \A x \in s : h[s] = f[x] + h[s \ {x}]}
<1>2. ASSUME NEW s \in SUBSET D, \A x \in s : s \ {x} \in B PROVE s \in B
  <2>1. ASSUME NEW x \in s PROVE h[s] = f[x] + h[s \ {x}]
    <3> DEFINE i == Algum(s)
    <3>1. i \in s /\ h[s] = f[i] + h[s \ {i}]
      <4>1. Passo(h, f, s)
        BY <2>1, UmPasso
      <4> QED BY <4>1 DEF Passo
    <3> HIDE DEF i
    <3>2. CASE x = i
      BY <3>1, <3>2
    <3>3. CASE x # i
      <4>1. h[s \ {i}] = f[x] + h[(s \ {i}) \ {x}]
        BY <1>2, <2>1, <3>1, <3>3
      <4>2. h[s \ {x}] = f[i] + h[(s \ {x}) \ {i}]
        BY <1>2, <2>1, <3>1, <3>3
      <4>3. (s \ {i}) \ {x} = (s \ {x}) \ {i} /\ (s \ {x}) \ {i} \in SUBSET D
        OBVIOUS
      <4> DEFINE u == h[(s \ {x}) \ {i}]
      <4>4. f[x] \in Int /\ f[i] \in Int /\ u \in Int
        BY <1>1, <2>1, <3>1, <4>3
      <4>5. h[s] = f[i] + (f[x] + u) /\ h[s \ {x}] = f[i] + u
        BY <3>1, <4>1, <4>2, <4>3
      <4> HIDE DEF u
      <4> QED BY <4>4, <4>5
    <3> QED BY <3>2, <3>3
  <2> QED BY <2>1
<1> HIDE DEF B
<1>3. \A s \in SUBSET D : s \in B
  BY <1>2, SubsetInduction
<1>4. w \in B
  BY <1>3
<1> QED BY <1>4 DEF B

\* The sum of a sequence: its head, and the sum of its tail.
LEMMA SomaDeSequencia ==
  ASSUME NEW n \in Nat, NEW f, DOMAIN f = 1..(n + 1), Inteira(f, 1..(n + 1)),
         NEW g, DOMAIN g = 1..n,
         \A i \in 1..n : g[i] = f[i + 1]
  PROVE  SumFunction(f) = f[1] + SumFunction(g)
<1> DEFINE D == 1..(n + 1)
           E == 1..n
           Mais(s) == {i \in D : i - 1 \in s}
<1>0. IsFiniteSet(D) /\ IsFiniteSet(E)
  BY FS_Interval
<1>1. PICK hf : ESoma(hf, f, D) /\ SumFunction(f) = hf[D]
  BY <1>0, SomaDesdobra
<1>2. PICK hg : ESoma(hg, g, E) /\ SumFunction(g) = hg[E]
  BY <1>0, SomaDesdobra
<1>3. \A s \in SUBSET D : \A x \in s : hf[s] = f[x] + hf[s \ {x}]
  <2>1. Inteira(f, D)
    OBVIOUS
  <2> HIDE DEF D
  <2>2. IsFiniteSet(D) /\ ESoma(hf, f, D)
    BY <1>0, <1>1
  <2>3. ASSUME NEW s \in SUBSET D, NEW x \in s PROVE hf[s] = f[x] + hf[s \ {x}]
    BY ONLY <2>1, <2>2, s \in SUBSET D, x \in s, SomaQualquer
  <2> QED BY <2>3
<1> DEFINE B == {s \in SUBSET E : hf[Mais(s)] = hg[s]}
<1>4. ASSUME NEW s \in SUBSET E, \A x \in s : s \ {x} \in B PROVE s \in B
  <2>1. CASE s = {}
    <3>1. Mais(s) = {}
      BY <2>1
    <3>2. hf[{}] = 0 /\ hg[{}] = 0
      <4> HIDE DEF D, E
      <4> QED BY <1>1, <1>2, SomaVazia
    <3>3. hf[Mais(s)] = hg[s]
      BY <2>1, <3>1, <3>2
    <3> QED BY <3>3
  <2>2. CASE s # {}
    <3> DEFINE i == Algum(s)
               r == s \ {i}
    <3>1. i \in s /\ hg[s] = g[i] + hg[r]
      <4>1. ESoma(hg, g, E)
        BY <1>2
      <4>2. Passo(hg, g, s)
        <5> HIDE DEF E
        <5> QED BY <2>2, <4>1, UmPasso
      <4> QED BY <4>2 DEF Passo
    <3> HIDE DEF i
    <3>2. hf[Mais(r)] = hg[r]
      BY <1>4, <3>1
    <3>3. i \in E /\ i + 1 \in D /\ i + 1 \in Mais(s)
      <4>1. i \in s /\ i \in E
        BY <3>1
      <4>2. i \in Int /\ 1 <= i /\ i <= n /\ (i + 1) - 1 = i
        BY <4>1
      <4>3. i + 1 \in D
        BY <4>2
      <4> HIDE DEF D, E
      <4> QED BY <4>1, <4>2, <4>3
    <3>4. Mais(r) = Mais(s) \ {i + 1}
      BY <3>3
    <3>5. hf[Mais(s)] = f[i + 1] + hf[Mais(s) \ {i + 1}]
      BY <1>3, <3>3
    <3>6. hf[Mais(s)] = hg[s]
      BY <3>1, <3>2, <3>3, <3>4, <3>5
    <3> QED BY <3>6
  <2> QED BY <2>1, <2>2
<1>5. \A s \in SUBSET E : s \in B
  <2> HIDE DEF B
  <2> QED BY <1>0, <1>4, SubsetInduction
<1>6. hf[Mais(E)] = hg[E]
  BY <1>5
<1>7. Mais(E) = D \ {1} /\ 1 \in D
  OBVIOUS
<1>8. hf[D] = f[1] + hf[D \ {1}]
  BY <1>3, <1>7
<1> QED BY <1>1, <1>2, <1>6, <1>7, <1>8

LEMMA SomaTipo ==
  ASSUME NEW D, IsFiniteSet(D), NEW f, DOMAIN f = D, \A i \in D : f[i] \in Int
  PROVE  SumFunction(f) \in Int
<1>1. PICK h : ESoma(h, f, D) /\ SumFunction(f) = h[D]
  BY SomaDesdobra
<1>2. \A s \in SUBSET D : h[s] \in Int
  BY <1>1, SomaInteira
<1> QED BY <1>1, <1>2

LEMMA SomaZero ==
  ASSUME NEW D, IsFiniteSet(D)
  PROVE  SumFunction([i \in D |-> 0]) = 0
<1> DEFINE zero == [i \in D |-> 0]
<1>1. DOMAIN zero = D /\ \A i \in D : zero[i] \in Int /\ 0 * zero[i] = 0 * zero[i] + zero[i]
  OBVIOUS
<1> HIDE DEF zero
<1>2. SumFunction(zero) \in Int /\ 0 * SumFunction(zero) = 0 * SumFunction(zero) + SumFunction(zero)
  BY <1>1, SomaLinear
<1>3. SumFunction(zero) = 0
  BY <1>2
<1> QED BY <1>3 DEF zero

\* The sum of the opposites.
LEMMA SomaOposta ==
  ASSUME NEW D, IsFiniteSet(D), NEW f, DOMAIN f = D, \A i \in D : f[i] \in Int
  PROVE  SumFunction([i \in D |-> -f[i]]) = -SumFunction(f)
<1> DEFINE g == [i \in D |-> -f[i]]
           zero == [i \in D |-> 0]
<1>1. /\ DOMAIN g = D /\ DOMAIN zero = D
      /\ \A i \in D : /\ g[i] \in Int /\ f[i] \in Int /\ zero[i] \in Int
                       /\ 1 * g[i] = (-1) * f[i] + zero[i]
  OBVIOUS
<1>2. SumFunction(zero) = 0
  BY SomaZero
<1> HIDE DEF g, zero
<1>3. /\ SumFunction(g) \in Int /\ SumFunction(f) \in Int
      /\ 1 * SumFunction(g) = (-1) * SumFunction(f) + SumFunction(zero)
  BY <1>1, SomaLinear
<1>4. SumFunction(g) = -SumFunction(f)
  BY <1>2, <1>3
<1> QED BY <1>4 DEF g

-----------------------------------------------------------------------------
(* The cents.                                                              *)

\* Percentages with two decimals, which is what a percentage is kept with.
DoisDecimais(ps) == \A i \in DOMAIN ps : \E q \in Nat : ps[i].percentual = q * Centesimo

LEMMA Quociente ==
  ASSUME NEW b \in Nat \ {0}, NEW q \in Int, NEW r \in Int, 0 <= r, r < b
  PROVE  (q * b + r) \div b = q
OBVIOUS

LEMMA Escala == Centesimo \in Nat \ {0} /\ Cem \in Nat \ {0} /\ Cem = 10000 * Centesimo
BY ScaleAssumption

LEMMA TruncadoResto ==
  ASSUME NEW lucro \in Int, NEW p \in Int
  PROVE  /\ Truncado(lucro, p) \in Int /\ Resto(lucro, p) \in Int
         /\ lucro * p = Cem * Truncado(lucro, p) + Resto(lucro, p)
         /\ 0 <= Resto(lucro, p) /\ Resto(lucro, p) < Cem
<1> DEFINE x == lucro * p
<1>1. x \in Int
  OBVIOUS
<1> HIDE DEF x
<1>2. /\ x \div Cem \in Int /\ x % Cem \in Int
      /\ x = Cem * (x \div Cem) + (x % Cem) /\ 0 <= x % Cem /\ x % Cem < Cem
  BY <1>1, Escala
<1> QED BY <1>2 DEF Truncado, Resto, x

LEMMA Dominio ==
  ASSUME NEW ps \in Seq(Participacoes)
  PROVE  /\ Len(ps) \in Nat /\ DOMAIN ps = 1..Len(ps)
         /\ IsFiniteSet(DOMAIN ps) /\ Cardinality(DOMAIN ps) = Len(ps)
         /\ \A i \in DOMAIN ps : ps[i].percentual \in Int
<1>1. DOMAIN ps = 1..Len(ps) /\ Len(ps) \in Nat
  OBVIOUS
<1>2. ASSUME NEW i \in DOMAIN ps PROVE ps[i].percentual \in Int
  <2>1. ps[i] \in Participacoes
    OBVIOUS
  <2> QED BY <2>1, Escala DEF Participacoes
<1>3. /\ IsFiniteSet(1..Len(ps))
      /\ Cardinality(1..Len(ps)) = IF 1 > Len(ps) THEN 0 ELSE Len(ps) - 1 + 1
  BY <1>1, FS_Interval
<1>4. Cardinality(1..Len(ps)) = Len(ps)
  BY <1>1, <1>3
<1> QED BY <1>1, <1>2, <1>3, <1>4

LEMMA AteMenosUm ==
  ASSUME NEW m \in Nat
  PROVE  IsFiniteSet(0..(m - 1)) /\ Cardinality(0..(m - 1)) = m
<1>1. m - 1 \in Int /\ 0 \in Int
  OBVIOUS
<1>2. /\ IsFiniteSet(0..(m - 1))
      /\ Cardinality(0..(m - 1)) = IF 0 > m - 1 THEN 0 ELSE (m - 1) - 0 + 1
  BY <1>1, FS_Interval
<1> QED BY <1>2

LEMMA QuantizarExato ==
  ASSUME NEW q \in Int
  PROVE  Quantizar(q * Centesimo) = q
<1> DEFINE r == Centesimo \div 2
<1>1. r \in Int /\ 0 <= r /\ r < Centesimo
  BY Escala
<1> HIDE DEF r
<1>2. (q * Centesimo + r) \div Centesimo = q
  BY <1>1, Escala, Quociente
<1> QED BY <1>2 DEF Quantizar, r

LEMMA SemEsquerda ==
  ASSUME NEW a \in Int, NEW b \in Int, NEW c \in Nat \ {0}, c * a = c * b
  PROVE  a = b
OBVIOUS

\* Shares with two decimals that are accepted add up to 100% exactly.
LEMMA PercentualExato ==
  ASSUME NEW ps \in Seq(Participacoes), DoisDecimais(ps),
         Quantizar(Percentual(ps)) = Quantizar(Cem)
  PROVE  Percentual(ps) = Cem
<1> DEFINE D == DOMAIN ps
           p == [i \in D |-> ps[i].percentual]
           q == [i \in D |-> Quantizar(ps[i].percentual)]
           zero == [i \in D |-> 0]
<1>1. IsFiniteSet(D)
  BY Dominio
<1>2. ASSUME NEW i \in D
      PROVE  /\ p[i] \in Int /\ q[i] \in Int /\ zero[i] \in Int
             /\ 1 * p[i] = Centesimo * q[i] + zero[i]
  <2>1. PICK c \in Nat : ps[i].percentual = c * Centesimo
    BY DEF DoisDecimais
  <2>2. p[i] = c * Centesimo /\ q[i] = c /\ zero[i] = 0
    BY <2>1, QuantizarExato
  <2>3. c * Centesimo \in Int /\ Centesimo * c = c * Centesimo
    BY Escala
  <2> HIDE DEF p, q, zero
  <2> QED BY <2>2, <2>3
<1>3. SumFunction(zero) = 0
  BY <1>1, SomaZero
<1>4. /\ SumFunction(p) \in Int /\ SumFunction(q) \in Int
      /\ 1 * SumFunction(p) = Centesimo * SumFunction(q) + SumFunction(zero)
  <2>1. DOMAIN p = D /\ DOMAIN q = D /\ DOMAIN zero = D
    OBVIOUS
  <2>2. Centesimo \in Int
    BY Escala
  <2> HIDE DEF p, q, zero, D
  <2> QED BY <1>1, <1>2, <2>1, <2>2, SomaLinear
<1>5. Percentual(ps) = SumFunction(p)
  BY DEF Percentual
<1> HIDE DEF p, q, zero, D
<1> DEFINE S == SumFunction(q)
<1>6. S \in Int /\ Percentual(ps) = S * Centesimo
  BY <1>3, <1>4, <1>5, Escala
<1> HIDE DEF S
<1>7. Quantizar(S * Centesimo) = S /\ Quantizar(10000 * Centesimo) = 10000
  BY <1>6, QuantizarExato
<1> QED BY <1>6, <1>7, Escala

\* The cents left over are a number, whatever is shared.
LEMMA RestantesTipo ==
  ASSUME NEW ps \in Seq(Participacoes), NEW lucro \in Int
  PROVE  CentavosRestantes(ps, lucro) \in Int
<1> DEFINE D == DOMAIN ps
           t == [i \in D |-> Truncado(lucro, ps[i].percentual)]
<1>1. IsFiniteSet(D)
  BY Dominio
<1>2. ASSUME NEW i \in D PROVE t[i] \in Int
  <2>1. ps[i].percentual \in Int
    BY Dominio
  <2>2. t[i] = Truncado(lucro, ps[i].percentual)
    OBVIOUS
  <2> HIDE DEF t
  <2> QED BY <2>1, <2>2, TruncadoResto
<1>3. DOMAIN t = D
  OBVIOUS
<1> HIDE DEF t, D
<1>4. SumFunction(t) \in Int
  BY <1>1, <1>2, <1>3, SomaTipo
<1> QED BY <1>4 DEF CentavosRestantes, t, D

\* The rests add up to the cents that are left over; there are no more of them
\* than shares.
LEMMA RestantesContados ==
  ASSUME NEW ps \in Seq(Participacoes), NEW lucro \in Int, lucro > 0,
         Percentual(ps) = Cem
  PROVE  /\ CentavosRestantes(ps, lucro) \in Nat
         /\ CentavosRestantes(ps, lucro) <= Len(ps)
         /\ SumFunction([i \in DOMAIN ps |-> Truncado(lucro, ps[i].percentual)]) \in Int
<1> DEFINE D == DOMAIN ps
           p == [i \in D |-> ps[i].percentual]
           t == [i \in D |-> Truncado(lucro, ps[i].percentual)]
           e == [i \in D |-> Resto(lucro, ps[i].percentual)]
<1>1. IsFiniteSet(D) /\ Cardinality(D) = Len(ps) /\ Len(ps) \in Nat
  BY Dominio
<1>2. ASSUME NEW i \in D
      PROVE  /\ p[i] \in Int /\ t[i] \in Int /\ e[i] \in Int
             /\ lucro * p[i] = Cem * t[i] + e[i]
             /\ 0 <= e[i] /\ e[i] <= Cem
  <2> DEFINE q == ps[i].percentual
  <2>1. p[i] = q /\ t[i] = Truncado(lucro, q) /\ e[i] = Resto(lucro, q)
    OBVIOUS
  <2>2. q \in Int
    BY Dominio
  <2> HIDE DEF p, t, e, q
  <2>3. /\ Truncado(lucro, q) \in Int /\ Resto(lucro, q) \in Int
        /\ lucro * q = Cem * Truncado(lucro, q) + Resto(lucro, q)
        /\ 0 <= Resto(lucro, q) /\ Resto(lucro, q) < Cem
    BY <2>2, TruncadoResto
  <2>4. Cem \in Int
    BY Escala
  <2> QED BY <2>1, <2>2, <2>3, <2>4
<1>3. DOMAIN p = D /\ DOMAIN t = D /\ DOMAIN e = D /\ Cem \in Int
  BY Escala
<1> HIDE DEF p, t, e, D
<1>4. /\ SumFunction(p) \in Int /\ SumFunction(t) \in Int /\ SumFunction(e) \in Int
      /\ lucro * SumFunction(p) = Cem * SumFunction(t) + SumFunction(e)
  BY <1>1, <1>2, <1>3, SomaLinear
<1>5. 0 <= SumFunction(e) /\ SumFunction(e) <= Cem * Len(ps)
  BY <1>1, <1>2, <1>3, SomaLimitada
<1> DEFINE T == SumFunction(t)
           k == lucro - T
<1>6. SumFunction(p) = Cem /\ CentavosRestantes(ps, lucro) = k
  BY DEF Percentual, CentavosRestantes, p, t, D
<1>7. T \in Int /\ k \in Int
  BY <1>4
<1>8. Cem * k = SumFunction(e)
  <2>1. Cem * k = Cem * lucro - Cem * T
    BY <1>7, Escala
  <2>2. lucro * Cem = Cem * T + SumFunction(e) /\ lucro * Cem = Cem * lucro
    BY <1>4, <1>6, Escala
  <2>3. Cem * lucro \in Int /\ Cem * T \in Int
    BY <1>7, Escala
  <2> HIDE DEF T, k
  <2> QED BY <1>4, <2>1, <2>2, <2>3
<1> HIDE DEF k
<1>9. 0 <= k /\ k <= Len(ps)
  <2>1. 0 <= Cem * k /\ Cem * k <= Cem * Len(ps)
    BY <1>5, <1>8
  <2>2. ASSUME NEW a \in Int, NEW b \in Int, NEW c \in Nat \ {0}, c * a <= c * b PROVE a <= b
    BY <2>2
  <2>3. Cem * 0 = 0
    BY Escala
  <2> QED BY <1>1, <1>7, <2>1, <2>2, <2>3, Escala
<1> QED BY <1>6, <1>7, <1>9 DEF T, t, D

\* A share has its own place in the order: the first k places go to k shares.
LEMMA PremiadosContados ==
  ASSUME NEW ps \in Seq(Participacoes), NEW lucro \in Int,
         CentavosRestantes(ps, lucro) \in Nat, CentavosRestantes(ps, lucro) <= Len(ps)
  PROVE  Cardinality(Premiados(ps, lucro)) = CentavosRestantes(ps, lucro)
<1> DEFINE D == DOMAIN ps
           n == Len(ps)
           k == CentavosRestantes(ps, lucro)
           resto(i) == Resto(lucro, ps[i].percentual)
           A(i) == Antes(ps, lucro, i)
           lugar == [i \in D |-> Cardinality(A(i))]
           T == Premiados(ps, lucro)
<1>1. n \in Nat /\ D = 1..n /\ IsFiniteSet(D) /\ Cardinality(D) = n
  BY Dominio
<1>2. ASSUME NEW i \in D PROVE resto(i) \in Int /\ i \in Int
  <2> DEFINE q == ps[i].percentual
  <2>1. q \in Int
    BY Dominio
  <2> HIDE DEF q
  <2>2. Resto(lucro, q) \in Int
    BY <2>1, TruncadoResto
  <2> QED BY <1>1, <2>2 DEF q
<1>3. \A i \in D : A(i) = {j \in D : resto(j) > resto(i) \/ (resto(j) = resto(i) /\ j < i)}
  BY DEF Antes
<1> HIDE DEF D, n, k, resto, A
<1>4. ASSUME NEW i \in D
      PROVE  /\ A(i) \in SUBSET D /\ i \notin A(i)
             /\ IsFiniteSet(A(i)) /\ lugar[i] \in 0..(n - 1)
  <2>1. A(i) \in SUBSET D /\ i \notin A(i)
    BY <1>2, <1>3
  <2>2. IsFiniteSet(A(i)) /\ Cardinality(A(i)) \in Nat
    BY <1>1, <2>1, FS_Subset, FS_CardinalityType
  <2>3. A(i) \in SUBSET (D \ {i})
    BY <2>1
  <2>4. IsFiniteSet(D \ {i}) /\ Cardinality(D \ {i}) = n - 1
    BY <1>1, FS_RemoveElement
  <2>5. Cardinality(A(i)) <= n - 1
    BY <2>3, <2>4, FS_Subset
  <2>6. lugar[i] = Cardinality(A(i))
    OBVIOUS
  <2> QED BY <1>1, <2>1, <2>2, <2>5, <2>6
<1>5. ASSUME NEW i \in D, NEW j \in A(i) PROVE lugar[j] < lugar[i]
  <2>1. j \in D
    BY <1>4
  <2>2. A(j) \in SUBSET A(i)
    BY <1>2, <1>3, <1>5, <2>1
  <2>3. j \notin A(j)
    BY <1>4, <2>1
  <2>4. IsFiniteSet(A(i)) /\ Cardinality(A(i)) \in Nat /\ Cardinality(A(j)) \in Nat
    BY <1>4, <2>1, FS_CardinalityType
  <2>5. Cardinality(A(j)) <= Cardinality(A(i)) /\ Cardinality(A(j)) # Cardinality(A(i))
    BY <2>2, <2>3, <2>4, FS_Subset
  <2> QED BY <2>1, <2>4, <2>5
<1>6. ASSUME NEW i \in D, NEW j \in D, i # j PROVE lugar[i] # lugar[j]
  <2>1. i \in A(j) \/ j \in A(i)
    BY <1>2, <1>3, <1>6
  <2> HIDE DEF lugar
  <2>2. lugar[i] \in Int /\ lugar[j] \in Int
    BY <1>1, <1>4
  <2>3. lugar[i] < lugar[j] \/ lugar[j] < lugar[i]
    BY <1>5, <2>1
  <2> QED BY <2>2, <2>3
<1> HIDE DEF lugar
<1>7. lugar \in Injection(D, 0..(n - 1))
  <2>1. lugar \in [D -> 0..(n - 1)]
    BY <1>4 DEF lugar
  <2>2. DOMAIN lugar = D
    BY DEF lugar
  <2> QED BY <1>6, <2>1, <2>2 DEF Injection, IsInjective
<1>8. \A m \in 0..(n - 1) : \E i \in D : lugar[i] = m
  <2>1. IsFiniteSet(0..(n - 1)) /\ Cardinality(0..(n - 1)) = n
    BY <1>1, AteMenosUm
  <2>2. lugar \in Surjection(D, 0..(n - 1))
    BY <1>1, <1>7, <2>1, FS_Injection
  <2> QED BY <2>2 DEF Surjection
<1>9. k \in Nat /\ k <= n
  BY DEF k, n
<1>10. T = {i \in D : lugar[i] < k}
  <2>1. T = {i \in D : Cardinality(A(i)) < k}
    BY <1>9 DEF Premiados, D, k, A
  <2>2. \A i \in D : lugar[i] = Cardinality(A(i))
    BY DEF lugar
  <2> QED BY <2>1, <2>2
<1> HIDE DEF T
<1> DEFINE g == [i \in T |-> lugar[i]]
<1>11. g \in Bijection(T, 0..(k - 1))
  <2>1. T \subseteq D
    BY <1>10
  <2>2. \A i \in T : lugar[i] \in 0..(k - 1)
    BY <1>1, <1>4, <1>9, <1>10
  <2>3. \A i, j \in T : lugar[i] = lugar[j] => i = j
    BY <1>6, <2>1
  <2>4. \A m \in 0..(k - 1) : \E i \in T : lugar[i] = m
    <3>1. ASSUME NEW m \in 0..(k - 1) PROVE \E i \in T : lugar[i] = m
      <4>1. m \in 0..(n - 1) /\ m < k
        BY <1>1, <1>9
      <4>2. PICK i \in D : lugar[i] = m
        BY <1>8, <4>1
      <4> QED BY <1>10, <4>1, <4>2
    <3> QED BY <3>1
  <2>5. g \in [T -> 0..(k - 1)] /\ DOMAIN g = T /\ \A i \in T : g[i] = lugar[i]
    BY <2>2
  <2> HIDE DEF g
  <2>6. g \in Injection(T, 0..(k - 1))
    BY <2>3, <2>5 DEF Injection, IsInjective
  <2>7. g \in Surjection(T, 0..(k - 1))
    BY <2>4, <2>5 DEF Surjection
  <2> QED BY <2>6, <2>7 DEF Bijection
<1>12. IsFiniteSet(T)
  BY <1>1, <1>10, FS_Subset
<1>13. ExistsBijection(T, 0..(k - 1))
  BY <1>11 DEF ExistsBijection
<1>14. Cardinality(0..(k - 1)) = Cardinality(T)
  BY <1>12, <1>13, FS_Bijection
<1>15. Cardinality(0..(k - 1)) = k
  BY <1>9, AteMenosUm
<1> QED BY <1>14, <1>15 DEF T, k

\* The parts add up to the profit.
LEMMA PartesSomam ==
  ASSUME NEW ps \in Seq(Participacoes), NEW lucro \in Int, lucro > 0, Percentual(ps) = Cem
  PROVE  SumFunction(DistribuirLucro(ps, lucro)) = lucro
<1> DEFINE D == DOMAIN ps
           P == Premiados(ps, lucro)
           k == CentavosRestantes(ps, lucro)
           v == DistribuirLucro(ps, lucro)
           t == [i \in D |-> Truncado(lucro, ps[i].percentual)]
           c == [i \in D |-> IF i \in P THEN 1 ELSE 0]
<1>1. IsFiniteSet(D)
  BY Dominio
<1>2. P \in SUBSET D
  BY DEF Premiados
<1>3. k \in Nat /\ k <= Len(ps) /\ SumFunction(t) \in Int /\ k = lucro - SumFunction(t)
  BY RestantesContados DEF CentavosRestantes
<1>4. Cardinality(P) = k
  BY <1>3, PremiadosContados
<1>5. SumFunction(c) = Cardinality(P)
  <2> HIDE DEF D, P
  <2> QED BY <1>1, <1>2, SomaConta
<1>6. ASSUME NEW i \in D
      PROVE  v[i] \in Int /\ t[i] \in Int /\ c[i] \in Int /\ 1 * v[i] = 1 * t[i] + c[i]
  <2>3. t[i] \in Int
    BY Dominio, TruncadoResto
  <2>4. v[i] = t[i] + c[i] /\ c[i] \in {0, 1}
    BY DEF DistribuirLucro
  <2> HIDE DEF v, t, c
  <2> QED BY <2>3, <2>4
<1>7. DOMAIN v = D /\ DOMAIN t = D /\ DOMAIN c = D
  BY DEF DistribuirLucro
<1> HIDE DEF v, t, c, D, P, k
<1>8. SumFunction(v) \in Int /\ SumFunction(c) \in Int /\ 1 * SumFunction(v) = 1 * SumFunction(t) + SumFunction(c)
  BY <1>1, <1>6, <1>7, SomaLinear
<1>9. SumFunction(v) = lucro
  BY <1>3, <1>4, <1>5, <1>8
<1> QED BY <1>9 DEF v

-----------------------------------------------------------------------------
(* The operators.                                                          *)

LEMMA DivNat ==
  ASSUME NEW a \in Nat, NEW b \in Nat \ {0}
  PROVE  a \div b \in Nat
OBVIOUS

LEMMA ParteValida ==
  ASSUME NEW rateio \in Seq(Participacoes), NEW lucro \in Int, lucro > 0,
         NEW i \in DOMAIN rateio
  PROVE  /\ Quantizar(rateio[i].percentual) \in Nat
         /\ DistribuirLucro(rateio, lucro)[i] \in Nat
<1> DEFINE p == rateio[i].percentual
<1>1. p \in Nat /\ Cem \in Nat \ {0} /\ Centesimo \in Nat \ {0}
  <2>1. Centesimo \in Nat \ {0} /\ Cem = 10000 * Centesimo
    BY ScaleAssumption
  <2>2. rateio[i] \in Participacoes
    OBVIOUS
  <2> QED BY <2>1, <2>2 DEF Participacoes
<1>2. Quantizar(p) \in Nat
  <2>1. Centesimo \div 2 \in Nat
    BY <1>1, DivNat
  <2>2. p + Centesimo \div 2 \in Nat
    BY <1>1, <2>1
  <2> QED BY <1>1, <2>2, DivNat DEF Quantizar
<1>3. Truncado(lucro, p) \in Nat
  <2>1. lucro * p \in Nat
    BY <1>1
  <2> QED BY <1>1, <2>1, DivNat DEF Truncado
<1>4. DistribuirLucro(rateio, lucro)[i] \in {Truncado(lucro, p), Truncado(lucro, p) + 1}
  <2>1. DistribuirLucro(rateio, lucro)[i] =
          Truncado(lucro, p) + (IF i \in Premiados(rateio, lucro) THEN 1 ELSE 0)
    BY DEF DistribuirLucro
  <2> QED BY <1>3, <2>1
<1> QED BY <1>2, <1>3, <1>4

\* The shares of valid percentages, where no CHECK constraint fails.
LEMMA ParticipacoesDeTipo ==
  ASSUME NEW rateio \in Seq(Participacoes), NEW lucro \in Int,
         ParticipacoesValidas(rateio, lucro),
         ~DistribuicaoFalha(ParticipacoesDe(rateio, lucro))
  PROVE  ParticipacoesDe(rateio, lucro) \in Seq(Partes)
<1>1. CASE lucro <= 0
  BY <1>1 DEF ParticipacoesDe
<1>2. CASE lucro > 0
  <2> DEFINE parte(i) == [investidor |-> rateio[i].investidor,
                          percentual |-> Quantizar(rateio[i].percentual),
                          valor |-> DistribuirLucro(rateio, lucro)[i]]
             ps == [i \in 1..Len(rateio) |-> parte(i)]
  <2>1. ParticipacoesDe(rateio, lucro) = ps
    BY <1>2 DEF ParticipacoesDe
  <2>2. ASSUME NEW i \in 1..Len(rateio) PROVE ps[i] \in Partes
    <3>1. ps[i] = parte(i) /\ i \in DOMAIN rateio /\ i \in DOMAIN ps
      OBVIOUS
    <3>2. rateio[i].investidor \in Investidores
      BY <1>2, <3>1 DEF ParticipacoesValidas
    <3>3. parte(i).percentual \in Nat /\ parte(i).valor \in Nat
      BY <1>2, <3>1, ParteValida
    <3>4. parte(i).percentual # 0 /\ parte(i).valor # 0
      BY <2>1, <3>1 DEF DistribuicaoFalha
    <3> HIDE DEF ps
    <3> QED BY <3>1, <3>2, <3>3, <3>4 DEF Partes
  <2>3. Len(rateio) \in Nat
    OBVIOUS
  <2> HIDE DEF parte
  <2> QED BY <2>1, <2>2, <2>3
<1> QED BY <1>1, <1>2

\* _distribuir_lucro: every share is its exact part rounded to a cent next to
\* it, and the cents left over go to the largest rests, whatever is shared.
THEOREM LargestRests ==
  ASSUME NEW ps \in Seq(Participacoes), NEW lucro \in Int, lucro > 0
  PROVE  MaioresRestos(ps, lucro, DistribuirLucro(ps, lucro))
<1> DEFINE trunc(i) == Truncado(lucro, ps[i].percentual)
           resto(i) == Resto(lucro, ps[i].percentual)
           premio(i) == IF i \in Premiados(ps, lucro) THEN 1 ELSE 0
           a_mais(i) == DistribuirLucro(ps, lucro)[i] - trunc(i)
           k == CentavosRestantes(ps, lucro)
           n == IF k >= 0 THEN k ELSE Len(ps) + k
<1>0. k \in Int
  BY RestantesTipo
<1>1. ASSUME NEW i \in DOMAIN ps PROVE trunc(i) \in Int /\ resto(i) \in Int
  <2>1. ps[i].percentual \in Int /\ Cem \in Nat \ {0}
    <3>1. ps[i] \in Participacoes
      OBVIOUS
    <3>2. Cem \in Nat \ {0}
      BY ScaleAssumption
    <3> QED BY <3>1, <3>2 DEF Participacoes
  <2>2. lucro * ps[i].percentual \in Int
    BY <2>1
  <2> QED BY <2>1, <2>2 DEF Truncado, Resto
<1>2. ASSUME NEW i \in DOMAIN ps PROVE a_mais(i) = premio(i)
  <2>1. DistribuirLucro(ps, lucro)[i] = trunc(i) + premio(i)
    BY DEF DistribuirLucro
  <2> QED BY <1>1, <2>1
<1>3. ASSUME NEW i \in DOMAIN ps, NEW j \in DOMAIN ps,
             a_mais(i) < a_mais(j), resto(i) > resto(j)
      PROVE  FALSE
  <2>1. i \notin Premiados(ps, lucro) /\ j \in Premiados(ps, lucro)
    BY <1>2, <1>3
  <2>2. ~(Cardinality(Antes(ps, lucro, i)) < n) /\ Cardinality(Antes(ps, lucro, j)) < n
    BY <2>1 DEF Premiados
  <2>3. Antes(ps, lucro, i) \subseteq Antes(ps, lucro, j)
    BY <1>1, <1>3 DEF Antes
  <2>4. IsFiniteSet(Antes(ps, lucro, j))
    <3>1. Antes(ps, lucro, j) \subseteq 1..Len(ps) /\ Len(ps) \in Nat
      BY DEF Antes
    <3>2. IsFiniteSet(1..Len(ps))
      BY <3>1, FS_Interval
    <3> QED BY <3>1, <3>2, FS_Subset
  <2>5. /\ Cardinality(Antes(ps, lucro, i)) <= Cardinality(Antes(ps, lucro, j))
        /\ Cardinality(Antes(ps, lucro, i)) \in Nat /\ Cardinality(Antes(ps, lucro, j)) \in Nat
    BY <2>3, <2>4, FS_Subset, FS_CardinalityType
  <2>6. n \in Int
    <3> HIDE DEF k
    <3> QED BY <1>0
  <2> HIDE DEF n
  <2> QED BY <2>2, <2>5, <2>6
<1>4. \A i \in DOMAIN ps : a_mais(i) \in {0, 1}
  BY <1>2
<1>5. \A i, j \in DOMAIN ps : a_mais(i) < a_mais(j) => resto(i) <= resto(j)
  BY <1>1, <1>3
<1> QED BY <1>4, <1>5 DEF MaioresRestos

LEMMA LancamentosDeTipo ==
  ASSUME NEW f \in Fechamentos
  PROVE  LancamentosDe(f) \in Seq(Lancamentos)
<1> DEFINE receita == [investidor |-> Dono, tipo |-> "receita_venda", valor |-> f.receita]
           parte(i) == [investidor |-> f.participacoes[i].investidor,
                        tipo |-> "distribuicao_lucro", valor |-> f.participacoes[i].valor]
           partes == [i \in 1..Len(f.participacoes) |-> parte(i)]
<1>1. f.participacoes \in Seq(Partes) /\ f.receita \in Precos
  BY DEF Fechamentos
<1>2. receita \in Lancamentos
  BY <1>1, ClosingAssumption DEF Lancamentos
<1>3. ASSUME NEW i \in 1..Len(f.participacoes) PROVE parte(i) \in Lancamentos
  <2>1. f.participacoes[i] \in Partes
    BY <1>1
  <2> QED BY <2>1 DEF Partes, Lancamentos
<1>4. LancamentosDe(f) = <<receita>> \o partes
  BY <1>1 DEF LancamentosDe
<1> HIDE DEF receita, parte
<1>5. partes \in Seq(Lancamentos)
  BY <1>1, <1>3
<1>6. <<receita>> \in Seq(Lancamentos)
  BY <1>2
<1> HIDE DEF partes
<1> QED BY <1>4, <1>5, <1>6

-----------------------------------------------------------------------------
(* Types.                                                                  *)

LEMMA TransacaoTipo ==
  ASSUME NEW s \in Sales \cup {None}, NEW v \in Vendas \cup {None},
         NEW rateio \in Seq(Participacoes)
  PROVE  Transacao(s, v, rateio) \in Transacoes
BY DEF Transacao, Transacoes

LEMMA NenhumaTipo == Nenhuma \in Transacoes
<1>1. <<>> \in Seq(Participacoes)
  OBVIOUS
<1> QED BY <1>1, TransacaoTipo DEF Nenhuma

\* A step of one request keeps the types and the phases, when the new
\* transaction has the type and fits the phase.
LEMMA PassoTipo ==
  ASSUME TypeClosing, Fases, NEW r \in Requests, NEW t \in Transacoes, NEW where \in PCs,
         Fase(t, where),
         tx' = [tx EXCEPT ![r] = t], pc' = [pc EXCEPT ![r] = where]
  PROVE  Fases' /\ tx' \in [Requests -> Transacoes] /\ pc' \in [Requests -> PCs]
<1>1. tx' \in [Requests -> Transacoes] /\ pc' \in [Requests -> PCs]
  BY DEF TypeClosing
<1>2. ASSUME NEW q \in Requests PROVE Fase(tx'[q], pc'[q])
  <2>1. CASE q = r
    BY <2>1 DEF TypeClosing
  <2>2. CASE q # r
    <3>1. tx'[q] = tx[q] /\ pc'[q] = pc[q]
      BY <2>2 DEF TypeClosing
    <3> QED BY <3>1 DEF Fases
  <2> QED BY <2>1, <2>2
<1> QED BY <1>1, <1>2 DEF Fases

LEMMA TerminarTipo ==
  ASSUME TypeClosing, Fases, NEW r \in Requests, Terminar(r)
  PROVE  Fases' /\ tx' \in [Requests -> Transacoes] /\ pc' \in [Requests -> PCs]
<1>1. Fase(Nenhuma, "idle") /\ "idle" \in PCs
  BY DEF Fase, PCs
<1> QED BY <1>1, NenhumaTipo, PassoTipo DEF Terminar

\* The steps of confirmar that change only the request.
LEMMA ConfirmarTipo ==
  ASSUME TypeClosing, Fases, NEW r \in Requests,
         \/ Abrir(r) \/ Calcular(r) \/ Validar(r) \/ Recusar(r) \/ Inserir(r)
         \/ Distribuir(r) \/ Falhar(r)
  PROVE  TypeClosing' /\ Fases'
<1> DEFINE Tipos == tx' \in [Requests -> Transacoes] /\ pc' \in [Requests -> PCs]
<1>0. /\ UNCHANGED <<venda, custo, fechamento, lancamentos>>
      /\ tx[r] \in Transacoes
  BY DEF TypeClosing, Abrir, Calcular, Validar, Recusar, Inserir, Distribuir, Falhar
<1> SUFFICES Fases' /\ Tipos
  BY <1>0 DEF TypeClosing
<1>1. CASE Abrir(r)
  <2>1. PICK s \in Sales, rateio \in Rateios :
          /\ venda[s] # None
          /\ pc' = [pc EXCEPT ![r] = "calcular"]
          /\ tx' = [tx EXCEPT ![r] = Transacao(s, venda[s], rateio)]
    BY <1>1 DEF Abrir
  <2>2. venda[s] \in Vendas /\ rateio \in Seq(Participacoes)
    BY <2>1, ClosingAssumption DEF TypeClosing
  <2>3. Transacao(s, venda[s], rateio) \in Transacoes
    BY <2>2, TransacaoTipo
  <2>4. Fase(Transacao(s, venda[s], rateio), "calcular") /\ "calcular" \in PCs
    BY <2>2 DEF Fase, Transacao, PCs
  <2> QED BY <2>1, <2>3, <2>4, PassoTipo
<1>2. CASE Calcular(r)
  <2> DEFINE v == tx[r].venda
             c == custo[tx[r].sale]
             f == [receita |-> v.valor, custo |-> c, debitos |-> v.debitos,
                   lucro |-> v.valor - c - v.debitos, participacoes |-> <<>>]
             t == [tx[r] EXCEPT !.novo = f]
  <2>1. tx[r].sale \in Sales /\ tx[r].venda \in Vendas
    BY <1>2 DEF Calcular, Fases, Fase
  <2>2. v.valor \in Precos /\ v.debitos \in Debitos /\ c \in Custos
    BY <2>1 DEF TypeClosing, Vendas
  <2>3. v.valor - c - v.debitos \in Int
    <3>1. Precos \subseteq Int /\ Debitos \subseteq Int /\ Custos \subseteq Int
      BY ClosingAssumption
    <3>2. v.valor \in Int /\ v.debitos \in Int /\ c \in Int
      BY <2>2, <3>1
    <3> QED BY <3>2
  <2>4. f \in Fechamentos
    BY <2>2, <2>3 DEF Fechamentos
  <2> HIDE DEF f
  <2>5. t \in Transacoes /\ t.sale = tx[r].sale /\ t.venda = tx[r].venda /\ t.novo = f
    BY <1>0, <2>4 DEF Transacoes
  <2>6. Fase(t, "validar") /\ "validar" \in PCs
    BY <2>1, <2>4, <2>5 DEF Fase, PCs
  <2>7. tx' = [tx EXCEPT ![r] = t] /\ pc' = [pc EXCEPT ![r] = "validar"]
    BY <1>2 DEF Calcular, f, TypeClosing
  <2> HIDE DEF t
  <2> QED BY <2>5, <2>6, <2>7, PassoTipo
<1>3. CASE Validar(r)
  <2>1. Fase(tx[r], "inserir") /\ "inserir" \in PCs
    BY <1>3 DEF Validar, Fases, Fase, PCs
  <2>2. tx' = [tx EXCEPT ![r] = tx[r]] /\ pc' = [pc EXCEPT ![r] = "inserir"]
    BY <1>3 DEF Validar, TypeClosing
  <2> QED BY <1>0, <2>1, <2>2, PassoTipo
<1>4. CASE Recusar(r) \/ Falhar(r)
  BY <1>4, TerminarTipo DEF Recusar, Falhar
<1>5. CASE Inserir(r)
  <2>1. Fase(tx[r], "distribuir") /\ "distribuir" \in PCs
    BY <1>5 DEF Inserir, Fases, Fase, PCs
  <2>2. tx' = [tx EXCEPT ![r] = tx[r]] /\ pc' = [pc EXCEPT ![r] = "distribuir"]
    BY <1>5 DEF Inserir, TypeClosing
  <2> QED BY <1>0, <2>1, <2>2, PassoTipo
<1>6. CASE Distribuir(r)
  <2> DEFINE ps == ParticipacoesDe(tx[r].rateio, tx[r].novo.lucro)
             f == [tx[r].novo EXCEPT !.participacoes = ps]
             t == [tx[r] EXCEPT !.novo = f, !.novos = LancamentosDe(f)]
  <2>1. /\ tx[r].sale \in Sales /\ tx[r].venda \in Vendas /\ tx[r].novo \in Fechamentos
        /\ ParticipacoesValidas(tx[r].rateio, tx[r].novo.lucro)
    BY <1>6 DEF Distribuir, Fases, Fase
  <2>2. tx[r].rateio \in Seq(Participacoes) /\ tx[r].novo.lucro \in Int
    BY <1>0, <2>1 DEF Transacoes, Fechamentos
  <2>3. f.participacoes = ps
    BY <2>1 DEF Fechamentos
  <2>4. ~DistribuicaoFalha(ps)
    BY <1>6, <2>3 DEF Distribuir
  <2>5. ps \in Seq(Partes)
    BY <2>1, <2>2, <2>4, ParticipacoesDeTipo
  <2>6. f \in Fechamentos
    BY <2>1, <2>5 DEF Fechamentos
  <2>7. LancamentosDe(f) \in Seq(Lancamentos)
    BY <2>6, LancamentosDeTipo
  <2>8. /\ tx' = [tx EXCEPT ![r].novo = f, ![r].novos = LancamentosDe(f)]
        /\ pc' = [pc EXCEPT ![r] = "commit"]
    BY <1>6 DEF Distribuir
  <2> HIDE DEF f
  <2>9. /\ t \in Transacoes /\ t.sale = tx[r].sale /\ t.venda = tx[r].venda
        /\ t.novo = f /\ t.novos = LancamentosDe(f)
    BY <1>0, <2>6, <2>7 DEF Transacoes
  <2>10. tx' = [tx EXCEPT ![r] = t]
    BY <2>8 DEF TypeClosing
  <2>11. Fase(t, "commit") /\ "commit" \in PCs
    BY <2>1, <2>6, <2>9 DEF Fase, PCs
  <2> HIDE DEF t
  <2> QED BY <2>8, <2>9, <2>10, <2>11, PassoTipo
<1> QED BY <1>1, <1>2, <1>3, <1>4, <1>5, <1>6

LEMMA CommitTipo ==
  ASSUME TypeClosing, Fases, NEW r \in Requests, Commit(r)
  PROVE  TypeClosing' /\ Fases'
<1>1. tx[r].novo \in Fechamentos /\ tx[r].novos \in Seq(Lancamentos) /\ tx[r].sale \in Sales
  BY DEF Commit, TypeClosing, Fases, Fase, Transacoes
<1>2. lancamentos[tx[r].sale] \o tx[r].novos \in Seq(Lancamentos)
  BY <1>1 DEF TypeClosing
<1>3. /\ fechamento' \in [Sales -> Fechamentos \cup {None}]
      /\ lancamentos' \in [Sales -> Seq(Lancamentos)]
  BY <1>1, <1>2 DEF Commit, TypeClosing
<1>4. Fases' /\ tx' \in [Requests -> Transacoes] /\ pc' \in [Requests -> PCs]
  BY TerminarTipo DEF Commit
<1> QED BY <1>3, <1>4 DEF Commit, TypeClosing

LEMMA OutrasTipo ==
  ASSUME TypeClosing, Fases, GravarVenda \/ ExcluirVenda \/ GravarCusto
  PROVE  TypeClosing' /\ Fases'
<1>1. UNCHANGED <<pc, tx>>
  BY DEF GravarVenda, ExcluirVenda, GravarCusto
<1>2. Fases'
  BY <1>1 DEF Fases
<1>3. TypeClosing'
  <2>1. CASE GravarVenda
    BY <2>1 DEF GravarVenda, TypeClosing
  <2>2. CASE ExcluirVenda
    BY <2>2 DEF ExcluirVenda, TypeClosing
  <2>3. CASE GravarCusto
    BY <2>3 DEF GravarCusto, TypeClosing
  <2> QED BY <2>1, <2>2, <2>3
<1> QED BY <1>2, <1>3

-----------------------------------------------------------------------------
(* The cash book.                                                          *)

LEMMA InitInv == Init => IInv
<1> SUFFICES ASSUME Init PROVE IInv
  OBVIOUS
<1>1. TypeClosing
  <2>1. <<>> \in Seq(Lancamentos)
    OBVIOUS
  <2> QED BY <2>1, NenhumaTipo DEF Init, TypeClosing, PCs
<1>2. Fases /\ InsercaoUnica
  BY DEF Init, Fases, Fase, InsercaoUnica
<1>3. CaixaEspelhaFechamentos /\ FechamentoTemVenda
  BY DEF Init, CaixaEspelhaFechamentos, FechamentoTemVenda
<1> QED BY <1>1, <1>2, <1>3 DEF IInv

LEMMA ConfirmarInv ==
  ASSUME IInv, NEW r \in Requests,
         \/ Abrir(r) \/ Calcular(r) \/ Validar(r) \/ Recusar(r) \/ Inserir(r)
         \/ Distribuir(r) \/ Falhar(r)
  PROVE  IInv'
<1>1. TypeClosing' /\ Fases'
  BY ConfirmarTipo DEF IInv
<1>2. UNCHANGED <<venda, fechamento, lancamentos>>
  BY DEF Abrir, Calcular, Validar, Recusar, Inserir, Distribuir, Falhar
<1>3. CaixaEspelhaFechamentos' /\ FechamentoTemVenda'
  BY <1>2 DEF IInv, CaixaEspelhaFechamentos, FechamentoTemVenda
<1>4. \A q \in Requests \ {r} : pc'[q] = pc[q] /\ tx'[q] = tx[q]
  BY DEF IInv, TypeClosing, Abrir, Calcular, Validar, Recusar, Inserir, Distribuir, Falhar,
         Terminar
<1>5. InsercaoUnica'
  <2>1. CASE Inserir(r)
    <3>1. /\ pc'[r] = "distribuir" /\ tx' = tx /\ tx[r].sale \in Sales
          /\ venda[tx[r].sale] # None /\ fechamento[tx[r].sale] = None
          /\ Inseridos(tx[r].sale) = {}
      BY <2>1 DEF Inserir, InsercaoFalha, IInv, TypeClosing, Fases, Fase
    <3>2. ASSUME NEW q \in Requests, pc'[q] \in {"distribuir", "commit"}
          PROVE  /\ venda'[tx'[q].sale] # None /\ fechamento'[tx'[q].sale] = None
                 /\ Inseridos(tx[q].sale)' = {q}
      <4>1. CASE q = r
        BY <1>2, <1>4, <3>1, <4>1 DEF Inseridos
      <4>2. CASE q # r
        <5>1. /\ pc[q] \in {"distribuir", "commit"} /\ q \in Inseridos(tx[q].sale)
              /\ venda[tx[q].sale] # None /\ fechamento[tx[q].sale] = None
              /\ Inseridos(tx[q].sale) = {q}
          BY <1>4, <3>2, <4>2 DEF IInv, InsercaoUnica, Inseridos
        <5>2. tx[q].sale # tx[r].sale
          BY <3>1, <5>1
        <5> QED BY <1>2, <1>4, <3>1, <4>2, <5>1, <5>2 DEF Inseridos
      <4> QED BY <4>1, <4>2
    <3> QED BY <3>1, <3>2 DEF InsercaoUnica
  <2>2. CASE ~Inserir(r)
    <3>1. /\ pc'[r] \in {"distribuir", "commit"} => pc[r] \in {"distribuir", "commit"}
          /\ pc'[r] \in {"distribuir", "commit"} => tx'[r].sale = tx[r].sale
      BY <2>2 DEF IInv, TypeClosing, Transacoes, Abrir, Calcular, Validar, Recusar, Distribuir,
                  Falhar, Terminar
    <3>2. ASSUME NEW q \in Requests, pc'[q] \in {"distribuir", "commit"}
          PROVE  /\ venda'[tx'[q].sale] # None /\ fechamento'[tx'[q].sale] = None
                 /\ Inseridos(tx[q].sale)' = {q} /\ tx'[q].sale = tx[q].sale
      <4>1. pc[q] \in {"distribuir", "commit"} /\ tx'[q].sale = tx[q].sale
        BY <1>4, <3>1, <3>2
      <4>2. /\ venda[tx[q].sale] # None /\ fechamento[tx[q].sale] = None
            /\ Inseridos(tx[q].sale) = {q}
        BY <4>1 DEF IInv, InsercaoUnica
      <4>3. Inseridos(tx[q].sale)' = {q}
        BY <1>4, <3>1, <3>2, <4>1, <4>2 DEF Inseridos
      <4> QED BY <1>2, <4>1, <4>2, <4>3
    <3> QED BY <3>2 DEF InsercaoUnica
  <2> QED BY <2>1, <2>2
<1> QED BY <1>1, <1>3, <1>5 DEF IInv

\* The commit enters the closing and its entries where there were none.
LEMMA CommitInv ==
  ASSUME IInv, NEW r \in Requests, Commit(r)
  PROVE  IInv'
<1> DEFINE s == tx[r].sale
<1>1. TypeClosing' /\ Fases'
  BY CommitTipo DEF IInv
<1>2. /\ s \in Sales /\ tx[r].novo \in Fechamentos /\ tx[r].novo # None
      /\ tx[r].novos = LancamentosDe(tx[r].novo) /\ tx[r].novos \in Seq(Lancamentos)
  BY ClosingAssumption DEF Commit, IInv, TypeClosing, Fases, Fase, Transacoes
<1>3. venda[s] # None /\ fechamento[s] = None /\ Inseridos(s) = {r}
  BY DEF Commit, IInv, InsercaoUnica
<1>4. /\ venda' = venda
      /\ fechamento' = [fechamento EXCEPT ![s] = tx[r].novo]
      /\ lancamentos' = [lancamentos EXCEPT ![s] = @ \o tx[r].novos]
      /\ pc'[r] = "idle" /\ \A q \in Requests \ {r} : pc'[q] = pc[q] /\ tx'[q] = tx[q]
  BY DEF Commit, Terminar, IInv, TypeClosing
<1>5. lancamentos[s] = <<>>
  BY <1>2, <1>3 DEF IInv, CaixaEspelhaFechamentos
<1>6. CaixaEspelhaFechamentos'
  <2>1. ASSUME NEW v \in Sales
        PROVE  lancamentos'[v] =
                 IF fechamento'[v] = None THEN <<>> ELSE LancamentosDe(fechamento'[v])
    <3>1. CASE v = s
      <4>1. lancamentos'[s] = <<>> \o tx[r].novos /\ fechamento'[s] = tx[r].novo
        BY <1>2, <1>4, <1>5 DEF IInv, TypeClosing
      <4>2. <<>> \o tx[r].novos = tx[r].novos
        BY <1>2
      <4> QED BY <1>2, <3>1, <4>1, <4>2
    <3>2. CASE v # s
      <4>1. lancamentos'[v] = lancamentos[v] /\ fechamento'[v] = fechamento[v]
        BY <1>4, <3>2 DEF IInv, TypeClosing
      <4> QED BY <4>1 DEF IInv, CaixaEspelhaFechamentos
    <3> QED BY <3>1, <3>2
  <2>2. ASSUME NEW v \in Sales PROVE LancamentosDe(fechamento[v])' = LancamentosDe(fechamento'[v])
    BY DEF LancamentosDe
  <2> QED BY <2>1, <2>2 DEF CaixaEspelhaFechamentos
<1>7. FechamentoTemVenda'
  BY <1>2, <1>3, <1>4 DEF FechamentoTemVenda, IInv, TypeClosing
<1>8. InsercaoUnica'
  <2>1. ASSUME NEW q \in Requests, pc'[q] \in {"distribuir", "commit"}
        PROVE  /\ venda'[tx'[q].sale] # None /\ fechamento'[tx'[q].sale] = None
               /\ Inseridos(tx[q].sale)' = {q} /\ tx'[q] = tx[q]
    <3>1. q # r /\ pc[q] \in {"distribuir", "commit"} /\ tx'[q] = tx[q]
      BY <1>4, <2>1
    <3>2. /\ venda[tx[q].sale] # None /\ fechamento[tx[q].sale] = None
          /\ Inseridos(tx[q].sale) = {q} /\ tx[q].sale \in Sales
      BY <3>1 DEF IInv, InsercaoUnica, Fases, Fase
    <3>3. tx[q].sale # s
      BY <1>3, <3>1, <3>2
    <3>4. fechamento'[tx[q].sale] = None
      BY <1>4, <3>2, <3>3 DEF IInv, TypeClosing
    <3>5. Inseridos(tx[q].sale)' = {q}
      BY <1>4, <2>1, <3>1, <3>2 DEF Inseridos
    <3> QED BY <1>4, <3>1, <3>2, <3>4, <3>5
  <2> QED BY <2>1 DEF InsercaoUnica
<1> QED BY <1>1, <1>6, <1>7, <1>8 DEF IInv

\* The other requests leave an inserted closing its sale.
LEMMA OutrasInv ==
  ASSUME IInv, GravarVenda \/ ExcluirVenda \/ GravarCusto
  PROVE  IInv'
<1>1. TypeClosing' /\ Fases'
  BY OutrasTipo DEF IInv
<1>2. UNCHANGED <<pc, tx>>
  BY DEF GravarVenda, ExcluirVenda, GravarCusto
<1>3. \A r \in Requests :
        pc[r] \in {"distribuir", "commit"} =>
          /\ tx[r].sale \in Sales /\ r \in Inseridos(tx[r].sale)
          /\ venda[tx[r].sale] # None /\ fechamento[tx[r].sale] = None
          /\ Inseridos(tx[r].sale) = {r}
  BY DEF IInv, Fases, Fase, InsercaoUnica, Inseridos
<1>4. \A v : Inseridos(v)' = Inseridos(v)
  BY <1>2 DEF Inseridos
<1>5. CASE GravarVenda
  <2>1. PICK s \in Sales, v \in Vendas :
          venda' = [venda EXCEPT ![s] = v] /\ UNCHANGED <<fechamento, lancamentos>>
    BY <1>5 DEF GravarVenda
  <2>2. v # None
    BY ClosingAssumption
  <2>3. \A u \in Sales : venda[u] # None => venda'[u] # None
    BY <2>1, <2>2 DEF IInv, TypeClosing
  <2>4. InsercaoUnica'
    BY <1>2, <1>3, <1>4, <2>1, <2>3 DEF InsercaoUnica
  <2>5. CaixaEspelhaFechamentos' /\ FechamentoTemVenda'
    BY <2>1, <2>3 DEF IInv, CaixaEspelhaFechamentos, FechamentoTemVenda
  <2> QED BY <1>1, <2>4, <2>5 DEF IInv
<1>6. CASE ExcluirVenda
  <2>1. PICK s \in Sales :
          /\ Inseridos(s) = {}
          /\ venda' = [venda EXCEPT ![s] = None]
          /\ fechamento' = [fechamento EXCEPT ![s] = None]
          /\ lancamentos' = [lancamentos EXCEPT ![s] = <<>>]
    BY <1>6 DEF ExcluirVenda
  <2>2. /\ fechamento'[s] = None /\ lancamentos'[s] = <<>>
        /\ \A u \in Sales \ {s} :
             venda'[u] = venda[u] /\ fechamento'[u] = fechamento[u]
             /\ lancamentos'[u] = lancamentos[u]
    BY <2>1 DEF IInv, TypeClosing
  <2>3. InsercaoUnica'
    <3>1. ASSUME NEW r \in Requests, pc[r] \in {"distribuir", "commit"}
          PROVE  venda'[tx[r].sale] # None /\ fechamento'[tx[r].sale] = None
      BY <1>3, <2>1, <2>2, <3>1
    <3> QED BY <1>2, <1>3, <1>4, <3>1 DEF InsercaoUnica
  <2>4. CaixaEspelhaFechamentos' /\ FechamentoTemVenda'
    BY <2>2 DEF IInv, CaixaEspelhaFechamentos, FechamentoTemVenda, LancamentosDe
  <2> QED BY <1>1, <2>3, <2>4 DEF IInv
<1>7. CASE GravarCusto
  <2>1. UNCHANGED <<venda, fechamento, lancamentos>>
    BY <1>7 DEF GravarCusto
  <2>2. InsercaoUnica'
    BY <1>2, <1>3, <1>4, <2>1 DEF InsercaoUnica
  <2>3. CaixaEspelhaFechamentos' /\ FechamentoTemVenda'
    BY <2>1 DEF IInv, CaixaEspelhaFechamentos, FechamentoTemVenda
  <2> QED BY <1>1, <2>2, <2>3 DEF IInv
<1> QED BY <1>5, <1>6, <1>7

LEMMA StutterInv ==
  ASSUME IInv, UNCHANGED vars
  PROVE  IInv'
<1>1. \A v : Inseridos(v)' = Inseridos(v)
  BY DEF Inseridos, vars
<1> QED BY <1>1 DEF IInv, TypeClosing, Fases, InsercaoUnica, CaixaEspelhaFechamentos,
                    FechamentoTemVenda, vars

THEOREM Invariance == Spec => []IInv
<1>1. IInv /\ [Next]_vars => IInv'
  <2> SUFFICES ASSUME IInv, [Next]_vars PROVE IInv'
    OBVIOUS
  <2>1. CASE UNCHANGED vars
    BY <2>1, StutterInv
  <2>2. ASSUME NEW r \in Requests, Confirmar(r) PROVE IInv'
    BY <2>2, ConfirmarInv, CommitInv DEF Confirmar
  <2> QED BY <2>1, <2>2, OutrasInv DEF Next
<1> QED BY InitInv, <1>1, PTL DEF Spec

-----------------------------------------------------------------------------
(* The theorems.                                                           *)

\* Types, and the CHECK constraints: no share and no entry of nothing.
THEOREM ClosingTypes == Spec => []TypeClosing
<1>1. IInv => TypeClosing
  BY DEF IInv
<1> QED BY Invariance, <1>1, PTL

\* The cash book has exactly the entries of the committed closings.
THEOREM CashMirrorsClosings == Spec => []CaixaEspelhaFechamentos
<1>1. IInv => CaixaEspelhaFechamentos
  BY DEF IInv
<1> QED BY Invariance, <1>1, PTL

\* A closing refers to a sale.
THEOREM ClosingHasSale == Spec => []FechamentoTemVenda
<1>1. IInv => FechamentoTemVenda
  BY DEF IInv
<1> QED BY Invariance, <1>1, PTL

LEMMA StepKeepsClosing ==
  ASSUME IInv, [Next]_vars, NEW s \in Sales, fechamento[s] # None, venda'[s] # None
  PROVE  fechamento'[s] = fechamento[s]
<1>1. CASE \E r \in Requests : Commit(r)
  <2>1. PICK r \in Requests : Commit(r)
    BY <1>1
  <2>2. fechamento[tx[r].sale] = None
    BY <2>1 DEF Commit, IInv, InsercaoUnica
  <2> QED BY <2>1, <2>2 DEF Commit, IInv, TypeClosing
<1>2. CASE ExcluirVenda
  BY <1>2 DEF ExcluirVenda, IInv, TypeClosing
<1>3. CASE ~(\E r \in Requests : Commit(r)) /\ ~ExcluirVenda
  <2>1. fechamento' = fechamento
    BY <1>3 DEF Next, Confirmar, Abrir, Calcular, Validar, Recusar, Inserir, Distribuir,
                Falhar, GravarVenda, GravarCusto, vars
  <2> QED BY <2>1
<1> QED BY <1>1, <1>2, <1>3

\* A closing is final while its sale is there, although it is confirmed twice
\* at once.
THEOREM ClosingIsFinal == Spec => FechamentoDefinitivo
<1>1. IInv /\ [Next]_vars =>
        [\A s \in Sales :
           fechamento[s] # None /\ venda'[s] # None => fechamento'[s] = fechamento[s]]_vars
  BY StepKeepsClosing
<1> QED BY Invariance, <1>1, PTL DEF Spec, FechamentoDefinitivo

-----------------------------------------------------------------------------
(* What a closing hands out.                                               *)

\* The profit of a closing is that of its own numbers.
LucroDe(f) == f.lucro = f.receita - f.custo - f.debitos

DeRateio(f) ==
  /\ LucroDe(f)
  /\ \E rateio \in Rateios :
       /\ ParticipacoesValidas(rateio, f.lucro)
       /\ f.participacoes = ParticipacoesDe(rateio, f.lucro)

\* What the numbers of a request come from.
Conta(t, where) ==
  /\ where # "idle" => t.rateio \in Rateios
  /\ where \in {"validar", "inserir", "distribuir"} => LucroDe(t.novo)
  /\ where = "commit" => DeRateio(t.novo)

\* Every closing is of accepted shares, and of the profit of its own numbers.
Contas ==
  /\ \A r \in Requests : Conta(tx[r], pc[r])
  /\ \A s \in Sales : fechamento[s] # None => DeRateio(fechamento[s])

\* The requests ask for percentages with two decimals.
DuasCasas == \A rateio \in Rateios : DoisDecimais(rateio)

\* A step of one request that leaves the committed closings alone.
LEMMA PassoContas ==
  ASSUME TypeClosing, Contas, NEW r \in Requests, NEW t, NEW where, Conta(t, where),
         tx' = [tx EXCEPT ![r] = t], pc' = [pc EXCEPT ![r] = where],
         fechamento' = fechamento
  PROVE  Contas'
<1>1. ASSUME NEW q \in Requests PROVE Conta(tx'[q], pc'[q])
  <2>1. CASE q = r
    <3>1. tx'[q] = t /\ pc'[q] = where
      BY <2>1 DEF TypeClosing
    <3> QED BY <3>1
  <2>2. CASE q # r
    <3>1. tx'[q] = tx[q] /\ pc'[q] = pc[q]
      BY <2>2 DEF TypeClosing
    <3> QED BY <3>1 DEF Contas
  <2> QED BY <2>1, <2>2
<1>2. \A s \in Sales : fechamento'[s] # None => DeRateio(fechamento'[s])
  BY DEF Contas
<1> QED BY <1>1, <1>2 DEF Contas

LEMMA TerminarContas ==
  ASSUME TypeClosing, Contas, NEW r \in Requests, Terminar(r), fechamento' = fechamento
  PROVE  Contas'
<1>1. Conta(Nenhuma, "idle")
  BY DEF Conta
<1> QED BY <1>1, PassoContas DEF Terminar

LEMMA ConfirmarContas ==
  ASSUME TypeClosing, Fases, Contas, NEW r \in Requests,
         \/ Abrir(r) \/ Calcular(r) \/ Validar(r) \/ Recusar(r) \/ Inserir(r)
         \/ Distribuir(r) \/ Falhar(r)
  PROVE  Contas'
<1>0. /\ fechamento' = fechamento
      /\ tx[r] \in Transacoes /\ Conta(tx[r], pc[r]) /\ Fase(tx[r], pc[r])
  BY DEF TypeClosing, Contas, Fases, Abrir, Calcular, Validar, Recusar, Inserir, Distribuir, Falhar
<1>1. CASE Abrir(r)
  <2>1. PICK s \in Sales, rateio \in Rateios :
          /\ pc' = [pc EXCEPT ![r] = "calcular"]
          /\ tx' = [tx EXCEPT ![r] = Transacao(s, venda[s], rateio)]
    BY <1>1 DEF Abrir
  <2>2. Conta(Transacao(s, venda[s], rateio), "calcular")
    BY DEF Conta, Transacao
  <2> QED BY <1>0, <2>1, <2>2, PassoContas
<1>2. CASE Calcular(r)
  <2> DEFINE v == tx[r].venda
             c == custo[tx[r].sale]
             f == [receita |-> v.valor, custo |-> c, debitos |-> v.debitos,
                   lucro |-> v.valor - c - v.debitos, participacoes |-> <<>>]
             t == [tx[r] EXCEPT !.novo = f]
  <2>1. LucroDe(f)
    BY DEF LucroDe
  <2> HIDE DEF f
  <2>2. t.rateio = tx[r].rateio /\ t.novo = f
    BY <1>0 DEF Transacoes
  <2>3. Conta(t, "validar")
    BY <1>0, <1>2, <2>1, <2>2 DEF Conta, Calcular
  <2>4. tx' = [tx EXCEPT ![r] = t] /\ pc' = [pc EXCEPT ![r] = "validar"]
    BY <1>2 DEF Calcular, f, TypeClosing
  <2> HIDE DEF t
  <2> QED BY <1>0, <2>3, <2>4, PassoContas
<1>3. CASE Validar(r)
  <2>1. Conta(tx[r], "inserir")
    BY <1>0, <1>3 DEF Validar, Conta
  <2>2. tx' = [tx EXCEPT ![r] = tx[r]] /\ pc' = [pc EXCEPT ![r] = "inserir"]
    BY <1>3 DEF Validar, TypeClosing
  <2> QED BY <1>0, <2>1, <2>2, PassoContas
<1>4. CASE Recusar(r) \/ Falhar(r)
  BY <1>0, <1>4, TerminarContas DEF Recusar, Falhar
<1>5. CASE Inserir(r)
  <2>1. Conta(tx[r], "distribuir")
    BY <1>0, <1>5 DEF Inserir, Conta
  <2>2. tx' = [tx EXCEPT ![r] = tx[r]] /\ pc' = [pc EXCEPT ![r] = "distribuir"]
    BY <1>5 DEF Inserir, TypeClosing
  <2> QED BY <1>0, <2>1, <2>2, PassoContas
<1>6. CASE Distribuir(r)
  <2> DEFINE ps == ParticipacoesDe(tx[r].rateio, tx[r].novo.lucro)
             f == [tx[r].novo EXCEPT !.participacoes = ps]
             t == [tx[r] EXCEPT !.novo = f, !.novos = LancamentosDe(f)]
  <2>1. /\ tx[r].novo \in Fechamentos /\ LucroDe(tx[r].novo) /\ tx[r].rateio \in Rateios
        /\ ParticipacoesValidas(tx[r].rateio, tx[r].novo.lucro)
    BY <1>0, <1>6 DEF Distribuir, Conta, Fase
  <2>2. /\ f.participacoes = ps /\ f.lucro = tx[r].novo.lucro /\ f.receita = tx[r].novo.receita
        /\ f.custo = tx[r].novo.custo /\ f.debitos = tx[r].novo.debitos
    BY <2>1 DEF Fechamentos
  <2>3. /\ tx' = [tx EXCEPT ![r].novo = f, ![r].novos = LancamentosDe(f)]
        /\ pc' = [pc EXCEPT ![r] = "commit"]
    BY <1>6 DEF Distribuir
  <2> HIDE DEF f, ps
  <2>4. DeRateio(f)
    BY <2>1, <2>2 DEF DeRateio, LucroDe, ps
  <2>5. t.rateio = tx[r].rateio /\ t.novo = f
    BY <1>0 DEF Transacoes
  <2>6. Conta(t, "commit")
    BY <2>1, <2>4, <2>5 DEF Conta
  <2>7. tx' = [tx EXCEPT ![r] = t]
    BY <2>3 DEF TypeClosing
  <2> HIDE DEF t
  <2> QED BY <1>0, <2>3, <2>6, <2>7, PassoContas
<1> QED BY <1>1, <1>2, <1>3, <1>4, <1>5, <1>6

LEMMA CommitContas ==
  ASSUME TypeClosing, Contas, NEW r \in Requests, Commit(r)
  PROVE  Contas'
<1>1. DeRateio(tx[r].novo)
  BY DEF Commit, Contas, Conta
<1>2. ASSUME NEW s \in Sales, fechamento'[s] # None PROVE DeRateio(fechamento'[s])
  <2>1. fechamento'[s] = tx[r].novo \/ fechamento'[s] = fechamento[s]
    BY DEF Commit, TypeClosing
  <2> QED BY <1>1, <1>2, <2>1 DEF Contas
<1>3. ASSUME NEW q \in Requests PROVE Conta(tx'[q], pc'[q])
  <2>1. CASE q = r
    <3>1. pc'[q] = "idle"
      BY <2>1 DEF Commit, Terminar, TypeClosing
    <3> QED BY <3>1 DEF Conta
  <2>2. CASE q # r
    <3>1. tx'[q] = tx[q] /\ pc'[q] = pc[q]
      BY <2>2 DEF Commit, Terminar, TypeClosing
    <3> QED BY <3>1 DEF Contas
  <2> QED BY <2>1, <2>2
<1> QED BY <1>2, <1>3 DEF Contas

LEMMA OutrasContas ==
  ASSUME TypeClosing, Contas, GravarVenda \/ ExcluirVenda \/ GravarCusto
  PROVE  Contas'
<1>1. UNCHANGED <<pc, tx>>
  BY DEF GravarVenda, ExcluirVenda, GravarCusto
<1>2. \A s \in Sales : fechamento'[s] = fechamento[s] \/ fechamento'[s] = None
  BY DEF GravarVenda, ExcluirVenda, GravarCusto, TypeClosing
<1> QED BY <1>1, <1>2 DEF Contas

LEMMA ContasInvariante == Spec => []Contas
<1>1. Init => Contas
  BY DEF Init, Contas, Conta
<1>2. IInv /\ Contas /\ [Next]_vars => Contas'
  <2> SUFFICES ASSUME IInv, Contas, [Next]_vars PROVE Contas'
    OBVIOUS
  <2>0. TypeClosing /\ Fases
    BY DEF IInv
  <2>1. CASE UNCHANGED vars
    BY <2>1 DEF Contas, vars
  <2>2. ASSUME NEW r \in Requests, Confirmar(r) PROVE Contas'
    BY <2>0, <2>2, ConfirmarContas, CommitContas DEF Confirmar
  <2> QED BY <2>0, <2>1, <2>2, OutrasContas DEF Next
<1> QED BY Invariance, <1>1, <1>2, PTL DEF Spec

\* The balance of the entries of a closing: its revenue less its shares.
LEMMA SaldoDoFechamento ==
  ASSUME NEW f \in Fechamentos
  PROVE  LET ps == f.participacoes
         IN  /\ SumFunction([i \in DOMAIN ps |-> ps[i].valor]) \in Int
             /\ Saldo(LancamentosDe(f)) =
                  f.receita - SumFunction([i \in DOMAIN ps |-> ps[i].valor])
<1> DEFINE ps == f.participacoes
           n == Len(ps)
           ls == LancamentosDe(f)
           receita == [investidor |-> Dono, tipo |-> "receita_venda", valor |-> f.receita]
           parte(i) == [investidor |-> ps[i].investidor, tipo |-> "distribuicao_lucro",
                        valor |-> ps[i].valor]
           partes == [i \in 1..n |-> parte(i)]
           g == [i \in DOMAIN ls |->
                   IF ls[i].tipo = "receita_venda" THEN ls[i].valor ELSE -ls[i].valor]
           v == [i \in 1..n |-> ps[i].valor]
           m == [i \in 1..n |-> -v[i]]
<1>1. ps \in Seq(Partes) /\ f.receita \in Int /\ n \in Nat /\ DOMAIN ps = 1..n
  <2>1. ps \in Seq(Partes) /\ f.receita \in Precos
    BY DEF Fechamentos
  <2>2. f.receita \in Nat
    BY <2>1, ClosingAssumption
  <2> HIDE DEF ps
  <2> QED BY <2>1, <2>2
<1>2. ASSUME NEW i \in 1..n PROVE ps[i].valor \in Int
  <2>1. ps[i] \in Partes
    <3> HIDE DEF ps
    <3> QED BY <1>1
  <2> QED BY <2>1 DEF Partes
<1>3. ls = <<receita>> \o partes
  BY <1>1 DEF LancamentosDe
<1>4. /\ DOMAIN ls = 1..(n + 1) /\ ls[1] = receita
      /\ \A i \in 1..n : ls[i + 1] = parte(i)
  <2>1. Len(<<receita>>) = 1 /\ <<receita>>[1] = receita
    OBVIOUS
  <2> HIDE DEF ps, parte, receita
  <2>2. partes \in Seq({parte(i) : i \in 1..n}) /\ Len(partes) = n
    BY <1>1
  <2>3. \A i \in 1..n : partes[i] = parte(i)
    OBVIOUS
  <2> HIDE DEF partes, n
  <2> QED BY <1>1, <1>3, <2>1, <2>2, <2>3
<1>5. DOMAIN g = 1..(n + 1) /\ g[1] = f.receita
  BY <1>4
<1>6. ASSUME NEW i \in 1..n PROVE m[i] = g[i + 1]
  <2>1. i + 1 \in 1..(n + 1)
    BY <1>1
  <2>2. ls[i + 1].tipo = "distribuicao_lucro" /\ ls[i + 1].valor = ps[i].valor
    <3>1. ls[i + 1] = parte(i)
      BY <1>4
    <3>2. parte(i).tipo = "distribuicao_lucro" /\ parte(i).valor = ps[i].valor
      OBVIOUS
    <3> HIDE DEF parte, ls
    <3> QED BY <3>1, <3>2
  <2>3. i + 1 \in DOMAIN ls
    BY <1>4, <2>1
  <2> HIDE DEF ls
  <2>4. g[i + 1] = -ls[i + 1].valor
    BY <2>2, <2>3
  <2> QED BY <2>2, <2>4
<1>7. \A i \in 1..(n + 1) : g[i] \in Int
  <2>1. ASSUME NEW i \in 1..(n + 1) PROVE g[i] \in Int
    <3>1. CASE i = 1
      BY <1>1, <1>5, <3>1
    <3>2. CASE i # 1
      <4>1. i - 1 \in 1..n /\ (i - 1) + 1 = i
        BY <1>1, <3>2
      <4>2. g[i] = m[i - 1]
        BY <1>6, <4>1
      <4>3. m[i - 1] = -ps[i - 1].valor
        BY <4>1
      <4> QED BY <1>2, <4>1, <4>2, <4>3
    <3> QED BY <3>1, <3>2
  <2> QED BY <2>1
<1>8. Saldo(ls) = SumFunction(g)
  BY DEF Saldo
<1>9. DOMAIN m = 1..n /\ DOMAIN v = 1..n /\ \A i \in 1..n : v[i] \in Int
  BY <1>2
<1>10. IsFiniteSet(1..n)
  BY <1>1, FS_Interval
<1>11. SumFunction(m) = -SumFunction(v) /\ SumFunction(v) \in Int
  <2> HIDE DEF v, n
  <2> QED BY <1>9, <1>10, SomaOposta, SomaTipo
<1> HIDE DEF g, m, v, n, ls
<1>12. SumFunction(g) = g[1] + SumFunction(m)
  <2>1. Inteira(g, 1..(n + 1))
    BY <1>7 DEF Inteira
  <2> QED BY <1>1, <1>5, <1>6, <1>9, <2>1, SomaDeSequencia
<1>13. Saldo(ls) = f.receita - SumFunction(v)
  BY <1>1, <1>5, <1>8, <1>11, <1>12
<1>14. [i \in DOMAIN ps |-> ps[i].valor] = v
  BY <1>1 DEF v, n
<1> QED BY <1>11, <1>13, <1>14 DEF ls

\* The parts that are left are those of _distribuir_lucro.
LEMMA PartesDistribuidas ==
  ASSUME NEW rateio \in Seq(Participacoes), NEW lucro \in Int, lucro > 0,
         DoisDecimais(rateio)
  PROVE  LET ps == ParticipacoesDe(rateio, lucro)
         IN  /\ DOMAIN ps = DOMAIN rateio
             /\ [i \in DOMAIN ps |-> ps[i].valor] = DistribuirLucro(rateio, lucro)
             /\ \A i \in DOMAIN ps : ps[i].percentual * Centesimo = rateio[i].percentual
<1> DEFINE ps == ParticipacoesDe(rateio, lucro)
           D == DOMAIN rateio
           v == DistribuirLucro(rateio, lucro)
<1>1. ps = [i \in D |-> [investidor |-> rateio[i].investidor,
                        percentual |-> Quantizar(rateio[i].percentual), valor |-> v[i]]]
  BY DEF ParticipacoesDe
<1>2. DOMAIN ps = D /\ \A i \in D : ps[i].valor = v[i]
  BY <1>1
<1>3. v = [i \in D |-> v[i]]
  BY DEF DistribuirLucro
<1>4. ASSUME NEW i \in D PROVE ps[i].percentual * Centesimo = rateio[i].percentual
  <2>1. PICK q \in Nat : rateio[i].percentual = q * Centesimo
    BY DEF DoisDecimais
  <2>2. Quantizar(rateio[i].percentual) = q
    BY <2>1, QuantizarExato
  <2>3. ps[i].percentual = Quantizar(rateio[i].percentual)
    BY <1>1
  <2> QED BY <2>1, <2>2, <2>3
<1> HIDE DEF ps, v
<1>5. [i \in DOMAIN ps |-> ps[i].valor] = v
  BY <1>2, <1>3
<1> QED BY <1>2, <1>4, <1>5 DEF ps, v

\* Accepted shares with two decimals share the whole profit, no cent more.
THEOREM SharesAddUp ==
  ASSUME NEW ps \in Seq(Participacoes), NEW lucro \in Int, lucro > 0,
         DoisDecimais(ps), ParticipacoesValidas(ps, lucro)
  PROVE  SomaDe(DistribuirLucro(ps, lucro)) = lucro
<1>1. Quantizar(Percentual(ps)) = Quantizar(Cem)
  BY DEF ParticipacoesValidas
<1>2. Percentual(ps) = Cem
  BY <1>1, PercentualExato
<1> QED BY <1>2, PartesSomam DEF SomaDe

LEMMA FechamentoSoma ==
  ASSUME NEW f \in Fechamentos, DeRateio(f), DuasCasas, f.lucro > 0
  PROVE  SumFunction([i \in DOMAIN f.participacoes |-> f.participacoes[i].valor]) = f.lucro
<1>1. PICK rateio \in Rateios :
        /\ ParticipacoesValidas(rateio, f.lucro)
        /\ f.participacoes = ParticipacoesDe(rateio, f.lucro)
  BY DEF DeRateio
<1>2. rateio \in Seq(Participacoes) /\ DoisDecimais(rateio) /\ f.lucro \in Int
  BY ClosingAssumption DEF DuasCasas, Fechamentos
<1>3. [i \in DOMAIN f.participacoes |-> f.participacoes[i].valor] = DistribuirLucro(rateio, f.lucro)
  BY <1>1, <1>2, PartesDistribuidas
<1>4. SumFunction(DistribuirLucro(rateio, f.lucro)) = f.lucro
  BY <1>1, <1>2, SharesAddUp DEF SomaDe
<1> QED BY <1>3, <1>4

LEMMA SaldoJusto ==
  ASSUME NEW f \in Fechamentos, DeRateio(f), DuasCasas
  PROVE  Saldo(LancamentosDe(f)) = IF f.lucro > 0 THEN f.custo + f.debitos ELSE f.receita
<1> DEFINE v == [i \in DOMAIN f.participacoes |-> f.participacoes[i].valor]
<1>1. Saldo(LancamentosDe(f)) = f.receita - SumFunction(v)
  BY SaldoDoFechamento
<1>2. /\ f.receita \in Int /\ f.custo \in Int /\ f.debitos \in Int /\ f.lucro \in Int
      /\ f.lucro = f.receita - f.custo - f.debitos
  <2>1. f.receita \in Precos /\ f.custo \in Custos /\ f.debitos \in Debitos /\ f.lucro \in Int
    BY DEF Fechamentos
  <2>2. Precos \subseteq Int /\ Custos \subseteq Int /\ Debitos \subseteq Int
    BY ClosingAssumption
  <2> QED BY <2>1, <2>2 DEF DeRateio, LucroDe
<1>3. CASE f.lucro > 0
  <2>1. SumFunction(v) = f.lucro
    BY <1>3, FechamentoSoma
  <2> QED BY <1>1, <1>2, <1>3, <2>1
<1>4. CASE ~(f.lucro > 0)
  <2>1. f.participacoes = <<>>
    BY <1>2, <1>4 DEF DeRateio, ParticipacoesDe
  <2>2. DOMAIN f.participacoes = {}
    BY <2>1
  <2>3. v = [i \in {} |-> 0]
    BY <2>2
  <2>4. SumFunction([i \in {} |-> 0]) = 0
    BY SomaZero, FS_EmptySet
  <2> HIDE DEF v
  <2> QED BY <1>1, <1>2, <1>4, <2>3, <2>4
<1> QED BY <1>3, <1>4

LEMMA MaioresRestosDeFechamento ==
  ASSUME NEW f \in Fechamentos, DeRateio(f), DuasCasas
  PROVE  LET ps == [i \in DOMAIN f.participacoes |->
                      [percentual |-> f.participacoes[i].percentual * Centesimo]]
         IN  MaioresRestos(ps, f.lucro, [i \in DOMAIN ps |-> f.participacoes[i].valor])
<1> DEFINE qs == f.participacoes
           ps == [i \in DOMAIN qs |-> [percentual |-> qs[i].percentual * Centesimo]]
           v == [i \in DOMAIN ps |-> qs[i].valor]
<1>1. PICK rateio \in Rateios :
        /\ ParticipacoesValidas(rateio, f.lucro)
        /\ qs = ParticipacoesDe(rateio, f.lucro)
  BY DEF DeRateio
<1>2. rateio \in Seq(Participacoes) /\ DoisDecimais(rateio) /\ f.lucro \in Int
  BY ClosingAssumption DEF DuasCasas, Fechamentos
<1>3. CASE f.lucro > 0
  <2>1. /\ DOMAIN qs = DOMAIN rateio
        /\ [i \in DOMAIN qs |-> qs[i].valor] = DistribuirLucro(rateio, f.lucro)
        /\ \A i \in DOMAIN qs : qs[i].percentual * Centesimo = rateio[i].percentual
    BY <1>1, <1>2, <1>3, PartesDistribuidas
  <2>3. MaioresRestos(rateio, f.lucro, DistribuirLucro(rateio, f.lucro))
    BY <1>2, <1>3, LargestRests
  <2>4. /\ DOMAIN ps = DOMAIN rateio /\ v = DistribuirLucro(rateio, f.lucro)
        /\ \A i \in DOMAIN rateio : ps[i].percentual = rateio[i].percentual
    BY <2>1
  <2> HIDE DEF ps, v
  <2> QED BY <2>3, <2>4 DEF MaioresRestos, ps, v
<1>4. CASE ~(f.lucro > 0)
  <2>1. qs = <<>>
    BY <1>1, <1>2, <1>4 DEF ParticipacoesDe
  <2>2. DOMAIN ps = {}
    BY <2>1
  <2> HIDE DEF ps, v
  <2> QED BY <2>2 DEF MaioresRestos, ps, v
<1> QED BY <1>3, <1>4

\* What a closing hands out is fair to the cent and complete, as long as the
\* percentages have two decimals, which is how they are kept.
THEOREM ClosingIsFair ==
  ASSUME DuasCasas
  PROVE  Spec => []RateioJusto
<1>1. IInv /\ Contas => RateioJusto
  <2> SUFFICES ASSUME IInv, Contas, NEW s \in Sales, fechamento[s] # None
               PROVE  /\ Saldo(lancamentos[s]) =
                           IF fechamento[s].lucro > 0
                           THEN fechamento[s].custo + fechamento[s].debitos
                           ELSE fechamento[s].receita
                      /\ LET f  == fechamento[s]
                             ps == [i \in DOMAIN f.participacoes |->
                                      [percentual |-> f.participacoes[i].percentual * Centesimo]]
                         IN  MaioresRestos(ps, f.lucro, [i \in DOMAIN ps |-> f.participacoes[i].valor])
    BY DEF RateioJusto, NenhumCentavoSePerde, PartesJustas
  <2>1. fechamento[s] \in Fechamentos /\ DeRateio(fechamento[s])
    BY DEF IInv, TypeClosing, Contas
  <2>2. lancamentos[s] = LancamentosDe(fechamento[s])
    BY DEF IInv, CaixaEspelhaFechamentos
  <2> QED BY <2>1, <2>2, SaldoJusto, MaioresRestosDeFechamento
<1> QED BY Invariance, ContasInvariante, <1>1, PTL

\* Without it they need not even add up (the run closing_shares); with it the
\* shares of every closing are its profit.
THEOREM SharesAreTheProfit ==
  ASSUME DuasCasas
  PROVE  Spec => []PartesSomamLucro
<1>1. IInv /\ Contas => PartesSomamLucro
  <2> SUFFICES ASSUME IInv, Contas, NEW s \in Sales, fechamento[s] # None, fechamento[s].lucro > 0
               PROVE  SomaDe([i \in DOMAIN fechamento[s].participacoes |->
                                fechamento[s].participacoes[i].valor]) = fechamento[s].lucro
    BY DEF PartesSomamLucro
  <2>1. fechamento[s] \in Fechamentos /\ DeRateio(fechamento[s])
    BY DEF IInv, TypeClosing, Contas
  <2> QED BY <2>1, FechamentoSoma DEF SomaDe
<1> QED BY Invariance, ContasInvariante, <1>1, PTL
=============================================================================
