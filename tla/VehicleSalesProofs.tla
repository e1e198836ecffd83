-------------------------- MODULE VehicleSalesProofs --------------------------
(***************************************************************************)
(* Theorems about VehicleSales, for any number of vehicles, sales and      *)
(* concurrent requests and any mix of operations.                          *)
(*                                                                         *)
(*   TypeCorrect     the type invariant, with PhaseOK                      *)
(*   Locking         writes are covered by locks                           *)
(*   OneConcluded    at most one concluded sale of a vehicle               *)
(*   RefinesLedger, AvailableIsSold                                        *)
(*                   concurrent creates and deletes of sales without a     *)
(*                   trade-in implement SalesLedger, and sell available    *)
(*                   vehicles only                                         *)
(***************************************************************************)
EXTENDS VehicleSales, SequenceTheorems, TLAPS

Entries == [veiculo : Vehicles, own : BOOLEAN]

LEMMA PlanEntryType ==
  ASSUME NEW v \in Vehicles \cup {None}, NEW own \in BOOLEAN
  PROVE  /\ PlanEntry(v, own) \in Seq(Entries)
         /\ Len(PlanEntry(v, own)) \in 0..1
         /\ v \in Vehicles => Len(PlanEntry(v, own)) = 1
<1>1. CASE v = None
  <2>1. PlanEntry(v, own) = <<>>
    BY <1>1 DEF PlanEntry
  <2>2. v \notin Vehicles
    BY <1>1, SentinelAssumption
  <2> QED
    BY <2>1, <2>2
<1>2. CASE v # None
  <2>1. PlanEntry(v, own) = <<[veiculo |-> v, own |-> own]>>
    BY <1>2 DEF PlanEntry
  <2>2. [veiculo |-> v, own |-> own] \in Entries
    BY <1>2 DEF Entries
  <2> QED
    BY <2>1, <2>2
<1> QED
  BY <1>1, <1>2

\* A plan has one to four recomputations, each of a vehicle.
LEMMA PlanType ==
  ASSUME NEW t \in Transactions,
         t.kind \in {"create", "update", "delete"},
         t.kind # "delete" => t.new \in Rows,
         t.kind # "create" => t.old \in Rows
  PROVE  /\ SyncPlan(t) \in Seq(Entries)
         /\ Len(SyncPlan(t)) \in 1..4
<1> DEFINE OldV == IF t.old.veiculo # t.new.veiculo
                     THEN PlanEntry(t.old.veiculo, FALSE) ELSE <<>>
           NewV == PlanEntry(t.new.veiculo, TRUE)
           OldT == IF t.old.troca # t.new.troca
                     THEN PlanEntry(t.old.troca, FALSE) ELSE <<>>
           NewT == PlanEntry(t.new.troca, TRUE)
<1>1. ASSUME NEW row \in Rows
      PROVE  row.veiculo \in Vehicles /\ row.troca \in Vehicles \cup {None}
  BY DEF Rows
<1>e. <<>> \in Seq(Entries) /\ Len(<<>>) \in 0..1
  OBVIOUS
<1>2. CASE t.kind = "delete"
  <2> DEFINE V == PlanEntry(t.old.veiculo, FALSE)
             T == PlanEntry(t.old.troca, FALSE)
  <2>1. V \in Seq(Entries) /\ Len(V) = 1
    BY <1>1, <1>2, PlanEntryType
  <2>2. T \in Seq(Entries) /\ Len(T) \in 0..1
    BY <1>1, <1>2, PlanEntryType
  <2>3. SyncPlan(t) = V \o T
    BY <1>2 DEF SyncPlan
  <2> HIDE DEF V, T
  <2> QED
    BY <2>1, <2>2, <2>3, ConcatProperties
<1>3. CASE t.kind # "delete"
  <2>1. NewV \in Seq(Entries) /\ Len(NewV) = 1
    BY <1>1, <1>3, PlanEntryType
  <2>2. NewT \in Seq(Entries) /\ Len(NewT) \in 0..1
    BY <1>1, <1>3, PlanEntryType
  <2>3. CASE t.kind = "create"
    <3>1. SyncPlan(t) = NewV \o NewT
      BY <2>3 DEF SyncPlan
    <3> HIDE DEF NewV, NewT
    <3> QED
      BY <2>1, <2>2, <3>1, ConcatProperties
  <2>4. CASE t.kind = "update"
    <3>1. OldV \in Seq(Entries) /\ Len(OldV) \in 0..1
      <4> DEFINE E == PlanEntry(t.old.veiculo, FALSE)
      <4>1. E \in Seq(Entries) /\ Len(E) \in 0..1
        BY <1>1, <2>4, PlanEntryType
      <4>2. OldV = E \/ OldV = <<>>
        OBVIOUS
      <4> HIDE DEF E, OldV
      <4> QED
        BY <1>e, <4>1, <4>2
    <3>2. OldT \in Seq(Entries) /\ Len(OldT) \in 0..1
      <4> DEFINE E == PlanEntry(t.old.troca, FALSE)
      <4>1. E \in Seq(Entries) /\ Len(E) \in 0..1
        BY <1>1, <2>4, PlanEntryType
      <4>2. OldT = E \/ OldT = <<>>
        OBVIOUS
      <4> HIDE DEF E, OldT
      <4> QED
        BY <1>e, <4>1, <4>2
    <3>3. SyncPlan(t) = OldV \o NewV \o OldT \o NewT
      BY <2>4 DEF SyncPlan
    <3> HIDE DEF OldV, NewV, OldT, NewT
    <3>4. OldV \o NewV \in Seq(Entries) /\ Len(OldV \o NewV) \in 1..2
      BY <2>1, <3>1, ConcatProperties
    <3>5. (OldV \o NewV) \o OldT \in Seq(Entries) /\ Len((OldV \o NewV) \o OldT) \in 1..3
      BY <3>2, <3>4, ConcatProperties
    <3> DEFINE W == (OldV \o NewV) \o OldT
    <3>6. W \in Seq(Entries) /\ Len(W) \in 1..3
      BY <3>5
    <3> DEFINE P == W \o NewT
    <3>7. SyncPlan(t) = P
      BY <3>3
    <3> HIDE DEF W
    <3>8. P \in Seq(Entries) /\ Len(P) = Len(W) + Len(NewT)
      BY <2>2, <3>6, ConcatProperties
    <3> HIDE DEF P
    <3>9. Len(P) \in 1..4
      <4>1. \A a \in 1..3, b \in 0..1 : a + b \in 1..4
        OBVIOUS
      <4> QED
        BY <2>2, <3>6, <3>8, <4>1, Zenon
    <3> QED
      BY <3>7, <3>8, <3>9
  <2>5. t.kind = "create" \/ t.kind = "update"
    BY <1>3, Zenon
  <2> QED
    BY <2>3, <2>4, <2>5, Zenon
<1> QED
  BY <1>2, <1>3

-----------------------------------------------------------------------------
(* Types of the helpers.                                                   *)

LEMMA SeenType ==
  ASSUME TypeOK, NEW r \in Requests, NEW v \in Vehicles
  PROVE  Seen(r, v) \in StatusVeiculo
BY DEF TypeOK, Seen

LEMMA RecomputadoType ==
  ASSUME NEW rows, NEW v, NEW excl, NEW atual \in StatusVeiculo
  PROVE  Recomputado(rows, v, excl, atual) \in StatusVeiculo
BY DEF Recomputado, StatusPorVendas, StatusVeiculo

LEMMA LoadedType ==
  ASSUME TypeOK, NEW row
  PROVE  Loaded(row) \in [Vehicles -> StatusVeiculo \cup {None}]
BY DEF TypeOK, Loaded

LEMMA RowToWriteType ==
  ASSUME TypeOK, NEW r \in Requests, Phase(r), pc[r] = "write"
  PROVE  RowToWrite(r) \in Rows
<1>1. CASE tx[r].kind = "update" /\ venda[tx[r].sale] # NoRow
  <2>1. tx[r].old \in Rows /\ tx[r].new \in Rows /\ venda[tx[r].sale] \in Rows
    BY <1>1 DEF TypeOK, Phase
  <2> QED
    BY <1>1, <2>1 DEF RowToWrite, Merged, Rows
<1>2. CASE ~(tx[r].kind = "update" /\ venda[tx[r].sale] # NoRow)
  BY <1>2 DEF RowToWrite, Phase
<1> QED
  BY <1>1, <1>2

\* The phase of a request depends on nothing but its own variables.
LEMMA PhaseFrame ==
  ASSUME NEW q \in Requests, Phase(q),
         pc'[q] = pc[q], tx'[q] = tx[q], wrote'[q] = wrote[q]
  PROVE  Phase(q)'
BY DEF Phase

\* A request that ends is in no phase.
LEMMA EndPhase ==
  ASSUME TypeOK, PhaseOK, NEW r \in Requests, End(r)
  PROVE  PhaseOK'
<1>1. SUFFICES ASSUME NEW q \in Requests PROVE Phase(q)'
  BY DEF PhaseOK
<1>2. CASE q = r
  <2>1. pc'[r] = "idle" /\ tx'[r] = NoTx /\ wrote'[r] = FALSE
    BY DEF TypeOK, End
  <2> QED
    BY <1>2, <2>1, SentinelAssumption DEF Phase, NoTx, EditTx
<1>3. CASE q # r
  <2>1. pc'[q] = pc[q] /\ tx'[q] = tx[q] /\ wrote'[q] = wrote[q]
    BY <1>3 DEF TypeOK, End
  <2> QED
    BY <2>1, PhaseFrame DEF PhaseOK
<1> QED
  BY <1>2, <1>3

\* ... and leaves well-typed variables.
LEMMA EndType ==
  ASSUME TypeOK, NEW r \in Requests, End(r)
  PROVE  /\ pc' \in [Requests -> PCs]
         /\ tx' \in [Requests -> Transactions]
         /\ held' \in [Requests -> SUBSET Vehicles]
         /\ cache' \in [Requests -> [Vehicles -> StatusVeiculo \cup {None}]]
         /\ dirty' \in [Requests -> [Vehicles -> StatusVeiculo \cup {None}]]
         /\ wrote' \in [Requests -> BOOLEAN]
<1>1. NoTx \in Transactions
  BY DEF NoTx, EditTx, Transactions
<1>2. NoStatus \in [Vehicles -> StatusVeiculo \cup {None}]
  BY DEF NoStatus
<1> QED
  BY <1>1, <1>2 DEF TypeOK, End, PCs

-----------------------------------------------------------------------------
(* Type correctness: one lemma per kind of step.                           *)

LEMMA BeginTypes ==
  ASSUME TypeOK, PhaseOK, NEW r \in Requests, NEW where \in PCs,
         NEW t \in Transactions,
         NEW loaded \in [Vehicles -> StatusVeiculo \cup {None}],
         Begin(r, where, t, loaded),
         t.k = 1,
         where \in {"own", "target"} =>
           /\ t.kind \in {"create", "update"} /\ t.sale \in Sales /\ t.new \in Rows
           /\ t.kind = "update" => t.old \in Rows,
         where = "own" => t.kind = "update",
         where = "sync" => t.kind = "delete" /\ t.sale \in Sales /\ t.old \in Rows,
         where = "edit" => t.veiculo \in Vehicles /\ t.pedido \in StatusVeiculo,
         where \in {"own", "target", "sync", "edit"},
         t.kind = "delete" => t.new = NoRow
  PROVE  TypeOK' /\ PhaseOK'
<1>1. TypeOK'
  BY DEF TypeOK, Begin
<1>2. ASSUME NEW q \in Requests PROVE Phase(q)'
  <2>1. CASE q = r
    <3>1. pc'[r] = where /\ tx'[r] = t /\ wrote'[r] = wrote[r] /\ ~wrote[r]
      BY DEF TypeOK, PhaseOK, Phase, Begin
    <3>2. ASSUME where = "sync" PROVE t.k \in 1..Len(SyncPlan(t))
      <4>1. t.kind = "delete" /\ t.old \in Rows
        BY <3>2
      <4> DEFINE n == Len(SyncPlan(t))
      <4>2. n \in 1..4
        BY <4>1, PlanType
      <4> HIDE DEF n
      <4>3. 1 \in 1..n
        BY <4>2
      <4> QED
        BY <4>3 DEF n
    <3>3. Phase(r)'
      BY <3>1, <3>2 DEF Phase
    <3> QED
      BY <2>1, <3>3
  <2>2. CASE q # r
    <3>1. pc'[q] = pc[q] /\ tx'[q] = tx[q] /\ wrote'[q] = wrote[q]
      BY <2>2 DEF TypeOK, Begin
    <3> QED
      BY <3>1, PhaseFrame DEF PhaseOK
  <2> QED
    BY <2>1, <2>2
<1> QED
  BY <1>1, <1>2 DEF PhaseOK

LEMMA SaleTxType ==
  ASSUME NEW kind \in {"create", "update", "delete"}, NEW s \in Sales,
         NEW old \in Rows \cup {NoRow}, NEW new \in Rows \cup {NoRow}
  PROVE  SaleTx(kind, s, old, new) \in Transactions
BY DEF SaleTx, Transactions, AllKinds

LEMMA EditTxType ==
  ASSUME NEW kind \in {"manual", "purchase"}, NEW v \in Vehicles, NEW st \in StatusVeiculo
  PROVE  EditTx(kind, v, st) \in Transactions
BY DEF EditTx, Transactions, AllKinds

LEMMA BeginsType ==
  ASSUME TypeOK, PhaseOK, NEW r \in Requests,
         BeginCreate(r) \/ BeginUpdate(r) \/ BeginDelete(r) \/ BeginEdit(r)
  PROVE  TypeOK' /\ PhaseOK'
<1>1. NoStatus \in [Vehicles -> StatusVeiculo \cup {None}]
  BY DEF NoStatus
<1>2. CASE BeginCreate(r)
  <2>1. PICK s \in Sales, row \in RowInputs :
          Begin(r, "target", SaleTx("create", s, NoRow, row), NoStatus)
    BY <1>2 DEF BeginCreate
  <2> DEFINE t == SaleTx("create", s, NoRow, row)
  <2>2. row \in Rows
    BY RequestAssumption
  <2>3. /\ t.k = 1 /\ t.kind = "create" /\ t.sale \in Sales /\ t.new \in Rows
    BY <2>2 DEF SaleTx
  <2>4. t \in Transactions
    BY <2>2, SaleTxType
  <2>5. Begin(r, "target", t, NoStatus)
    BY <2>1
  <2> HIDE DEF t
  <2> QED
    BY <1>1, <2>3, <2>4, <2>5, BeginTypes DEF PCs
<1>3. CASE BeginUpdate(r)
  <2>1. PICK s \in Sales, row \in RowInputs :
          /\ venda[s] # NoRow
          /\ Begin(r, "own", SaleTx("update", s, venda[s], row), Loaded(venda[s]))
    BY <1>3 DEF BeginUpdate
  <2> DEFINE t == SaleTx("update", s, venda[s], row)
             loaded == Loaded(venda[s])
  <2>2. row \in Rows /\ venda[s] \in Rows
    BY <2>1, RequestAssumption DEF TypeOK
  <2>3. /\ t.k = 1 /\ t.kind = "update" /\ t.sale \in Sales
        /\ t.new \in Rows /\ t.old \in Rows
    BY <2>2 DEF SaleTx
  <2>4. t \in Transactions /\ loaded \in [Vehicles -> StatusVeiculo \cup {None}]
    BY <2>2, SaleTxType, LoadedType
  <2>5. Begin(r, "own", t, loaded)
    BY <2>1
  <2> HIDE DEF t, loaded
  <2> QED
    BY <2>3, <2>4, <2>5, BeginTypes DEF PCs
<1>4. CASE BeginDelete(r)
  <2>1. PICK s \in Sales :
          /\ venda[s] # NoRow
          /\ Begin(r, "sync", SaleTx("delete", s, venda[s], NoRow), Loaded(venda[s]))
    BY <1>4 DEF BeginDelete
  <2> DEFINE t == SaleTx("delete", s, venda[s], NoRow)
             loaded == Loaded(venda[s])
  <2>2. venda[s] \in Rows
    BY <2>1 DEF TypeOK
  <2>3. /\ t.k = 1 /\ t.kind = "delete" /\ t.sale \in Sales
        /\ t.old \in Rows /\ t.new = NoRow
    BY <2>2 DEF SaleTx
  <2>4. t \in Transactions /\ loaded \in [Vehicles -> StatusVeiculo \cup {None}]
    BY <2>2, SaleTxType, LoadedType
  <2>5. Begin(r, "sync", t, loaded)
    BY <2>1
  <2> HIDE DEF t, loaded
  <2> QED
    BY <2>3, <2>4, <2>5, BeginTypes DEF PCs
<1>5. CASE BeginEdit(r)
  <2>1. PICK v \in Vehicles, st \in EditInputs, kind \in {"manual", "purchase"} :
          Begin(r, "edit", EditTx(kind, v, st), [NoStatus EXCEPT ![v] = status[v]])
    BY <1>5 DEF BeginEdit
  <2> DEFINE t == EditTx(kind, v, st)
             loaded == [NoStatus EXCEPT ![v] = status[v]]
  <2>2. st \in StatusVeiculo
    BY RequestAssumption
  <2>3. /\ t.k = 1 /\ t.kind # "delete" /\ t.veiculo \in Vehicles
        /\ t.pedido \in StatusVeiculo
    BY <2>2 DEF EditTx
  <2>4. t \in Transactions
    BY <2>2, EditTxType
  <2>5. loaded \in [Vehicles -> StatusVeiculo \cup {None}]
    BY <1>1 DEF TypeOK
  <2>6. Begin(r, "edit", t, loaded)
    BY <2>1
  <2> HIDE DEF t, loaded
  <2> QED
    BY <2>3, <2>4, <2>5, <2>6, BeginTypes DEF PCs
<1> QED
  BY <1>2, <1>3, <1>4, <1>5

LEMMA PhaseStep ==
  ASSUME PhaseOK, NEW r \in Requests, Phase(r)',
         \A q \in Requests \ {r} : pc'[q] = pc[q] /\ tx'[q] = tx[q] /\ wrote'[q] = wrote[q]
  PROVE  PhaseOK'
<1>1. ASSUME NEW q \in Requests, q # r PROVE Phase(q)'
  BY <1>1, PhaseFrame DEF PhaseOK
<1> QED
  BY <1>1 DEF PhaseOK

LEMMA LockingType ==
  ASSUME TypeOK, PhaseOK, NEW r \in Requests, LockOwn(r) \/ CheckTarget(r)
  PROVE  TypeOK' /\ PhaseOK'
<1>1. Phase(r) /\ tx[r] \in Transactions
  BY DEF TypeOK, PhaseOK
<1>2. CASE LockOwn(r)
  <2>1. tx[r].old.veiculo \in Vehicles
    BY <1>1, <1>2 DEF LockOwn, Phase, Rows
  <2>2. TypeOK'
    BY <1>2, <2>1 DEF TypeOK, LockOwn, PCs
  <2>3. pc'[r] \in {"target", "write"} /\ tx'[r] = tx[r] /\ wrote'[r] = wrote[r]
    BY <1>2 DEF TypeOK, LockOwn
  <2>4. Phase(r)'
    BY <1>1, <1>2, <2>3 DEF Phase, LockOwn
  <2> QED
    BY <1>2, <2>2, <2>4, PhaseStep DEF TypeOK, LockOwn
<1>3. CASE CheckTarget(r)
  <2>1. tx[r].new.veiculo \in Vehicles
    BY <1>1, <1>3 DEF CheckTarget, Phase, Rows
  <2>2. TypeOK'
    BY <1>3, <2>1 DEF TypeOK, CheckTarget, PCs
  <2>3. pc'[r] = "write" /\ tx'[r] = tx[r] /\ wrote'[r] = wrote[r]
    BY <1>3 DEF TypeOK, CheckTarget
  <2>4. Phase(r)'
    BY <1>1, <1>3, <2>3 DEF Phase, CheckTarget
  <2> QED
    BY <1>3, <2>2, <2>4, PhaseStep DEF TypeOK, CheckTarget
<1> QED
  BY <1>2, <1>3

LEMMA WriteType ==
  ASSUME TypeOK, PhaseOK, NEW r \in Requests, Write(r)
  PROVE  TypeOK' /\ PhaseOK'
<1> DEFINE row == RowToWrite(r)
           t   == [tx[r] EXCEPT !.new = row]
<1>1. Phase(r) /\ pc[r] = "write"
  BY DEF PhaseOK, Write
<1>2. row \in Rows
  BY <1>1, RowToWriteType
<1>3. /\ t \in Transactions /\ t.new = row /\ t.kind = tx[r].kind /\ t.k = tx[r].k
      /\ t.sale = tx[r].sale /\ t.old = tx[r].old
  BY <1>2 DEF TypeOK, Transactions
<1>4. tx' = [tx EXCEPT ![r] = t]
  BY DEF Write
<1>5. cache' = [cache EXCEPT ![r] = Loaded(row)]
  BY DEF Write
<1> HIDE DEF row, t
<1>6. TypeOK'
  <2>1. Loaded(row) \in [Vehicles -> StatusVeiculo \cup {None}]
    BY LoadedType
  <2>2. tx' \in [Requests -> Transactions]
    BY <1>3, <1>4 DEF TypeOK
  <2>3. cache' \in [Requests -> [Vehicles -> StatusVeiculo \cup {None}]]
    BY <1>5, <2>1 DEF TypeOK
  <2>4. pc' \in [Requests -> PCs] /\ wrote' \in [Requests -> BOOLEAN]
    BY DEF TypeOK, Write, PCs
  <2> QED
    BY <2>2, <2>3, <2>4 DEF TypeOK, Write
<1>7. pc'[r] = "sync" /\ tx'[r] = t /\ wrote'[r] = TRUE
  BY <1>4 DEF TypeOK, Write
<1>8. t.kind \in {"create", "update"} /\ t.k = 1 /\ t.sale \in Sales
  BY <1>1, <1>3 DEF Phase
<1>9. t.kind = "update" => t.old \in Rows
  BY <1>1, <1>3 DEF Phase
<1>10. t.k \in 1..Len(SyncPlan(t))
  <2> DEFINE n == Len(SyncPlan(t))
  <2>0. t.kind \in {"create", "update", "delete"} /\ (t.kind # "create" => t.old \in Rows)
    BY <1>8, <1>9
  <2>1. n \in 1..4
    BY <1>2, <1>3, <2>0, PlanType
  <2> HIDE DEF n
  <2>2. 1 \in 1..n
    BY <2>1
  <2> QED
    BY <1>8, <2>2 DEF n
<1>11. Phase(r)'
  BY <1>2, <1>3, <1>7, <1>8, <1>9, <1>10 DEF Phase
<1> QED
  BY <1>4, <1>6, <1>11, PhaseStep DEF TypeOK, Write

LEMMA RecomputeType ==
  ASSUME TypeOK, PhaseOK, NEW r \in Requests, Recompute(r)
  PROVE  TypeOK' /\ PhaseOK'
<1> DEFINE plan == SyncPlan(tx[r])
           k    == tx[r].k
           v    == plan[k].veiculo
           novo == NovoStatus(r, v, plan[k].own)
           t    == [tx[r] EXCEPT !.k = k + 1]
<1>1. /\ Phase(r) /\ pc[r] = "sync" /\ tx[r] \in Transactions
      /\ tx[r].kind \in {"create", "update", "delete"} /\ tx[r].sale \in Sales
      /\ IF tx[r].kind = "delete" THEN tx[r].old \in Rows ELSE tx[r].new \in Rows
      /\ tx[r].kind = "update" => tx[r].old \in Rows
      /\ k \in 1..Len(plan)
      /\ tx[r].kind = "delete" => tx[r].new = NoRow
  BY DEF TypeOK, PhaseOK, Phase, Recompute
<1>2. plan \in Seq(Entries) /\ Len(plan) \in 1..4
  <2>1. /\ tx[r].kind # "delete" => tx[r].new \in Rows
        /\ tx[r].kind # "create" => tx[r].old \in Rows
    BY <1>1
  <2> QED
    BY <1>1, <2>1, PlanType
<1>3. v \in Vehicles
  <2>1. plan[k] \in Entries
    BY <1>1, <1>2
  <2> QED
    BY <2>1 DEF Entries
<1>4. novo \in StatusVeiculo
  BY <1>3, SeenType, RecomputadoType DEF NovoStatus
<1>5. /\ held' = [held EXCEPT ![r] = held[r] \cup {v}]
      /\ dirty' = [dirty EXCEPT ![r][v] = IF novo # Seen(r, v) THEN novo ELSE dirty[r][v]]
      /\ cache' = [cache EXCEPT ![r][v] = novo]
      /\ tx' = [tx EXCEPT ![r] = t]
  BY DEF Recompute
<1>6. /\ pc' = [pc EXCEPT ![r] = IF k < Len(plan) THEN "sync"
                                 ELSE IF tx[r].kind = "delete" THEN "erase" ELSE "commit"]
      /\ UNCHANGED <<venda, status, wrote>>
  BY DEF Recompute
<1>7. k \in 1..4 /\ k + 1 \in 1..5
  <2> DEFINE n == Len(plan)
  <2>1. k \in 1..n /\ n \in 1..4
    BY <1>1, <1>2
  <2> HIDE DEF n, k
  <2> QED
    BY <2>1
<1>8. /\ t \in Transactions /\ t.new = tx[r].new /\ t.kind = tx[r].kind
      /\ t.sale = tx[r].sale /\ t.old = tx[r].old /\ t.k = k + 1
  BY <1>1, <1>7 DEF Transactions
<1>9. SyncPlan(t) = plan
  BY <1>8 DEF SyncPlan
<1> HIDE DEF plan, k, v, novo, t
<1>10. TypeOK'
  <2>1. tx' \in [Requests -> Transactions]
    BY <1>5, <1>8 DEF TypeOK
  <2>2. pc' \in [Requests -> PCs]
    BY <1>6 DEF TypeOK, PCs
  <2>3. held' \in [Requests -> SUBSET Vehicles]
    BY <1>3, <1>5 DEF TypeOK
  <2>4. cache' \in [Requests -> [Vehicles -> StatusVeiculo \cup {None}]]
    BY <1>3, <1>4, <1>5 DEF TypeOK
  <2>5. dirty' \in [Requests -> [Vehicles -> StatusVeiculo \cup {None}]]
    BY <1>3, <1>4, <1>5 DEF TypeOK
  <2> QED
    BY <1>6, <2>1, <2>2, <2>3, <2>4, <2>5 DEF TypeOK
<1>11. tx'[r] = t /\ wrote'[r] = wrote[r]
  BY <1>5, <1>6 DEF TypeOK
<1>12. Phase(r)'
  <2>1. CASE k < Len(plan)
    <3>1. pc'[r] = "sync"
      BY <1>6, <2>1 DEF TypeOK
    <3>2. t.k \in 1..Len(SyncPlan(t))
      <4> DEFINE n == Len(plan)
      <4>1. k < n /\ n \in 1..4 /\ t.k = k + 1 /\ Len(SyncPlan(t)) = n
        BY <1>2, <1>8, <1>9, <2>1
      <4> HIDE DEF n
      <4>2. k + 1 \in 1..n
        BY <1>7, <4>1
      <4> QED
        BY <4>1, <4>2
    <3> QED
      BY <1>1, <1>8, <1>11, <3>1, <3>2 DEF Phase
  <2>2. CASE ~(k < Len(plan)) /\ tx[r].kind = "delete"
    <3>1. pc'[r] = "erase" /\ ~wrote[r]
      BY <1>1, <1>6, <2>2 DEF TypeOK, Phase
    <3> QED
      BY <1>1, <1>8, <1>11, <2>2, <3>1 DEF Phase
  <2>3. CASE ~(k < Len(plan)) /\ tx[r].kind # "delete"
    <3>1. pc'[r] = "commit"
      BY <1>6, <2>3 DEF TypeOK
    <3> QED
      BY <1>1, <1>8, <1>11, <2>3, <3>1 DEF Phase
  <2> QED
    BY <2>1, <2>2, <2>3
<1> QED
  BY <1>5, <1>6, <1>10, <1>12, PhaseStep DEF TypeOK

LEMMA EraseType ==
  ASSUME TypeOK, PhaseOK, NEW r \in Requests, Erase(r)
  PROVE  TypeOK' /\ PhaseOK'
<1>1. Phase(r) /\ pc[r] = "erase"
  BY DEF PhaseOK, Erase
<1>2. TypeOK'
  BY DEF TypeOK, Erase, PCs
<1>3. pc'[r] = "commit" /\ tx'[r] = tx[r] /\ wrote'[r] = TRUE
  BY DEF TypeOK, Erase
<1>4. Phase(r)'
  BY <1>1, <1>3 DEF Phase
<1> QED
  BY <1>2, <1>4, PhaseStep DEF TypeOK, Erase

LEMMA EditVehicleType ==
  ASSUME TypeOK, PhaseOK, NEW r \in Requests, EditVehicle(r)
  PROVE  TypeOK' /\ PhaseOK'
<1> DEFINE v == tx[r].veiculo
<1>1. Phase(r) /\ pc[r] = "edit" /\ v \in Vehicles /\ tx[r].pedido \in StatusVeiculo
  BY DEF PhaseOK, Phase, EditVehicle
<1>2. Editado(r) \in StatusVeiculo
  BY <1>1, SeenType DEF Editado, StatusVeiculo
<1>3. TypeOK'
  <2>1. held' \in [Requests -> SUBSET Vehicles]
    BY <1>1 DEF TypeOK, EditVehicle
  <2>2. dirty' \in [Requests -> [Vehicles -> StatusVeiculo \cup {None}]]
    BY <1>1, <1>2 DEF TypeOK, EditVehicle
  <2> QED
    BY <2>1, <2>2 DEF TypeOK, EditVehicle, PCs
<1>4. pc'[r] = "commit" /\ tx'[r] = tx[r] /\ wrote'[r] = wrote[r]
  BY DEF TypeOK, EditVehicle
<1>5. Phase(r)'
  BY <1>1, <1>4 DEF Phase
<1> QED
  BY <1>3, <1>5, PhaseStep DEF TypeOK, EditVehicle

LEMMA EndsType ==
  ASSUME TypeOK, PhaseOK, NEW r \in Requests, Commit(r) \/ Rollback(r)
  PROVE  TypeOK' /\ PhaseOK'
<1>1. End(r)
  BY DEF Commit, Rollback
<1>2. CASE Rollback(r)
  BY <1>1, <1>2, EndType, EndPhase DEF TypeOK, Rollback
<1>3. CASE Commit(r)
  <2>1. \A s \in Sales : Visible(r)[s] \in Rows \cup {NoRow}
    BY DEF TypeOK, Visible, Transactions
  <2>2. venda' \in [Sales -> Rows \cup {NoRow}]
    BY <1>3, <2>1 DEF Commit, Visible
  <2>3. status' \in [Vehicles -> StatusVeiculo]
    BY <1>3 DEF TypeOK, Commit
  <2> QED
    BY <1>1, <2>2, <2>3, EndType, EndPhase DEF TypeOK
<1> QED
  BY <1>2, <1>3

LEMMA TypeInit == Init => TypeOK /\ PhaseOK
<1> SUFFICES ASSUME Init PROVE TypeOK /\ PhaseOK
  OBVIOUS
<1>1. NoTx \in Transactions /\ NoTx.kind = "none"
  BY DEF NoTx, EditTx, Transactions
<1>2. NoStatus \in [Vehicles -> StatusVeiculo \cup {None}]
  BY DEF NoStatus
<1>3. TypeOK
  BY <1>1, <1>2 DEF Init, TypeOK, PCs, StatusVeiculo
<1>4. PhaseOK
  BY <1>1 DEF Init, PhaseOK, Phase
<1> QED
  BY <1>3, <1>4

LEMMA TypeStep == TypeOK /\ PhaseOK /\ [Next]_vars => TypeOK' /\ PhaseOK'
<1> SUFFICES ASSUME TypeOK, PhaseOK, [Next]_vars PROVE TypeOK' /\ PhaseOK'
  OBVIOUS
<1>1. CASE UNCHANGED vars
  <2>1. TypeOK'
    BY <1>1 DEF TypeOK, vars
  <2>2. \A q \in Requests : Phase(q)'
    BY <1>1, PhaseFrame DEF PhaseOK, vars
  <2> QED
    BY <2>1, <2>2 DEF PhaseOK
<1>2. ASSUME NEW r \in Requests,
             BeginCreate(r) \/ BeginUpdate(r) \/ BeginDelete(r) \/ BeginEdit(r)
      PROVE  TypeOK' /\ PhaseOK'
  BY <1>2, BeginsType
<1>3. ASSUME NEW r \in Requests, Advance(r) \/ Abort(r)
      PROVE  TypeOK' /\ PhaseOK'
  <2>1. CASE LockOwn(r) \/ CheckTarget(r)
    BY <2>1, LockingType
  <2>2. CASE Write(r)
    BY <2>2, WriteType
  <2>3. CASE Recompute(r)
    BY <2>3, RecomputeType
  <2>4. CASE Erase(r)
    BY <2>4, EraseType
  <2>5. CASE EditVehicle(r)
    BY <2>5, EditVehicleType
  <2>6. CASE Commit(r) \/ Refuse(r) \/ DeadlockVictim(r) \/ Abort(r)
    BY <2>6, EndsType DEF Refuse, DeadlockVictim, Abort
  <2> QED
    BY <1>3, <2>1, <2>2, <2>3, <2>4, <2>5, <2>6 DEF Advance
<1> QED
  BY <1>1, <1>2, <1>3 DEF Next

\* Every variable keeps its type, and every request carries what the code has
\* at hand at that point of the handler, in every reachable state.
THEOREM TypeCorrect == Spec => [](TypeOK /\ PhaseOK)
BY TypeInit, TypeStep, PTL DEF Spec

-----------------------------------------------------------------------------
(* Locking.                                                                *)

\* What a step of r may do to the locks and the pending writes.
LEMMA LockFrame ==
  ASSUME TypeOK, WritesAreLocked, NEW r \in Requests,
         \A q \in Requests \ {r} :
           held'[q] = held[q] /\ wrote'[q] = wrote[q] /\ dirty'[q] = dirty[q]
             /\ tx'[q] = tx[q],
         \A q \in Requests \ {r} : held'[r] \cap held[q] = {},
         wrote'[r] => \A q \in Requests \ {r} : wrote[q] => tx[q].sale # tx'[r].sale,
         \A v \in Vehicles : dirty'[r][v] # None => v \in held'[r]
  PROVE  WritesAreLocked'
<1>1. \A p, q \in Requests : p # q => held'[p] \cap held'[q] = {}
  BY DEF WritesAreLocked
<1>2. \A p, q \in Requests : p # q /\ wrote'[p] /\ wrote'[q] => tx'[p].sale # tx'[q].sale
  BY DEF WritesAreLocked
<1>3. \A p \in Requests, v \in Vehicles : dirty'[p][v] # None => v \in held'[p]
  BY DEF WritesAreLocked
<1> QED
  BY <1>1, <1>2, <1>3 DEF WritesAreLocked

LEMMA LockEnd ==
  ASSUME TypeOK, WritesAreLocked, NEW r \in Requests, End(r)
  PROVE  WritesAreLocked'
<1>1. held'[r] = {} /\ wrote'[r] = FALSE /\ dirty'[r] = NoStatus
  BY DEF TypeOK, End
<1>2. \A q \in Requests \ {r} :
        held'[q] = held[q] /\ wrote'[q] = wrote[q] /\ dirty'[q] = dirty[q] /\ tx'[q] = tx[q]
  BY DEF TypeOK, End
<1> QED
  BY <1>1, <1>2, LockFrame DEF NoStatus

LEMMA LockStep ==
  TypeOK /\ PhaseOK /\ WritesAreLocked /\ [Next]_vars => WritesAreLocked'
<1> SUFFICES ASSUME TypeOK, PhaseOK, WritesAreLocked, [Next]_vars
             PROVE  WritesAreLocked'
  OBVIOUS
<1>0. ASSUME NEW r \in Requests, NEW v \in Vehicles, CanLock(r, v)
      PROVE  \A q \in Requests \ {r} : (held[r] \cup {v}) \cap held[q] = {}
  BY <1>0 DEF CanLock, WritesAreLocked
<1>1. CASE UNCHANGED vars
  BY <1>1 DEF WritesAreLocked, vars
<1>2. ASSUME NEW r \in Requests,
             BeginCreate(r) \/ BeginUpdate(r) \/ BeginDelete(r) \/ BeginEdit(r)
      PROVE  WritesAreLocked'
  <2>1. PICK where, t, loaded : Begin(r, where, t, loaded)
    BY <1>2 DEF BeginCreate, BeginUpdate, BeginDelete, BeginEdit
  <2>2. ~wrote[r]
    BY <2>1 DEF Begin, PhaseOK, Phase
  <2>3. /\ held' = held /\ wrote' = wrote /\ dirty' = dirty
        /\ \A q \in Requests \ {r} : tx'[q] = tx[q]
    BY <2>1 DEF TypeOK, Begin
  <2> QED
    BY <2>2, <2>3 DEF WritesAreLocked
<1>3. ASSUME NEW r \in Requests, Advance(r) \/ Abort(r)
      PROVE  WritesAreLocked'
  <2>0. Phase(r)
    BY DEF PhaseOK
  <2>1. CASE LockOwn(r)
    <3>1. tx[r].old.veiculo \in Vehicles
      BY <2>0, <2>1 DEF LockOwn, Phase, Rows
    <3> QED
      BY <1>0, <2>1, <3>1, LockFrame DEF TypeOK, LockOwn, WritesAreLocked
  <2>2. CASE CheckTarget(r)
    <3>1. tx[r].new.veiculo \in Vehicles
      BY <2>0, <2>2 DEF CheckTarget, Phase, Rows
    <3> QED
      BY <1>0, <2>2, <3>1, LockFrame DEF TypeOK, CheckTarget, WritesAreLocked
  <2>3. CASE Write(r)
    <3>1. \A q \in Requests \ {r} : wrote[q] => tx[q].sale # tx[r].sale
      BY <2>3 DEF Write, Writers
    <3>2. tx'[r].sale = tx[r].sale
      BY <2>3 DEF TypeOK, Write, Transactions
    <3>3. \A q \in Requests \ {r} : tx'[q] = tx[q] /\ wrote'[q] = wrote[q]
      BY <2>3 DEF TypeOK, Write
    <3>4. held' = held /\ dirty' = dirty
      BY <2>3 DEF Write
    <3>5. /\ \A q \in Requests \ {r} : held'[r] \cap held[q] = {}
          /\ \A v \in Vehicles : dirty'[r][v] # None => v \in held'[r]
      BY <3>4 DEF WritesAreLocked
    <3>6. \A q \in Requests \ {r} :
            held'[q] = held[q] /\ wrote'[q] = wrote[q] /\ dirty'[q] = dirty[q] /\ tx'[q] = tx[q]
      BY <3>3, <3>4
    <3>7. \A q \in Requests \ {r} : wrote[q] => tx[q].sale # tx'[r].sale
      BY <3>1, <3>2
    <3> QED
      BY <3>5, <3>6, <3>7, LockFrame
  <2>4. CASE Recompute(r)
    <3> DEFINE v == SyncPlan(tx[r])[tx[r].k].veiculo
    <3>1. /\ CanLock(r, v)
          /\ held' = [held EXCEPT ![r] = held[r] \cup {v}]
          /\ UNCHANGED wrote
          /\ \A q \in Requests \ {r} : dirty'[q] = dirty[q] /\ tx'[q] = tx[q]
      BY <2>4 DEF TypeOK, Recompute
    <3>2. \A u \in Vehicles \ {v} : dirty'[r][u] = dirty[r][u]
      BY <2>4 DEF TypeOK, Recompute
    <3>3. tx'[r].sale = tx[r].sale
      BY <2>4 DEF TypeOK, Recompute, Transactions
    <3> HIDE DEF v
    <3>4. \A q \in Requests \ {r} : held'[r] \cap held[q] = {}
      BY <3>1 DEF TypeOK, CanLock, WritesAreLocked
    <3>5. \A u \in Vehicles : dirty'[r][u] # None => u \in held'[r]
      BY <3>1, <3>2 DEF TypeOK, WritesAreLocked
    <3>6. \A q \in Requests \ {r} :
            held'[q] = held[q] /\ wrote'[q] = wrote[q] /\ dirty'[q] = dirty[q] /\ tx'[q] = tx[q]
      BY <3>1
    <3>7. wrote'[r] => \A q \in Requests \ {r} : wrote[q] => tx[q].sale # tx'[r].sale
      BY <3>1, <3>3 DEF WritesAreLocked
    <3> QED
      BY <3>4, <3>5, <3>6, <3>7, LockFrame
  <2>5. CASE Erase(r)
    <3>1. \A q \in Requests \ {r} : wrote[q] => tx[q].sale # tx[r].sale
      BY <2>5 DEF Erase, Writers
    <3> QED
      BY <2>5, <3>1, LockFrame DEF TypeOK, Erase, WritesAreLocked
  <2>6. CASE EditVehicle(r)
    <3> DEFINE v == tx[r].veiculo
    <3>1. v \in Vehicles
      BY <2>0, <2>6 DEF EditVehicle, Phase
    <3>2. /\ Trava(r) => CanLock(r, v)
          /\ held'[r] = IF Trava(r) THEN held[r] \cup {v} ELSE held[r]
          /\ dirty'[r] = [dirty[r] EXCEPT ![v] = IF Escreve(r) THEN Editado(r) ELSE @]
          /\ UNCHANGED <<tx, wrote>>
          /\ \A q \in Requests \ {r} : held'[q] = held[q] /\ dirty'[q] = dirty[q]
      BY <2>6 DEF TypeOK, EditVehicle
    <3>3. Escreve(r) => Trava(r)
      BY DEF Trava
    <3> HIDE DEF v
    <3>4. \A q \in Requests \ {r} : held'[r] \cap held[q] = {}
      BY <3>2 DEF CanLock, WritesAreLocked
    <3>5. \A u \in Vehicles : dirty'[r][u] # None => u \in held'[r]
      BY <3>1, <3>2, <3>3 DEF TypeOK, WritesAreLocked
    <3> QED
      BY <3>2, <3>4, <3>5, LockFrame DEF WritesAreLocked
  <2>7. CASE Commit(r) \/ Refuse(r) \/ DeadlockVictim(r) \/ Abort(r)
    BY <2>7, LockEnd DEF Commit, Refuse, DeadlockVictim, Abort, Rollback
  <2> QED
    BY <1>3, <2>1, <2>2, <2>3, <2>4, <2>5, <2>6, <2>7 DEF Advance
<1> QED
  BY <1>1, <1>2, <1>3 DEF Next

\* Two open transactions never hold the same vehicle or the same sale row, and
\* no status is committed by a transaction that does not hold its vehicle: the
\* SELECT ... FOR UPDATE of workflow and status_veiculo covers every write.
THEOREM Locking == Spec => []WritesAreLocked
<1>1. Init => WritesAreLocked
  BY DEF Init, WritesAreLocked, NoStatus
<1> QED
  BY <1>1, LockStep, TypeCorrect, PTL DEF Spec

-----------------------------------------------------------------------------
(* One concluded sale of a vehicle.                                        *)

LEMMA ClashSymmetric ==
  ASSUME NEW a, NEW b, Clash(a, b) PROVE Clash(b, a)
BY DEF Clash

\* Ending a transaction publishes its row or forgets it.
LEMMA UniqueEnd ==
  ASSUME TypeOK, PhaseOK, WritesAreLocked, UniqueConcluded, PendingUnique,
         NEW r \in Requests, Commit(r) \/ Rollback(r)
  PROVE  UniqueConcluded' /\ PendingUnique'
<1>1. \A q \in Requests : wrote'[q] => q # r /\ wrote[q] /\ tx'[q] = tx[q]
  BY DEF TypeOK, Commit, Rollback, End
<1>2. CASE Rollback(r)
  BY <1>1, <1>2 DEF Rollback, UniqueConcluded, PendingUnique
<1>3. CASE Commit(r) /\ ~wrote[r]
  <2>1. \A s \in Sales : venda'[s] = venda[s]
    BY <1>3 DEF Commit, Visible
  <2> QED
    BY <1>1, <2>1 DEF UniqueConcluded, PendingUnique
<1>4. CASE Commit(r) /\ wrote[r]
  <2>1. \A s \in Sales : venda'[s] = IF s = tx[r].sale THEN tx[r].new ELSE venda[s]
    BY <1>4 DEF Commit, Visible
  <2>2. \A s \in Sales \ {tx[r].sale} : ~Clash(venda[s], tx[r].new) /\ ~Clash(tx[r].new, venda[s])
    BY <1>4, ClashSymmetric DEF PendingUnique
  <2>3. UniqueConcluded'
    BY <2>1, <2>2 DEF UniqueConcluded
  <2>4. ASSUME NEW q \in Requests, wrote'[q], NEW s \in Sales \ {tx'[q].sale}
        PROVE  ~Clash(venda'[s], tx'[q].new)
    <3>1. q # r /\ wrote[q] /\ tx'[q] = tx[q]
      BY <1>1, <2>4
    <3>2. ~Clash(tx[r].new, tx[q].new)
      BY <1>4, <3>1 DEF PendingUnique
    <3>3. s # tx[q].sale => ~Clash(venda[s], tx[q].new)
      BY <3>1 DEF PendingUnique
    <3> QED
      BY <2>1, <2>4, <3>1, <3>2, <3>3
  <2>5. PendingUnique'
    BY <1>1, <2>4 DEF PendingUnique
  <2> QED
    BY <2>3, <2>5
<1> QED
  BY <1>2, <1>3, <1>4

\* The index check at the write.
LEMMA UniqueWrite ==
  ASSUME TypeOK, PhaseOK, UniqueConcluded, PendingUnique,
         NEW r \in Requests, Write(r)
  PROVE  UniqueConcluded' /\ PendingUnique'
<1> DEFINE row == RowToWrite(r)
<1>1. /\ venda' = venda
      /\ tx'[r].new = row /\ tx'[r].sale = tx[r].sale
      /\ \A q \in Requests \ {r} : tx'[q] = tx[q] /\ wrote'[q] = wrote[q]
  BY DEF TypeOK, Write, Transactions
<1>2. ASSUME NEW s \in Sales \ {tx[r].sale} PROVE ~Clash(venda[s], row)
  <2>1. SUFFICES ASSUME Clash(venda[s], row) PROVE FALSE
    OBVIOUS
  <2>2. Writers(r, s) # {}
    BY <2>1 DEF Write, WriteFails
  <2>3. PICK q \in Requests \ {r} : wrote[q] /\ tx[q].sale = s
    BY <2>2 DEF Writers
  <2>4. q \in IndexWaits(r, row)
    BY <2>1, <2>3 DEF IndexWaits
  <2> QED
    BY <2>4 DEF Write
<1>3. ASSUME NEW q \in Requests \ {r}, wrote[q] PROVE ~Clash(tx[q].new, row)
  <2>1. tx[q].sale # tx[r].sale
    BY <1>3 DEF Write, Writers
  <2> QED
    BY <1>3, <2>1 DEF Write, IndexWaits
<1>4. \A q \in Requests \ {r} : wrote[q] => ~Clash(row, tx[q].new)
  BY <1>3, ClashSymmetric
<1> HIDE DEF row
<1>5. UniqueConcluded'
  BY <1>1 DEF UniqueConcluded
<1>6. PendingUnique'
  BY <1>1, <1>2, <1>3, <1>4 DEF PendingUnique
<1> QED
  BY <1>5, <1>6

LEMMA UniqueStep ==
  TypeOK /\ PhaseOK /\ WritesAreLocked /\ UniqueConcluded /\ PendingUnique /\ [Next]_vars
    => UniqueConcluded' /\ PendingUnique'
<1> SUFFICES ASSUME TypeOK, PhaseOK, WritesAreLocked, UniqueConcluded, PendingUnique,
                    [Next]_vars
             PROVE  UniqueConcluded' /\ PendingUnique'
  OBVIOUS
<1>1. CASE UNCHANGED vars
  BY <1>1 DEF UniqueConcluded, PendingUnique, vars
<1>2. ASSUME NEW r \in Requests,
             BeginCreate(r) \/ BeginUpdate(r) \/ BeginDelete(r) \/ BeginEdit(r)
      PROVE  UniqueConcluded' /\ PendingUnique'
  <2>1. PICK where, t, loaded : Begin(r, where, t, loaded)
    BY <1>2 DEF BeginCreate, BeginUpdate, BeginDelete, BeginEdit
  <2>2. ~wrote[r]
    BY <2>1 DEF Begin, PhaseOK, Phase
  <2>3. /\ venda' = venda /\ wrote' = wrote
        /\ \A q \in Requests \ {r} : tx'[q] = tx[q]
    BY <2>1 DEF TypeOK, Begin
  <2> QED
    BY <2>2, <2>3 DEF UniqueConcluded, PendingUnique
<1>3. ASSUME NEW r \in Requests,
             LockOwn(r) \/ CheckTarget(r) \/ Recompute(r) \/ EditVehicle(r)
      PROVE  UniqueConcluded' /\ PendingUnique'
  <2>1. venda' = venda /\ wrote' = wrote
    BY <1>3 DEF LockOwn, CheckTarget, Recompute, EditVehicle
  <2>2. CASE Recompute(r)
    <3>1. tx' = [tx EXCEPT ![r] = [tx[r] EXCEPT !.k = tx[r].k + 1]]
      BY <2>2 DEF Recompute
    <3>2. \A q \in Requests : tx'[q].sale = tx[q].sale /\ tx'[q].new = tx[q].new
      BY <3>1 DEF TypeOK, Transactions
    <3> QED
      BY <2>1, <3>2 DEF UniqueConcluded, PendingUnique
  <2>3. CASE ~Recompute(r)
    <3>1. tx' = tx
      BY <1>3, <2>3 DEF LockOwn, CheckTarget, EditVehicle
    <3> QED
      BY <2>1, <3>1 DEF UniqueConcluded, PendingUnique
  <2> QED
    BY <2>2, <2>3
<1>4. ASSUME NEW r \in Requests, Erase(r)
      PROVE  UniqueConcluded' /\ PendingUnique'
  <2>1. tx[r].new = NoRow
    BY <1>4 DEF Erase, PhaseOK, Phase
  <2>2. /\ venda' = venda /\ tx' = tx
        /\ \A q \in Requests \ {r} : wrote'[q] = wrote[q]
    BY <1>4 DEF TypeOK, Erase
  <2>3. \A row : ~Clash(row, tx[r].new) /\ ~Clash(tx[r].new, row)
    BY <2>1 DEF Clash
  <2> QED
    BY <2>2, <2>3 DEF UniqueConcluded, PendingUnique
<1>5. ASSUME NEW r \in Requests, Advance(r) \/ Abort(r)
      PROVE  UniqueConcluded' /\ PendingUnique'
  <2>1. CASE Commit(r) \/ Refuse(r) \/ DeadlockVictim(r) \/ Abort(r)
    BY <2>1, UniqueEnd DEF Refuse, DeadlockVictim, Abort
  <2> QED
    BY <1>3, <1>4, <1>5, <2>1, UniqueWrite DEF Advance
<1> QED
  BY <1>1, <1>2, <1>5 DEF Next

\* A vehicle never has two concluded sales, however many requests conclude,
\* move or create sales of it at the same time.
THEOREM OneConcluded == Spec => []UniqueConcluded
<1>1. Init => UniqueConcluded /\ PendingUnique
  BY DEF Init, UniqueConcluded, PendingUnique, Clash
<1> QED
  BY <1>1, UniqueStep, TypeCorrect, Locking, PTL DEF Spec

-----------------------------------------------------------------------------
(* Refinement of SalesLedger by creates and deletes without trade-ins.     *)

MarketOnly ==
  /\ Kinds \subseteq {"create", "delete"}
  /\ \A row \in RowInputs : row.troca = None

Ativa(row) == row # NoRow /\ row.status \in {"pendente", "concluido"}

\* The status an active sale gives to its vehicle.
Peso(row) == IF row.status = "concluido" THEN "vendido" ELSE "reservado"

Agree == \A v \in Vehicles : status[v] = StatusPorVendas(venda, v, {})

OneBusy ==
  \A s, u \in Sales :
    s # u /\ Ativa(venda[s]) /\ Ativa(venda[u]) => venda[s].veiculo # venda[u].veiculo

NoTradeIn == \A s \in Sales : venda[s] # NoRow => venda[s].troca = None

\* The status v has once r commits.
Depois(r, v) == IF dirty[r][v] # None THEN dirty[r][v] ELSE status[v]

\* r writes nothing but the status of v, and that one it holds.
Touches(r, v) == v \in held[r] /\ \A u \in Vehicles \ {v} : dirty[r][u] = None

Idle(r) == pc[r] = "idle" /\ dirty[r] = NoStatus /\ ~wrote[r]

Creating(r) ==
  LET t == tx[r]
      v == t.new.veiculo
  IN  /\ t.kind = "create" /\ t.sale \in Sales
      /\ t.new \in Rows /\ t.new.troca = None
      /\ venda[t.sale] = NoRow
      /\ \A q \in Requests \ {r} : tx[q].sale # t.sale
      /\ pc[r] \in {"target", "write", "sync", "commit"}
      /\ wrote[r] <=> pc[r] \in {"sync", "commit"}
      /\ pc[r] # "commit" => t.k = 1 /\ dirty[r] = NoStatus
      /\ pc[r] = "target" => cache[r] = NoStatus
      /\ pc[r] # "target" => Touches(r, v) /\ status[v] = "disponivel"
      /\ pc[r] = "sync" => cache[r][v] = "disponivel"
      /\ pc[r] = "commit" => Depois(r, v) = StatusPorVendas(Visible(r), v, {})

Deleting(r) ==
  LET t == tx[r]
      v == t.old.veiculo
  IN  /\ t.kind = "delete" /\ t.sale \in Sales
      /\ t.old \in Rows /\ t.old.troca = None /\ t.new = NoRow
      /\ venda[t.sale] \in {NoRow, t.old}
      /\ pc[r] \in {"sync", "erase", "commit"}
      /\ wrote[r] <=> pc[r] = "commit"
      /\ pc[r] = "sync" =>
           /\ t.k = 1 /\ dirty[r] = NoStatus
           /\ cache[r][v] \notin {None, "indisponivel"}
           /\ Ativa(t.old) => cache[r][v] = Peso(t.old)
      /\ pc[r] # "sync" =>
           Touches(r, v) /\ Depois(r, v) = StatusPorVendas(venda, v, {t.sale})

Part(r) == Idle(r) \/ Creating(r) \/ Deleting(r)

Market == Agree /\ OneBusy /\ NoTradeIn /\ \A r \in Requests : Part(r)
-----------------------------------------------------------------------------
(* The rule reads nothing but the rows about the vehicle.                  *)

About(row, v) == row # NoRow /\ (row.veiculo = v \/ row.troca = v)

LEMMA RuleFrame ==
  ASSUME NEW A, NEW B, NEW v, NEW excl,
         \A s \in Sales : A[s] = B[s] \/ (~About(A[s], v) /\ ~About(B[s], v))
  PROVE  StatusPorVendas(A, v, excl) = StatusPorVendas(B, v, excl)
<1>1. TemOutraTrocaConcluida(A, v, excl) <=> TemOutraTrocaConcluida(B, v, excl)
  BY DEF TemOutraTrocaConcluida, About
<1>2. \A st : TemOutraVenda(A, v, st, excl) <=> TemOutraVenda(B, v, st, excl)
  BY DEF TemOutraVenda, About
<1> QED
  BY <1>1, <1>2 DEF StatusPorVendas

\* Leaving a sale out is having no row for it.
LEMMA RuleWithout ==
  ASSUME NEW A, NEW B, NEW v, NEW s \in Sales,
         B[s] = NoRow, \A u \in Sales \ {s} : B[u] = A[u]
  PROVE  StatusPorVendas(B, v, {}) = StatusPorVendas(A, v, {s})
<1>1. TemOutraTrocaConcluida(B, v, {}) <=> TemOutraTrocaConcluida(A, v, {s})
  BY DEF TemOutraTrocaConcluida
<1>2. \A st : TemOutraVenda(B, v, st, {}) <=> TemOutraVenda(A, v, st, {s})
  BY DEF TemOutraVenda
<1> QED
  BY <1>1, <1>2 DEF StatusPorVendas

LEMMA RuleType ==
  ASSUME NEW A, NEW v, NEW excl
  PROVE  StatusPorVendas(A, v, excl) \in {"disponivel", "vendido", "reservado"}
BY DEF StatusPorVendas

\* Without trade-ins a vehicle is available exactly when no sale of it is active.
LEMMA RuleAvailable ==
  ASSUME NEW v \in Vehicles, NEW excl,
         \A s \in Sales : venda[s] # NoRow => venda[s].troca = None
  PROVE  StatusPorVendas(venda, v, excl) = "disponivel"
           <=> \A s \in Sales \ excl : Ativa(venda[s]) => venda[s].veiculo # v
<1>1. ~TemOutraTrocaConcluida(venda, v, excl)
  BY SentinelAssumption DEF TemOutraTrocaConcluida
<1> QED
  BY <1>1 DEF StatusPorVendas, TemOutraVenda, Ativa

\* ... and the only active sale of a vehicle decides its status.
LEMMA RuleOfSale ==
  ASSUME TypeOK, OneBusy, NoTradeIn, NEW s \in Sales, Ativa(venda[s])
  PROVE  /\ StatusPorVendas(venda, venda[s].veiculo, {}) = Peso(venda[s])
         /\ StatusPorVendas(venda, venda[s].veiculo, {s}) = "disponivel"
<1> DEFINE v == venda[s].veiculo
<1>1. venda[s] \in Rows /\ v \in Vehicles
  BY DEF TypeOK, Ativa, Rows
<1>2. \A u \in Sales : Ativa(venda[u]) /\ venda[u].veiculo = v => u = s
  BY DEF OneBusy
<1>3. ~TemOutraTrocaConcluida(venda, v, {})
  BY <1>1, SentinelAssumption DEF TemOutraTrocaConcluida, NoTradeIn
<1>4. StatusPorVendas(venda, v, {}) = Peso(venda[s])
  <2>1. CASE venda[s].status = "concluido"
    <3>1. TemOutraVenda(venda, v, "concluido", {})
      BY <2>1 DEF TemOutraVenda, Ativa
    <3> QED
      BY <1>3, <2>1, <3>1 DEF StatusPorVendas, Peso
  <2>2. CASE venda[s].status = "pendente"
    <3>1. TemOutraVenda(venda, v, "pendente", {})
      BY <2>2 DEF TemOutraVenda, Ativa
    <3>2. ~TemOutraVenda(venda, v, "concluido", {})
      BY <1>2, <2>2 DEF TemOutraVenda, Ativa
    <3> QED
      BY <1>3, <2>2, <3>1, <3>2 DEF StatusPorVendas, Peso
  <2> QED
    BY <2>1, <2>2 DEF Ativa
<1>5. StatusPorVendas(venda, v, {s}) = "disponivel"
  BY <1>1, <1>2, RuleAvailable DEF NoTradeIn
<1> QED
  BY <1>4, <1>5

\* A sale that is not active weighs nothing.
LEMMA RuleInactive ==
  ASSUME NoTradeIn, NEW v \in Vehicles, NEW s \in Sales, ~Ativa(venda[s])
  PROVE  StatusPorVendas(venda, v, {s}) = StatusPorVendas(venda, v, {})
<1>1. /\ ~TemOutraTrocaConcluida(venda, v, {})
      /\ ~TemOutraTrocaConcluida(venda, v, {s})
  BY SentinelAssumption DEF TemOutraTrocaConcluida, NoTradeIn
<1>2. \A st \in {"pendente", "concluido"} :
        TemOutraVenda(venda, v, st, {}) <=> TemOutraVenda(venda, v, st, {s})
  BY DEF TemOutraVenda, Ativa
<1> QED
  BY <1>1, <1>2 DEF StatusPorVendas

-----------------------------------------------------------------------------
(* Steps that publish nothing.                                             *)

Begun == Market /\ TypeOK /\ PhaseOK /\ WritesAreLocked /\ MarketOnly

\* What r does between its beginning and its end disturbs nobody else, as
\* long as it does not take the id of a sale another request is creating.
LEMMA QuietFrame ==
  ASSUME Begun, NEW r \in Requests, UNCHANGED <<venda, status>>,
         \A q \in Requests \ {r} :
           /\ pc'[q] = pc[q] /\ tx'[q] = tx[q] /\ held'[q] = held[q]
           /\ cache'[q] = cache[q] /\ dirty'[q] = dirty[q] /\ wrote'[q] = wrote[q],
         \A q \in Requests \ {r} : Creating(q) => tx'[r].sale # tx[q].sale,
         Part(r)'
  PROVE  Market'
<1>1. ASSUME NEW q \in Requests \ {r} PROVE Part(q)'
  <2>0. /\ pc'[q] = pc[q] /\ tx'[q] = tx[q] /\ held'[q] = held[q]
        /\ cache'[q] = cache[q] /\ dirty'[q] = dirty[q] /\ wrote'[q] = wrote[q]
        /\ venda' = venda /\ status' = status
    OBVIOUS
  <2>1. CASE Idle(q)
    BY <2>0, <2>1 DEF Idle, NoStatus, Part
  <2>2. CASE Creating(q)
    <3>1. \A p \in Requests \ {q} : tx'[p].sale # tx'[q].sale
      BY <2>0, <2>2 DEF Creating
    <3>2. Creating(q)'
      BY <2>0, <2>2, <3>1 DEF Creating, Touches, Depois, NoStatus, Visible
    <3> QED
      BY <3>2 DEF Part
  <2>3. CASE Deleting(q)
    <3>1. Deleting(q)'
      BY <2>0, <2>3 DEF Deleting, Touches, Depois, NoStatus
    <3> QED
      BY <3>1 DEF Part
  <2> QED
    BY <2>1, <2>2, <2>3 DEF Begun, Market, Part
<1>2. Agree' /\ OneBusy' /\ NoTradeIn'
  BY DEF Begun, Market, Agree, OneBusy, NoTradeIn
<1> QED
  BY <1>1, <1>2 DEF Market

\* A request that goes on with its sale takes no other.
LEMMA SameSale ==
  ASSUME Begun, NEW r \in Requests
  PROVE  \A q \in Requests \ {r} : Creating(q) => tx[r].sale # tx[q].sale
BY DEF Creating

LEMMA MarketBegins ==
  ASSUME Begun, NEW r \in Requests,
         BeginCreate(r) \/ BeginUpdate(r) \/ BeginDelete(r) \/ BeginEdit(r)
  PROVE  Market' /\ UNCHANGED <<venda, status>>
<1>0. ASSUME NEW where, NEW t, NEW loaded, Begin(r, where, t, loaded)
      PROVE  /\ UNCHANGED <<venda, status>>
             /\ pc[r] = "idle" /\ t.kind \in {"create", "delete"}
             /\ pc'[r] = where /\ tx'[r] = t /\ cache'[r] = loaded
             /\ dirty'[r] = NoStatus /\ ~wrote'[r]
             /\ \A q \in Requests \ {r} :
                  /\ pc'[q] = pc[q] /\ tx'[q] = tx[q] /\ held'[q] = held[q]
                  /\ cache'[q] = cache[q] /\ dirty'[q] = dirty[q] /\ wrote'[q] = wrote[q]
  <2>1. pc[r] = "idle" /\ Part(r)
    BY <1>0 DEF Begin, Begun, Market
  <2>2. Idle(r)
    BY <2>1 DEF Part, Creating, Deleting
  <2> QED
    BY <1>0, <2>2 DEF Begin, Begun, TypeOK, MarketOnly, Idle
<1>1. CASE BeginCreate(r)
  <2>1. PICK s \in Sales, row \in RowInputs :
          /\ FreshSale(s)
          /\ Begin(r, "target", SaleTx("create", s, NoRow, row), NoStatus)
    BY <1>1 DEF BeginCreate
  <2> DEFINE t == SaleTx("create", s, NoRow, row)
  <2>2. /\ t.kind = "create" /\ t.sale = s /\ t.new = row /\ t.k = 1
        /\ row \in Rows /\ row.troca = None
    BY RequestAssumption DEF SaleTx, Begun, MarketOnly
  <2>3. Begin(r, "target", t, NoStatus)
    BY <2>1
  <2> HIDE DEF t
  <2>4. /\ UNCHANGED <<venda, status>> /\ pc'[r] = "target" /\ tx'[r] = t
        /\ cache'[r] = NoStatus /\ dirty'[r] = NoStatus /\ ~wrote'[r]
        /\ \A q \in Requests \ {r} : tx'[q] = tx[q]
    BY <1>0, <2>3
  <2>5. venda[s] = NoRow /\ \A q \in Requests : tx[q].sale # s
    BY <2>1 DEF FreshSale
  <2>6. Creating(r)'
    BY <2>2, <2>4, <2>5 DEF Creating
  <2>7. Part(r)'
    BY <2>6 DEF Part
  <2>8. \A q \in Requests \ {r} : Creating(q) => tx'[r].sale # tx[q].sale
    BY <2>2, <2>4, <2>5
  <2> QED
    BY <1>0, <2>3, <2>7, <2>8, QuietFrame
<1>2. CASE BeginDelete(r)
  <2>1. PICK s \in Sales :
          /\ venda[s] # NoRow
          /\ Begin(r, "sync", SaleTx("delete", s, venda[s], NoRow), Loaded(venda[s]))
    BY <1>2 DEF BeginDelete
  <2> DEFINE t == SaleTx("delete", s, venda[s], NoRow)
             loaded == Loaded(venda[s])
             v == venda[s].veiculo
  <2>2. /\ t.kind = "delete" /\ t.sale = s /\ t.old = venda[s] /\ t.new = NoRow /\ t.k = 1
        /\ venda[s] \in Rows /\ venda[s].troca = None /\ v \in Vehicles
    BY <2>1 DEF SaleTx, Begun, Market, NoTradeIn, TypeOK, Rows
  <2>3. Begin(r, "sync", t, loaded)
    BY <2>1
  <2>4. loaded[v] = status[v]
    BY <2>2 DEF Loaded
  <2>5. status[v] = StatusPorVendas(venda, v, {})
    BY <2>2 DEF Begun, Market, Agree
  <2>6. loaded[v] \notin {None, "indisponivel"}
    BY <2>4, <2>5, RuleType, SentinelAssumption DEF StatusVeiculo
  <2>7. Ativa(venda[s]) => loaded[v] = Peso(venda[s])
    BY <2>4, <2>5, RuleOfSale DEF Begun, Market
  <2> HIDE DEF t, loaded, v
  <2>8. /\ UNCHANGED <<venda, status>> /\ pc'[r] = "sync" /\ tx'[r] = t
        /\ cache'[r] = loaded /\ dirty'[r] = NoStatus /\ ~wrote'[r]
    BY <1>0, <2>3
  <2>9. Deleting(r)'
    BY <2>2, <2>6, <2>7, <2>8 DEF Deleting, v
  <2>10. Part(r)'
    BY <2>9 DEF Part
  <2>11. \A q \in Requests \ {r} : Creating(q) => tx'[r].sale # tx[q].sale
    BY <2>1, <2>2, <2>8 DEF Creating
  <2> QED
    BY <1>0, <2>3, <2>10, <2>11, QuietFrame
<1>3. CASE BeginUpdate(r) \/ BeginEdit(r)
  <2>1. CASE BeginUpdate(r)
    <3>1. PICK s \in Sales, row \in RowInputs :
            Begin(r, "own", SaleTx("update", s, venda[s], row), Loaded(venda[s]))
      BY <2>1 DEF BeginUpdate
    <3>2. SaleTx("update", s, venda[s], row).kind = "update"
      BY DEF SaleTx
    <3> QED
      BY <1>0, <3>1, <3>2
  <2>2. CASE BeginEdit(r)
    <3>1. PICK v \in Vehicles, st \in EditInputs, kind \in {"manual", "purchase"} :
            Begin(r, "edit", EditTx(kind, v, st), [NoStatus EXCEPT ![v] = status[v]])
      BY <2>2 DEF BeginEdit
    <3>2. EditTx(kind, v, st).kind = kind
      BY DEF EditTx
    <3> QED
      BY <1>0, <3>1, <3>2
  <2> QED
    BY <1>3, <2>1, <2>2
<1>4. UNCHANGED <<venda, status>>
  BY DEF BeginCreate, BeginUpdate, BeginDelete, BeginEdit, Begin
<1> QED
  BY <1>1, <1>2, <1>3, <1>4

LEMMA MarketCheck ==
  ASSUME Begun, NEW r \in Requests, CheckTarget(r)
  PROVE  Market'
<1> DEFINE v == tx[r].new.veiculo
<1>1. Creating(r) /\ pc[r] = "target"
  BY DEF CheckTarget, Begun, Market, Part, Idle, Deleting
<1>2. v \in Vehicles
  BY <1>1 DEF Creating, Rows
<1>3. status[v] = "disponivel"
  BY <1>1, <1>2 DEF CheckTarget, Seen, Creating, NoStatus
<1>4. /\ pc'[r] = "write" /\ tx' = tx /\ v \in held'[r]
      /\ UNCHANGED <<venda, status, cache, dirty, wrote>>
  BY DEF CheckTarget, Begun, TypeOK
<1>5. Touches(r, v)'
  BY <1>1, <1>2, <1>4 DEF Touches, Creating, NoStatus
<1> HIDE DEF v
<1>6. Creating(r)'
  BY <1>1, <1>3, <1>4, <1>5 DEF Creating, v
<1> QED
  BY <1>4, <1>6, SameSale, QuietFrame DEF CheckTarget, Begun, TypeOK, Part

LEMMA MarketWrite ==
  ASSUME Begun, NEW r \in Requests, Write(r)
  PROVE  Market'
<1> DEFINE t == tx[r]
           v == tx[r].new.veiculo
<1>1. Creating(r) /\ pc[r] = "write"
  BY DEF Write, Begun, Market, Part, Idle, Deleting
<1>2. v \in Vehicles /\ t \in Transactions /\ RowToWrite(r) = t.new
  BY <1>1 DEF Creating, Rows, RowToWrite, Begun, TypeOK
<1>3. [t EXCEPT !.new = t.new] = t
  BY <1>2 DEF Transactions
<1>4. tx' = tx
  BY <1>2, <1>3 DEF Write, Begun, TypeOK
<1>5. /\ pc'[r] = "sync" /\ wrote'[r] = TRUE /\ cache'[r] = Loaded(t.new)
      /\ UNCHANGED <<venda, status, held, dirty>>
  BY <1>2 DEF Write, Begun, TypeOK
<1>6. cache'[r][v] = "disponivel"
  BY <1>1, <1>2, <1>5 DEF Loaded, Creating
<1>7. Touches(r, v)'
  BY <1>1, <1>4, <1>5 DEF Touches, Creating
<1> HIDE DEF v, t
<1>8. Creating(r)'
  BY <1>1, <1>4, <1>5, <1>6, <1>7 DEF Creating, v
<1>9. \A q \in Requests \ {r} :
        /\ pc'[q] = pc[q] /\ tx'[q] = tx[q] /\ held'[q] = held[q]
        /\ cache'[q] = cache[q] /\ dirty'[q] = dirty[q] /\ wrote'[q] = wrote[q]
  BY <1>4 DEF Write, Begun, TypeOK
<1> QED
  BY <1>4, <1>5, <1>8, <1>9, SameSale, QuietFrame DEF Part

\* Without a trade-in the plan is one recomputation.
LEMMA MarketPlan ==
  ASSUME NEW r \in Requests, Creating(r) \/ Deleting(r)
  PROVE  LET own == tx[r].kind = "create"
             v   == IF own THEN tx[r].new.veiculo ELSE tx[r].old.veiculo
         IN  v \in Vehicles /\ SyncPlan(tx[r]) = <<[veiculo |-> v, own |-> own]>>
<1>1. CASE Creating(r)
  <2>1. tx[r].kind = "create" /\ tx[r].new.veiculo \in Vehicles /\ tx[r].new.troca = None
    BY <1>1 DEF Creating, Rows
  <2>2. /\ PlanEntry(tx[r].new.veiculo, TRUE) = <<[veiculo |-> tx[r].new.veiculo, own |-> TRUE]>>
        /\ PlanEntry(tx[r].new.troca, TRUE) = <<>>
    BY <2>1, SentinelAssumption DEF PlanEntry
  <2> DEFINE e == [veiculo |-> tx[r].new.veiculo, own |-> TRUE]
  <2>3. SyncPlan(tx[r]) = <<e>> \o <<>>
    BY <2>1, <2>2 DEF SyncPlan
  <2> HIDE DEF e
  <2>4. <<e>> \o <<>> = <<e>>
    OBVIOUS
  <2> QED
    BY <2>1, <2>3, <2>4 DEF e
<1>2. CASE Deleting(r)
  <2>1. tx[r].kind = "delete" /\ tx[r].old.veiculo \in Vehicles /\ tx[r].old.troca = None
    BY <1>2 DEF Deleting, Rows
  <2>2. /\ PlanEntry(tx[r].old.veiculo, FALSE) = <<[veiculo |-> tx[r].old.veiculo, own |-> FALSE]>>
        /\ PlanEntry(tx[r].old.troca, FALSE) = <<>>
    BY <2>1, SentinelAssumption DEF PlanEntry
  <2> DEFINE e == [veiculo |-> tx[r].old.veiculo, own |-> FALSE]
  <2>3. SyncPlan(tx[r]) = <<e>> \o <<>>
    BY <2>1, <2>2 DEF SyncPlan
  <2> HIDE DEF e
  <2>4. <<e>> \o <<>> = <<e>>
    OBVIOUS
  <2> QED
    BY <2>1, <2>3, <2>4 DEF e
<1> QED
  BY <1>1, <1>2

LEMMA MarketRecompute ==
  ASSUME Begun, NEW r \in Requests, Recompute(r)
  PROVE  Market'
<1> DEFINE own  == tx[r].kind = "create"
           v    == IF own THEN tx[r].new.veiculo ELSE tx[r].old.veiculo
           novo == NovoStatus(r, v, own)
           t    == [tx[r] EXCEPT !.k = 2]
<1>1. pc[r] = "sync" /\ (Creating(r) \/ Deleting(r)) /\ tx[r].k = 1 /\ dirty[r] = NoStatus
  BY DEF Recompute, Begun, Market, Part, Idle, Creating, Deleting
<1>2. v \in Vehicles /\ SyncPlan(tx[r]) = <<[veiculo |-> v, own |-> own]>>
  BY <1>1, MarketPlan
<1>3. /\ SyncPlan(tx[r])[tx[r].k].veiculo = v
      /\ SyncPlan(tx[r])[tx[r].k].own = own
      /\ Len(SyncPlan(tx[r])) = 1
  BY <1>1, <1>2
<1>4. /\ held' = [held EXCEPT ![r] = held[r] \cup {v}]
      /\ dirty' = [dirty EXCEPT ![r][v] = IF novo # Seen(r, v) THEN novo ELSE dirty[r][v]]
      /\ cache' = [cache EXCEPT ![r][v] = novo]
      /\ UNCHANGED <<venda, status, wrote>>
  BY <1>3 DEF Recompute
<1>5. tx' = [tx EXCEPT ![r] = t]
  BY <1>1 DEF Recompute
<1>6. pc' = [pc EXCEPT ![r] = IF tx[r].kind = "delete" THEN "erase" ELSE "commit"]
  BY <1>1, <1>3 DEF Recompute
<1>7. t.kind = tx[r].kind /\ t.sale = tx[r].sale /\ t.old = tx[r].old /\ t.new = tx[r].new
  <2>1. tx[r] \in Transactions
    BY DEF Begun, TypeOK
  <2> QED
    BY <2>1 DEF Transactions
<1>8. /\ tx'[r] = t /\ v \in held'[r] /\ wrote' = wrote
      /\ dirty'[r] = [NoStatus EXCEPT ![v] = IF novo # Seen(r, v) THEN novo ELSE None]
  BY <1>1, <1>2, <1>4, <1>5 DEF Begun, TypeOK, NoStatus
<1>9. \A q \in Requests \ {r} :
        /\ pc'[q] = pc[q] /\ tx'[q] = tx[q] /\ held'[q] = held[q]
        /\ cache'[q] = cache[q] /\ dirty'[q] = dirty[q] /\ wrote'[q] = wrote[q]
  BY <1>4, <1>5, <1>6 DEF Begun, TypeOK
<1>10. \A u \in Vehicles \ {v} : dirty'[r][u] = None
  BY <1>8 DEF NoStatus
<1>11. dirty'[r][v] = IF novo # Seen(r, v) THEN novo ELSE None
  BY <1>2, <1>8 DEF NoStatus
<1>12. CASE Creating(r)
  <2>1. own /\ v = tx[r].new.veiculo
    BY <1>12 DEF Creating
  <2>2. Seen(r, v) = "disponivel" /\ status[v] = "disponivel"
    BY <1>1, <1>12, <2>1, SentinelAssumption DEF Creating, Seen, StatusVeiculo
  <2>3. novo = StatusPorVendas(Visible(r), v, {})
    BY <2>1, <2>2 DEF NovoStatus, Recomputado
  <2>4. Visible(r)' = Visible(r)
    BY <1>4, <1>7, <1>8 DEF Visible
  <2>5. novo # None
    BY <2>3, RuleType, SentinelAssumption DEF StatusVeiculo
  <2>6. pc'[r] = "commit" /\ wrote'[r]
    BY <1>1, <1>6, <1>8, <1>12 DEF Creating, Begun, TypeOK
  <2>7. /\ t.kind = "create" /\ t.sale \in Sales
        /\ t.new \in Rows /\ t.new.troca = None /\ t.new.veiculo = v
        /\ venda[t.sale] = NoRow
        /\ \A q \in Requests \ {r} : tx[q].sale # t.sale
    BY <1>7, <1>12, <2>1 DEF Creating
  <2> HIDE DEF own, v, novo, t
  <2>8. /\ (IF dirty'[r][v] # None THEN dirty'[r][v] ELSE status'[v])
             = StatusPorVendas(Visible(r)', v, {})
        /\ status'[v] = "disponivel"
    BY <1>4, <1>11, <2>2, <2>3, <2>4, <2>5
  <2>9. Creating(r)'
    BY <1>4, <1>8, <1>9, <1>10, <2>6, <2>7, <2>8 DEF Creating, Touches, Depois
  <2> QED
    BY <1>4, <1>7, <1>8, <1>9, <2>9, SameSale, QuietFrame DEF Part
<1>13. CASE Deleting(r)
  <2>1. ~own /\ v = tx[r].old.veiculo /\ ~wrote[r]
    BY <1>1, <1>13 DEF Deleting
  <2> DEFINE s == tx[r].sale
  <2>2. /\ Seen(r, v) = cache[r][v] /\ Seen(r, v) # "indisponivel"
        /\ Ativa(tx[r].old) => Seen(r, v) = Peso(tx[r].old)
        /\ s \in Sales /\ venda[s] \in {NoRow, tx[r].old}
    BY <1>1, <1>13, <2>1 DEF Deleting, Seen
  <2>3. Visible(r) = venda
    BY <2>1 DEF Visible, Begun, TypeOK
  <2>4. novo = StatusPorVendas(venda, v, {s})
    BY <2>1, <2>2, <2>3 DEF NovoStatus, Recomputado
  <2>5. novo # None
    BY <2>4, RuleType, SentinelAssumption DEF StatusVeiculo
  <2>6. status[v] = StatusPorVendas(venda, v, {})
    BY <1>2 DEF Begun, Market, Agree
  <2>7. ASSUME novo = Seen(r, v) PROVE status[v] = novo
    <3>1. CASE Ativa(venda[s])
      <4>1. venda[s] = tx[r].old
        BY <2>2, <3>1 DEF Ativa
      <4>2. StatusPorVendas(venda, v, {s}) = "disponivel"
        BY <2>1, <2>2, <3>1, <4>1, RuleOfSale DEF Begun, Market
      <4>3. Seen(r, v) # "disponivel"
        BY <2>2, <3>1, <4>1 DEF Peso
      <4> QED
        BY <2>4, <2>7, <4>2, <4>3
    <3>2. CASE ~Ativa(venda[s])
      BY <1>2, <2>2, <2>4, <2>6, <3>2, RuleInactive DEF Begun, Market
    <3> QED
      BY <3>1, <3>2
  <2>8. pc'[r] = "erase" /\ ~wrote'[r]
    BY <1>1, <1>6, <1>8, <1>13 DEF Deleting, Begun, TypeOK
  <2>9. /\ t.kind = "delete" /\ t.sale = s /\ s \in Sales
        /\ t.old \in Rows /\ t.old.troca = None /\ t.new = NoRow /\ t.old.veiculo = v
        /\ venda[s] \in {NoRow, t.old}
    BY <1>7, <1>13, <2>1 DEF Deleting
  <2> HIDE DEF own, v, novo, t, s
  <2>10. (IF dirty'[r][v] # None THEN dirty'[r][v] ELSE status'[v])
             = StatusPorVendas(venda', v, {s})
    BY <1>4, <1>11, <2>4, <2>5, <2>7
  <2>11. Deleting(r)'
    BY <1>4, <1>8, <1>10, <2>8, <2>9, <2>10 DEF Deleting, Touches, Depois
  <2> QED
    BY <1>4, <1>7, <1>8, <1>9, <2>11, SameSale, QuietFrame DEF Part
<1> QED
  BY <1>1, <1>12, <1>13

LEMMA MarketErase ==
  ASSUME Begun, NEW r \in Requests, Erase(r)
  PROVE  Market'
<1>1. Deleting(r) /\ pc[r] = "erase"
  BY DEF Erase, Begun, Market, Part, Idle, Creating
<1>2. /\ pc'[r] = "commit" /\ wrote'[r] /\ tx' = tx
      /\ UNCHANGED <<venda, status, held, cache, dirty>>
  BY DEF Erase, Begun, TypeOK
<1>3. Deleting(r)'
  BY <1>1, <1>2 DEF Deleting, Touches, Depois
<1>4. \A q \in Requests \ {r} :
        /\ pc'[q] = pc[q] /\ tx'[q] = tx[q] /\ held'[q] = held[q]
        /\ cache'[q] = cache[q] /\ dirty'[q] = dirty[q] /\ wrote'[q] = wrote[q]
  BY <1>2 DEF Erase, Begun, TypeOK
<1> QED
  BY <1>2, <1>3, <1>4, SameSale, QuietFrame DEF Part

LEMMA MarketRollback ==
  ASSUME Begun, NEW r \in Requests, Rollback(r)
  PROVE  Market'
<1>1. /\ pc'[r] = "idle" /\ tx'[r] = NoTx /\ dirty'[r] = NoStatus /\ wrote'[r] = FALSE
      /\ UNCHANGED <<venda, status>>
      /\ \A q \in Requests \ {r} :
           /\ pc'[q] = pc[q] /\ tx'[q] = tx[q] /\ held'[q] = held[q]
           /\ cache'[q] = cache[q] /\ dirty'[q] = dirty[q] /\ wrote'[q] = wrote[q]
  BY DEF Rollback, End, Begun, TypeOK
<1>2. NoTx.sale \notin Sales
  BY SentinelAssumption DEF NoTx, EditTx
<1>3. \A q \in Requests \ {r} : Creating(q) => tx'[r].sale # tx[q].sale
  BY <1>1, <1>2 DEF Creating
<1>4. Idle(r)'
  BY <1>1 DEF Idle, NoStatus
<1> QED
  BY <1>1, <1>3, <1>4, QuietFrame DEF Part

-----------------------------------------------------------------------------
(* The commit: what it publishes is a step of the ledger.                  *)

\* The vehicle a create or a delete is about.
Concerns(r) == IF tx[r].kind = "create" THEN tx[r].new.veiculo ELSE tx[r].old.veiculo

\* r publishes its row and the status the new table gives to its vehicle.
Publishes(r, s, v) ==
  /\ venda' = [venda EXCEPT ![s] = tx[r].new]
  /\ status'[v] = StatusPorVendas(venda', v, {})
  /\ \A u \in Vehicles \ {v} : status'[u] = status[u]
  /\ \A u \in Vehicles \ {v} : ~About(venda[s], u) /\ ~About(tx[r].new, u)

LEMMA CommitPublishes ==
  ASSUME Begun, NEW r \in Requests, Commit(r)
  PROVE  /\ tx[r].sale \in Sales /\ Concerns(r) \in Vehicles /\ Touches(r, Concerns(r))
         /\ Creating(r) \/ Deleting(r)
         /\ Publishes(r, tx[r].sale, Concerns(r))
<1> DEFINE s == tx[r].sale
           v == Concerns(r)
<1>1. pc[r] = "commit" /\ (Creating(r) \/ Deleting(r)) /\ wrote[r]
  BY DEF Commit, Begun, Market, Part, Idle, Creating, Deleting
<1>2. s \in Sales /\ v \in Vehicles /\ Touches(r, v)
  BY <1>1 DEF Creating, Deleting, Concerns, Rows
<1>3. venda' = Visible(r) /\ venda' = [venda EXCEPT ![s] = tx[r].new]
  BY <1>1 DEF Commit, Visible, Begun, TypeOK
<1>4. status' = [u \in Vehicles |-> Depois(r, u)]
  BY DEF Commit, Depois
<1>5. \A u \in Vehicles \ {v} : status'[u] = status[u]
  BY <1>2, <1>4 DEF Touches, Depois
<1>6. status'[v] = Depois(r, v)
  BY <1>2, <1>4
<1>7. CASE Creating(r)
  <2>1. v = tx[r].new.veiculo /\ Depois(r, v) = StatusPorVendas(Visible(r), v, {})
    BY <1>1, <1>7 DEF Creating, Concerns
  <2>2. \A u \in Vehicles \ {v} : ~About(venda[s], u) /\ ~About(tx[r].new, u)
    BY <1>7, <2>1, SentinelAssumption DEF Creating, About
  <2> QED
    BY <1>1, <1>2, <1>3, <1>5, <1>6, <2>1, <2>2 DEF Publishes
<1>8. CASE Deleting(r)
  <2>1. /\ v = tx[r].old.veiculo /\ Depois(r, v) = StatusPorVendas(venda, v, {s})
        /\ tx[r].new = NoRow
    BY <1>1, <1>8 DEF Deleting, Concerns
  <2>2. \A u \in Vehicles \ {v} : ~About(venda[s], u) /\ ~About(tx[r].new, u)
    BY <1>8, <2>1, SentinelAssumption DEF Deleting, About
  <2>3. venda'[s] = NoRow /\ \A u \in Sales \ {s} : venda'[u] = venda[u]
    BY <1>2, <1>3, <2>1 DEF Begun, TypeOK
  <2>4. StatusPorVendas(venda', v, {}) = StatusPorVendas(venda, v, {s})
    BY <1>2, <2>3, RuleWithout
  <2> QED
    BY <1>1, <1>2, <1>3, <1>5, <1>6, <2>1, <2>2, <2>4 DEF Publishes
<1> QED
  BY <1>1, <1>7, <1>8

LEMMA MarketCommit ==
  ASSUME Begun, NEW r \in Requests, Commit(r)
  PROVE  Market'
<1> DEFINE s == tx[r].sale
           v == Concerns(r)
           N == tx[r].new
<1>1. /\ s \in Sales /\ v \in Vehicles /\ Touches(r, v)
      /\ Creating(r) \/ Deleting(r)
      /\ Publishes(r, s, v)
  BY CommitPublishes
<1>2. /\ venda'[s] = N /\ \A u \in Sales \ {s} : venda'[u] = venda[u]
      /\ \A u \in Vehicles \ {v} : status'[u] = status[u]
  BY <1>1 DEF Publishes, Begun, TypeOK
<1>3. /\ Creating(r) => v = N.veiculo /\ N \in Rows /\ N.troca = None /\ pc[r] = "commit"
      /\ Deleting(r) => N = NoRow
  BY DEF Creating, Deleting, Concerns, Commit
<1>4. ASSUME NEW u \in Vehicles \ {v}, NEW excl
      PROVE  StatusPorVendas(venda', u, excl) = StatusPorVendas(venda, u, excl)
  <2>1. \A z \in Sales : venda'[z] = venda[z] \/ (~About(venda'[z], u) /\ ~About(venda[z], u))
    BY <1>1, <1>2 DEF Publishes
  <2> QED
    BY <2>1, RuleFrame
<1>5. Agree'
  <2>1. ASSUME NEW u \in Vehicles PROVE status'[u] = StatusPorVendas(venda', u, {})
    <3>1. CASE u = v
      BY <1>1, <3>1 DEF Publishes
    <3>2. CASE u # v
      <4>1. status'[u] = status[u]
        BY <1>2, <3>2
      <4>2. StatusPorVendas(venda', u, {}) = StatusPorVendas(venda, u, {})
        BY <1>4, <3>2
      <4> QED
        BY <4>1, <4>2 DEF Begun, Market, Agree
    <3> QED
      BY <3>1, <3>2
  <2> QED
    BY <2>1 DEF Agree
<1>6. NoTradeIn'
  <2>1. N # NoRow => N.troca = None
    BY <1>1, <1>3
  <2> QED
    BY <1>2, <2>1 DEF Begun, Market, NoTradeIn
<1>7. OneBusy'
  <2>1. ASSUME NEW z \in Sales \ {s}, Ativa(venda[z]), Ativa(N)
        PROVE  venda[z].veiculo # N.veiculo
    <3>1. Creating(r) /\ N.veiculo = v /\ status[v] = "disponivel"
      BY <1>1, <1>3, <2>1 DEF Ativa, Creating
    <3>2. StatusPorVendas(venda, v, {}) = "disponivel"
      BY <1>1, <3>1 DEF Begun, Market, Agree
    <3> QED
      BY <1>1, <2>1, <3>1, <3>2, RuleAvailable DEF Begun, Market, NoTradeIn
  <2> HIDE DEF s, N
  <2>2. \A x, y \in Sales :
          x # y /\ Ativa(venda'[x]) /\ Ativa(venda'[y]) => venda'[x].veiculo # venda'[y].veiculo
    BY <1>2, <2>1 DEF Begun, Market, OneBusy
  <2>3. OneBusy' <=> \A x, y \in Sales :
          x # y /\ Ativa(venda'[x]) /\ Ativa(venda'[y]) => venda'[x].veiculo # venda'[y].veiculo
    BY DEF OneBusy, Ativa
  <2> QED
    BY <2>2, <2>3
<1>8. ASSUME NEW q \in Requests PROVE Part(q)'
  <2>1. CASE q = r
    <3>1. pc'[r] = "idle" /\ dirty'[r] = NoStatus /\ wrote'[r] = FALSE
      BY DEF Commit, End, Begun, TypeOK
    <3>2. Idle(r)'
      BY <3>1 DEF Idle, NoStatus
    <3> QED
      BY <2>1, <3>2 DEF Part
  <2>2. CASE q # r
    <3>0. /\ pc'[q] = pc[q] /\ tx'[q] = tx[q] /\ held'[q] = held[q]
          /\ cache'[q] = cache[q] /\ dirty'[q] = dirty[q] /\ wrote'[q] = wrote[q]
      BY <2>2 DEF Commit, End, Begun, TypeOK
    <3>1. v \notin held[q]
      BY <1>1, <2>2 DEF Touches, Begun, WritesAreLocked
    <3>2. CASE Idle(q)
      BY <3>0, <3>2 DEF Idle, NoStatus, Part
    <3>3. CASE Creating(q)
      <4> DEFINE w == tx[q].new.veiculo
      <4>1. w \in Vehicles /\ tx[q].sale # s /\ tx[q].sale \in Sales
        BY <2>2, <3>3 DEF Creating, Rows
      <4>2. venda'[tx[q].sale] = NoRow
        BY <1>2, <3>3, <4>1 DEF Creating
      <4>3. NoTx.sale \notin Sales
        BY SentinelAssumption DEF NoTx, EditTx
      <4>4. \A p \in Requests \ {q} : tx'[p].sale # tx'[q].sale
        BY <3>0, <3>3, <4>1, <4>3 DEF Commit, End, Begun, TypeOK, Creating
      <4>5. pc[q] # "target" => Touches(q, w) /\ status[w] = "disponivel"
        BY <3>3 DEF Creating
      <4>6. pc[q] # "target" => w # v
        BY <3>1, <4>5 DEF Touches
      <4>7. pc[q] # "target" => status'[w] = "disponivel"
        BY <1>2, <4>1, <4>5, <4>6
      <4>8. pc[q] # "target" => Depois(q, w)' = Depois(q, w)
        BY <3>0, <4>5, <4>7 DEF Depois
      <4>9. pc[q] = "commit" =>
              StatusPorVendas(Visible(q)', w, {}) = StatusPorVendas(Visible(q), w, {})
        <5>1. SUFFICES ASSUME pc[q] = "commit"
                       PROVE  StatusPorVendas(Visible(q)', w, {})
                                = StatusPorVendas(Visible(q), w, {})
          OBVIOUS
        <5>2. \A z \in Sales \ {s} : Visible(q)'[z] = Visible(q)[z]
          BY <1>2, <3>0 DEF Visible
        <5>3. Visible(q)'[s] = N /\ Visible(q)[s] = venda[s]
          BY <1>1, <1>2, <3>0, <4>1 DEF Visible
        <5>4. ~About(N, w) /\ ~About(venda[s], w)
          BY <1>1, <4>1, <4>6, <5>1 DEF Publishes
        <5> HIDE DEF w, N
        <5>5. \A z \in Sales : Visible(q)'[z] = Visible(q)[z]
                \/ (~About(Visible(q)'[z], w) /\ ~About(Visible(q)[z], w))
          BY <5>2, <5>3, <5>4
        <5> QED
          BY <5>5, RuleFrame
      <4>10. pc[q] = "commit" => Depois(q, w)' = StatusPorVendas(Visible(q)', w, {})
        BY <3>3, <4>8, <4>9 DEF Creating
      <4>11. (pc[q] # "target" => Touches(q, w))'
        BY <3>0, <4>5 DEF Touches
      <4>12. Creating(q)'
        BY <3>0, <3>3, <4>2, <4>4, <4>7, <4>10, <4>11 DEF Creating, NoStatus
      <4> QED
        BY <4>12 DEF Part
    <3>4. CASE Deleting(q)
      <4> DEFINE w == tx[q].old.veiculo
                 z == tx[q].sale
      <4>1. w \in Vehicles /\ z \in Sales /\ venda[z] \in {NoRow, tx[q].old}
        BY <3>4 DEF Deleting, Rows
      <4>2. venda'[z] \in {NoRow, tx[q].old}
        <5>1. CASE z = s
          <6>1. ~Creating(r)
            BY <2>2, <5>1 DEF Creating
          <6> QED
            BY <1>1, <1>2, <1>3, <5>1, <6>1
        <5>2. CASE z # s
          BY <1>2, <4>1, <5>2
        <5> QED
          BY <5>1, <5>2
      <4>3. pc[q] # "sync" =>
              Touches(q, w) /\ Depois(q, w) = StatusPorVendas(venda, w, {z})
        BY <3>4 DEF Deleting
      <4>4. pc[q] # "sync" => w # v
        BY <3>1, <4>3 DEF Touches
      <4>5. pc[q] # "sync" => Depois(q, w)' = Depois(q, w)
        BY <1>2, <3>0, <4>1, <4>4 DEF Depois
      <4>6. pc[q] # "sync" =>
              StatusPorVendas(venda', w, {z}) = StatusPorVendas(venda, w, {z})
        BY <1>4, <4>1, <4>4
      <4>7. (pc[q] # "sync" => Touches(q, w))'
        BY <3>0, <4>3 DEF Touches
      <4>8. Deleting(q)'
        BY <3>0, <3>4, <4>2, <4>3, <4>5, <4>6, <4>7 DEF Deleting, NoStatus
      <4> QED
        BY <4>8 DEF Part
    <3> QED
      BY <3>2, <3>3, <3>4 DEF Begun, Market, Part
  <2> QED
    BY <2>1, <2>2
<1> QED
  BY <1>5, <1>6, <1>7, <1>8 DEF Market

LEMMA MarketInit == MarketOnly /\ Init => Market
<1> SUFFICES ASSUME MarketOnly, Init PROVE Market
  OBVIOUS
<1>1. ASSUME NEW v \in Vehicles
      PROVE  StatusPorVendas(venda, v, {}) = "disponivel"
  BY DEF Init, StatusPorVendas, TemOutraVenda, TemOutraTrocaConcluida
<1>2. Agree
  BY <1>1 DEF Init, Agree
<1>3. OneBusy /\ NoTradeIn
  BY DEF Init, OneBusy, NoTradeIn, Ativa
<1>4. \A r \in Requests : Idle(r)
  BY DEF Init, Idle
<1> QED
  BY <1>2, <1>3, <1>4 DEF Market, Part

LEMMA MarketStep == Begun /\ [Next]_vars => Market'
<1> SUFFICES ASSUME Begun, [Next]_vars PROVE Market'
  OBVIOUS
<1>1. CASE UNCHANGED vars
  <2>1. \A r \in Requests : Part(r)'
    BY <1>1 DEF vars, Begun, Market, Part, Idle, Creating, Deleting, Touches, Depois, Visible, NoStatus
  <2> QED
    BY <1>1, <2>1 DEF vars, Begun, Market, Agree, OneBusy, NoTradeIn
<1>2. ASSUME NEW r \in Requests,
             BeginCreate(r) \/ BeginUpdate(r) \/ BeginDelete(r) \/ BeginEdit(r)
      PROVE  Market'
  BY <1>2, MarketBegins
<1>3. ASSUME NEW r \in Requests, Advance(r) \/ Abort(r)
      PROVE  Market'
  <2>1. ~LockOwn(r) /\ ~EditVehicle(r)
    BY DEF LockOwn, EditVehicle, Begun, Market, Part, Idle, Creating, Deleting
  <2>2. CASE Refuse(r) \/ DeadlockVictim(r) \/ Abort(r)
    BY <2>2, MarketRollback DEF Refuse, DeadlockVictim, Abort
  <2> QED
    BY <1>3, <2>1, <2>2, MarketCheck, MarketWrite, MarketRecompute, MarketErase, MarketCommit
    DEF Advance
<1> QED
  BY <1>1, <1>2, <1>3 DEF Next

LEMMA MarketAlways == ASSUME MarketOnly PROVE Spec => []Begun
<1>1. Init => Market
  BY MarketInit
<1>2. Market /\ TypeOK /\ PhaseOK /\ WritesAreLocked /\ [Next]_vars => Market'
  BY MarketStep DEF Begun
<1>3. Market /\ TypeOK /\ PhaseOK /\ WritesAreLocked => Begun
  BY DEF Begun
<1> QED
  BY <1>1, <1>2, <1>3, TypeCorrect, Locking, PTL DEF Spec

-----------------------------------------------------------------------------
(* What a step publishes.                                                  *)

LEMMA OnlyCommits ==
  ASSUME Begun, [Next]_vars
  PROVE  UNCHANGED <<venda, status>> \/ \E r \in Requests : Commit(r)
<1>1. ASSUME NEW r \in Requests, Advance(r) \/ Abort(r), ~Commit(r)
      PROVE  UNCHANGED <<venda, status>>
  BY <1>1 DEF Advance, Abort, Refuse, DeadlockVictim, Rollback, LockOwn, CheckTarget,
     Write, Recompute, Erase, EditVehicle
<1> QED
  BY <1>1, MarketBegins DEF Next, vars

\* The statuses after a commit, said the way the ledger says it.
LEMMA CommitStatus ==
  ASSUME Begun, NEW r \in Requests, Commit(r)
  PROVE  LET s == tx[r].sale
             C == Ledger!Concerned(venda[s]) \cup Ledger!Concerned(tx[r].new)
         IN  Concerns(r) \in C =>
               status' = [u \in Vehicles |->
                 IF u \in C THEN Ledger!Recomputado(venda', u, {}, status[u]) ELSE status[u]]
<1> DEFINE s == tx[r].sale
           v == Concerns(r)
           C == Ledger!Concerned(venda[s]) \cup Ledger!Concerned(tx[r].new)
<1> SUFFICES ASSUME v \in C
             PROVE  status' = [u \in Vehicles |->
               IF u \in C THEN Ledger!Recomputado(venda', u, {}, status[u]) ELSE status[u]]
  OBVIOUS
<1>1. v \in Vehicles /\ Publishes(r, s, v)
  BY CommitPublishes
<1>2. C \cap Vehicles \subseteq {v}
  BY <1>1 DEF Publishes, About, Ledger!Concerned
<1>3. Ledger!Recomputado(venda', v, {}, status[v]) = StatusPorVendas(venda', v, {})
  <2>1. status[v] # "indisponivel"
    BY <1>1, RuleType DEF Begun, Market, Agree
  <2> QED
    BY <2>1 DEF Ledger!Recomputado, Ledger!StatusPorVendas, Ledger!TemOutraVenda,
        Ledger!TemOutraTrocaConcluida, StatusPorVendas, TemOutraVenda, TemOutraTrocaConcluida
<1>4. status' = [u \in Vehicles |-> Depois(r, u)]
  BY DEF Commit, Depois
<1>5. status'[v] = StatusPorVendas(venda', v, {}) /\ \A u \in Vehicles \ {v} : status'[u] = status[u]
  BY <1>1 DEF Publishes
<1> HIDE DEF C, v
<1> QED
  BY <1>1, <1>2, <1>3, <1>4, <1>5

LEMMA CommitIsLedgerStep ==
  ASSUME Begun, NEW r \in Requests, Commit(r)
  PROVE  Ledger!Next \/ UNCHANGED <<venda, status>>
<1> DEFINE s == tx[r].sale
           v == Concerns(r)
           N == tx[r].new
           C == Ledger!Concerned(venda[s]) \cup Ledger!Concerned(N)
<1>1. /\ s \in Sales /\ v \in Vehicles /\ (Creating(r) \/ Deleting(r)) /\ Publishes(r, s, v)
  BY CommitPublishes
<1>2. venda' = [venda EXCEPT ![s] = N]
  BY <1>1 DEF Publishes
<1>3. v \in C =>
        status' = [u \in Vehicles |->
          IF u \in C THEN Ledger!Recomputado(venda', u, {}, status[u]) ELSE status[u]]
  BY CommitStatus
<1>4. ASSUME v \in C, \A u \in Sales \ {s} : ~Clash(venda[u], N)
      PROVE  Ledger!Put(s, N)
  BY <1>2, <1>3, <1>4 DEF Ledger!Put, Ledger!Clash, Clash
<1>5. CASE Creating(r)
  <2>1. /\ venda[s] = NoRow /\ N \in Rows /\ v = N.veiculo /\ status[v] = "disponivel"
    BY <1>5 DEF Creating, Concerns, Commit
  <2>2. v \in C
    BY <2>1, SentinelAssumption DEF Ledger!Concerned
  <2>3. StatusPorVendas(venda, v, {}) = "disponivel"
    BY <1>1, <2>1 DEF Begun, Market, Agree
  <2>4. \A u \in Sales : Ativa(venda[u]) => venda[u].veiculo # v
    BY <1>1, <2>3, RuleAvailable DEF Begun, Market, NoTradeIn
  <2>5. \A u \in Sales \ {s} : ~Clash(venda[u], N)
    BY <2>1, <2>4 DEF Clash, Ativa
  <2>6. Ledger!Create(s, N)
    BY <1>4, <2>1, <2>2, <2>5 DEF Ledger!Create
  <2> QED
    BY <1>1, <2>1, <2>6 DEF Ledger!Next, Ledger!Rows, Rows, Ledger!StatusVenda, StatusVenda
<1>6. CASE Deleting(r) /\ venda[s] # NoRow
  <2>1. N = NoRow /\ venda[s] = tx[r].old /\ v = tx[r].old.veiculo
    BY <1>6 DEF Deleting, Concerns
  <2>2. v \in C
    BY <1>6, <2>1 DEF Ledger!Concerned
  <2>3. \A u \in Sales \ {s} : ~Clash(venda[u], N)
    BY <2>1 DEF Clash
  <2>4. Ledger!Delete(s)
    BY <1>4, <1>6, <2>1, <2>2, <2>3 DEF Ledger!Delete
  <2> QED
    BY <1>1, <2>4 DEF Ledger!Next
<1>7. CASE Deleting(r) /\ venda[s] = NoRow
  <2>1. venda' = venda
    BY <1>1, <1>2, <1>7 DEF Deleting, Begun, TypeOK
  <2>2. \A u \in Vehicles : status'[u] = status[u]
    BY <1>1, <2>1 DEF Publishes, Begun, Market, Agree
  <2>3. status' = [u \in Vehicles |-> status'[u]]
    BY DEF Commit
  <2>4. status' = status
    BY <2>2, <2>3 DEF Begun, TypeOK
  <2> QED
    BY <2>1, <2>4
<1> QED
  BY <1>1, <1>5, <1>6, <1>7

\* However many creates and deletes of sales without a trade-in run at the same
\* time, each takes effect whole, at its commit, and the statuses of the vehicles
\* are those of some order of the requests: the FOR UPDATE of
\* validate_veiculo_disponivel_para_venda and of the recomputation is enough.
THEOREM RefinesLedger == ASSUME MarketOnly PROVE Spec => ImplementsLedger
<1>1. Init => Ledger!Init
  BY DEF Init, Ledger!Init
<1>2. Begun /\ [Next]_vars => [Ledger!Next]_(Ledger!ledger)
  BY OnlyCommits, CommitIsLedgerStep DEF Ledger!ledger
<1> QED
  BY <1>1, <1>2, MarketAlways, PTL DEF Spec, ImplementsLedger, Ledger!Spec

\* No create sells a vehicle that is not available at its very commit.
THEOREM AvailableIsSold == ASSUME MarketOnly PROVE Spec => OnlyAvailableIsSold
<1> DEFINE Sold == \A s \in Sales :
             /\ venda'[s] # NoRow
             /\ venda[s] = NoRow \/ venda'[s].veiculo # venda[s].veiculo
             => status[venda'[s].veiculo] = "disponivel"
<1>1. Begun /\ [Next]_vars => [Sold]_vars
  <2> SUFFICES ASSUME Begun, [Next]_vars PROVE Sold
    OBVIOUS
  <2>1. CASE UNCHANGED <<venda, status>>
    BY <2>1
  <2>2. ASSUME NEW r \in Requests, Commit(r) PROVE Sold
    <3>1. /\ tx[r].sale \in Sales /\ (Creating(r) \/ Deleting(r))
          /\ venda' = [venda EXCEPT ![tx[r].sale] = tx[r].new]
      BY <2>2, CommitPublishes DEF Publishes
    <3>2. venda'[tx[r].sale] = tx[r].new
          /\ \A u \in Sales \ {tx[r].sale} : venda'[u] = venda[u]
      BY <3>1 DEF Begun, TypeOK
    <3>3. tx[r].new # NoRow => status[tx[r].new.veiculo] = "disponivel"
      BY <2>2, <3>1 DEF Creating, Deleting, Commit
    <3> QED
      BY <3>2, <3>3
  <2> QED
    BY <2>1, <2>2, OnlyCommits
<1> QED
  BY <1>1, MarketAlways, PTL DEF Spec, OnlyAvailableIsSold

=============================================================================
