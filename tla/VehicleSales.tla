----------------------------- MODULE VehicleSales -----------------------------
(***************************************************************************)
(* Concurrent requests on the sales table and on the status column of the  *)
(* vehicles: create, update and delete of a sale, a manual edit of a       *)
(* vehicle, and the status change of a purchase or a consignment.          *)
(*                                                                         *)
(* Every request is one database transaction (READ COMMITTED).  A step     *)
(* below is what a request does between two points where it may wait for   *)
(* a row lock, so other requests interleave exactly where the database     *)
(* lets them.  Uncommitted writes live in the request (tx[r].new,          *)
(* dirty[r]) until Commit publishes them.                                  *)
(***************************************************************************)
EXTENDS SaleRules, Sequences

CONSTANTS
  Requests,       \* transactions that may be open at the same time
  Kinds,          \* operations the requests of an instance perform
  RowInputs,      \* rows a create or an update may ask for
  EditInputs      \* statuses a manual or purchase edit may ask for

AllKinds == {"create", "update", "delete", "manual", "purchase"}

ASSUME RequestAssumption ==
  /\ None \notin Requests
  /\ Kinds \subseteq AllKinds
  /\ RowInputs \subseteq Rows
  /\ EditInputs \subseteq StatusVeiculo

VARIABLES
  venda,    \* committed rows of the sales table
  status,   \* committed status of every vehicle
  pc,       \* where each request is
  tx,       \* what each request works on
  held,     \* vehicles each request holds with SELECT ... FOR UPDATE
  cache,    \* identity map: status of the vehicles each session references
  dirty,    \* uncommitted statuses
  wrote     \* the request has written its sale row and holds its lock

vars == <<venda, status, pc, tx, held, cache, dirty, wrote>>

PCs == {"idle", "own", "target", "write", "sync", "erase", "edit", "commit"}

\* old: the row as loaded; new: the row asked for, then the row written;
\* veiculo and pedido: an edit's vehicle and the status asked for;
\* k: position in the plan of recomputations.
Transactions ==
  [kind : AllKinds \cup {"none"}, sale : Sales \cup {None},
   old : Rows \cup {NoRow}, new : Rows \cup {NoRow},
   veiculo : Vehicles \cup {None}, pedido : StatusVeiculo \cup {None}, k : 1..5]

SaleTx(kind, s, old, new) ==
  [kind |-> kind, sale |-> s, old |-> old, new |-> new,
   veiculo |-> None, pedido |-> None, k |-> 1]

EditTx(kind, v, st) ==
  [kind |-> kind, sale |-> None, old |-> NoRow, new |-> NoRow,
   veiculo |-> v, pedido |-> st, k |-> 1]

NoTx == EditTx("none", None, None)

NoStatus == [v \in Vehicles |-> None]

Init ==
  /\ venda = [s \in Sales |-> NoRow]
  /\ status = [v \in Vehicles |-> "disponivel"]
  /\ pc = [r \in Requests |-> "idle"]
  /\ tx = [r \in Requests |-> NoTx]
  /\ held = [r \in Requests |-> {}]
  /\ cache = [r \in Requests |-> NoStatus]
  /\ dirty = [r \in Requests |-> NoStatus]
  /\ wrote = [r \in Requests |-> FALSE]

-----------------------------------------------------------------------------
(* What a session sees, and what it waits for.                             *)

CanLock(r, v) == \A q \in Requests \ {r} : v \notin held[q]

\* session.get of a vehicle: the referenced object keeps its loaded status,
\* also when the row is read again FOR UPDATE.
Seen(r, v) == IF cache[r][v] # None THEN cache[r][v] ELSE status[v]

\* Loading a sale keeps its vehicles referenced (selectin relationships).
Loaded(row) ==
  [v \in Vehicles |-> IF v \in {row.veiculo, row.troca} THEN status[v] ELSE None]

\* A transaction reads its own sale row.
Visible(r) ==
  [s \in Sales |-> IF wrote[r] /\ tx[r].sale = s THEN tx[r].new ELSE venda[s]]

\* UPDATE writes the columns that differ from the loaded row only.
Merged(t, atual) ==
  [veiculo |-> IF t.new.veiculo # t.old.veiculo THEN t.new.veiculo ELSE atual.veiculo,
   troca   |-> IF t.new.troca # t.old.troca THEN t.new.troca ELSE atual.troca,
   status  |-> IF t.new.status # t.old.status THEN t.new.status ELSE atual.status]

RowToWrite(r) ==
  IF tx[r].kind = "update" /\ venda[tx[r].sale] # NoRow
    THEN Merged(tx[r], venda[tx[r].sale]) ELSE tx[r].new

Writers(r, s) == {q \in Requests \ {r} : wrote[q] /\ tx[q].sale = s}

\* Writers whose uncommitted row the unique index makes r wait for.
IndexWaits(r, row) ==
  {q \in Requests \ {r} :
     /\ wrote[q] /\ tx[q].sale # tx[r].sale
     /\ Clash(tx[q].new, row) \/ Clash(venda[tx[q].sale], row)}

\* Mutant: no unique index.
WriteFailsNoIndex(r) == tx[r].kind = "update" /\ venda[tx[r].sale] = NoRow

\* The write fails: the updated row is gone, or the index has a committed
\* entry that nobody is changing.
WriteFails(r) ==
  \/ tx[r].kind = "update" /\ venda[tx[r].sale] = NoRow
  \/ \E s \in Sales \ {tx[r].sale} :
       Clash(venda[s], RowToWrite(r)) /\ Writers(r, s) = {}

\* own: the request's sale counts.  An absent trade-in adds nothing.
PlanEntry(v, own) == IF v = None THEN <<>> ELSE <<[veiculo |-> v, own |-> own]>>

\* The recomputations of a request, in the order of the code.
SyncPlan(t) ==
  IF t.kind = "delete"
    THEN PlanEntry(t.old.veiculo, FALSE) \o PlanEntry(t.old.troca, FALSE)
  ELSE IF t.kind = "create"
    THEN PlanEntry(t.new.veiculo, TRUE) \o PlanEntry(t.new.troca, TRUE)
  ELSE    (IF t.old.veiculo # t.new.veiculo THEN PlanEntry(t.old.veiculo, FALSE) ELSE <<>>)
       \o PlanEntry(t.new.veiculo, TRUE)
       \o (IF t.old.troca # t.new.troca THEN PlanEntry(t.old.troca, FALSE) ELSE <<>>)
       \o PlanEntry(t.new.troca, TRUE)

-----------------------------------------------------------------------------
(* Beginning: routing, loading of the row, checks that never wait.         *)

Begin(r, where, t, loaded) ==
  /\ pc[r] = "idle"
  /\ t.kind \in Kinds
  /\ pc' = [pc EXCEPT ![r] = where]
  /\ tx' = [tx EXCEPT ![r] = t]
  /\ cache' = [cache EXCEPT ![r] = loaded]
  /\ UNCHANGED <<venda, status, held, dirty, wrote>>

\* An id with no row and no request referring to it is as good as a new one.
FreshSale(s) == venda[s] = NoRow /\ \A q \in Requests : tx[q].sale # s

BeginCreate(r) ==
  \E s \in Sales, row \in RowInputs :
    /\ FreshSale(s)
    /\ Begin(r, "target", SaleTx("create", s, NoRow, row), NoStatus)

BeginUpdate(r) ==
  \E s \in Sales, row \in RowInputs :
    /\ venda[s] # NoRow /\ row # venda[s]
    /\ Begin(r, "own", SaleTx("update", s, venda[s], row), Loaded(venda[s]))

BeginDelete(r) ==
  \E s \in Sales :
    /\ venda[s] # NoRow
    /\ Begin(r, "sync", SaleTx("delete", s, venda[s], NoRow), Loaded(venda[s]))

\* A manual edit of a vehicle, or the status of a purchase or consignment
\* (pedido "cancelado": it is cancelled; anything else: it is not).
BeginEdit(r) ==
  \E v \in Vehicles, st \in EditInputs, kind \in {"manual", "purchase"} :
    Begin(r, "edit", EditTx(kind, v, st), [NoStatus EXCEPT ![v] = status[v]])

-----------------------------------------------------------------------------
(* The steps of an open transaction.                                       *)

\* validate_venda_update locks the vehicle of the sale as it was loaded.
LockOwn(r) ==
  /\ pc[r] = "own"
  /\ CanLock(r, tx[r].old.veiculo)
  /\ held' = [held EXCEPT ![r] = @ \cup {tx[r].old.veiculo}]
  /\ pc' = [pc EXCEPT ![r] =
              IF tx[r].new.veiculo # tx[r].old.veiculo THEN "target" ELSE "write"]
  /\ UNCHANGED <<venda, status, tx, cache, dirty, wrote>>

\* Mutant: the availability is read without FOR UPDATE.
CheckTargetUnlocked(r) ==
  /\ pc[r] = "target"
  /\ Seen(r, tx[r].new.veiculo) = "disponivel"
  /\ pc' = [pc EXCEPT ![r] = "write"]
  /\ UNCHANGED <<venda, status, tx, held, cache, dirty, wrote>>

\* validate_veiculo_disponivel_para_venda, of a new sale or of a sale moved
\* to another vehicle.
CheckTarget(r) ==
  /\ pc[r] = "target"
  /\ CanLock(r, tx[r].new.veiculo)
  /\ Seen(r, tx[r].new.veiculo) = "disponivel"
  /\ held' = [held EXCEPT ![r] = @ \cup {tx[r].new.veiculo}]
  /\ pc' = [pc EXCEPT ![r] = "write"]
  /\ UNCHANGED <<venda, status, tx, cache, dirty, wrote>>

\* Mutant: the write of the sale commits.
WriteCommits(r) ==
  /\ pc[r] = "write"
  /\ ~WriteFails(r)
  /\ Writers(r, tx[r].sale) = {}
  /\ IndexWaits(r, RowToWrite(r)) = {}
  /\ venda' = [venda EXCEPT ![tx[r].sale] = RowToWrite(r)]
  /\ tx' = [tx EXCEPT ![r].new = RowToWrite(r)]
  /\ wrote' = [wrote EXCEPT ![r] = TRUE]
  /\ cache' = [cache EXCEPT ![r] = Loaded(RowToWrite(r))]
  /\ pc' = [pc EXCEPT ![r] = "sync"]
  /\ UNCHANGED <<status, held, dirty>>

\* INSERT or UPDATE of the sale, then the refresh that reloads its vehicles.
Write(r) ==
  /\ pc[r] = "write"
  /\ ~WriteFails(r)
  /\ Writers(r, tx[r].sale) = {}
  /\ IndexWaits(r, RowToWrite(r)) = {}
  /\ tx' = [tx EXCEPT ![r].new = RowToWrite(r)]
  /\ wrote' = [wrote EXCEPT ![r] = TRUE]
  /\ cache' = [cache EXCEPT ![r] = Loaded(RowToWrite(r))]
  /\ pc' = [pc EXCEPT ![r] = "sync"]
  /\ UNCHANGED <<venda, status, held, dirty>>

\* The status one recomputation finds for v; own: the request's sale counts.
NovoStatus(r, v, own) ==
  Recomputado(Visible(r), v, IF own THEN {} ELSE {tx[r].sale}, Seen(r, v))

\* One recomputation.  A status equal to the loaded one is not written.
Recompute(r) ==
  LET plan == SyncPlan(tx[r])
      v    == plan[tx[r].k].veiculo
      novo == NovoStatus(r, v, plan[tx[r].k].own)
  IN  /\ pc[r] = "sync"
      /\ CanLock(r, v)
      /\ held' = [held EXCEPT ![r] = @ \cup {v}]
      /\ dirty' = [dirty EXCEPT ![r][v] = IF novo # Seen(r, v) THEN novo ELSE @]
      /\ cache' = [cache EXCEPT ![r][v] = novo]
      /\ tx' = [tx EXCEPT ![r].k = @ + 1]
      /\ pc' = [pc EXCEPT ![r] = IF tx[r].k < Len(plan) THEN "sync"
                                 ELSE IF tx[r].kind = "delete" THEN "erase"
                                 ELSE "commit"]
      /\ UNCHANGED <<venda, status, wrote>>

\* DELETE of the sale row; deleting a row already gone is only a warning.
Erase(r) ==
  /\ pc[r] = "erase"
  /\ Writers(r, tx[r].sale) = {}
  /\ wrote' = [wrote EXCEPT ![r] = TRUE]
  /\ pc' = [pc EXCEPT ![r] = "commit"]
  /\ UNCHANGED <<venda, status, tx, held, cache, dirty>>

\* The status an edit leaves in the session.
Editado(r) ==
  LET visto == Seen(r, tx[r].veiculo)
  IN  IF tx[r].kind = "manual" THEN tx[r].pedido
      ELSE IF tx[r].pedido = "cancelado" THEN "cancelado"
      ELSE IF visto = "cancelado" THEN "disponivel"
      ELSE visto

Escreve(r) == Editado(r) # Seen(r, tx[r].veiculo)

\* A purchase locks the vehicle; a manual edit locks it only by writing it.
Trava(r) == tx[r].kind = "purchase" \/ Escreve(r)

EditVehicle(r) ==
  LET v == tx[r].veiculo
  IN  /\ pc[r] = "edit"
      /\ Trava(r) => CanLock(r, v)
      /\ held' = [held EXCEPT ![r] = IF Trava(r) THEN @ \cup {v} ELSE @]
      /\ dirty' = [dirty EXCEPT ![r][v] = IF Escreve(r) THEN Editado(r) ELSE @]
      /\ pc' = [pc EXCEPT ![r] = "commit"]
      /\ UNCHANGED <<venda, status, tx, cache, wrote>>

-----------------------------------------------------------------------------
(* The ends of a transaction.                                              *)

End(r) ==
  /\ pc' = [pc EXCEPT ![r] = "idle"]
  /\ tx' = [tx EXCEPT ![r] = NoTx]
  /\ held' = [held EXCEPT ![r] = {}]
  /\ cache' = [cache EXCEPT ![r] = NoStatus]
  /\ dirty' = [dirty EXCEPT ![r] = NoStatus]
  /\ wrote' = [wrote EXCEPT ![r] = FALSE]

\* Mutant: statuses the request never loaded are written too.
CommitWritesAll(r) ==
  /\ pc[r] = "commit"
  /\ venda' = Visible(r)
  /\ status' = dirty[r]
  /\ End(r)

Commit(r) ==
  /\ pc[r] = "commit"
  /\ venda' = Visible(r)
  /\ status' = [v \in Vehicles |-> IF dirty[r][v] # None THEN dirty[r][v] ELSE status[v]]
  /\ End(r)

Rollback(r) == End(r) /\ UNCHANGED <<venda, status>>

\* The answer is 409 or 500: nothing of the request stays.
Refuse(r) ==
  /\ \/ /\ pc[r] = "target"
        /\ CanLock(r, tx[r].new.veiculo)
        /\ Seen(r, tx[r].new.veiculo) # "disponivel"
     \/ pc[r] = "write" /\ WriteFails(r)
  /\ Rollback(r)

\* A failed validation, a failed hook, a foreign key, a crash: at any point.
Abort(r) == pc[r] # "idle" /\ Rollback(r)

\* The vehicle a request locks next.
NextVehicle(r) ==
  IF pc[r] = "own" THEN tx[r].old.veiculo
  ELSE IF pc[r] = "target" THEN tx[r].new.veiculo
  ELSE IF pc[r] = "sync" THEN SyncPlan(tx[r])[tx[r].k].veiculo
  ELSE IF pc[r] = "edit" /\ Trava(r) THEN tx[r].veiculo
  ELSE None

WaitsFor(r) ==
  {q \in Requests \ {r} :
     \/ NextVehicle(r) \in held[q]
     \/ pc[r] \in {"write", "erase"} /\ q \in Writers(r, tx[r].sale)
     \/ pc[r] = "write" /\ ~WriteFails(r) /\ q \in IndexWaits(r, RowToWrite(r))}

\* The database breaks a cycle of waiting transactions by aborting one.
DeadlockVictim(r) ==
  /\ \E cycle \in SUBSET Requests :
       r \in cycle /\ \A q \in cycle : WaitsFor(q) \cap cycle # {}
  /\ Rollback(r)

-----------------------------------------------------------------------------
Advance(r) ==
  \/ LockOwn(r) \/ CheckTarget(r) \/ Write(r) \/ Recompute(r) \/ Erase(r)
  \/ EditVehicle(r) \/ Commit(r) \/ Refuse(r) \/ DeadlockVictim(r)

Next ==
  \E r \in Requests :
    \/ BeginCreate(r) \/ BeginUpdate(r) \/ BeginDelete(r) \/ BeginEdit(r)
    \/ Advance(r) \/ Abort(r)

Spec == Init /\ [][Next]_vars

-----------------------------------------------------------------------------
(* Properties.                                                             *)

TypeOK ==
  /\ venda \in [Sales -> Rows \cup {NoRow}]
  /\ status \in [Vehicles -> StatusVeiculo]
  /\ pc \in [Requests -> PCs]
  /\ tx \in [Requests -> Transactions]
  /\ held \in [Requests -> SUBSET Vehicles]
  /\ cache \in [Requests -> [Vehicles -> StatusVeiculo \cup {None}]]
  /\ dirty \in [Requests -> [Vehicles -> StatusVeiculo \cup {None}]]
  /\ wrote \in [Requests -> BOOLEAN]

\* At most one concluded sale of a vehicle is ever committed, whatever the
\* requests interleave (the partial unique index, venda/core.py).
UniqueConcluded ==
  \A s, u \in Sales : s # u => ~Clash(venda[s], venda[u])

\* Two requests never hold one vehicle or one sale row, and a status that is
\* about to be committed belongs to a vehicle its writer holds.
WritesAreLocked ==
  /\ \A r, q \in Requests : r # q => held[r] \cap held[q] = {}
  /\ \A r, q \in Requests : r # q /\ wrote[r] /\ wrote[q] => tx[r].sale # tx[q].sale
  /\ \A r \in Requests, v \in Vehicles : dirty[r][v] # None => v \in held[r]

\* No sale is put on a vehicle, by a create or by a move, unless the committed
\* status of the vehicle is "disponivel" up to the very commit.
OnlyAvailableIsSold ==
  [][\A s \in Sales :
       /\ venda'[s] # NoRow
       /\ venda[s] = NoRow \/ venda'[s].veiculo # venda[s].veiculo
       => status[venda'[s].veiculo] = "disponivel"]_vars

\* A pending sale keeps its vehicle from being available.
PendingIsReserved ==
  \A s \in Sales :
    venda[s] # NoRow /\ venda[s].status = "pendente"
      => status[venda[s].veiculo] # "disponivel"

\* Only a request that edits the vehicle takes it out of the manual override.
OverrideIsKept ==
  [][\A v \in Vehicles :
       status[v] = "indisponivel" /\ status'[v] # "indisponivel"
         => \E r \in Requests : tx[r].veiculo = v /\ pc[r] = "commit"]_vars

\* Every commit is one step of the ledger of SalesLedger, and nothing else is
\* visible: requests take effect whole, and in some order.
Ledger == INSTANCE SalesLedger WITH venda <- venda, status <- status
ImplementsLedger == Ledger!Spec

-----------------------------------------------------------------------------
(* What makes the invariants inductive.                                    *)

\* What a request carries in each of its phases.
Phase(r) ==
  LET t == tx[r]
  IN  /\ pc[r] \in {"own", "target", "write", "sync", "erase"} => t.sale \in Sales
      /\ pc[r] = "own" => t.kind = "update"
      /\ pc[r] \in {"own", "target", "write"} =>
           t.kind \in {"create", "update"} /\ t.new \in Rows /\ t.k = 1
      /\ pc[r] \in {"own", "target", "write", "sync"} /\ t.kind = "update" => t.old \in Rows
      /\ pc[r] = "sync" =>
           /\ t.kind \in {"create", "update", "delete"}
           /\ IF t.kind = "delete" THEN t.old \in Rows ELSE t.new \in Rows
           /\ t.k \in 1..Len(SyncPlan(t))
      /\ t.kind = "delete" => t.new = NoRow
      /\ pc[r] = "erase" => t.kind = "delete"
      /\ pc[r] = "edit" => t.veiculo \in Vehicles /\ t.pedido \in StatusVeiculo
      /\ wrote[r] =>
           /\ t.sale \in Sales
           /\ pc[r] = "sync" => t.kind # "delete"
           /\ pc[r] \in {"sync", "commit"}

PhaseOK == \A r \in Requests : Phase(r)

\* An uncommitted row clashes neither with a committed row of another sale
\* nor with another uncommitted row.
PendingUnique ==
  /\ \A r \in Requests : wrote[r] =>
       \A s \in Sales \ {tx[r].sale} : ~Clash(venda[s], tx[r].new)
  /\ \A r, q \in Requests : r # q /\ wrote[r] /\ wrote[q] =>
       ~Clash(tx[r].new, tx[q].new)

=============================================================================
