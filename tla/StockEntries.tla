----------------------------- MODULE StockEntries -----------------------------
(***************************************************************************)
(* How vehicles enter the stock: purchases, consignments and vehicle forms,*)
(* with the client, the vehicle and the investor that a form creates on    *)
(* the way, and the cash row that mirrors what a vehicle cost.             *)
(*                                                                         *)
(* A request is one READ COMMITTED transaction.  own[r] holds the rows it  *)
(* has written and so locked; a step is what it does between two points    *)
(* where the database can make it wait.  Clients, plates and the investor  *)
(* "Consignado" are their own unique keys, so a thing is named by its key: *)
(* a plate registered again is the same member of Vehicles.  The status    *)
(* column, which an update of an entry may change, is in VehicleSales.     *)
(***************************************************************************)
EXTENDS Naturals, FiniteSets, Sequences

CONSTANTS
  Requests,     \* transactions that may be open at once
  Vehicles,     \* plates
  Caixa,        \* the cash row of each vehicle
  Clients,      \* documents
  Entries,      \* ids of purchases and consignments: numbers, ordered
  Keys,         \* idempotency keys, one for each form shown
  Donos,        \* investors other than Consignado
  Consignado,   \* the investor of consigned vehicles
  Inputs,       \* value and day a form may give
  Ops,          \* operations the requests of an instance perform
  NoRow,        \* no such row
  Untouched,    \* the request has not written the row
  None

AllOps == {"buy", "consign", "update", "delete", "json_update", "json_delete",
           "register", "edit", "drop"}

Values == Nat

Caixas   == {Caixa[v] : v \in Vehicles}
Things   == {Consignado} \cup Clients \cup Vehicles \cup Caixas \cup Entries

VehicleRows == [dono : Donos \cup {Consignado}]
CashRows    == [valor : Values, dono : Donos \cup {Consignado}]
EntryRows   == [compra : BOOLEAN, key : Keys, veiculo : Vehicles,
                valor : Values, dia : Values]
Here        == [here : {TRUE}]
RowsOf(x) ==
  IF x \in Vehicles THEN VehicleRows
  ELSE IF x \in Caixas THEN CashRows
  ELSE IF x \in Entries THEN EntryRows
  ELSE Here

ASSUME StockAssumption ==
  /\ Entries \subseteq Nat
  /\ DOMAIN Caixa = Vehicles
  /\ \A v, w \in Vehicles : v # w => Caixa[v] # Caixa[w]
  /\ Inputs \subseteq [valor : Values, dia : Values]
  /\ Consignado \notin Donos \cup Clients \cup Vehicles \cup Caixas \cup Entries
  /\ Vehicles \cap (Clients \cup Caixas \cup Entries) = {}
  /\ Clients \cap (Caixas \cup Entries) = {}
  /\ Caixas \cap Entries = {}
  /\ None \notin Things
  /\ Ops \subseteq AllOps
  /\ NoRow # Untouched
  /\ \A x \in {NoRow, Untouched} :
       x \notin VehicleRows \cup CashRows \cup EntryRows \cup Here

VARIABLES
  db,      \* committed rows
  own,     \* rows each request wrote
  pc,      \* where each request is
  tx,      \* what each request works on
  drift    \* vehicles whose cash row nobody has brought up to date since two
           \* requests on them overlapped, or a purchase was moved off them

vars == <<db, own, pc, tx, drift>>

\* row, old: the entry asked for and as loaded; seen: the vehicle as the session
\* knows it; todo: nested rows still to insert; nested: some were asked for;
\* cash, cashOld: the cash row computed and as loaded; synced: it was computed;
\* forUpdate: the vehicle is locked FOR UPDATE; lone: nothing else was open on
\* these vehicles.
NoTx ==
  [op |-> "none", entry |-> None, client |-> None, veiculo |-> None, row |-> NoRow,
   old |-> NoRow, seen |-> NoRow, todo |-> <<>>, nested |-> FALSE, cash |-> NoRow,
   cashOld |-> NoRow, synced |-> FALSE, forUpdate |-> FALSE, lone |-> TRUE]

Nothing == [x \in Things |-> Untouched]

Init ==
  /\ db = [x \in Things |-> NoRow]
  /\ own = [r \in Requests |-> Nothing]
  /\ pc = [r \in Requests |-> "idle"]
  /\ tx = [r \in Requests |-> NoTx]
  /\ drift = {}

-----------------------------------------------------------------------------
(* What a transaction sees, and whom it waits for.                         *)

Others(r) == Requests \ {r}

View(r, x) == IF own[r][x] # Untouched THEN own[r][x] ELSE db[x]

Refers(row, v) == row \notin {NoRow, Untouched} /\ row.veiculo = v

\* A written row is locked until its writer ends.
RowWaits(r, x) == {q \in Others(r) : own[q][x] # Untouched}

\* A new reference to v shares the lock of its row, which a delete of v and a
\* SELECT ... FOR UPDATE exclude.
Pins(q, v) == \E e \in Entries : Refers(own[q][e], v) /\ ~Refers(db[e], v)
PinWaits(r, v) ==
  {q \in Others(r) : own[q][v] = NoRow \/ (tx[q].forUpdate /\ tx[q].veiculo = v)}
LockWaits(r, v) == RowWaits(r, v) \cup {q \in Others(r) : Pins(q, v)}

\* The unique index of an idempotency key, in the table of the row.
SameKey(a, b) ==
  /\ a \notin {NoRow, Untouched}
  /\ a.key = b.key /\ a.compra = b.compra
KeyWaits(r, row) ==
  {q \in Others(r) : \E e \in Entries :
     SameKey(own[q][e], row) \/ (own[q][e] = NoRow /\ SameKey(db[e], row))}
KeyTaken(row) == \E e \in Entries : SameKey(db[e], row)

Compras(r, v) ==
  {e \in Entries : Refers(View(r, e), v) /\ View(r, e).compra}
\* Mutant: the purchase entered last, whatever its day.
LatestEntered(r, v) == {e \in Compras(r, v) : \A f \in Compras(r, v) : f <= e}

\* The latest purchase of v, by day and then by id, when there is one.
Latest(r, v) ==
  {e \in Compras(r, v) : \A f \in Compras(r, v) :
     \/ View(r, f).dia < View(r, e).dia
     \/ View(r, f).dia = View(r, e).dia /\ f <= e}

\* Only the columns that differ from the loaded row are written.
Merged(new, old, now) ==
  [f \in DOMAIN now |-> IF new[f] # old[f] THEN new[f] ELSE now[f]]

\* The thing a nested insert creates, and its row.
Nested(t, what) ==
  CASE what = "investor" -> Consignado
    [] what = "client"   -> t.client
    [] what = "vehicle"  -> t.veiculo

NestedRow(t, what) ==
  IF what = "vehicle" THEN t.seen ELSE [here |-> TRUE]

\* The requests r's next step waits for.
WaitsFor(r) ==
  LET t == tx[r]
  IN CASE pc[r] = "nested"   -> RowWaits(r, Nested(t, Head(t.todo)))
       [] pc[r] = "insert"   -> KeyWaits(r, t.row) \cup PinWaits(r, t.veiculo)
       [] pc[r] = "update"   ->
            IF t.row = t.old THEN {}
            ELSE RowWaits(r, t.entry)
                   \cup IF t.veiculo # t.old.veiculo THEN PinWaits(r, t.veiculo) ELSE {}
       [] pc[r] \in {"erase", "debits"} -> RowWaits(r, t.entry)
       [] pc[r] = "status"   -> LockWaits(r, t.veiculo)
       [] pc[r] \in {"register", "edit"} -> RowWaits(r, t.veiculo)
       [] pc[r] \in {"cash", "dropcash"} -> RowWaits(r, Caixa[t.veiculo])
       [] pc[r] = "drop"     ->
            LockWaits(r, t.veiculo) \cup RowWaits(r, Caixa[t.veiculo])
       [] OTHER              -> {}

-----------------------------------------------------------------------------
(* Ends of a transaction.                                                  *)

Concerns(t) == ({t.veiculo} \cup IF t.old = NoRow THEN {} ELSE {t.old.veiculo}) \ {None}

\* What a request that was not alone may have left out of date: the entry it
\* wrote may have been moved to a third vehicle meanwhile.
Disturbs(r) ==
  IF tx[r].lone THEN {}
  ELSE Concerns(tx[r]) \cup {v \in Vehicles : tx[r].entry # None /\ Refers(db[tx[r].entry], v)}

\* A lone request brings its cash row up to date; the vehicle a purchase left
\* is forgotten by everybody.
Drifted(r) ==
  LET t == tx[r]
      moved == IF t.op \in {"update", "json_update"} /\ t.old.compra /\ t.old.veiculo # t.veiculo
                 THEN {t.old.veiculo} ELSE {}
      done  == IF t.lone /\ t.synced THEN {t.veiculo} ELSE {}
  IN  (drift \ done) \cup moved \cup Disturbs(r)

\* Mutant: the locks outlive the transaction.
EndsLocked(r, disturbed) ==
  /\ pc' = [pc EXCEPT ![r] = "idle"]
  /\ tx' = [tx EXCEPT ![r] = NoTx]
  /\ own' = own

Ends(r, disturbed) ==
  /\ own' = [own EXCEPT ![r] = Nothing]
  /\ pc' = [pc EXCEPT ![r] = "idle"]
  /\ tx' = [q \in Requests |->
              IF q = r THEN NoTx
              ELSE [tx[q] EXCEPT !.lone = @ /\ Concerns(tx[q]) \cap disturbed = {}]]

Rollback(r) == Ends(r, {}) /\ UNCHANGED <<db, drift>>

Publish(r) ==
  /\ db' = [x \in Things |-> View(r, x)]
  /\ drift' = Drifted(r)
  /\ Ends(r, Disturbs(r))

Commit(r) == pc[r] = "commit" /\ Publish(r)

\* Writes row x and goes on at w with the transaction record t.
Writes(r, x, row, t, w) ==
  /\ own' = [own EXCEPT ![r][x] = row]
  /\ tx' = [tx EXCEPT ![r] = t]
  /\ pc' = [pc EXCEPT ![r] = w]
  /\ UNCHANGED <<db, drift>>

Goes(r, t, w) ==
  /\ tx' = [tx EXCEPT ![r] = t]
  /\ pc' = [pc EXCEPT ![r] = w]
  /\ UNCHANGED <<db, own, drift>>

-----------------------------------------------------------------------------
(* Beginnings: the rows a handler loads before its first write.            *)

Begins(r, t, w) ==
  LET with == {q \in Others(r) : Concerns(tx[q]) \cap Concerns(t) # {}}
  IN  /\ pc[r] = "idle"
      /\ t.op \in Ops
      /\ tx' = [q \in Requests |->
                  IF q = r THEN [t EXCEPT !.lone = (with = {})]
                  ELSE IF q \in with THEN [tx[q] EXCEPT !.lone = FALSE] ELSE tx[q]]
      /\ pc' = [pc EXCEPT ![r] = w]
      /\ UNCHANGED <<db, own, drift>>

\* No row has the id, and no request is about to give it or still refers to it.
Free(e) ==
  db[e] = NoRow /\ \A q \in Requests : tx[q].entry # e /\ own[q][e] = Untouched

\* Mutant: the consignment form creates the vehicle before the client.
TodoByForm(op, c, v) ==
  LET missing(what) ==
        IF db[Nested([client |-> c, veiculo |-> v], what)] = NoRow THEN <<what>> ELSE <<>>
  IN  IF op = "consign" THEN missing("vehicle") \o missing("client")
      ELSE missing("client") \o missing("vehicle")

\* What a form has to create, in the order it does.
Todo(op, c, v) ==
  LET missing(what) ==
        IF db[Nested([client |-> c, veiculo |-> v], what)] = NoRow THEN <<what>> ELSE <<>>
      investor == IF op = "consign" /\ db[v] = NoRow THEN missing("investor") ELSE <<>>
  IN  investor \o missing("client") \o missing("vehicle")

\* The purchase and the consignment form: the client, the vehicle and, for a
\* consigned one, the investor are looked up; what is missing will be created.
BeginEntry(r) ==
  \E op \in {"buy", "consign"}, e \in Entries, k \in Keys, c \in Clients, v \in Vehicles,
     i \in Inputs, d \in Donos :
    LET row  == [compra |-> op = "buy", key |-> k, veiculo |-> v,
                 valor |-> i.valor, dia |-> i.dia]
        todo == Todo(op, c, v)
    IN  /\ Free(e) /\ ~KeyTaken(row)
        /\ Begins(r,
             [NoTx EXCEPT !.op = op, !.entry = e, !.client = c, !.veiculo = v, !.row = row,
                          !.todo = todo, !.nested = (db[c] = NoRow \/ db[v] = NoRow),
                          !.seen = [dono |-> IF op = "buy" THEN d ELSE Consignado]],
             IF todo = <<>> THEN "insert" ELSE "nested")

\* The update forms and PUT /compras, /consignacoes; the schema has no key.
BeginUpdate(r) ==
  \E op \in {"update", "json_update"}, e \in Entries, v \in Vehicles, i \in Inputs :
    /\ db[e] # NoRow
    /\ db[v] # NoRow
    /\ Begins(r,
         [NoTx EXCEPT !.op = op, !.entry = e, !.veiculo = v, !.old = db[e],
                      !.row = [db[e] EXCEPT !.veiculo = v, !.valor = i.valor,
                                            !.dia = i.dia]],
         "update")

BeginDelete(r) ==
  \E op \in {"delete", "json_delete"}, e \in Entries :
    /\ db[e] # NoRow
    /\ Begins(r,
         [NoTx EXCEPT !.op = op, !.entry = e, !.veiculo = db[e].veiculo, !.old = db[e],
                      !.row = db[e], !.seen = db[db[e].veiculo]],
         "erase")

\* The vehicle form and /veiculos.
BeginVehicle(r) ==
  \E op \in {"register", "edit", "drop"}, v \in Vehicles, d \in Donos :
    /\ (db[v] = NoRow) = (op = "register")
    /\ Begins(r,
         [NoTx EXCEPT !.op = op, !.veiculo = v,
                      !.seen = [dono |-> d]],
         IF op = "drop" THEN "dropcash" ELSE op)

-----------------------------------------------------------------------------
(* Creating an entry.                                                      *)

InsertNested(r) ==
  LET t == tx[r]
      what == Head(t.todo)
  IN  /\ pc[r] = "nested"
      /\ db[Nested(t, what)] = NoRow
      /\ Writes(r, Nested(t, what), NestedRow(t, what), [t EXCEPT !.todo = Tail(@)],
                IF Len(t.todo) = 1 THEN "insert" ELSE "nested")

\* Somebody else created it: a conflict, or an exception for the investor.
NestedTaken(r) ==
  pc[r] = "nested" /\ db[Nested(tx[r], Head(tx[r].todo))] # NoRow /\ Rollback(r)

\* Mutant: a refused form keeps what it created.
RefuseKeeps(r) == pc[r] = "insert" /\ Publish(r)

\* Bad fields, or the vehicle is gone: the answer is 400, and the middleware
\* commits unless the handler rolled back what it had created.
Refuse(r) ==
  /\ pc[r] = "insert"
  /\ IF tx[r].nested THEN Rollback(r) ELSE Publish(r)

\* Mutant: the key has no unique index.
InsertFailsNoKey(r) == View(r, tx[r].veiculo) = NoRow

\* A violated key or reference is an IntegrityError: the handler rolls back.
InsertFails(r) == KeyTaken(tx[r].row) \/ View(r, tx[r].veiculo) = NoRow

Insert(r) ==
  LET t == tx[r]
  IN  /\ pc[r] = "insert"
      /\ IF InsertFails(r) THEN Rollback(r)
         ELSE Writes(r, t.entry, t.row, [t EXCEPT !.seen = View(r, t.veiculo)],
                     IF t.row.compra THEN "cost" ELSE "commit")

-----------------------------------------------------------------------------
(* sincronizar_lancamento_veiculo: a vehicle without a cash row is left     *)
(* alone, and one whose row says the same is not written.                  *)

\* What v cost: one value, 0 without a purchase.
Custos(r, v) ==
  IF Latest(r, v) = {} THEN {0} ELSE {View(r, e).valor : e \in Latest(r, v)}

ReadCost(r) ==
  LET t    == tx[r]
      lanc == View(r, Caixa[t.veiculo])
  IN  /\ pc[r] = "cost"
      /\ \E custo \in Custos(r, t.veiculo) :
           LET novo == [valor |-> custo, dono |-> t.seen.dono]
           IN  IF lanc \in {NoRow, novo} THEN Goes(r, [t EXCEPT !.synced = TRUE], "commit")
               ELSE Goes(r, [t EXCEPT !.synced = TRUE, !.cash = novo, !.cashOld = lanc],
                         "cash")

WriteCash(r) ==
  LET t == tx[r]
      x == Caixa[t.veiculo]
  IN  /\ pc[r] = "cash"
      /\ IF db[x] = NoRow THEN Rollback(r)
         ELSE Writes(r, x, Merged(t.cash, t.cashOld, db[x]), t, "commit")

-----------------------------------------------------------------------------
(* Updating and deleting an entry.                                         *)

Json(r) == tx[r].op \in {"json_update", "json_delete"}

\* What follows the row of an entry: the hook of the route.
AfterEntry(r) ==
  IF ~Json(r) THEN "status" ELSE IF tx[r].row.compra THEN "cost" ELSE "commit"

\* The row is gone or the vehicle asked for is: an exception.
UpdateFails(r) ==
  \/ db[tx[r].entry] = NoRow
  \/ tx[r].veiculo # tx[r].old.veiculo /\ db[tx[r].veiculo] = NoRow

Update(r) ==
  LET t     == tx[r]
      row   == Merged(t.row, t.old, db[t.entry])
      after == [t EXCEPT !.veiculo = row.veiculo, !.row = row, !.seen = db[row.veiculo]]
  IN  /\ pc[r] = "update"
      /\ IF UpdateFails(r) THEN Rollback(r)
         ELSE IF t.row = t.old THEN Goes(r, after, AfterEntry(r))
         ELSE Writes(r, t.entry, row, after, AfterEntry(r))

\* The vehicle is locked and its status written; gone, it is left alone.
SyncStatus(r) ==
  LET t == tx[r]
  IN  /\ pc[r] = "status"
      /\ IF db[t.veiculo] = NoRow THEN Goes(r, t, "commit")
         ELSE Writes(r, t.veiculo, db[t.veiculo], [t EXCEPT !.forUpdate = TRUE],
                     IF t.row.compra THEN "cost" ELSE "commit")

\* The forms delete the vehicle of the entry too, the purchase its cash row first.
Erase(r) ==
  /\ pc[r] = "erase"
  /\ Writes(r, tx[r].entry, NoRow, tx[r],
            IF ~Json(r) THEN IF tx[r].row.compra THEN "dropcash" ELSE "drop"
            ELSE IF tx[r].row.compra THEN "cost" ELSE "commit")

DropCash(r) ==
  /\ pc[r] = "dropcash"
  /\ IF View(r, Caixa[tx[r].veiculo]) = NoRow THEN Goes(r, tx[r], "drop")
     ELSE Writes(r, Caixa[tx[r].veiculo], NoRow, tx[r], "drop")

\* RESTRICT from purchases and consignments, CASCADE to the cash row.
DropVehicle(r) ==
  LET v == tx[r].veiculo
  IN  /\ pc[r] = "drop"
      /\ IF \E e \in Entries : Refers(View(r, e), v) THEN Rollback(r)
         ELSE /\ own' = [own EXCEPT ![r][v] = NoRow, ![r][Caixa[v]] = NoRow]
              /\ pc' = [pc EXCEPT ![r] = "commit"]
              /\ UNCHANGED <<db, tx, drift>>

-----------------------------------------------------------------------------
(* The vehicle form.                                                       *)

\* A vehicle without purchases costs nothing.
Register(r) ==
  LET v == tx[r].veiculo
  IN  /\ pc[r] = "register"
      /\ IF db[v] # NoRow THEN Rollback(r)
         ELSE /\ own' = [own EXCEPT ![r][v] = tx[r].seen,
                           ![r][Caixa[v]] = [valor |-> 0, dono |-> tx[r].seen.dono]]
              /\ tx' = [tx EXCEPT ![r].synced = TRUE]
              /\ pc' = [pc EXCEPT ![r] = "commit"]
              /\ UNCHANGED <<db, drift>>

EditVehicle(r) ==
  LET t == tx[r]
      v == t.veiculo
  IN  /\ pc[r] = "edit"
      /\ IF db[v] = NoRow THEN Rollback(r)
         ELSE IF Latest(r, v) = {} THEN Writes(r, v, t.seen, t, "cost")
         ELSE \E e \in Latest(r, v) :
                Writes(r, v, t.seen, [t EXCEPT !.entry = e], "debits")

\* The debts of the latest purchase are on the same form.
WriteDebits(r) ==
  LET e == tx[r].entry
  IN  /\ pc[r] = "debits"
      /\ IF db[e] = NoRow THEN Rollback(r) ELSE Writes(r, e, db[e], tx[r], "cost")

\* PUT /veiculos, or the same debts again.
SkipDebits(r) == pc[r] = "debits" /\ Goes(r, tx[r], "cost")

-----------------------------------------------------------------------------
\* An exception or a lost connection, at any point.
Abort(r) == pc[r] # "idle" /\ Rollback(r)

\* The database breaks a cycle of waiting transactions by aborting one.
Cycle(c) == c # {} /\ \A q \in c : WaitsFor(q) \cap c # {}
DeadlockVictim(r) ==
  (\E c \in SUBSET Requests : r \in c /\ Cycle(c)) /\ Rollback(r)

Advance(r) ==
  \/ /\ WaitsFor(r) = {}
     /\ \/ InsertNested(r) \/ NestedTaken(r) \/ Refuse(r) \/ Insert(r)
        \/ ReadCost(r) \/ WriteCash(r) \/ Update(r) \/ SyncStatus(r) \/ Erase(r)
        \/ DropCash(r) \/ DropVehicle(r) \/ Register(r) \/ EditVehicle(r)
        \/ WriteDebits(r) \/ SkipDebits(r) \/ Commit(r)
  \/ DeadlockVictim(r)

Next ==
  \E r \in Requests :
    \/ BeginEntry(r) \/ BeginUpdate(r) \/ BeginDelete(r) \/ BeginVehicle(r)
    \/ Advance(r) \/ Abort(r)

Spec == Init /\ [][Next]_vars

-----------------------------------------------------------------------------
(* Properties.                                                             *)

TypeStock ==
  /\ \A x \in Things : db[x] \in RowsOf(x) \cup {NoRow}
  /\ \A r \in Requests, x \in Things : own[r][x] \in RowsOf(x) \cup {NoRow, Untouched}
  /\ drift \subseteq Vehicles
  /\ \A r \in Requests : pc[r] = "idle" => tx[r] = NoTx /\ own[r] = Nothing

\* A double submit, or a retry, of one form leaves one entry.
OneEntryPerKey ==
  \A e, f \in Entries : e # f /\ db[e] # NoRow => ~SameKey(db[f], db[e])

\* A form that creates a client or a vehicle on the way leaves it only together
\* with the entry it was for; a vehicle form leaves a vehicle with its cash row.
NothingHalfCreated ==
  [][\A x \in Clients \cup Vehicles :
       db[x] = NoRow /\ db'[x] # NoRow =>
         \/ \E e \in Entries : db[e] = NoRow /\ db'[e] # NoRow
         \/ x \in Vehicles /\ db'[Caixa[x]] # NoRow]_vars

Mirrored(v) ==
  db[v] # NoRow /\ db[Caixa[v]] # NoRow =>
    LET cs == {e \in Entries : Refers(db[e], v) /\ db[e].compra}
    IN  /\ db[Caixa[v]].dono = db[v].dono
        /\ IF cs = {} THEN db[Caixa[v]].valor = 0
           ELSE \E e \in cs : /\ db[Caixa[v]].valor = db[e].valor
                              /\ \A f \in cs : db[f].dia <= db[e].dia

\* The cash row of a vehicle is the value of its latest purchase, charged to its
\* investor, unless requests on the vehicle overlapped or a purchase left it.
CashMirrors == \A v \in Vehicles \ drift : Mirrored(v)

\* So is every cash row, even after a purchase was moved to another vehicle.
CashAlwaysMirrors == \A v \in Vehicles : Mirrored(v)

\* Requests that only create take their locks in one order: a cycle of waiting
\* requests has an edit or a delete in it.
CreatesNeverDeadlock ==
  \A c \in SUBSET Requests :
    Cycle(c) => \E r \in c : tx[r].op \notin {"buy", "consign", "register"}
=============================================================================
