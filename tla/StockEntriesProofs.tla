--------------------------- MODULE StockEntriesProofs ---------------------------
(***************************************************************************)
(* Theorems about StockEntries, for any number of requests, vehicles,      *)
(* clients, entries and idempotency keys and any mix of operations.        *)
(*                                                                         *)
(*   StockTypes        the type invariant                                  *)
(*   OneFormOneEntry   one entry for each form shown, double submits       *)
(*                     and retries included                                *)
(*   EntriesHaveVehicle  an entry is never left without its vehicle        *)
(*   CreatedWhole      what a form creates on the way is never left alone  *)
(*   CreatesInOrder    requests that only create never wait in a circle    *)
(*   CashIsMirror      a cash row is what the latest purchase of its       *)
(*                     vehicle cost, unless requests on it overlapped      *)
(*   CashHasItsVehicle a cash row never outlives its vehicle               *)
(***************************************************************************)
EXTENDS StockEntries, SequenceTheorems, WellFoundedInduction, TLAPS

Nests  == {"investor", "client", "vehicle"}
Places == {"idle", "nested", "insert", "cost", "cash", "commit", "update", "status",
           "erase", "dropcash", "drop", "register", "edit", "debits"}
AllRows == VehicleRows \cup CashRows \cup EntryRows \cup Here \cup {NoRow, Untouched}

TxTypes ==
  [op : AllOps \cup {"none"}, entry : Entries \cup {None}, client : Clients \cup {None},
   veiculo : Vehicles \cup {None}, row : EntryRows \cup {NoRow},
   old : EntryRows \cup {NoRow}, seen : VehicleRows \cup {NoRow}, todo : Seq(Nests),
   nested : BOOLEAN, cash : CashRows \cup {NoRow}, cashOld : CashRows \cup {NoRow},
   synced : BOOLEAN, forUpdate : BOOLEAN, lone : BOOLEAN]

Creates(t) == t.op \in {"buy", "consign"}
Moves(t)   == t.op \in {"update", "json_update"}
Erases(t)  == t.op \in {"delete", "json_delete"}
IsRow(x)   == x \notin {NoRow, Untouched}

\* What a request carries at the place p, having written o.
Carries(t, p, o) ==
  /\ p = "idle" => t = NoTx /\ o = Nothing
  /\ p # "idle" => t.veiculo \in Vehicles
  /\ p \in {"nested", "insert"} =>
       /\ Creates(t) /\ t.client \in Clients /\ t.entry \in Entries
       /\ t.row \in EntryRows /\ t.row.veiculo = t.veiculo /\ t.seen \in VehicleRows
       /\ \A e \in Entries : o[e] = Untouched
  /\ p = "nested" => t.todo # <<>>
  /\ p \in {"cost", "status", "erase", "register", "edit", "debits"} =>
       t.seen \in VehicleRows
  /\ p = "cash" => t.cash \in CashRows /\ t.cashOld \in CashRows
  /\ p = "update" =>
       /\ Moves(t) /\ t.entry \in Entries /\ t.row \in EntryRows /\ t.old \in EntryRows
       /\ t.row.key = t.old.key /\ t.row.compra = t.old.compra
       /\ t.row.veiculo = t.veiculo
  /\ p = "status" => t.op = "update" /\ t.row \in EntryRows
  /\ p = "erase" => Erases(t) /\ t.entry \in Entries /\ t.row \in EntryRows
  /\ p \in {"dropcash", "drop"} => t.op \in {"delete", "drop"}
  /\ p \in {"register", "edit"} => t.op = p
  /\ p = "debits" => /\ t.op = "edit" /\ t.entry \in Entries
                     /\ \A e \in Entries : o[e] = Untouched
  /\ p \in {"update", "erase", "register", "edit"} => o = Nothing
  /\ Creates(t) => t.entry \in Entries
  /\ Creates(t) /\ p \in {"cost", "cash", "commit"} => IsRow(o[t.entry])
  /\ Creates(t) /\ ~t.nested =>
       t.todo = <<>> /\ \A x \in Clients \cup Vehicles : o[x] = Untouched
  /\ Moves(t) => t.old \in EntryRows
  /\ \A e \in Entries : o[e] # Untouched => e = t.entry
  /\ \A x \in Clients \cup Vehicles : o[x] = NoRow => p = "commit" /\ x \in Vehicles

Typed ==
  /\ db \in [Things -> AllRows]
  /\ own \in [Requests -> [Things -> AllRows]]
  /\ pc \in [Requests -> Places]
  /\ tx \in [Requests -> TxTypes]
  /\ TypeStock

Carried == \A r \in Requests : Carries(tx[r], pc[r], own[r])

\* Two requests never hold one entry or one vehicle.
RowLocks ==
  \A x \in Vehicles \cup Entries, q, r \in Requests :
    own[q][x] # Untouched /\ own[r][x] # Untouched => q = r

\* The id of a new entry is nobody else's.
Fresh ==
  \A r \in Requests : Creates(tx[r]) =>
    /\ db[tx[r].entry] = NoRow
    /\ \A q \in Others(r) : tx[q].entry # tx[r].entry

\* No two entries have one key, whether committed or only written.
Versions(e) == {db[e]} \cup {own[r][e] : r \in Requests}
OneKey ==
  \A e, f \in Entries : e # f =>
    \A a \in Versions(e), b \in Versions(f) : IsRow(b) => ~SameKey(a, b)

\* The foreign key of an entry, across transactions: a vehicle that was deleted
\* is referred to by no row, and by nobody.
VehicleIsThere == \A e \in Entries, v \in Vehicles : Refers(db[e], v) => db[v] # NoRow
Pinned ==
  \A r \in Requests, e \in Entries, v \in Vehicles :
    Refers(own[r][e], v) => View(r, v) # NoRow
Dropped ==
  \A r \in Requests, v \in Vehicles : own[r][v] = NoRow =>
    \A e \in Entries : /\ ~Refers(View(r, e), v)
                       /\ \A q \in Others(r) : ~Refers(own[q][e], v)

\* A client or a vehicle is written by the form that creates it with an entry
\* or with its cash row, or was there.
Backed ==
  \A r \in Requests, x \in Clients \cup Vehicles : IsRow(own[r][x]) =>
    \/ Creates(tx[r])
    \/ db[x] # NoRow
    \/ pc[r] = "commit" /\ x \in Vehicles /\ IsRow(own[r][Caixa[x]])

IInv ==
  /\ Typed /\ Carried
  /\ RowLocks /\ Fresh /\ OneKey
  /\ VehicleIsThere /\ Pinned /\ Dropped /\ Backed

-----------------------------------------------------------------------------
(* The shape of a step: what it does to the request r and to the others.   *)

\* Of the others a step changes at most who was alone.
Step(r, t, p, o) ==
  /\ own' = [own EXCEPT ![r] = o]
  /\ pc' = [pc EXCEPT ![r] = p]
  /\ tx' \in [Requests -> TxTypes]
  /\ tx'[r] = t
  /\ \A q \in Others(r) :
       /\ tx'[q] = [tx[q] EXCEPT !.lone = tx'[q].lone]
       /\ pc[q] = "idle" => tx'[q] = tx[q]

\* Rows that the columns of each table allow.
Fits(o) ==
  /\ o \in [Things -> AllRows]
  /\ \A x \in Things : o[x] \in RowsOf(x) \cup {NoRow, Untouched}

\* The tables have no row in common, and the names of things are distinct.
LEMMA Kinds ==
  /\ \A x \in Things : RowsOf(x) \subseteq AllRows
  /\ \A v \in Vehicles : /\ v \in Things /\ RowsOf(v) = VehicleRows
                         /\ Caixa[v] \in Things /\ RowsOf(Caixa[v]) = CashRows
                         /\ Caixa[v] \notin Vehicles \cup Clients \cup Entries
                         /\ v \notin Clients \cup Entries
  /\ \A e \in Entries : /\ e \in Things /\ RowsOf(e) = EntryRows /\ e # None
                        /\ e \notin Vehicles \cup Clients
  /\ \A c \in Clients : /\ c \in Things /\ RowsOf(c) = Here
                        /\ c \notin Vehicles \cup Entries
  /\ Consignado \in Things /\ RowsOf(Consignado) = Here
  /\ Consignado \notin Vehicles \cup Clients \cup Entries
  /\ NoRow # Untouched
  /\ NoRow \notin VehicleRows \cup CashRows \cup EntryRows \cup Here
  /\ Untouched \notin VehicleRows \cup CashRows \cup EntryRows \cup Here
<1>1. /\ Vehicles \subseteq Things /\ Clients \subseteq Things /\ Entries \subseteq Things
      /\ Caixas \subseteq Things /\ Consignado \in Things
  BY DEF Things
<1>2. \A v \in Vehicles : Caixa[v] \in Caixas
  BY DEF Caixas
<1>3. \A x \in Things : RowsOf(x) \subseteq AllRows
  BY DEF RowsOf, AllRows
<1>4. \A v \in Vehicles : RowsOf(v) = VehicleRows
  BY DEF RowsOf
<1>5. \A x \in Caixas : RowsOf(x) = CashRows /\ x \notin Vehicles \cup Clients \cup Entries
  BY StockAssumption DEF RowsOf
<1>6. \A e \in Entries : RowsOf(e) = EntryRows /\ e \notin Vehicles \cup Clients
  BY StockAssumption DEF RowsOf
<1>7. \A c \in Clients : RowsOf(c) = Here /\ c \notin Vehicles \cup Entries
  BY StockAssumption DEF RowsOf
<1>8. RowsOf(Consignado) = Here /\ Consignado \notin Vehicles \cup Clients \cup Entries
  BY StockAssumption DEF RowsOf
<1>9. NoRow \notin VehicleRows \cup CashRows \cup EntryRows \cup Here
  BY StockAssumption
<1>10. Untouched \notin VehicleRows \cup CashRows \cup EntryRows \cup Here
  BY StockAssumption
<1> QED BY <1>1, <1>2, <1>3, <1>4, <1>5, <1>6, <1>7, <1>8, <1>9, <1>10, StockAssumption

\* The place a request is at says the same when only lone changes.
LEMMA LoneOnly ==
  ASSUME NEW t \in TxTypes, NEW b \in BOOLEAN, NEW p, NEW o,
         Carries(t, p, o), p # "idle"
  PROVE  LET u == [t EXCEPT !.lone = b]
         IN  /\ u \in TxTypes
             /\ u.op = t.op /\ u.entry = t.entry
             /\ Carries(u, p, o)
<1> DEFINE u == [t EXCEPT !.lone = b]
<1>1. u \in TxTypes
  BY DEF TxTypes
<1>2. /\ u.op = t.op /\ u.entry = t.entry /\ u.client = t.client /\ u.veiculo = t.veiculo
      /\ u.row = t.row /\ u.old = t.old /\ u.seen = t.seen /\ u.todo = t.todo
      /\ u.nested = t.nested /\ u.cash = t.cash /\ u.cashOld = t.cashOld
  BY DEF TxTypes
<1> HIDE DEF u
<1>3. Carries(u, p, o)
  BY <1>2 DEF Carries, Creates, Moves, Erases
<1> QED BY <1>1, <1>2, <1>3 DEF u

\* What every step has in common: the types and what requests carry.
LEMMA StepKeepsTypes ==
  ASSUME Typed, Carried, NEW r \in Requests, NEW t \in TxTypes, NEW p \in Places,
         NEW o, Fits(o), Carries(t, p, o), Step(r, t, p, o),
         db' \in [Things -> AllRows],
         \A x \in Things : db'[x] \in RowsOf(x) \cup {NoRow},
         drift' \subseteq Vehicles
  PROVE  Typed' /\ Carried'
<1>1. own' \in [Requests -> [Things -> AllRows]] /\ pc' \in [Requests -> Places]
  BY DEF Typed, Step, Fits
<1>2. tx' \in [Requests -> TxTypes]
  BY DEF Step
<1>3. own'[r] = o /\ pc'[r] = p /\ tx'[r] = t
  BY DEF Step, Typed
<1>4. \A q \in Others(r) : own'[q] = own[q] /\ pc'[q] = pc[q]
  BY DEF Step, Typed, Others
<1>5. ASSUME NEW q \in Requests PROVE Carries(tx'[q], pc'[q], own'[q])
  <2>1. CASE q = r
    BY <2>1, <1>3
  <2>2. CASE q # r /\ pc[q] = "idle"
    <3>1. q \in Others(r)
      BY <2>2 DEF Others
    <3>2. Carries(tx[q], pc[q], own[q])
      BY DEF Carried
    <3>3. tx'[q] = tx[q]
      BY <3>1, <2>2 DEF Step
    <3> QED BY <3>1, <3>2, <3>3, <1>4
  <2>3. CASE q # r /\ pc[q] # "idle"
    <3>1. q \in Others(r)
      BY <2>3 DEF Others
    <3>2. Carries(tx[q], pc[q], own[q])
      BY DEF Carried
    <3>3. tx'[q] = [tx[q] EXCEPT !.lone = tx'[q].lone]
      BY <3>1 DEF Step
    <3>4. tx[q] \in TxTypes /\ tx'[q].lone \in BOOLEAN
      BY <1>2 DEF Typed, TxTypes
    <3>5. Carries([tx[q] EXCEPT !.lone = tx'[q].lone], pc[q], own[q])
      BY <3>2, <3>4, <2>3, LoneOnly
    <3> QED BY <3>1, <3>3, <3>5, <1>4
  <2> QED BY <2>1, <2>2, <2>3
<1>6. \A q \in Requests, x \in Things : own'[q][x] \in RowsOf(x) \cup {NoRow, Untouched}
  BY <1>3, <1>4 DEF Typed, TypeStock, Fits, Others
<1>7. \A q \in Requests : pc'[q] = "idle" => tx'[q] = NoTx /\ own'[q] = Nothing
  BY <1>5 DEF Carries
<1>8. TypeStock'
  BY <1>6, <1>7 DEF TypeStock
<1>9. Carried'
  BY <1>5 DEF Carried
<1> QED BY <1>1, <1>2, <1>8, <1>9 DEF Typed

-----------------------------------------------------------------------------
(* The four ways a step is written.                                        *)

LEMMA NoTxTyped == NoTx \in TxTypes
<1>1. <<>> \in Seq(Nests)
  OBVIOUS
<1> QED BY <1>1 DEF NoTx, TxTypes

LEMMA NothingFits == Fits(Nothing) /\ \A x \in Things : Nothing[x] = Untouched
  BY DEF Nothing, Fits, AllRows

LEMMA IdleCarries == Carries(NoTx, "idle", Nothing)
<1>1. \A x \in Things : Nothing[x] = Untouched
  BY NothingFits
<1>2. /\ NoTx.op = "none" /\ NoTx.todo = <<>>
  BY DEF NoTx
<1> QED BY <1>1, <1>2, Kinds DEF Carries, Creates, Moves, Erases

LEMMA WritesIsStep ==
  ASSUME Typed, NEW r \in Requests, NEW t \in TxTypes, NEW w, NEW x \in Things, NEW row,
         Writes(r, x, row, t, w)
  PROVE  Step(r, t, w, [own[r] EXCEPT ![x] = row]) /\ UNCHANGED <<db, drift>>
<1>1. /\ own' = [own EXCEPT ![r][x] = row]
      /\ tx' = [tx EXCEPT ![r] = t]
      /\ pc' = [pc EXCEPT ![r] = w]
      /\ UNCHANGED <<db, drift>>
  BY DEF Writes
<1>2. own' = [own EXCEPT ![r] = [own[r] EXCEPT ![x] = row]]
  BY <1>1 DEF Typed
<1>3. tx' \in [Requests -> TxTypes] /\ tx'[r] = t
  BY <1>1 DEF Typed
<1>4. \A q \in Others(r) : tx'[q] = tx[q] /\ tx[q] = [tx[q] EXCEPT !.lone = tx[q].lone]
  BY <1>1 DEF Typed, Others, TxTypes
<1> QED BY <1>1, <1>2, <1>3, <1>4 DEF Step

LEMMA GoesIsStep ==
  ASSUME Typed, NEW r \in Requests, NEW t \in TxTypes, NEW w, Goes(r, t, w)
  PROVE  Step(r, t, w, own[r]) /\ UNCHANGED <<db, drift>>
<1>1. /\ own' = own
      /\ tx' = [tx EXCEPT ![r] = t]
      /\ pc' = [pc EXCEPT ![r] = w]
      /\ UNCHANGED <<db, drift>>
  BY DEF Goes
<1>2. own' = [own EXCEPT ![r] = own[r]]
  BY <1>1 DEF Typed
<1>3. tx' \in [Requests -> TxTypes] /\ tx'[r] = t
  BY <1>1 DEF Typed
<1>4. \A q \in Others(r) : tx'[q] = tx[q] /\ tx[q] = [tx[q] EXCEPT !.lone = tx[q].lone]
  BY <1>1 DEF Typed, Others, TxTypes
<1> QED BY <1>1, <1>2, <1>3, <1>4 DEF Step

LEMMA BeginsIsStep ==
  ASSUME Typed, NEW r \in Requests, NEW t \in TxTypes, NEW w, Begins(r, t, w)
  PROVE  /\ pc[r] = "idle" /\ own[r] = Nothing
         /\ \E b \in BOOLEAN : Step(r, [t EXCEPT !.lone = b], w, Nothing)
         /\ UNCHANGED <<db, drift>>
<1> DEFINE with == {q \in Others(r) : Concerns(tx[q]) \cap Concerns(t) # {}}
           u == [t EXCEPT !.lone = (with = {})]
<1>1. /\ pc[r] = "idle"
      /\ tx' = [q \in Requests |->
                  IF q = r THEN u
                  ELSE IF q \in with THEN [tx[q] EXCEPT !.lone = FALSE] ELSE tx[q]]
      /\ pc' = [pc EXCEPT ![r] = w]
      /\ UNCHANGED <<db, own, drift>>
  BY DEF Begins
<1>2. own[r] = Nothing /\ own' = [own EXCEPT ![r] = Nothing]
  BY <1>1 DEF Typed, TypeStock
<1>3. u \in TxTypes
  <2>0. ASSUME NEW b \in BOOLEAN PROVE [t EXCEPT !.lone = b] \in TxTypes
    BY DEF TxTypes
  <2>1. [t EXCEPT !.lone = TRUE] \in TxTypes /\ [t EXCEPT !.lone = FALSE] \in TxTypes
    BY <2>0
  <2>2. u = [t EXCEPT !.lone = TRUE] \/ u = [t EXCEPT !.lone = FALSE]
    <3>1. CASE with = {}
      <4>1. (with = {}) = TRUE
        BY <3>1
      <4> HIDE DEF with
      <4> QED BY <4>1
    <3>2. CASE with # {}
      <4>1. (with = {}) = FALSE
        BY <3>2
      <4> HIDE DEF with
      <4> QED BY <4>1
    <3> QED BY <3>1, <3>2
  <2> HIDE DEF u, with
  <2> QED BY <2>1, <2>2
<1>4. \A q \in Requests : /\ [tx[q] EXCEPT !.lone = FALSE] \in TxTypes
                          /\ tx[q] \in TxTypes
  BY DEF Typed, TxTypes
<1>5. tx' \in [Requests -> TxTypes] /\ tx'[r] = u
  <2> HIDE DEF u, with
  <2> QED BY <1>1, <1>3, <1>4
<1>6. ASSUME NEW q \in Others(r)
      PROVE  /\ tx'[q] = [tx[q] EXCEPT !.lone = tx'[q].lone]
             /\ pc[q] = "idle" => tx'[q] = tx[q]
  <2>1. CASE q \in with
    <3>1. tx'[q] = [tx[q] EXCEPT !.lone = FALSE]
      BY <1>1, <2>1 DEF Others
    <3>2. tx'[q].lone = FALSE
      BY <3>1, <1>4 DEF TxTypes, Others
    <3>3. pc[q] # "idle"
      <4>1. SUFFICES ASSUME pc[q] = "idle" PROVE FALSE
        OBVIOUS
      <4>2. tx[q] = NoTx
        BY <4>1 DEF Typed, TypeStock, Others
      <4>3. Concerns(NoTx) = {}
        BY DEF Concerns, NoTx
      <4> QED BY <4>2, <4>3, <2>1
    <3> QED BY <3>1, <3>2, <3>3
  <2>2. CASE q \notin with
    <3>1. tx'[q] = tx[q]
      BY <1>1, <2>2 DEF Others
    <3>2. tx[q] = [tx[q] EXCEPT !.lone = tx[q].lone]
      BY <1>4 DEF TxTypes, Others
    <3> QED BY <3>1, <3>2
  <2> QED BY <2>1, <2>2
<1>7. Step(r, u, w, Nothing)
  <2> HIDE DEF u
  <2> QED BY <1>1, <1>2, <1>5, <1>6 DEF Step
<1> QED BY <1>1, <1>2, <1>7

LEMMA EndsIsStep ==
  ASSUME Typed, NEW r \in Requests, NEW disturbed, Ends(r, disturbed)
  PROVE  Step(r, NoTx, "idle", Nothing)
<1>1. /\ own' = [own EXCEPT ![r] = Nothing]
      /\ pc' = [pc EXCEPT ![r] = "idle"]
      /\ tx' = [q \in Requests |->
                  IF q = r THEN NoTx
                  ELSE [tx[q] EXCEPT !.lone = @ /\ Concerns(tx[q]) \cap disturbed = {}]]
  BY DEF Ends
<1> DEFINE b(q) == tx[q].lone /\ Concerns(tx[q]) \cap disturbed = {}
<1>2. \A q \in Requests : b(q) \in BOOLEAN /\ tx[q] \in TxTypes
  BY DEF Typed, TxTypes
<1>3. \A q \in Others(r) : tx'[q] = [tx[q] EXCEPT !.lone = b(q)]
  BY <1>1 DEF Others, Typed
<1> HIDE DEF b
<1>4. ASSUME NEW q \in Others(r) PROVE tx'[q] \in TxTypes /\ tx'[q].lone = b(q)
  <2>1. b(q) \in BOOLEAN /\ tx[q] \in TxTypes /\ tx'[q] = [tx[q] EXCEPT !.lone = b(q)]
    BY <1>2, <1>3 DEF Others
  <2> QED BY <2>1 DEF TxTypes
<1>5. tx'[r] = NoTx /\ tx' \in [Requests -> TxTypes]
  BY <1>1, <1>4, NoTxTyped DEF Others
<1>6. ASSUME NEW q \in Others(r), pc[q] = "idle" PROVE tx'[q] = tx[q]
  <2>1. tx[q] = NoTx
    BY <1>6 DEF Typed, TypeStock, Others
  <2>2. Concerns(NoTx) = {} /\ NoTx.lone = TRUE
    BY DEF Concerns, NoTx
  <2>3. b(q) = TRUE
    BY <2>1, <2>2 DEF b
  <2>4. [NoTx EXCEPT !.lone = TRUE] = NoTx
    BY <2>2, NoTxTyped DEF TxTypes
  <2> QED BY <1>3, <2>1, <2>3, <2>4
<1> QED BY <1>1, <1>3, <1>4, <1>5, <1>6 DEF Step

-----------------------------------------------------------------------------
(* What a step does to the facts that relate requests.                     *)

Cross == RowLocks /\ OneKey /\ VehicleIsThere /\ Pinned /\ Dropped /\ Backed

LEMMA StepEffect ==
  ASSUME Typed, NEW r \in Requests, NEW t, NEW p, NEW o, Step(r, t, p, o)
  PROVE  /\ own'[r] = o /\ pc'[r] = p /\ tx'[r] = t
         /\ \A q \in Requests : q # r =>
              /\ own'[q] = own[q] /\ pc'[q] = pc[q]
              /\ tx'[q].op = tx[q].op /\ tx'[q].entry = tx[q].entry
<1>1. own'[r] = o /\ pc'[r] = p /\ tx'[r] = t
  BY DEF Step, Typed
<1>2. ASSUME NEW q \in Requests, q # r
      PROVE  /\ own'[q] = own[q] /\ pc'[q] = pc[q]
             /\ tx'[q].op = tx[q].op /\ tx'[q].entry = tx[q].entry
  <2>1. own'[q] = own[q] /\ pc'[q] = pc[q]
    BY <1>2 DEF Step, Typed
  <2>2. tx'[q] = [tx[q] EXCEPT !.lone = tx'[q].lone] /\ tx[q] \in TxTypes
    BY <1>2 DEF Step, Typed, Others
  <2> QED BY <2>1, <2>2 DEF TxTypes
<1> QED BY <1>1, <1>2

\* The ids of new entries stay apart.
LEMMA StepKeepsFresh ==
  ASSUME Typed, Fresh, NEW r \in Requests, NEW t, NEW p, NEW o, Step(r, t, p, o),
         Creates(t) => /\ db'[t.entry] = NoRow
                       /\ \A q \in Others(r) : tx[q].entry # t.entry,
         \A q \in Others(r) : Creates(tx[q]) =>
           /\ db'[tx[q].entry] = NoRow
           /\ t.entry # tx[q].entry
  PROVE  Fresh'
<1>1. ASSUME NEW q \in Requests, Creates(tx'[q])
      PROVE  /\ db'[tx'[q].entry] = NoRow
             /\ \A s \in Others(q) : tx'[s].entry # tx'[q].entry
  <2>1. CASE q = r
    BY <2>1, <1>1, StepEffect DEF Others
  <2>2. CASE q # r
    <3>1. q \in Others(r) /\ Creates(tx[q]) /\ tx'[q].entry = tx[q].entry
      BY <2>2, <1>1, StepEffect DEF Others, Creates
    <3>2. db'[tx[q].entry] = NoRow /\ t.entry # tx[q].entry
      BY <3>1
    <3>3. \A s \in Others(q) : tx[s].entry # tx[q].entry
      BY <3>1 DEF Fresh, Others
    <3> QED BY <3>1, <3>2, <3>3, StepEffect DEF Others
  <2> QED BY <2>1, <2>2
<1> QED BY <1>1 DEF Fresh, Others

\* A step that writes no vehicle and no entry: requests lock no more than they
\* did, and a client is written by a form that creates.
LEMMA ElsewhereKeeps ==
  ASSUME Typed, Cross, NEW r \in Requests, NEW t, NEW p, NEW o, Step(r, t, p, o),
         UNCHANGED db, pc[r] # "commit",
         \A x \in Vehicles \cup Entries : o[x] \in {own[r][x], Untouched},
         \A x \in Clients \cup Vehicles :
           IsRow(o[x]) => Creates(t) \/ (o[x] = own[r][x] /\ ~Creates(tx[r])),
         \A v \in Vehicles : o[v] # NoRow,
         \A e \in Entries, v \in Vehicles : Refers(o[e], v) => o[v] = own[r][v]
  PROVE  Cross'
<1>1. /\ own'[r] = o /\ pc'[r] = p /\ tx'[r] = t
      /\ \A q \in Requests : q # r =>
           own'[q] = own[q] /\ pc'[q] = pc[q] /\ tx'[q].op = tx[q].op
  BY StepEffect
<1>2. \A q \in Requests, x \in Vehicles \cup Entries : own'[q][x] \in {own[q][x], Untouched}
  BY <1>1
<1>3. RowLocks'
  BY <1>2 DEF Cross, RowLocks
<1>4. OneKey'
  <2>1. ASSUME NEW e \in Entries, NEW a \in Versions(e)' PROVE a \in Versions(e) \cup {Untouched}
    BY <1>2 DEF Versions
  <2>2. \A a : ~SameKey(Untouched, a) /\ ~SameKey(NoRow, a)
    BY DEF SameKey
  <2>3. ~IsRow(Untouched)
    BY DEF IsRow
  <2>4. \A e, f \in Entries : e # f =>
           \A a \in Versions(e)', b \in Versions(f)' : IsRow(b) => ~SameKey(a, b)
    BY <2>1, <2>2, <2>3 DEF Cross, OneKey
  <2> QED BY <2>4 DEF OneKey
<1>5. VehicleIsThere'
  BY DEF Cross, VehicleIsThere
<1>6. Pinned'
  <2>1. ASSUME NEW q \in Requests, NEW e \in Entries, NEW v \in Vehicles,
               Refers(own'[q][e], v)
        PROVE  View(q, v)' # NoRow
    <3>1. Refers(own[q][e], v)
      BY <1>2, <2>1 DEF Refers
    <3>2. View(q, v) # NoRow
      BY <3>1 DEF Cross, Pinned
    <3>3. own'[q][v] = own[q][v]
      BY <1>1, <2>1
    <3> QED BY <3>2, <3>3 DEF View
  <2> QED BY <2>1 DEF Pinned
<1>7. Dropped'
  <2>1. ASSUME NEW q \in Requests, NEW v \in Vehicles, own'[q][v] = NoRow,
               NEW e \in Entries
        PROVE  /\ ~Refers(View(q, e)', v)
               /\ \A s \in Others(q) : ~Refers(own'[s][e], v)
    <3>1. q # r /\ own[q][v] = NoRow
      BY <1>1, <2>1
    <3>2. View(q, e)' = View(q, e)
      BY <1>1, <3>1 DEF View
    <3>3. /\ ~Refers(View(q, e), v)
          /\ \A s \in Others(q) : ~Refers(own[s][e], v)
      BY <3>1 DEF Cross, Dropped
    <3> QED BY <1>2, <3>2, <3>3 DEF Refers, Others
  <2> QED BY <2>1 DEF Dropped, Others
<1>8. Backed'
  <2>1. ASSUME NEW q \in Requests, NEW x \in Clients \cup Vehicles, IsRow(own'[q][x])
        PROVE  \/ Creates(tx'[q])
               \/ db'[x] # NoRow
               \/ pc'[q] = "commit" /\ x \in Vehicles /\ IsRow(own'[q][Caixa[x]])
    <3>1. CASE q # r
      BY <3>1, <2>1, <1>1 DEF Cross, Backed, Creates
    <3>2. CASE q = r
      BY <3>2, <2>1, <1>1 DEF Cross, Backed
    <3> QED BY <3>1, <3>2
  <2> QED BY <2>1 DEF Backed
<1> QED BY <1>3, <1>4, <1>5, <1>6, <1>7, <1>8 DEF Cross

\* A step that writes an entry, alone on its key, that refers to a vehicle that
\* is there and that nobody deletes; or that deletes an entry.
LEMMA EntryWritten ==
  ASSUME Typed, Cross, NEW r \in Requests, NEW t, NEW p, NEW o, Step(r, t, p, o),
         UNCHANGED db, pc[r] # "commit", NEW x \in Entries,
         \A y \in Clients \cup Vehicles \cup Entries : y # x => o[y] = own[r][y],
         RowWaits(r, x) = {},
         \A f \in Entries : f # x => \A b \in Versions(f) :
           /\ IsRow(b) => ~SameKey(o[x], b)
           /\ IsRow(o[x]) => ~SameKey(b, o[x]),
         \A v \in Vehicles : Refers(o[x], v) =>
           View(r, v) # NoRow /\ \A q \in Others(r) : own[q][v] # NoRow,
         \A v \in Vehicles : own[r][v] # NoRow,
         Creates(tx[r]) => Creates(t)
  PROVE  Cross'
<1>1. /\ own'[r] = o /\ pc'[r] = p /\ tx'[r] = t
      /\ \A q \in Requests : q # r =>
           own'[q] = own[q] /\ pc'[q] = pc[q] /\ tx'[q].op = tx[q].op
  BY StepEffect
<1>2. \A y \in Vehicles \cup Clients : y # x
  BY Kinds
<1>3. \A q \in Requests, y \in Clients \cup Vehicles \cup Entries :
        y # x \/ q # r => own'[q][y] = own[q][y]
  BY <1>1
<1>4. \A q \in Requests, y \in Clients \cup Vehicles : own'[q][y] = own[q][y]
  BY <1>2, <1>3
<1>5. RowLocks'
  <2>1. \A q \in Others(r) : own[q][x] = Untouched
    BY DEF RowWaits
  <2> QED BY <1>3, <2>1 DEF Cross, RowLocks, Others
<1>6. OneKey'
  <2>1. \A f \in Entries : f # x => Versions(f)' = Versions(f)
    BY <1>3 DEF Versions
  <2>2. \A a \in Versions(x)' : a \in Versions(x) \/ a = o[x]
    BY <1>1 DEF Versions
  <2>3. \A e, f \in Entries : e # f =>
           \A a \in Versions(e)', b \in Versions(f)' : IsRow(b) => ~SameKey(a, b)
    BY <2>1, <2>2 DEF Cross, OneKey
  <2> QED BY <2>3 DEF OneKey
<1>7. VehicleIsThere'
  BY DEF Cross, VehicleIsThere
<1>8. \A q \in Requests, v \in Vehicles : View(q, v)' = View(q, v)
  BY <1>4 DEF View
<1>9. Pinned'
  <2>1. ASSUME NEW q \in Requests, NEW e \in Entries, NEW v \in Vehicles,
               Refers(own'[q][e], v)
        PROVE  View(q, v)' # NoRow
    <3>1. CASE q = r /\ e = x
      BY <3>1, <2>1, <1>1, <1>8
    <3>2. CASE ~(q = r /\ e = x)
      <4>1. own'[q][e] = own[q][e]
        BY <3>2, <1>3
      <4> QED BY <4>1, <2>1, <1>8 DEF Cross, Pinned
    <3> QED BY <3>1, <3>2
  <2> QED BY <2>1 DEF Pinned
<1>10. Dropped'
  <2>1. ASSUME NEW q \in Requests, NEW v \in Vehicles, own'[q][v] = NoRow,
               NEW e \in Entries
        PROVE  /\ ~Refers(View(q, e)', v)
               /\ \A s \in Others(q) : ~Refers(own'[s][e], v)
    <3>1. q # r /\ own[q][v] = NoRow
      BY <1>4, <2>1
    <3>2. View(q, e)' = View(q, e)
      BY <1>1, <3>1 DEF View
    <3>3. /\ ~Refers(View(q, e), v)
          /\ \A s \in Others(q) : ~Refers(own[s][e], v)
      BY <3>1 DEF Cross, Dropped
    <3>4. ~Refers(o[x], v)
      BY <3>1 DEF Others
    <3>5. \A s \in Others(q) : own'[s][e] = own[s][e] \/ own'[s][e] = o[x]
      BY <1>1, <1>3 DEF Others
    <3> QED BY <3>2, <3>3, <3>4, <3>5
  <2> QED BY <2>1 DEF Dropped, Others
<1>11. Backed'
  <2>1. ASSUME NEW q \in Requests, NEW y \in Clients \cup Vehicles, IsRow(own'[q][y])
        PROVE  \/ Creates(tx'[q])
               \/ db'[y] # NoRow
               \/ pc'[q] = "commit" /\ y \in Vehicles /\ IsRow(own'[q][Caixa[y]])
    <3>1. IsRow(own[q][y])
      BY <2>1, <1>4
    <3>2. CASE q # r
      BY <3>1, <3>2, <1>1 DEF Cross, Backed, Creates
    <3>3. CASE q = r
      BY <3>1, <3>3, <1>1 DEF Cross, Backed
    <3> QED BY <3>2, <3>3
  <2> QED BY <2>1 DEF Backed
<1> QED BY <1>5, <1>6, <1>7, <1>9, <1>10, <1>11 DEF Cross

\* A step that writes the row of a vehicle.
LEMMA VehicleWritten ==
  ASSUME Typed, Cross, NEW r \in Requests, NEW t, NEW p, NEW o, Step(r, t, p, o),
         UNCHANGED db, pc[r] # "commit", NEW x \in Vehicles,
         \A y \in Clients \cup Vehicles \cup Entries : y # x => o[y] = own[r][y],
         RowWaits(r, x) = {},
         IsRow(o[x]),
         \/ Creates(t)
         \/ db[x] # NoRow
         \/ p = "commit" /\ IsRow(o[Caixa[x]]),
         Creates(tx[r]) => Creates(t)
  PROVE  Cross'
<1>1. /\ own'[r] = o /\ pc'[r] = p /\ tx'[r] = t
      /\ \A q \in Requests : q # r =>
           own'[q] = own[q] /\ pc'[q] = pc[q] /\ tx'[q].op = tx[q].op
  BY StepEffect
<1>2. \A y \in Entries : y # x
  BY Kinds
<1>3. \A q \in Requests, y \in Clients \cup Vehicles \cup Entries :
        y # x \/ q # r => own'[q][y] = own[q][y]
  BY <1>1
<1>4. \A q \in Requests, e \in Entries : own'[q][e] = own[q][e]
  BY <1>2, <1>3
<1>5. RowLocks'
  <2>1. \A q \in Others(r) : own[q][x] = Untouched
    BY DEF RowWaits
  <2> QED BY <1>3, <2>1 DEF Cross, RowLocks, Others
<1>6. OneKey'
  <2>1. \A e \in Entries : Versions(e)' = Versions(e)
    BY <1>4 DEF Versions
  <2> QED BY <2>1 DEF Cross, OneKey
<1>7. VehicleIsThere'
  BY DEF Cross, VehicleIsThere
<1>8. o[x] # NoRow /\ o[x] # Untouched
  BY DEF IsRow
<1>9. \A q \in Requests, v \in Vehicles : View(q, v)' = View(q, v) \/ View(q, v)' = o[x]
  BY <1>1, <1>3, <1>8 DEF View
<1>10. Pinned'
  BY <1>4, <1>8, <1>9 DEF Cross, Pinned
<1>11. Dropped'
  <2>1. ASSUME NEW q \in Requests, NEW v \in Vehicles, own'[q][v] = NoRow
        PROVE  own[q][v] = NoRow
    BY <2>1, <1>1, <1>3, <1>8
  <2>2. \A q \in Requests, e \in Entries : View(q, e)' = View(q, e)
    BY <1>4 DEF View
  <2> QED BY <2>1, <2>2, <1>4 DEF Cross, Dropped, Others
<1>12. Backed'
  <2>1. ASSUME NEW q \in Requests, NEW y \in Clients \cup Vehicles, IsRow(own'[q][y])
        PROVE  \/ Creates(tx'[q])
               \/ db'[y] # NoRow
               \/ pc'[q] = "commit" /\ y \in Vehicles /\ IsRow(own'[q][Caixa[y]])
    <3>1. CASE q # r
      BY <3>1, <2>1, <1>1 DEF Cross, Backed, Creates
    <3>2. CASE q = r /\ y # x
      <4>1. IsRow(own[r][y])
        BY <3>2, <2>1, <1>3
      <4> QED BY <4>1, <3>2, <1>1 DEF Cross, Backed
    <3>3. CASE q = r /\ y = x
      BY <3>3, <1>1
    <3> QED BY <3>1, <3>2, <3>3
  <2> QED BY <2>1 DEF Backed
<1> QED BY <1>5, <1>6, <1>7, <1>10, <1>11, <1>12 DEF Cross

\* A step that deletes the row of a vehicle no entry refers to.
LEMMA VehicleDropped ==
  ASSUME Typed, Carried, Cross, NEW r \in Requests, NEW t, NEW p, NEW o, Step(r, t, p, o),
         UNCHANGED db, pc[r] # "commit", NEW x \in Vehicles,
         \A y \in Clients \cup Vehicles \cup Entries : y # x => o[y] = own[r][y],
         o[x] = NoRow,
         LockWaits(r, x) = {},
         \A e \in Entries : ~Refers(View(r, e), x),
         Creates(tx[r]) => Creates(t)
  PROVE  Cross'
<1>1. /\ own'[r] = o /\ pc'[r] = p /\ tx'[r] = t
      /\ \A q \in Requests : q # r =>
           own'[q] = own[q] /\ pc'[q] = pc[q] /\ tx'[q].op = tx[q].op
  BY StepEffect
<1>2. \A y \in Entries : y # x
  BY Kinds
<1>3. \A q \in Requests, y \in Clients \cup Vehicles \cup Entries :
        y # x \/ q # r => own'[q][y] = own[q][y]
  BY <1>1
<1>4. \A q \in Requests, e \in Entries : own'[q][e] = own[q][e]
  BY <1>2, <1>3
<1>5. RowLocks'
  <2>1. \A q \in Others(r) : own[q][x] = Untouched
    BY DEF LockWaits, RowWaits
  <2> QED BY <1>3, <2>1 DEF Cross, RowLocks, Others
<1>6. OneKey'
  <2>1. \A e \in Entries : Versions(e)' = Versions(e)
    BY <1>4 DEF Versions
  <2> QED BY <2>1 DEF Cross, OneKey
<1>7. VehicleIsThere'
  BY DEF Cross, VehicleIsThere
<1>8. \A e \in Entries, q \in Others(r) : ~Refers(own[q][e], x)
  <2>1. SUFFICES ASSUME NEW e \in Entries, NEW q \in Others(r), Refers(own[q][e], x)
                 PROVE  FALSE
    OBVIOUS
  <2>2. Refers(db[e], x)
    BY <2>1 DEF LockWaits, Pins
  <2>3. own[q][e] # Untouched
    BY <2>1 DEF Refers
  <2>4. own[r][e] = Untouched
    BY <2>3 DEF Cross, RowLocks, Others
  <2> QED BY <2>2, <2>4 DEF View
<1>9. \A e \in Entries : ~Refers(own[r][e], x)
  BY DEF View, Refers
<1>10. Pinned'
  <2>1. ASSUME NEW q \in Requests, NEW e \in Entries, NEW v \in Vehicles,
               Refers(own'[q][e], v)
        PROVE  View(q, v)' # NoRow
    <3>1. Refers(own[q][e], v)
      BY <2>1, <1>4
    <3>2. v # x
      BY <3>1, <1>8, <1>9 DEF Others
    <3>3. View(q, v)' = View(q, v)
      BY <3>2, <1>3 DEF View
    <3> QED BY <3>1, <3>3 DEF Cross, Pinned
  <2> QED BY <2>1 DEF Pinned
<1>11. Dropped'
  <2>1. \A q \in Requests, e \in Entries : View(q, e)' = View(q, e)
    BY <1>4 DEF View
  <2>2. ASSUME NEW q \in Requests, NEW v \in Vehicles, own'[q][v] = NoRow
        PROVE  own[q][v] = NoRow \/ (q = r /\ v = x)
    BY <2>2, <1>3
  <2>3. ASSUME NEW q \in Requests, NEW v \in Vehicles, own'[q][v] = NoRow,
               NEW e \in Entries
        PROVE  /\ ~Refers(View(q, e)', v)
               /\ \A s \in Others(q) : ~Refers(own'[s][e], v)
    <3>1. CASE own[q][v] = NoRow
      BY <3>1, <2>1, <1>4 DEF Cross, Dropped, Others
    <3>2. CASE q = r /\ v = x
      BY <3>2, <2>1, <1>4, <1>8 DEF Others
    <3> QED BY <2>2, <2>3, <3>1, <3>2
  <2> QED BY <2>3 DEF Dropped, Others
<1>12. Backed'
  <2>1. ASSUME NEW q \in Requests, NEW y \in Clients \cup Vehicles, IsRow(own'[q][y])
        PROVE  \/ Creates(tx'[q])
               \/ db'[y] # NoRow
               \/ pc'[q] = "commit" /\ y \in Vehicles /\ IsRow(own'[q][Caixa[y]])
    <3>1. CASE q # r
      BY <3>1, <2>1, <1>1 DEF Cross, Backed, Creates
    <3>2. CASE q = r /\ y # x
      <4>1. IsRow(own[r][y])
        BY <3>2, <2>1, <1>3
      <4> QED BY <4>1, <3>2, <1>1 DEF Cross, Backed
    <3>3. CASE q = r /\ y = x
      BY <3>3, <2>1, <1>1 DEF IsRow
    <3> QED BY <3>1, <3>2, <3>3
  <2> QED BY <2>1 DEF Backed
<1> QED BY <1>5, <1>6, <1>7, <1>10, <1>11, <1>12 DEF Cross

\* The end of a request that keeps nothing.
LEMMA RollbackKeeps ==
  ASSUME IInv, NEW r \in Requests, Rollback(r)
  PROVE  IInv'
<1>1. Step(r, NoTx, "idle", Nothing) /\ UNCHANGED <<db, drift>>
  BY EndsIsStep DEF IInv, Rollback
<1>2. Typed' /\ Carried'
  BY <1>1, StepKeepsTypes, NoTxTyped, NothingFits, IdleCarries
     DEF IInv, Typed, TypeStock, Places
<1>3. NoTx.entry = None /\ ~Creates(NoTx)
  BY DEF NoTx, Creates
<1>4. Fresh'
  <2>1. \A q \in Requests : Creates(tx[q]) => tx[q].entry \in Entries
    BY DEF IInv, Carried, Carries
  <2>2. \A q \in Others(r) : Creates(tx[q]) =>
          db'[tx[q].entry] = NoRow /\ NoTx.entry # tx[q].entry
    BY <1>1, <1>3, <2>1, Kinds DEF IInv, Fresh, Others
  <2> QED BY <1>1, <1>3, <2>2, StepKeepsFresh DEF IInv
<1>5. /\ own'[r] = Nothing /\ pc'[r] = "idle" /\ tx'[r] = NoTx
      /\ \A q \in Requests : q # r =>
           own'[q] = own[q] /\ pc'[q] = pc[q] /\ tx'[q].op = tx[q].op
  BY <1>1, StepEffect DEF IInv
<1>6. \A x \in Vehicles \cup Entries \cup Clients : Nothing[x] = Untouched
  BY NothingFits, Kinds
<1>7. RowLocks'
  BY <1>5, <1>6 DEF IInv, RowLocks
<1>8. OneKey'
  <2>1. ASSUME NEW e \in Entries, NEW a \in Versions(e)' PROVE a \in Versions(e) \cup {Untouched}
    BY <1>1, <1>5, <1>6 DEF Versions
  <2>2. \A a : ~SameKey(Untouched, a) /\ ~IsRow(Untouched)
    BY DEF SameKey, IsRow
  <2>3. \A e, f \in Entries : e # f =>
           \A a \in Versions(e)', b \in Versions(f)' : IsRow(b) => ~SameKey(a, b)
    BY <2>1, <2>2 DEF IInv, OneKey
  <2> QED BY <2>3 DEF OneKey
<1>9. VehicleIsThere'
  BY <1>1 DEF IInv, VehicleIsThere
<1>10. \A q \in Requests, x \in Vehicles \cup Entries : q # r => View(q, x)' = View(q, x)
  BY <1>1, <1>5 DEF View
<1>11. Pinned'
  BY <1>5, <1>6, <1>10 DEF IInv, Pinned, Refers
<1>12. Dropped'
  BY <1>5, <1>6, <1>10, Kinds DEF IInv, Dropped, Others, Refers
<1>13. Backed'
  <2>1. ASSUME NEW q \in Requests, NEW y \in Clients \cup Vehicles, IsRow(own'[q][y])
        PROVE  \/ Creates(tx'[q])
               \/ db'[y] # NoRow
               \/ pc'[q] = "commit" /\ y \in Vehicles /\ IsRow(own'[q][Caixa[y]])
    <3>1. q # r
      BY <2>1, <1>5, <1>6 DEF IsRow
    <3> QED BY <3>1, <2>1, <1>1, <1>5 DEF IInv, Backed, Creates
  <2> QED BY <2>1 DEF Backed
<1> QED BY <1>2, <1>4, <1>7, <1>8, <1>9, <1>11, <1>12, <1>13 DEF IInv

\* The vehicles a commit leaves with an old cash row are vehicles.
LEMMA DriftTyped ==
  ASSUME Typed, Carried, NEW r \in Requests, pc[r] # "idle"
  PROVE  Drifted(r) \subseteq Vehicles
<1>1. tx[r] \in TxTypes /\ Carries(tx[r], pc[r], own[r])
  BY DEF Typed, Carried
<1>2. /\ tx[r].veiculo \in Vehicles
      /\ tx[r].old = NoRow \/ tx[r].old.veiculo \in Vehicles
      /\ tx[r].op \in {"update", "json_update"} => tx[r].old.veiculo \in Vehicles
  <2>1. tx[r].old \in EntryRows \cup {NoRow}
    BY <1>1 DEF TxTypes
  <2>2. \A row \in EntryRows : row.veiculo \in Vehicles
    BY DEF EntryRows
  <2> QED BY <1>1, <2>1, <2>2 DEF Carries, Moves
<1>3. Disturbs(r) \subseteq Vehicles
  BY <1>2 DEF Disturbs, Concerns
<1>4. drift \subseteq Vehicles
  BY DEF Typed, TypeStock
<1> QED BY <1>2, <1>3, <1>4 DEF Drifted

\* A commit: what the request saw is what everybody sees.
LEMMA PublishKeeps ==
  ASSUME IInv, NEW r \in Requests, pc[r] # "idle", Publish(r)
  PROVE  IInv'
<1>1. /\ Step(r, NoTx, "idle", Nothing)
      /\ db' = [x \in Things |-> View(r, x)]
      /\ drift' = Drifted(r)
  BY EndsIsStep DEF IInv, Publish
<1>2. /\ db' \in [Things -> AllRows]
      /\ \A x \in Things : db'[x] \in RowsOf(x) \cup {NoRow}
  <2>1. \A x \in Things : db'[x] = View(r, x) /\ View(r, x) \in RowsOf(x) \cup {NoRow}
    BY <1>1 DEF View, IInv, Typed, TypeStock
  <2>2. \A x \in Things : db'[x] \in AllRows
    BY <2>1, Kinds DEF AllRows
  <2> QED BY <1>1, <2>1, <2>2
<1>3. drift' \subseteq Vehicles
  BY <1>1, DriftTyped DEF IInv
<1>4. Typed' /\ Carried'
  BY <1>1, <1>2, <1>3, StepKeepsTypes, NoTxTyped, NothingFits, IdleCarries
     DEF IInv, Places
<1>5. \A x \in Entries \cup Vehicles \cup Clients :
        db'[x] = IF own[r][x] # Untouched THEN own[r][x] ELSE db[x]
  BY <1>1, Kinds DEF View
<1>6. NoTx.entry = None /\ ~Creates(NoTx)
  BY DEF NoTx, Creates
<1>7. Fresh'
  <2>1. \A q \in Requests : Carries(tx[q], pc[q], own[q])
    BY DEF IInv, Carried
  <2>2. ASSUME NEW q \in Others(r), Creates(tx[q])
        PROVE  db'[tx[q].entry] = NoRow /\ NoTx.entry # tx[q].entry
    <3>1. tx[q].entry \in Entries
      BY <2>1, <2>2 DEF Carries, Others
    <3>2. db[tx[q].entry] = NoRow /\ tx[r].entry # tx[q].entry
      BY <2>2 DEF IInv, Fresh, Others
    <3>3. own[r][tx[q].entry] = Untouched
      BY <2>1, <3>1, <3>2 DEF Carries
    <3> QED BY <3>1, <3>2, <3>3, <1>5, <1>6, Kinds
  <2> QED BY <1>1, <1>6, <2>2, StepKeepsFresh DEF IInv
<1>8. /\ own'[r] = Nothing /\ pc'[r] = "idle" /\ tx'[r] = NoTx
      /\ \A q \in Requests : q # r =>
           own'[q] = own[q] /\ pc'[q] = pc[q] /\ tx'[q].op = tx[q].op
  BY <1>1, StepEffect DEF IInv
<1>9. \A x \in Vehicles \cup Entries \cup Clients : Nothing[x] = Untouched
  BY NothingFits, Kinds
<1>10. RowLocks'
  BY <1>8, <1>9 DEF IInv, RowLocks
<1>11. OneKey'
  <2>1. ASSUME NEW e \in Entries, NEW a \in Versions(e)' PROVE a \in Versions(e) \cup {Untouched}
    BY <1>5, <1>8, <1>9 DEF Versions
  <2>2. \A a : ~SameKey(Untouched, a) /\ ~IsRow(Untouched)
    BY DEF SameKey, IsRow
  <2>3. \A e, f \in Entries : e # f =>
           \A a \in Versions(e)', b \in Versions(f)' : IsRow(b) => ~SameKey(a, b)
    BY <2>1, <2>2 DEF IInv, OneKey
  <2> QED BY <2>3 DEF OneKey
<1>12. VehicleIsThere'
  <2>1. ASSUME NEW e \in Entries, NEW v \in Vehicles, Refers(db'[e], v), db'[v] = NoRow
        PROVE  FALSE
    <3>1. CASE own[r][v] = NoRow
      BY <3>1, <2>1, <1>5 DEF IInv, Dropped, View
    <3>2. CASE own[r][v] # NoRow
      <4>1. own[r][v] = Untouched /\ db[v] = NoRow
        BY <3>2, <2>1, <1>5
      <4>2. CASE own[r][e] = Untouched
        BY <4>1, <4>2, <2>1, <1>5 DEF IInv, VehicleIsThere
      <4>3. CASE own[r][e] # Untouched
        BY <4>1, <4>3, <2>1, <1>5 DEF IInv, Pinned, View
      <4> QED BY <4>2, <4>3
    <3> QED BY <3>1, <3>2
  <2> QED BY <2>1 DEF VehicleIsThere
<1>13. Pinned'
  <2>1. ASSUME NEW q \in Requests, NEW e \in Entries, NEW v \in Vehicles,
               Refers(own'[q][e], v)
        PROVE  View(q, v)' # NoRow
    <3>1. q # r /\ own'[q] = own[q]
      BY <2>1, <1>8, <1>9 DEF Refers
    <3>2. View(q, v) # NoRow
      BY <2>1, <3>1 DEF IInv, Pinned
    <3>3. own[r][v] # NoRow
      BY <2>1, <3>1 DEF IInv, Dropped, Others
    <3> QED BY <3>1, <3>2, <3>3, <1>5 DEF View
  <2> QED BY <2>1 DEF Pinned
<1>14. Dropped'
  <2>1. ASSUME NEW q \in Requests, NEW v \in Vehicles, own'[q][v] = NoRow,
               NEW e \in Entries
        PROVE  /\ ~Refers(View(q, e)', v)
               /\ \A s \in Others(q) : ~Refers(own'[s][e], v)
    <3>1. q # r /\ own'[q] = own[q]
      BY <2>1, <1>8, <1>9, Kinds
    <3>2. /\ ~Refers(View(q, e), v)
          /\ \A s \in Others(q) : ~Refers(own[s][e], v)
      BY <2>1, <3>1 DEF IInv, Dropped
    <3>3. ~Refers(own[r][e], v)
      BY <3>1, <3>2 DEF Others
    <3>4. ~Refers(View(q, e)', v)
      BY <3>1, <3>2, <3>3, <1>5 DEF View
    <3>5. \A s \in Others(q) : ~Refers(own'[s][e], v)
      BY <3>2, <1>8, <1>9 DEF Others, Refers
    <3> QED BY <3>4, <3>5
  <2> QED BY <2>1 DEF Dropped, Others
<1>15. Backed'
  <2>1. ASSUME NEW q \in Requests, NEW y \in Clients \cup Vehicles, IsRow(own'[q][y])
        PROVE  \/ Creates(tx'[q])
               \/ db'[y] # NoRow
               \/ pc'[q] = "commit" /\ y \in Vehicles /\ IsRow(own'[q][Caixa[y]])
    <3>1. q # r
      BY <2>1, <1>8, <1>9 DEF IsRow
    <3>2. db[y] # NoRow => db'[y] # NoRow
      <4>1. SUFFICES ASSUME db[y] # NoRow, own[r][y] = NoRow PROVE FALSE
        BY <1>5
      <4>2. y \in Vehicles
        BY <4>1 DEF IInv, Carried, Carries
      <4>3. own[q][y] # Untouched
        BY <2>1, <3>1, <1>8 DEF IsRow
      <4> QED BY <3>1, <4>1, <4>2, <4>3, Kinds DEF IInv, RowLocks
    <3> QED BY <3>1, <3>2, <2>1, <1>8 DEF IInv, Backed, Creates
  <2> QED BY <2>1 DEF Backed
<1> QED BY <1>4, <1>7, <1>10, <1>11, <1>12, <1>13, <1>14, <1>15 DEF IInv

-----------------------------------------------------------------------------
(* The steps.                                                              *)

\* A request that advances has these locks to itself.
LEMMA Unblocked ==
  ASSUME NEW r \in Requests, WaitsFor(r) = {}
  PROVE  /\ pc[r] = "nested" => RowWaits(r, Nested(tx[r], Head(tx[r].todo))) = {}
         /\ pc[r] = "insert" => /\ KeyWaits(r, tx[r].row) = {}
                                /\ PinWaits(r, tx[r].veiculo) = {}
         /\ pc[r] = "update" /\ tx[r].row # tx[r].old =>
              /\ RowWaits(r, tx[r].entry) = {}
              /\ tx[r].veiculo # tx[r].old.veiculo => PinWaits(r, tx[r].veiculo) = {}
         /\ pc[r] \in {"erase", "debits"} => RowWaits(r, tx[r].entry) = {}
         /\ pc[r] = "status" => LockWaits(r, tx[r].veiculo) = {}
         /\ pc[r] \in {"register", "edit"} => RowWaits(r, tx[r].veiculo) = {}
         /\ pc[r] = "drop" => LockWaits(r, tx[r].veiculo) = {}
  BY DEF WaitsFor

\* The conclusion every step below draws.
LEMMA StepKeeps ==
  ASSUME IInv, NEW r \in Requests, NEW t \in TxTypes, NEW p \in Places, NEW o, Fits(o),
         Carries(t, p, o), Step(r, t, p, o), UNCHANGED <<db, drift>>,
         Fresh', Cross'
  PROVE  IInv'
<1>1. Typed' /\ Carried'
  BY StepKeepsTypes DEF IInv, Typed, TypeStock
<1> QED BY <1>1 DEF IInv, Cross

LEMMA SameEntryFresh ==
  ASSUME IInv, NEW r \in Requests, NEW t, NEW p, NEW o, Step(r, t, p, o),
         UNCHANGED db, t.op = tx[r].op, t.entry = tx[r].entry
  PROVE  Fresh'
  BY StepKeepsFresh DEF IInv, Fresh, Creates, Others

LEMMA OtherEntryFresh ==
  ASSUME IInv, NEW r \in Requests, NEW t, NEW p, NEW o, Step(r, t, p, o),
         UNCHANGED db, ~Creates(t), t.entry = None \/ db[t.entry] # NoRow
  PROVE  Fresh'
<1>1. \A q \in Requests : Creates(tx[q]) => tx[q].entry \in Entries
  BY DEF IInv, Carried, Carries
<1>2. \A q \in Others(r) : Creates(tx[q]) =>
        db'[tx[q].entry] = NoRow /\ t.entry # tx[q].entry
  BY <1>1, Kinds DEF IInv, Fresh, Others
<1> QED BY <1>2, StepKeepsFresh DEF IInv

\* A step that writes nothing.
LEMMA QuietKeeps ==
  ASSUME IInv, NEW r \in Requests, NEW t \in TxTypes, NEW p \in Places, pc[r] # "commit",
         Step(r, t, p, own[r]), UNCHANGED <<db, drift>>,
         Carries(t, p, own[r]), t.op = tx[r].op, t.entry = tx[r].entry
  PROVE  IInv'
<1>1. Fits(own[r])
  BY DEF IInv, Typed, TypeStock, Fits
<1>2. Fresh'
  BY SameEntryFresh
<1>3. \A v \in Vehicles : own[r][v] # NoRow
  BY DEF IInv, Carried, Carries
<1>4. Cross'
  BY <1>3, ElsewhereKeeps DEF IInv, Cross, Creates
<1> QED BY <1>1, <1>2, <1>4, StepKeeps

\* The beginning of a request.
LEMMA BeginKeeps ==
  ASSUME IInv, NEW r \in Requests, NEW t \in TxTypes, NEW p \in Places, Begins(r, t, p),
         p # "idle", Carries(t, p, Nothing),
         \/ ~Creates(t) /\ (t.entry = None \/ db[t.entry] # NoRow)
         \/ db[t.entry] = NoRow /\ \A q \in Requests : tx[q].entry # t.entry
  PROVE  IInv'
<1>1. PICK b \in BOOLEAN : Step(r, [t EXCEPT !.lone = b], p, Nothing)
  BY BeginsIsStep DEF IInv
<1> DEFINE u == [t EXCEPT !.lone = b]
<1>2. /\ pc[r] = "idle" /\ own[r] = Nothing /\ UNCHANGED <<db, drift>>
  BY BeginsIsStep DEF IInv
<1>3. u \in TxTypes /\ u.op = t.op /\ u.entry = t.entry /\ Carries(u, p, Nothing)
  BY LoneOnly
<1>4. Step(r, u, p, Nothing)
  BY <1>1
<1> HIDE DEF u
<1>5. Fresh'
  <2>1. CASE ~Creates(t) /\ (t.entry = None \/ db[t.entry] # NoRow)
    BY <2>1, <1>2, <1>3, <1>4, OtherEntryFresh DEF Creates
  <2>2. CASE db[t.entry] = NoRow /\ \A q \in Requests : tx[q].entry # t.entry
    BY <2>2, <1>2, <1>3, <1>4, StepKeepsFresh DEF IInv, Fresh, Others
  <2> QED BY <2>1, <2>2
<1>6. \A x \in Vehicles \cup Entries \cup Clients : Nothing[x] = Untouched
  BY NothingFits, Kinds
<1>7. Cross'
  BY <1>2, <1>4, <1>6, Kinds, ElsewhereKeeps DEF IInv, Cross, IsRow, Refers
<1> QED BY <1>2, <1>3, <1>4, <1>5, <1>7, NothingFits, StepKeeps

LEMMA TodoTyped ==
  ASSUME NEW op, NEW c, NEW v
  PROVE  /\ Todo(op, c, v) \in Seq(Nests)
         /\ db[c] # NoRow /\ db[v] # NoRow => Todo(op, c, v) = <<>>
<1> DEFINE one(what) ==
             IF db[Nested([client |-> c, veiculo |-> v], what)] = NoRow THEN <<what>> ELSE <<>>
           inv == IF op = "consign" /\ db[v] = NoRow THEN one("investor") ELSE <<>>
<1>1. \A what \in Nests : one(what) \in Seq(Nests)
  OBVIOUS
<1>2. inv \in Seq(Nests)
  BY <1>1 DEF Nests
<1>3. Todo(op, c, v) = inv \o one("client") \o one("vehicle")
  BY DEF Todo
<1>4. one("client") \in Seq(Nests) /\ one("vehicle") \in Seq(Nests)
  BY <1>1 DEF Nests
<1>5. db[c] # NoRow /\ db[v] # NoRow => inv = <<>> /\ one("client") = <<>> /\ one("vehicle") = <<>>
  BY DEF Nested
<1> HIDE DEF one, inv
<1>6. inv \o one("client") \o one("vehicle") \in Seq(Nests)
  BY <1>2, <1>4
<1>7. <<>> \o <<>> \o <<>> = <<>>
  OBVIOUS
<1> QED BY <1>3, <1>5, <1>6, <1>7

LEMMA InputTyped == \A i \in Inputs : i.valor \in Values /\ i.dia \in Values
  BY StockAssumption

LEMMA BeginEntryKeeps ==
  ASSUME IInv, NEW r \in Requests, BeginEntry(r)
  PROVE  IInv'
<1>1. PICK op \in {"buy", "consign"}, e \in Entries, k \in Keys, c \in Clients,
           v \in Vehicles, i \in Inputs, d \in Donos :
        LET row  == [compra |-> op = "buy", key |-> k, veiculo |-> v,
                     valor |-> i.valor, dia |-> i.dia]
            todo == Todo(op, c, v)
        IN  /\ Free(e) /\ ~KeyTaken(row)
            /\ Begins(r,
                 [NoTx EXCEPT !.op = op, !.entry = e, !.client = c, !.veiculo = v, !.row = row,
                              !.todo = todo, !.nested = (db[c] = NoRow \/ db[v] = NoRow),
                              !.seen = [dono |-> IF op = "buy" THEN d ELSE Consignado]],
                 IF todo = <<>> THEN "insert" ELSE "nested")
  BY DEF BeginEntry
<1> DEFINE row == [compra |-> op = "buy", key |-> k, veiculo |-> v,
                   valor |-> i.valor, dia |-> i.dia]
           todo == Todo(op, c, v)
           new == db[c] = NoRow \/ db[v] = NoRow
           seen == [dono |-> IF op = "buy" THEN d ELSE Consignado]
           t == [NoTx EXCEPT !.op = op, !.entry = e, !.client = c, !.veiculo = v, !.row = row,
                             !.todo = todo, !.nested = new, !.seen = seen]
           p == IF todo = <<>> THEN "insert" ELSE "nested"
<1>2. Free(e) /\ Begins(r, t, p)
  BY <1>1
<1>3. row \in EntryRows /\ row.veiculo = v
  BY InputTyped DEF EntryRows
<1>4. seen \in VehicleRows
  BY DEF VehicleRows
<1>5. todo \in Seq(Nests) /\ (~new => todo = <<>>)
  BY TodoTyped
<1>6. new \in BOOLEAN
  OBVIOUS
<1>7. p \in Places /\ p # "idle" /\ p \in {"insert", "nested"} /\ (p = "nested" => todo # <<>>)
  BY DEF Places
<1> HIDE DEF row, todo, new, seen, p
<1>8. t \in TxTypes
  BY <1>3, <1>4, <1>5, <1>6 DEF TxTypes, NoTx, AllOps
<1>9. /\ t.op = op /\ t.entry = e /\ t.client = c /\ t.veiculo = v /\ t.row = row
      /\ t.todo = todo /\ t.nested = new /\ t.seen = seen
  BY DEF NoTx
<1> HIDE DEF t
<1>10. \A x \in Vehicles \cup Entries \cup Clients : Nothing[x] = Untouched
  BY NothingFits, Kinds
<1>11. Carries(t, p, Nothing)
  BY <1>3, <1>4, <1>5, <1>7, <1>9, <1>10, Kinds DEF Carries, Creates, Moves, Erases
<1>12. db[t.entry] = NoRow /\ \A q \in Requests : tx[q].entry # t.entry
  BY <1>2, <1>9 DEF Free
<1> QED BY <1>2, <1>7, <1>8, <1>11, <1>12, BeginKeeps

LEMMA BeginUpdateKeeps ==
  ASSUME IInv, NEW r \in Requests, BeginUpdate(r)
  PROVE  IInv'
<1>1. PICK op \in {"update", "json_update"}, e \in Entries, v \in Vehicles, i \in Inputs :
        /\ db[e] # NoRow
        /\ Begins(r,
             [NoTx EXCEPT !.op = op, !.entry = e, !.veiculo = v, !.old = db[e],
                          !.row = [db[e] EXCEPT !.veiculo = v, !.valor = i.valor,
                                                !.dia = i.dia]],
             "update")
  BY DEF BeginUpdate
<1> DEFINE old == db[e]
           row == [old EXCEPT !.veiculo = v, !.valor = i.valor, !.dia = i.dia]
           t == [NoTx EXCEPT !.op = op, !.entry = e, !.veiculo = v, !.old = old, !.row = row]
<1>2. Begins(r, t, "update")
  BY <1>1
<1>3. old \in EntryRows
  BY <1>1, Kinds DEF IInv, Typed, TypeStock
<1> HIDE DEF old
<1>4. row \in EntryRows /\ row.key = old.key /\ row.compra = old.compra /\ row.veiculo = v
  BY <1>3, InputTyped DEF EntryRows
<1> HIDE DEF row
<1>5. t \in TxTypes
  BY <1>3, <1>4, NoTxTyped DEF TxTypes, AllOps
<1>6. /\ t.op = op /\ t.entry = e /\ t.veiculo = v /\ t.row = row /\ t.old = old
  BY DEF NoTx
<1> HIDE DEF t
<1>7. \A x \in Vehicles \cup Entries \cup Clients : Nothing[x] = Untouched
  BY NothingFits, Kinds
<1>8. Carries(t, "update", Nothing)
  BY <1>3, <1>4, <1>6, <1>7, Kinds DEF Carries, Creates, Moves, Erases
<1>9. ~Creates(t) /\ db[t.entry] # NoRow
  BY <1>1, <1>6 DEF Creates
<1> QED BY <1>2, <1>5, <1>8, <1>9, BeginKeeps DEF Places

LEMMA BeginDeleteKeeps ==
  ASSUME IInv, NEW r \in Requests, BeginDelete(r)
  PROVE  IInv'
<1>1. PICK op \in {"delete", "json_delete"}, e \in Entries :
        /\ db[e] # NoRow
        /\ Begins(r,
             [NoTx EXCEPT !.op = op, !.entry = e, !.veiculo = db[e].veiculo, !.old = db[e],
                          !.row = db[e], !.seen = db[db[e].veiculo]],
             "erase")
  BY DEF BeginDelete
<1> DEFINE old == db[e]
           v == db[e].veiculo
           seen == db[v]
           t == [NoTx EXCEPT !.op = op, !.entry = e, !.veiculo = v, !.old = old, !.row = old,
                             !.seen = seen]
<1>2. Begins(r, t, "erase")
  BY <1>1
<1>3. old \in EntryRows
  BY <1>1, Kinds DEF IInv, Typed, TypeStock
<1>4. v \in Vehicles
  BY <1>3 DEF EntryRows
<1>5. seen \in VehicleRows
  <2>1. Refers(db[e], v)
    BY <1>3, Kinds DEF Refers
  <2>2. seen # NoRow
    BY <2>1, <1>4 DEF IInv, VehicleIsThere
  <2>3. \A w \in Vehicles : db[w] \in VehicleRows \cup {NoRow}
    BY Kinds DEF IInv, Typed, TypeStock
  <2> QED BY <2>2, <2>3, <1>4
<1> HIDE DEF old, v, seen
<1>6. t \in TxTypes
  BY <1>3, <1>4, <1>5, NoTxTyped DEF TxTypes, AllOps
<1>7. /\ t.op = op /\ t.entry = e /\ t.veiculo = v /\ t.row = old /\ t.old = old
      /\ t.seen = seen
  BY DEF NoTx
<1> HIDE DEF t
<1>8. \A x \in Vehicles \cup Entries \cup Clients : Nothing[x] = Untouched
  BY NothingFits, Kinds
<1>9. Carries(t, "erase", Nothing)
  BY <1>3, <1>4, <1>5, <1>7, <1>8, Kinds DEF Carries, Creates, Moves, Erases
<1>10. ~Creates(t) /\ db[t.entry] # NoRow
  BY <1>1, <1>7 DEF Creates
<1> QED BY <1>2, <1>6, <1>9, <1>10, BeginKeeps DEF Places

LEMMA BeginVehicleKeeps ==
  ASSUME IInv, NEW r \in Requests, BeginVehicle(r)
  PROVE  IInv'
<1>1. PICK op \in {"register", "edit", "drop"}, v \in Vehicles, d \in Donos :
        Begins(r, [NoTx EXCEPT !.op = op, !.veiculo = v, !.seen = [dono |-> d]],
               IF op = "drop" THEN "dropcash" ELSE op)
  BY DEF BeginVehicle
<1> DEFINE seen == [dono |-> d]
           t == [NoTx EXCEPT !.op = op, !.veiculo = v, !.seen = seen]
           p == IF op = "drop" THEN "dropcash" ELSE op
<1>2. Begins(r, t, p)
  BY <1>1
<1>3. seen \in VehicleRows
  BY DEF VehicleRows
<1> HIDE DEF seen
<1>4. t \in TxTypes
  BY <1>3, NoTxTyped DEF TxTypes, AllOps
<1>5. t.op = op /\ t.entry = None /\ t.veiculo = v /\ t.seen = seen /\ t.todo = <<>>
  BY DEF NoTx
<1>6. p \in {"register", "edit", "dropcash"} /\ (p # "dropcash" => p = op) /\ (p = "dropcash" => op = "drop")
  OBVIOUS
<1> HIDE DEF t, p
<1>7. \A x \in Vehicles \cup Entries \cup Clients : Nothing[x] = Untouched
  BY NothingFits, Kinds
<1>8. Carries(t, p, Nothing)
  BY <1>3, <1>5, <1>6, <1>7, Kinds DEF Carries, Creates, Moves, Erases
<1>9. ~Creates(t)
  BY <1>5 DEF Creates
<1> QED BY <1>2, <1>4, <1>5, <1>6, <1>8, <1>9, BeginKeeps DEF Places

LEMMA RequestTyped ==
  ASSUME IInv, NEW r \in Requests
  PROVE  /\ tx[r] \in TxTypes /\ Carries(tx[r], pc[r], own[r]) /\ Fits(own[r])
         /\ \A v \in Vehicles : db[v] \in VehicleRows \cup {NoRow}
         /\ \A e \in Entries : db[e] \in EntryRows \cup {NoRow}
  BY Kinds DEF IInv, Typed, TypeStock, Carried, Fits

LEMMA WrittenFits ==
  ASSUME NEW o, Fits(o), NEW x \in Things, NEW row \in RowsOf(x) \cup {NoRow}
  PROVE  /\ Fits([o EXCEPT ![x] = row])
         /\ [o EXCEPT ![x] = row][x] = row
         /\ \A y : y # x => [o EXCEPT ![x] = row][y] = o[y]
<1>1. row \in AllRows
  BY Kinds DEF AllRows
<1> QED BY <1>1 DEF Fits

LEMMA InsertNestedKeeps ==
  ASSUME IInv, NEW r \in Requests, WaitsFor(r) = {}, InsertNested(r)
  PROVE  IInv'
<1> DEFINE todo == tx[r].todo
           what == Head(todo)
           x == Nested(tx[r], what)
           row == NestedRow(tx[r], what)
           t == [tx[r] EXCEPT !.todo = Tail(@)]
           w == IF Len(todo) = 1 THEN "insert" ELSE "nested"
           o == [own[r] EXCEPT ![x] = row]
<1>1. pc[r] = "nested" /\ Writes(r, x, row, t, w)
  BY DEF InsertNested
<1>2. /\ tx[r] \in TxTypes /\ Carries(tx[r], "nested", own[r]) /\ Fits(own[r])
  BY <1>1, RequestTyped
<1>3. todo \in Seq(Nests) /\ todo # <<>>
  BY <1>2 DEF TxTypes, Carries
<1>4. what \in Nests /\ Tail(todo) \in Seq(Nests) /\ w \in {"insert", "nested"}
      /\ (w = "nested" => Tail(todo) # <<>>)
  <2> HIDE DEF todo
  <2>1. what \in Nests /\ Tail(todo) \in Seq(Nests) /\ Len(todo) \in Nat \ {0}
    BY <1>3
  <2>2. w = "nested" => Len(Tail(todo)) # 0
    BY <2>1, <1>3
  <2>3. Len(<<>>) = 0
    OBVIOUS
  <2>4. w = "nested" => Tail(todo) # <<>>
    <3> HIDE DEF w
    <3> QED BY <2>2, <2>3
  <2>5. w \in {"insert", "nested"}
    OBVIOUS
  <2> HIDE DEF what, w
  <2> QED BY <2>1, <2>4, <2>5
<1>5. /\ Creates(tx[r]) /\ tx[r].client \in Clients /\ tx[r].veiculo \in Vehicles
      /\ tx[r].seen \in VehicleRows /\ tx[r].nested = TRUE
  BY <1>2, <1>3 DEF Carries, TxTypes
<1>6. x \in Things /\ row \in RowsOf(x) /\ x \notin Entries
      /\ x \in {Consignado, tx[r].client, tx[r].veiculo}
  <2>1. CASE what = "investor"
    BY <2>1, Kinds DEF Nested, NestedRow, Here
  <2>2. CASE what = "client"
    BY <2>2, <1>5, Kinds DEF Nested, NestedRow, Here
  <2>3. CASE what = "vehicle"
    BY <2>3, <1>5, Kinds DEF Nested, NestedRow
  <2> QED BY <2>1, <2>2, <2>3, <1>4 DEF Nests
<1>7. RowWaits(r, x) = {}
  BY <1>1, Unblocked
<1>8. row # NoRow /\ row # Untouched
  BY <1>6, Kinds DEF RowsOf
<1> HIDE DEF todo, what, x, row, w
<1>9. t \in TxTypes
  BY <1>2, <1>4 DEF TxTypes, todo
<1>10. /\ t.todo = Tail(todo) /\ t.op = tx[r].op /\ t.entry = tx[r].entry
       /\ t.client = tx[r].client /\ t.veiculo = tx[r].veiculo /\ t.row = tx[r].row
       /\ t.old = tx[r].old /\ t.seen = tx[r].seen /\ t.nested = tx[r].nested
  BY <1>2 DEF TxTypes, todo
<1>11. Step(r, t, w, o) /\ UNCHANGED <<db, drift>>
  BY <1>1, <1>6, <1>9, WritesIsStep DEF IInv
<1> HIDE DEF t
<1>12. Fits(o) /\ o[x] = row /\ \A y : y # x => o[y] = own[r][y]
  BY <1>2, <1>6, WrittenFits
<1> HIDE DEF o
<1>13. Carries(t, w, o)
  <2>1. \A e \in Entries : o[e] = Untouched
    BY <1>2, <1>6, <1>12 DEF Carries
  <2>2. \A y \in Clients \cup Vehicles : o[y] # NoRow
    BY <1>2, <1>8, <1>12 DEF Carries
  <2> QED BY <1>2, <1>4, <1>5, <1>10, <2>1, <2>2 DEF Carries, Creates, Moves, Erases
<1>14. Fresh'
  BY <1>10, <1>11, SameEntryFresh
<1>15. Cross'
  <2>1. Creates(t)
    BY <1>5, <1>10 DEF Creates
  <2>2. CASE x \in Vehicles
    BY <2>1, <2>2, <1>1, <1>7, <1>8, <1>11, <1>12, VehicleWritten DEF IInv, Cross, IsRow
  <2>3. CASE x \notin Vehicles
    <3>1. \A y \in Vehicles \cup Entries : o[y] = own[r][y]
      BY <2>3, <1>6, <1>12
    <3>2. \A v \in Vehicles : o[v] # NoRow
      BY <1>2, <3>1 DEF Carries
    <3> QED BY <2>1, <3>1, <3>2, <1>1, <1>11, ElsewhereKeeps DEF IInv, Cross
  <2> QED BY <2>2, <2>3
<1> QED BY <1>4, <1>9, <1>11, <1>12, <1>13, <1>14, <1>15, StepKeeps DEF Places

LEMMA RefusalKeeps ==
  ASSUME IInv, NEW r \in Requests, Refuse(r)
  PROVE  IInv'
<1>1. pc[r] = "insert" /\ (Rollback(r) \/ Publish(r))
  BY DEF Refuse
<1> QED BY <1>1, RollbackKeeps, PublishKeeps

LEMMA InsertKeeps ==
  ASSUME IInv, NEW r \in Requests, WaitsFor(r) = {}, Insert(r)
  PROVE  IInv'
<1>1. CASE InsertFails(r)
  BY <1>1, RollbackKeeps DEF Insert
<1>2. CASE ~InsertFails(r)
  <2> DEFINE e == tx[r].entry
             v == tx[r].veiculo
             row == tx[r].row
             seen == View(r, v)
             t == [tx[r] EXCEPT !.seen = seen]
             w == IF row.compra THEN "cost" ELSE "commit"
             o == [own[r] EXCEPT ![e] = row]
  <2>1. pc[r] = "insert" /\ Writes(r, e, row, t, w)
    BY <1>2 DEF Insert
  <2>2. /\ tx[r] \in TxTypes /\ Carries(tx[r], "insert", own[r]) /\ Fits(own[r])
    BY <2>1, RequestTyped
  <2>3. /\ Creates(tx[r]) /\ e \in Entries /\ v \in Vehicles /\ row \in EntryRows
        /\ \A f \in Entries : own[r][f] = Untouched
    BY <2>2 DEF Carries
  <2>4. seen # NoRow /\ ~KeyTaken(row)
    BY <1>2 DEF InsertFails
  <2>5. seen \in VehicleRows
    BY <2>3, <2>4, Kinds, RequestTyped DEF View, Fits
  <2>6. KeyWaits(r, row) = {} /\ PinWaits(r, v) = {}
    BY <2>1, Unblocked
  <2>7. w \in {"cost", "commit"}
    OBVIOUS
  <2>8. row # NoRow /\ row # Untouched /\ e \in Things /\ row \in RowsOf(e)
    BY <2>3, Kinds
  <2> HIDE DEF e, v, row, seen, w
  <2>9. t \in TxTypes
    BY <2>2, <2>5 DEF TxTypes
  <2>10. /\ t.todo = tx[r].todo /\ t.op = tx[r].op /\ t.entry = e /\ t.veiculo = v
         /\ t.old = tx[r].old /\ t.seen = seen /\ t.nested = tx[r].nested
    BY <2>2 DEF TxTypes, e, v
  <2>11. Step(r, t, w, o) /\ UNCHANGED <<db, drift>>
    BY <2>1, <2>8, <2>9, WritesIsStep DEF IInv
  <2> HIDE DEF t
  <2>12. Fits(o) /\ o[e] = row /\ \A y : y # e => o[y] = own[r][y]
    BY <2>2, <2>8, WrittenFits
  <2> HIDE DEF o
  <2>13. Carries(t, w, o)
    <3>1. \A f \in Entries : o[f] # Untouched => f = e
      BY <2>3, <2>12
    <3>2. \A y \in Clients \cup Vehicles : o[y] = own[r][y] /\ own[r][y] # NoRow
      BY <2>2, <2>3, <2>12, Kinds DEF Carries
    <3>3. IsRow(o[e])
      BY <2>8, <2>12 DEF IsRow
    <3>4. Creates(tx[r]) => ~Moves(t) /\ ~Erases(t)
      BY <2>10 DEF Creates, Moves, Erases
    <3> QED BY <2>2, <2>3, <2>5, <2>7, <2>10, <3>1, <3>2, <3>3, <3>4 DEF Carries, Creates
  <2>14. Fresh'
    BY <2>10, <2>11, SameEntryFresh DEF e
  <2>15. RowWaits(r, e) = {}
    <3>1. \A q \in Others(r) : tx[q].entry # e
      BY <2>3 DEF IInv, Fresh, e
    <3>2. \A q \in Others(r) : own[q][e] = Untouched
      BY <2>3, <3>1 DEF IInv, Carried, Carries, Others
    <3> QED BY <3>2 DEF RowWaits
  <2>16. ASSUME NEW f \in Entries, f # e, NEW b \in Versions(f)
         PROVE  /\ IsRow(b) => ~SameKey(row, b)
                /\ ~SameKey(b, row)
    <3>1. ~SameKey(db[f], row)
      BY <2>4 DEF KeyTaken
    <3>2. \A q \in Others(r) : ~SameKey(own[q][f], row)
      BY <2>6 DEF KeyWaits
    <3>3. ~SameKey(own[r][f], row)
      BY <2>3 DEF SameKey
    <3>4. ~SameKey(b, row)
      BY <3>1, <3>2, <3>3 DEF Versions, Others
    <3> QED BY <3>4, <2>8 DEF SameKey, IsRow
  <2>17. ASSUME NEW u \in Vehicles, Refers(row, u)
         PROVE  View(r, u) # NoRow /\ \A q \in Others(r) : own[q][u] # NoRow
    <3>1. u = v
      <4>1. row.veiculo = v
        BY <2>2 DEF Carries, row, v
      <4> QED BY <4>1, <2>17 DEF Refers
    <3> QED BY <3>1, <2>4, <2>6 DEF PinWaits, seen
  <2>18. Cross'
    <3>1. \A u \in Vehicles : own[r][u] # NoRow
      BY <2>2 DEF Carries
    <3>2. Creates(t)
      BY <2>3, <2>10 DEF Creates
    <3> QED BY <3>1, <3>2, <2>1, <2>3, <2>11, <2>12, <2>15, <2>16, <2>17, EntryWritten
            DEF IInv, Cross
  <2> QED BY <2>7, <2>9, <2>11, <2>12, <2>13, <2>14, <2>18, StepKeeps DEF Places
<1> QED BY <1>1, <1>2

\* What was merged is a row of the same key and kind, on the vehicle asked for
\* or, when none was, on the one it was on.
LEMMA MergedTyped ==
  ASSUME NEW new \in EntryRows, NEW old \in EntryRows, NEW now \in EntryRows,
         new.key = old.key, new.compra = old.compra
  PROVE  LET row == Merged(new, old, now)
         IN  /\ row \in EntryRows /\ row.key = now.key /\ row.compra = now.compra
             /\ row.veiculo = IF new.veiculo # old.veiculo THEN new.veiculo ELSE now.veiculo
<1> DEFINE row == Merged(new, old, now)
<1>1. DOMAIN now = {"compra", "key", "veiculo", "valor", "dia"}
  BY DEF EntryRows
<1>2. row = [f \in {"compra", "key", "veiculo", "valor", "dia"} |->
               IF new[f] # old[f] THEN new[f] ELSE now[f]]
  BY <1>1 DEF Merged
<1>3. /\ row.key = now.key /\ row.compra = now.compra
      /\ row.veiculo = IF new.veiculo # old.veiculo THEN new.veiculo ELSE now.veiculo
      /\ row.valor = IF new.valor # old.valor THEN new.valor ELSE now.valor
      /\ row.dia = IF new.dia # old.dia THEN new.dia ELSE now.dia
  BY <1>2
<1>4. row = [compra |-> row.compra, key |-> row.key, veiculo |-> row.veiculo,
             valor |-> row.valor, dia |-> row.dia]
  <2> DEFINE s == [compra |-> row.compra, key |-> row.key, veiculo |-> row.veiculo,
                   valor |-> row.valor, dia |-> row.dia]
  <2>1. \A f \in {"compra", "key", "veiculo", "valor", "dia"} : row[f] = s[f]
    OBVIOUS
  <2>2. DOMAIN s = {"compra", "key", "veiculo", "valor", "dia"}
    OBVIOUS
  <2>3. s = [f \in {"compra", "key", "veiculo", "valor", "dia"} |-> s[f]]
    BY <2>2
  <2>4. row = [f \in {"compra", "key", "veiculo", "valor", "dia"} |-> row[f]]
    BY <1>2
  <2> HIDE DEF row, s
  <2>5. row = s
    BY <2>1, <2>3, <2>4
  <2> QED BY <2>5 DEF s
<1> HIDE DEF row
<1>5. row \in EntryRows
  <2>1. /\ row.compra \in BOOLEAN /\ row.key \in Keys /\ row.veiculo \in Vehicles
        /\ row.valor \in Values /\ row.dia \in Values
    BY <1>3 DEF EntryRows
  <2> QED BY <1>4, <2>1 DEF EntryRows
<1> QED BY <1>3, <1>5 DEF row

LEMMA UpdateKeeps ==
  ASSUME IInv, NEW r \in Requests, WaitsFor(r) = {}, Update(r)
  PROVE  IInv'
<1>1. CASE UpdateFails(r)
  BY <1>1, RollbackKeeps DEF Update
<1>2. CASE ~UpdateFails(r)
  <2> DEFINE e == tx[r].entry
             new == tx[r].row
             old == tx[r].old
             now == db[e]
             row == Merged(new, old, now)
             v == row.veiculo
             seen == db[v]
             t == [tx[r] EXCEPT !.veiculo = v, !.row = row, !.seen = seen]
             w == AfterEntry(r)
             o == [own[r] EXCEPT ![e] = row]
  <2>1. pc[r] = "update"
    BY DEF Update
  <2>2. /\ tx[r] \in TxTypes /\ Carries(tx[r], "update", own[r]) /\ Fits(own[r])
    BY <2>1, RequestTyped
  <2>3. /\ Moves(tx[r]) /\ e \in Entries /\ new \in EntryRows /\ old \in EntryRows
        /\ new.key = old.key /\ new.compra = old.compra /\ new.veiculo = tx[r].veiculo
        /\ tx[r].veiculo \in Vehicles /\ own[r] = Nothing
    BY <2>2 DEF Carries
  <2>4. now \in EntryRows
    BY <1>2, <2>3, RequestTyped DEF UpdateFails
  <2>5. /\ row \in EntryRows /\ row.key = now.key /\ row.compra = now.compra
        /\ v = IF new.veiculo # old.veiculo THEN new.veiculo ELSE now.veiculo
    BY <2>3, <2>4, MergedTyped
  <2>6. IF new = old THEN Goes(r, t, w) ELSE Writes(r, e, row, t, w)
    BY <1>2 DEF Update
  <2>7. w \in {"status", "cost", "commit"} /\ (w = "status" => tx[r].op = "update")
    <3>1. tx[r].op \in {"update", "json_update"}
      BY <2>3 DEF Moves
    <3>2. tx[r].op = "json_update" => Json(r)
      BY DEF Json
    <3> QED BY <3>1, <3>2 DEF AfterEntry
  <2>8. v \in Vehicles
    BY <2>5 DEF EntryRows
  <2>9. row # NoRow /\ row # Untouched /\ e \in Things /\ row \in RowsOf(e)
    BY <2>3, <2>5, Kinds
  <2>10. Refers(now, now.veiculo)
    BY <2>4, Kinds DEF Refers
  <2>11. seen # NoRow
    <3>1. CASE new.veiculo # old.veiculo
      BY <1>2, <2>3, <2>5, <3>1 DEF UpdateFails
    <3>2. CASE new.veiculo = old.veiculo
      <4>1. v = now.veiculo
        BY <2>5, <3>2
      <4> QED BY <2>3, <2>8, <2>10, <4>1 DEF IInv, VehicleIsThere
    <3> QED BY <3>1, <3>2
  <2>12. seen \in VehicleRows
    BY <2>8, <2>11, RequestTyped
  <2> HIDE DEF e, new, old, now, row, v, seen, w
  <2>13. t \in TxTypes
    <3> DEFINE t1 == [tx[r] EXCEPT !.veiculo = v]
               t2 == [t1 EXCEPT !.row = row]
               t3 == [t2 EXCEPT !.seen = seen]
    <3>1. t1 \in TxTypes
      BY <2>2, <2>8 DEF TxTypes
    <3>2. t2 \in TxTypes
      <4> HIDE DEF t1
      <4> QED BY <3>1, <2>5 DEF TxTypes
    <3>3. t3 \in TxTypes
      <4> HIDE DEF t2
      <4> QED BY <3>2, <2>12 DEF TxTypes
    <3>4. t = t3
      OBVIOUS
    <3> QED BY <3>3, <3>4
  <2>14. /\ t.todo = tx[r].todo /\ t.op = tx[r].op /\ t.entry = e /\ t.veiculo = v
         /\ t.old = old /\ t.seen = seen /\ t.nested = tx[r].nested /\ t.row = row
    BY <2>2 DEF TxTypes, e, old
  <2> HIDE DEF t
  <2>15. \A x \in Vehicles \cup Entries \cup Clients : own[r][x] = Untouched
    BY <2>3, NothingFits, Kinds
  <2>16. ASSUME NEW p, \A f \in Entries : p[f] # Untouched => f = e,
                \A x \in Clients \cup Vehicles : p[x] = Untouched
         PROVE  Carries(t, w, p)
    <3>1. tx[r].op \in {"update", "json_update"}
      BY <2>3 DEF Moves
    <3>2. ~Creates(t) /\ t.op \in {"update", "json_update"}
      BY <3>1, <2>14 DEF Creates
    <3> QED BY <2>3, <2>5, <2>7, <2>8, <2>12, <2>14, <2>16, <3>2, Kinds DEF Carries
  <2>17. CASE new = old
    <3>1. Step(r, t, w, own[r]) /\ UNCHANGED <<db, drift>>
      BY <2>6, <2>13, <2>17, GoesIsStep DEF IInv
    <3>2. Carries(t, w, own[r])
      BY <2>15, <2>16
    <3>3. w \in Places
      BY <2>7 DEF Places
    <3> QED BY <2>1, <2>13, <2>14, <3>1, <3>2, <3>3, QuietKeeps DEF e
  <2>18. CASE new # old
    <3>1. Step(r, t, w, o) /\ UNCHANGED <<db, drift>>
      BY <2>6, <2>9, <2>13, <2>18, WritesIsStep DEF IInv
    <3>2. Fits(o) /\ o[e] = row /\ \A y : y # e => o[y] = own[r][y]
      BY <2>2, <2>9, WrittenFits
    <3> HIDE DEF o
    <3>3. Carries(t, w, o)
      BY <2>3, <2>15, <2>16, <3>2, Kinds
    <3>4. Fresh'
      BY <2>14, <3>1, SameEntryFresh DEF e
    <3>5. RowWaits(r, e) = {}
      BY <2>1, <2>18, Unblocked DEF e, new, old
    <3>6. new.veiculo # old.veiculo => PinWaits(r, new.veiculo) = {}
      BY <2>1, <2>3, <2>18, Unblocked DEF new, old
    <3>7. ASSUME NEW f \in Entries, f # e, NEW b \in Versions(f)
          PROVE  /\ IsRow(b) => ~SameKey(row, b)
                 /\ ~SameKey(b, row)
      <4>1. now \in Versions(e)
        BY DEF Versions, now
      <4>2. IsRow(b) => ~SameKey(now, b)
        BY <3>7, <4>1, <2>3 DEF IInv, OneKey
      <4>3. IsRow(now) /\ now # Untouched /\ now # NoRow
        BY <2>4, Kinds DEF IsRow
      <4>4. ~SameKey(b, now)
        BY <3>7, <4>1, <4>3, <2>3 DEF IInv, OneKey
      <4> QED BY <2>5, <2>9, <4>2, <4>3, <4>4 DEF SameKey
    <3>8. ASSUME NEW u \in Vehicles, Refers(row, u)
          PROVE  View(r, u) # NoRow /\ \A q \in Others(r) : own[q][u] # NoRow
      <4>1. u = v
        BY <3>8 DEF Refers, v
      <4>2. View(r, u) # NoRow
        BY <4>1, <2>8, <2>11, <2>15 DEF View, seen
      <4>3. CASE new.veiculo # old.veiculo
        <5>1. v = new.veiculo
          BY <2>5, <4>3
        <5> QED BY <3>6, <4>1, <4>2, <4>3, <5>1 DEF PinWaits
      <4>4. CASE new.veiculo = old.veiculo
        <5>1. v = now.veiculo
          BY <2>5, <4>4
        <5>2. ASSUME NEW q \in Others(r), own[q][u] = NoRow PROVE FALSE
          <6>1. own[q][e] = Untouched
            BY <3>5 DEF RowWaits
          <6>2. View(q, e) = now
            BY <6>1 DEF View, now
          <6>3. ~Refers(View(q, e), u)
            BY <2>3, <5>2 DEF IInv, Dropped, Others
          <6> QED BY <2>10, <4>1, <5>1, <6>2, <6>3
        <5> QED BY <4>2, <5>2
      <4> QED BY <4>3, <4>4
    <3>9. Cross'
      <4>1. \A u \in Vehicles : own[r][u] # NoRow
        BY <2>15, Kinds
      <4>2. ~Creates(tx[r])
        BY <2>3 DEF Creates, Moves
      <4> QED BY <4>1, <4>2, <2>1, <2>3, <3>1, <3>2, <3>5, <3>7, <3>8, EntryWritten
              DEF IInv, Cross
    <3>10. w \in Places
      BY <2>7 DEF Places
    <3> QED BY <2>13, <3>1, <3>2, <3>3, <3>4, <3>9, <3>10, StepKeeps
  <2> QED BY <2>17, <2>18
<1> QED BY <1>1, <1>2

LEMMA EraseKeeps ==
  ASSUME IInv, NEW r \in Requests, WaitsFor(r) = {}, Erase(r)
  PROVE  IInv'
<1> DEFINE e == tx[r].entry
           t == tx[r]
           w == IF ~Json(r) THEN IF tx[r].row.compra THEN "dropcash" ELSE "drop"
                ELSE IF tx[r].row.compra THEN "cost" ELSE "commit"
           o == [own[r] EXCEPT ![e] = NoRow]
<1>1. pc[r] = "erase" /\ Writes(r, e, NoRow, t, w)
  BY DEF Erase
<1>2. /\ t \in TxTypes /\ Carries(t, "erase", own[r]) /\ Fits(own[r])
  BY <1>1, RequestTyped
<1>3. /\ Erases(t) /\ e \in Entries /\ t.seen \in VehicleRows /\ t.veiculo \in Vehicles
      /\ own[r] = Nothing
  BY <1>2 DEF Carries
<1>4. w \in {"dropcash", "drop", "cost", "commit"}
      /\ (w \in {"dropcash", "drop"} => t.op = "delete")
  BY <1>3 DEF Erases, Json
<1>5. e \in Things
  BY <1>3, Kinds
<1> HIDE DEF e, w
<1>6. Step(r, t, w, o) /\ UNCHANGED <<db, drift>>
  BY <1>1, <1>2, <1>5, WritesIsStep DEF IInv
<1>7. Fits(o) /\ o[e] = NoRow /\ \A y : y # e => o[y] = own[r][y]
  BY <1>2, <1>5, WrittenFits
<1> HIDE DEF o
<1>8. \A x \in Vehicles \cup Entries \cup Clients : own[r][x] = Untouched
  BY <1>3, NothingFits, Kinds
<1>9. Carries(t, w, o)
  <2>1. ~Creates(t) /\ ~Moves(t)
    BY <1>3 DEF Creates, Moves, Erases
  <2>2. \A f \in Entries : o[f] # Untouched => f = t.entry
    BY <1>7, <1>8 DEF e
  <2>3. \A x \in Clients \cup Vehicles : o[x] # NoRow
    BY <1>3, <1>7, <1>8, Kinds
  <2> QED BY <1>3, <1>4, <2>1, <2>2, <2>3 DEF Carries
<1>10. Fresh'
  BY <1>6, SameEntryFresh
<1>11. RowWaits(r, e) = {}
  BY <1>1, Unblocked DEF e
<1>12. Cross'
  <2>1. \A b : ~SameKey(NoRow, b) /\ ~IsRow(NoRow) /\ ~Refers(NoRow, b)
    BY DEF SameKey, IsRow, Refers
  <2>2. ~Creates(t)
    BY <1>3 DEF Creates, Erases
  <2>3. \A u \in Vehicles : own[r][u] # NoRow
    BY <1>8, Kinds
  <2> QED BY <1>1, <1>3, <1>6, <1>7, <1>11, <2>1, <2>2, <2>3, EntryWritten DEF IInv, Cross
<1>13. w \in Places
  BY <1>4 DEF Places
<1> QED BY <1>2, <1>6, <1>7, <1>9, <1>10, <1>12, <1>13, StepKeeps

LEMMA SyncStatusKeeps ==
  ASSUME IInv, NEW r \in Requests, WaitsFor(r) = {}, SyncStatus(r)
  PROVE  IInv'
<1> DEFINE v == tx[r].veiculo
           w == IF tx[r].row.compra THEN "cost" ELSE "commit"
           t == [tx[r] EXCEPT !.forUpdate = TRUE]
           o == [own[r] EXCEPT ![v] = db[v]]
<1>1. pc[r] = "status"
  BY DEF SyncStatus
<1>2. /\ tx[r] \in TxTypes /\ Carries(tx[r], "status", own[r]) /\ Fits(own[r])
  BY <1>1, RequestTyped
<1>3. /\ tx[r].op = "update" /\ v \in Vehicles /\ tx[r].seen \in VehicleRows
  BY <1>2 DEF Carries
<1>4. w \in {"cost", "commit"} /\ w \in Places
  BY DEF Places
<1>5. IF db[v] = NoRow THEN Goes(r, tx[r], "commit") ELSE Writes(r, v, db[v], t, w)
  BY DEF SyncStatus
<1> HIDE DEF v, w
<1>6. CASE db[v] = NoRow
  <2>1. Step(r, tx[r], "commit", own[r]) /\ UNCHANGED <<db, drift>>
    BY <1>2, <1>5, <1>6, GoesIsStep DEF IInv
  <2>2. Carries(tx[r], "commit", own[r])
    BY <1>2, <1>3 DEF Carries, Creates, v
  <2> QED BY <1>1, <1>2, <2>1, <2>2, QuietKeeps DEF Places
<1>7. CASE db[v] # NoRow
  <2>1. db[v] \in VehicleRows /\ v \in Things /\ db[v] \in RowsOf(v) /\ v \notin Entries
    BY <1>3, <1>7, Kinds, RequestTyped
  <2>2. t \in TxTypes
    BY <1>2 DEF TxTypes
  <2>3. /\ t.todo = tx[r].todo /\ t.op = tx[r].op /\ t.entry = tx[r].entry
        /\ t.veiculo = v /\ t.old = tx[r].old /\ t.seen = tx[r].seen
        /\ t.nested = tx[r].nested
    BY <1>2 DEF TxTypes, v
  <2> HIDE DEF t
  <2>4. Step(r, t, w, o) /\ UNCHANGED <<db, drift>>
    BY <1>5, <1>7, <2>1, <2>2, WritesIsStep DEF IInv
  <2>5. Fits(o) /\ o[v] = db[v] /\ \A y : y # v => o[y] = own[r][y]
    BY <1>2, <2>1, WrittenFits
  <2> HIDE DEF o
  <2>6. Carries(t, w, o)
    <3>1. \A f \in Entries : o[f] # Untouched => f = t.entry
      BY <1>2, <2>1, <2>3, <2>5 DEF Carries
    <3>2. \A x \in Clients \cup Vehicles : o[x] = NoRow => FALSE
      BY <1>2, <1>7, <2>5 DEF Carries
    <3>3. ~Creates(t) /\ t.op = "update"
      BY <1>3, <2>3 DEF Creates
    <3>4. Moves(t) => t.old \in EntryRows
      BY <1>2, <1>3, <2>3 DEF Carries, Moves
    <3> QED BY <1>3, <1>4, <2>3, <3>1, <3>2, <3>3, <3>4 DEF Carries
  <2>7. Fresh'
    BY <2>3, <2>4, SameEntryFresh
  <2>8. RowWaits(r, v) = {}
    BY <1>1, Unblocked DEF v, LockWaits
  <2>9. Cross'
    <3>1. IsRow(o[v])
      BY <2>1, <2>5, Kinds DEF IsRow
    <3>2. ~Creates(tx[r])
      BY <1>3 DEF Creates
    <3> QED BY <1>1, <1>3, <1>7, <2>4, <2>5, <2>8, <3>1, <3>2, VehicleWritten DEF IInv, Cross
  <2> QED BY <1>4, <2>2, <2>4, <2>5, <2>6, <2>7, <2>9, StepKeeps
<1> QED BY <1>6, <1>7

LEMMA DropVehicleKeeps ==
  ASSUME IInv, NEW r \in Requests, WaitsFor(r) = {}, DropVehicle(r)
  PROVE  IInv'
<1> DEFINE v == tx[r].veiculo
           t == tx[r]
           o1 == [own[r] EXCEPT ![v] = NoRow]
           o == [o1 EXCEPT ![Caixa[v]] = NoRow]
<1>1. pc[r] = "drop"
  BY DEF DropVehicle
<1>2. CASE \E e \in Entries : Refers(View(r, e), v)
  BY <1>2, RollbackKeeps DEF DropVehicle
<1>3. CASE ~\E e \in Entries : Refers(View(r, e), v)
  <2>1. /\ own' = [own EXCEPT ![r][v] = NoRow, ![r][Caixa[v]] = NoRow]
        /\ pc' = [pc EXCEPT ![r] = "commit"]
        /\ UNCHANGED <<db, tx, drift>>
    BY <1>3 DEF DropVehicle
  <2>2. /\ t \in TxTypes /\ Carries(t, "drop", own[r]) /\ Fits(own[r])
    BY <1>1, RequestTyped
  <2>3. v \in Vehicles /\ t.op \in {"delete", "drop"}
    BY <2>2 DEF Carries
  <2>4. /\ v \in Things /\ Caixa[v] \in Things /\ Caixa[v] # v
        /\ Caixa[v] \notin Clients \cup Vehicles \cup Entries
        /\ v \notin Entries \cup Clients
    BY <2>3, Kinds
  <2>5. own' = [own EXCEPT ![r] = o]
    BY <2>1, <2>2 DEF IInv, Typed
  <2> HIDE DEF v
  <2>6. Fits(o1) /\ o1[v] = NoRow /\ \A y : y # v => o1[y] = own[r][y]
    BY <2>2, <2>4, WrittenFits
  <2> HIDE DEF o1
  <2>7. Fits(o) /\ \A y : y # Caixa[v] => o[y] = o1[y]
    BY <2>4, <2>6, WrittenFits
  <2> HIDE DEF o
  <2>8. Step(r, t, "commit", o)
    <3>1. /\ tx' \in [Requests -> TxTypes]
          /\ \A q \in Requests : tx'[q] = [tx[q] EXCEPT !.lone = tx'[q].lone]
      BY <2>1 DEF IInv, Typed, TxTypes
    <3> QED BY <2>1, <2>5, <3>1 DEF Step, Others
  <2>9. \A y \in Clients \cup Vehicles \cup Entries : y # v => o[y] = own[r][y]
    BY <2>4, <2>6, <2>7
  <2>10. o[v] = NoRow
    BY <2>4, <2>6, <2>7
  <2>11. Carries(t, "commit", o)
    <3>1. \A f \in Entries : o[f] # Untouched => f = t.entry
      BY <2>2, <2>4, <2>9 DEF Carries
    <3>2. \A x \in Clients \cup Vehicles : o[x] = NoRow => x \in Vehicles
      BY <2>2, <2>4, <2>9 DEF Carries
    <3>3. ~Creates(t) /\ ~Moves(t)
      BY <2>3 DEF Creates, Moves
    <3> QED BY <2>2, <2>3, <3>1, <3>2, <3>3 DEF Carries, v
  <2>12. Fresh'
    BY <2>1, <2>8, SameEntryFresh
  <2>13. LockWaits(r, v) = {}
    BY <1>1, Unblocked DEF v
  <2>14. Cross'
    <3>1. ~Creates(t)
      BY <2>3 DEF Creates
    <3> QED BY <1>1, <1>3, <2>1, <2>3, <2>8, <2>9, <2>10, <2>13, <3>1, VehicleDropped
            DEF IInv, Cross
  <2> QED BY <2>1, <2>2, <2>7, <2>8, <2>11, <2>12, <2>14, StepKeeps DEF Places
<1> QED BY <1>2, <1>3

LEMMA RegisterKeeps ==
  ASSUME IInv, NEW r \in Requests, WaitsFor(r) = {}, Register(r)
  PROVE  IInv'
<1> DEFINE v == tx[r].veiculo
           seen == tx[r].seen
           cash == [valor |-> 0, dono |-> seen.dono]
           t == [tx[r] EXCEPT !.synced = TRUE]
           o1 == [own[r] EXCEPT ![v] = seen]
           o == [o1 EXCEPT ![Caixa[v]] = cash]
<1>1. pc[r] = "register"
  BY DEF Register
<1>2. CASE db[v] # NoRow
  BY <1>2, RollbackKeeps DEF Register
<1>3. CASE db[v] = NoRow
  <2>1. /\ own' = [own EXCEPT ![r][v] = seen, ![r][Caixa[v]] = cash]
        /\ tx' = [tx EXCEPT ![r].synced = TRUE]
        /\ pc' = [pc EXCEPT ![r] = "commit"]
        /\ UNCHANGED <<db, drift>>
    BY <1>3 DEF Register
  <2>2. /\ tx[r] \in TxTypes /\ Carries(tx[r], "register", own[r]) /\ Fits(own[r])
    BY <1>1, RequestTyped
  <2>3. v \in Vehicles /\ seen \in VehicleRows /\ tx[r].op = "register" /\ own[r] = Nothing
    BY <2>2 DEF Carries
  <2>4. /\ v \in Things /\ Caixa[v] \in Things /\ Caixa[v] # v
        /\ Caixa[v] \notin Clients \cup Vehicles \cup Entries
        /\ v \notin Entries \cup Clients
        /\ RowsOf(v) = VehicleRows /\ RowsOf(Caixa[v]) = CashRows
        /\ seen # NoRow /\ seen # Untouched
    BY <2>3, Kinds
  <2>5. cash \in CashRows
    BY <2>3 DEF VehicleRows, CashRows, Values
  <2>6. cash # NoRow /\ cash # Untouched
    BY <2>5, Kinds
  <2>7. own' = [own EXCEPT ![r] = o]
    BY <2>1, <2>2 DEF IInv, Typed
  <2>8. tx' = [tx EXCEPT ![r] = t]
    BY <2>1 DEF IInv, Typed
  <2>9. t \in TxTypes
    BY <2>2 DEF TxTypes
  <2>10. /\ t.op = "register" /\ t.entry = tx[r].entry /\ t.veiculo = v
    BY <2>2, <2>3 DEF TxTypes
  <2> HIDE DEF v, seen, cash, t
  <2>11. Fits(o1) /\ o1[v] = seen /\ \A y : y # v => o1[y] = own[r][y]
    BY <2>2, <2>3, <2>4, WrittenFits
  <2> HIDE DEF o1
  <2>12. Fits(o) /\ o[Caixa[v]] = cash /\ \A y : y # Caixa[v] => o[y] = o1[y]
    BY <2>4, <2>5, <2>11, WrittenFits
  <2> HIDE DEF o
  <2>13. Step(r, t, "commit", o)
    <3>1. tx' \in [Requests -> TxTypes] /\ tx'[r] = t
      BY <2>8, <2>9 DEF IInv, Typed
    <3>2. \A q \in Others(r) : tx'[q] = tx[q] /\ tx[q] = [tx[q] EXCEPT !.lone = tx[q].lone]
      BY <2>8 DEF IInv, Typed, TxTypes, Others
    <3> QED BY <2>1, <2>7, <3>1, <3>2 DEF Step
  <2>14. \A y \in Clients \cup Vehicles \cup Entries : y # v => o[y] = own[r][y]
    BY <2>4, <2>11, <2>12
  <2>15. IsRow(o[v]) /\ IsRow(o[Caixa[v]])
    BY <2>4, <2>6, <2>11, <2>12 DEF IsRow
  <2>16. \A x \in Vehicles \cup Entries \cup Clients : own[r][x] = Untouched
    BY <2>3, NothingFits, Kinds
  <2>17. Carries(t, "commit", o)
    <3>1. \A f \in Entries : o[f] # Untouched => f = t.entry
      BY <2>4, <2>14, <2>16
    <3>2. \A x \in Clients \cup Vehicles : o[x] = NoRow => x \in Vehicles
      BY <2>4, <2>14, <2>16, Kinds
    <3>3. ~Creates(t) /\ ~Moves(t)
      BY <2>10 DEF Creates, Moves
    <3> QED BY <2>3, <2>10, <3>1, <3>2, <3>3 DEF Carries
  <2>18. Fresh'
    BY <2>1, <2>3, <2>10, <2>13, SameEntryFresh
  <2>19. RowWaits(r, v) = {}
    BY <1>1, Unblocked DEF v
  <2>20. Cross'
    <3>1. ~Creates(tx[r])
      BY <2>3 DEF Creates
    <3> QED BY <1>1, <2>1, <2>3, <2>13, <2>14, <2>15, <2>19, <3>1, VehicleWritten
            DEF IInv, Cross
  <2> QED BY <2>1, <2>9, <2>12, <2>13, <2>17, <2>18, <2>20, StepKeeps DEF Places
<1> QED BY <1>2, <1>3

LEMMA EditVehicleKeeps ==
  ASSUME IInv, NEW r \in Requests, WaitsFor(r) = {}, EditVehicle(r)
  PROVE  IInv'
<1> DEFINE v == tx[r].veiculo
           seen == tx[r].seen
           o == [own[r] EXCEPT ![v] = seen]
<1>1. pc[r] = "edit"
  BY DEF EditVehicle
<1>2. CASE db[v] = NoRow
  BY <1>2, RollbackKeeps DEF EditVehicle
<1>3. CASE db[v] # NoRow
  <2>1. /\ tx[r] \in TxTypes /\ Carries(tx[r], "edit", own[r]) /\ Fits(own[r])
    BY <1>1, RequestTyped
  <2>2. v \in Vehicles /\ seen \in VehicleRows /\ tx[r].op = "edit" /\ own[r] = Nothing
    BY <2>1 DEF Carries
  <2>3. v \in Things /\ v \notin Entries /\ seen \in RowsOf(v) /\ seen # NoRow /\ seen # Untouched
    BY <2>2, Kinds
  <2>4. PICK t, w :
          /\ Writes(r, v, seen, t, w)
          /\ \/ t = tx[r] /\ w = "cost"
             \/ \E e \in Latest(r, v) : t = [tx[r] EXCEPT !.entry = e] /\ w = "debits"
    BY <1>3 DEF EditVehicle
  <2>5. \A x \in Vehicles \cup Entries \cup Clients : own[r][x] = Untouched
    BY <2>2, NothingFits, Kinds
  <2>6. \A e \in Latest(r, v) : e \in Entries /\ db[e] # NoRow
    BY <2>5 DEF Latest, Compras, View, Refers
  <2>7. /\ t \in TxTypes /\ t.op = "edit" /\ t.veiculo = v /\ t.seen = seen
        /\ \/ w = "cost" /\ t.entry = tx[r].entry
           \/ w = "debits" /\ t.entry \in Entries /\ db[t.entry] # NoRow
    <3>1. CASE t = tx[r] /\ w = "cost"
      BY <2>1, <2>2, <3>1
    <3>2. ASSUME NEW e \in Latest(r, v), t = [tx[r] EXCEPT !.entry = e], w = "debits"
          PROVE  /\ t \in TxTypes /\ t.op = "edit" /\ t.veiculo = v /\ t.seen = seen
                 /\ t.entry = e
      <4>1. e \in Entries
        BY <2>6
      <4> QED BY <2>1, <2>2, <3>2, <4>1 DEF TxTypes
    <3> QED BY <2>4, <2>6, <3>1, <3>2
  <2> HIDE DEF v, seen
  <2>8. Step(r, t, w, o) /\ UNCHANGED <<db, drift>>
    BY <2>3, <2>4, <2>7, WritesIsStep DEF IInv
  <2>9. Fits(o) /\ o[v] = seen /\ \A y : y # v => o[y] = own[r][y]
    BY <2>1, <2>3, WrittenFits
  <2> HIDE DEF o
  <2>10. Carries(t, w, o)
    <3>1. \A f \in Entries : o[f] = Untouched
      BY <2>3, <2>5, <2>9
    <3>2. \A x \in Clients \cup Vehicles : o[x] # NoRow
      BY <2>3, <2>5, <2>9, Kinds
    <3>3. ~Creates(t) /\ ~Moves(t)
      BY <2>7 DEF Creates, Moves
    <3> QED BY <2>2, <2>7, <3>1, <3>2, <3>3 DEF Carries
  <2>11. Fresh'
    <3>1. ~Creates(t)
      BY <2>7 DEF Creates
    <3>2. CASE w = "cost" /\ t.entry = tx[r].entry
      BY <2>2, <2>7, <2>8, <3>2, SameEntryFresh
    <3>3. CASE db[t.entry] # NoRow
      BY <2>8, <3>1, <3>3, OtherEntryFresh
    <3> QED BY <2>7, <3>2, <3>3
  <2>12. RowWaits(r, v) = {}
    BY <1>1, Unblocked DEF v
  <2>13. Cross'
    <3>1. ~Creates(tx[r])
      BY <2>2 DEF Creates
    <3>2. IsRow(o[v])
      BY <2>3, <2>9 DEF IsRow
    <3> QED BY <1>1, <1>3, <2>2, <2>8, <2>9, <2>12, <3>1, <3>2, VehicleWritten DEF IInv, Cross, v
  <2>14. w \in Places
    BY <2>7 DEF Places
  <2> QED BY <2>7, <2>8, <2>9, <2>10, <2>11, <2>13, <2>14, StepKeeps
<1> QED BY <1>2, <1>3

\* A step that writes the cash row of a vehicle, or deletes it.
LEMMA CashWritten ==
  ASSUME IInv, NEW r \in Requests, NEW v \in Vehicles, NEW row \in CashRows \cup {NoRow},
         NEW t, t = tx[r], NEW w \in Places, pc[r] # "commit",
         Writes(r, Caixa[v], row, t, w),
         \A o : /\ Carries(t, pc[r], own[r])
                /\ \A y \in Clients \cup Vehicles \cup Entries : o[y] = own[r][y]
                => Carries(t, w, o)
  PROVE  IInv'
<1> DEFINE x == Caixa[v]
           o == [own[r] EXCEPT ![x] = row]
<1>1. /\ t \in TxTypes /\ Carries(t, pc[r], own[r]) /\ Fits(own[r])
  BY RequestTyped
<1>2. x \in Things /\ row \in RowsOf(x) \cup {NoRow} /\ x \notin Clients \cup Vehicles \cup Entries
  BY Kinds
<1> HIDE DEF x
<1>3. Step(r, t, w, o) /\ UNCHANGED <<db, drift>>
  BY <1>1, <1>2, WritesIsStep DEF IInv, x
<1>4. Fits(o) /\ \A y : y # x => o[y] = own[r][y]
  BY <1>1, <1>2, WrittenFits
<1> HIDE DEF o
<1>5. \A y \in Clients \cup Vehicles \cup Entries : o[y] = own[r][y]
  BY <1>2, <1>4
<1>6. Carries(t, w, o)
  BY <1>1, <1>5
<1>7. Fresh'
  BY <1>3, SameEntryFresh
<1>8. Cross'
  <2>1. \A u \in Vehicles : o[u] # NoRow
    BY <1>1, <1>5 DEF Carries
  <2> QED BY <1>3, <1>5, <2>1, ElsewhereKeeps DEF IInv, Cross, Creates
<1> QED BY <1>1, <1>3, <1>4, <1>6, <1>7, <1>8, StepKeeps

LEMMA ReadCostKeeps ==
  ASSUME IInv, NEW r \in Requests, ReadCost(r)
  PROVE  IInv'
<1> DEFINE v == tx[r].veiculo
           lanc == View(r, Caixa[v])
           novo(custo) == [valor |-> custo, dono |-> tx[r].seen.dono]
           t0 == [tx[r] EXCEPT !.synced = TRUE]
<1>1. pc[r] = "cost"
  BY DEF ReadCost
<1>2. PICK custo \in Custos(r, v) :
        IF lanc \in {NoRow, novo(custo)} THEN Goes(r, t0, "commit")
        ELSE Goes(r, [t0 EXCEPT !.cash = novo(custo), !.cashOld = lanc], "cash")
  <2>1. \A c : [tx[r] EXCEPT !.synced = TRUE, !.cash = novo(c), !.cashOld = lanc]
                = [t0 EXCEPT !.cash = novo(c), !.cashOld = lanc]
    OBVIOUS
  <2> QED BY <2>1 DEF ReadCost
<1>3. /\ tx[r] \in TxTypes /\ Carries(tx[r], "cost", own[r]) /\ Fits(own[r])
  BY <1>1, RequestTyped
<1>4. v \in Vehicles /\ tx[r].seen \in VehicleRows
  BY <1>3 DEF Carries
<1>5. custo \in Values
  <2>1. CASE Latest(r, v) = {}
    BY <2>1 DEF Custos, Values
  <2>2. ASSUME NEW e \in Latest(r, v), custo = View(r, e).valor PROVE custo \in Values
    <3>1. e \in Entries /\ View(r, e) # NoRow /\ View(r, e) # Untouched
      BY DEF Latest, Compras, Refers
    <3>2. own[r][e] \in EntryRows \cup {NoRow, Untouched}
      BY <1>3, <3>1, Kinds DEF Fits
    <3>3. View(r, e) \in EntryRows
      BY <3>1, <3>2, RequestTyped DEF View
    <3> QED BY <2>2, <3>3 DEF EntryRows
  <2> QED BY <2>1, <2>2 DEF Custos
<1>6. novo(custo) \in CashRows
  BY <1>4, <1>5 DEF VehicleRows, CashRows
<1>7. lanc \in CashRows \cup {NoRow}
  <2>1. own[r][Caixa[v]] \in CashRows \cup {NoRow, Untouched} /\ db[Caixa[v]] \in CashRows \cup {NoRow}
    BY <1>3, <1>4, Kinds DEF Fits, IInv, Typed, TypeStock
  <2> QED BY <2>1 DEF View
<1> DEFINE new == novo(custo)
<1>8. new \in CashRows
  BY <1>6
<1>9. t0 \in TxTypes /\ t0.op = tx[r].op /\ t0.entry = tx[r].entry /\ t0.veiculo = v
      /\ t0.todo = tx[r].todo /\ t0.nested = tx[r].nested /\ t0.old = tx[r].old
  BY <1>3 DEF TxTypes
<1>10. IF lanc \in {NoRow, new} THEN Goes(r, t0, "commit")
       ELSE Goes(r, [t0 EXCEPT !.cash = new, !.cashOld = lanc], "cash")
  BY <1>2
<1> HIDE DEF v, lanc, novo, new, t0
<1>11. CASE lanc \in {NoRow, new}
  <2>1. Step(r, t0, "commit", own[r]) /\ UNCHANGED <<db, drift>>
    BY <1>9, <1>10, <1>11, GoesIsStep DEF IInv
  <2>2. Carries(t0, "commit", own[r])
    BY <1>3, <1>4, <1>9 DEF Carries, Creates, Moves
  <2> QED BY <1>1, <1>9, <2>1, <2>2, QuietKeeps DEF Places
<1>12. CASE lanc \notin {NoRow, new}
  <2> DEFINE t1 == [t0 EXCEPT !.cash = new]
             t == [t1 EXCEPT !.cashOld = lanc]
  <2>1. lanc \in CashRows
    BY <1>7, <1>12
  <2>2. t1 \in TxTypes /\ t1.op = t0.op /\ t1.entry = t0.entry /\ t1.veiculo = t0.veiculo
        /\ t1.todo = t0.todo /\ t1.nested = t0.nested /\ t1.old = t0.old /\ t1.cash = new
    BY <1>8, <1>9 DEF TxTypes
  <2>3. [t0 EXCEPT !.cash = new, !.cashOld = lanc] = t
    OBVIOUS
  <2> HIDE DEF t1
  <2>4. t \in TxTypes /\ t.op = t0.op /\ t.entry = t0.entry /\ t.veiculo = t0.veiculo
        /\ t.todo = t0.todo /\ t.nested = t0.nested /\ t.old = t0.old /\ t.cash = new
        /\ t.cashOld = lanc
    BY <2>1, <2>2 DEF TxTypes
  <2>5. Goes(r, t, "cash")
    BY <1>10, <1>12, <2>3
  <2> HIDE DEF t
  <2>6. Step(r, t, "cash", own[r]) /\ UNCHANGED <<db, drift>>
    BY <2>4, <2>5, GoesIsStep DEF IInv
  <2>7. Carries(t, "cash", own[r])
    BY <1>3, <1>4, <1>8, <1>9, <2>1, <2>4 DEF Carries, Creates, Moves
  <2> QED BY <1>1, <1>9, <2>4, <2>6, <2>7, QuietKeeps DEF Places
<1> QED BY <1>11, <1>12

LEMMA WriteCashKeeps ==
  ASSUME IInv, NEW r \in Requests, WriteCash(r)
  PROVE  IInv'
<1> DEFINE v == tx[r].veiculo
           row == Merged(tx[r].cash, tx[r].cashOld, db[Caixa[v]])
<1>1. pc[r] = "cash"
  BY DEF WriteCash
<1>2. CASE db[Caixa[v]] = NoRow
  BY <1>2, RollbackKeeps DEF WriteCash
<1>3. CASE db[Caixa[v]] # NoRow
  <2>1. Writes(r, Caixa[v], row, tx[r], "commit")
    BY <1>3 DEF WriteCash
  <2>2. Carries(tx[r], "cash", own[r])
    BY <1>1, RequestTyped
  <2>3. v \in Vehicles /\ tx[r].cash \in CashRows /\ tx[r].cashOld \in CashRows
    BY <2>2 DEF Carries
  <2>4. db[Caixa[v]] \in CashRows
    BY <1>3, <2>3, Kinds DEF IInv, Typed, TypeStock
  <2>5. row \in CashRows
    <3> DEFINE now == db[Caixa[v]]
    <3>1. DOMAIN now = {"valor", "dono"}
      BY <2>4 DEF CashRows
    <3>2. row = [f \in {"valor", "dono"} |->
                   IF tx[r].cash[f] # tx[r].cashOld[f] THEN tx[r].cash[f] ELSE now[f]]
      BY <3>1 DEF Merged
    <3> HIDE DEF row
    <3>3. row.valor \in Values /\ row.dono \in Donos \cup {Consignado}
      BY <2>3, <2>4, <3>2 DEF CashRows
    <3> DEFINE s == [valor |-> row.valor, dono |-> row.dono]
    <3>4. DOMAIN s = {"valor", "dono"} /\ \A f \in {"valor", "dono"} : row[f] = s[f]
      OBVIOUS
    <3>5. row = [f \in {"valor", "dono"} |-> row[f]]
      BY <3>2
    <3>6. s = [f \in {"valor", "dono"} |-> s[f]]
      BY <3>4
    <3>7. s \in CashRows
      BY <3>3 DEF CashRows
    <3> HIDE DEF s
    <3> QED BY <3>4, <3>5, <3>6, <3>7
  <2> HIDE DEF row, v
  <2>6. ASSUME NEW o, Carries(tx[r], pc[r], own[r]),
               \A y \in Clients \cup Vehicles \cup Entries : o[y] = own[r][y]
        PROVE  Carries(tx[r], "commit", o)
    BY <2>2, <2>3, <2>6 DEF Carries, Creates, v
  <2> QED BY <1>1, <2>1, <2>3, <2>5, <2>6, CashWritten DEF Places
<1> QED BY <1>2, <1>3

LEMMA DropCashKeeps ==
  ASSUME IInv, NEW r \in Requests, DropCash(r)
  PROVE  IInv'
<1> DEFINE v == tx[r].veiculo
<1>1. pc[r] = "dropcash"
  BY DEF DropCash
<1>2. /\ tx[r] \in TxTypes /\ Carries(tx[r], "dropcash", own[r])
  BY <1>1, RequestTyped
<1>3. v \in Vehicles /\ tx[r].op \in {"delete", "drop"}
  BY <1>2 DEF Carries
<1>4. CASE View(r, Caixa[v]) = NoRow
  <2>1. Step(r, tx[r], "drop", own[r]) /\ UNCHANGED <<db, drift>>
    BY <1>2, <1>4, GoesIsStep DEF DropCash, IInv
  <2>2. Carries(tx[r], "drop", own[r])
    BY <1>2, <1>3 DEF Carries, Creates
  <2> QED BY <1>1, <1>2, <2>1, <2>2, QuietKeeps DEF Places
<1>5. CASE View(r, Caixa[v]) # NoRow
  <2>1. Writes(r, Caixa[v], NoRow, tx[r], "drop")
    BY <1>5 DEF DropCash
  <2>2. ASSUME NEW o, Carries(tx[r], pc[r], own[r]),
               \A y \in Clients \cup Vehicles \cup Entries : o[y] = own[r][y]
        PROVE  Carries(tx[r], "drop", o)
    BY <1>2, <1>3, <2>2 DEF Carries, Creates
  <2> QED BY <1>1, <1>3, <2>1, <2>2, CashWritten DEF Places
<1> QED BY <1>4, <1>5

LEMMA WriteDebitsKeeps ==
  ASSUME IInv, NEW r \in Requests, WaitsFor(r) = {}, WriteDebits(r)
  PROVE  IInv'
<1> DEFINE e == tx[r].entry
           t == tx[r]
           now == db[e]
           o == [own[r] EXCEPT ![e] = now]
<1>1. pc[r] = "debits"
  BY DEF WriteDebits
<1>2. CASE db[e] = NoRow
  BY <1>2, RollbackKeeps DEF WriteDebits
<1>3. CASE db[e] # NoRow
  <2>1. Writes(r, e, now, t, "cost")
    BY <1>3 DEF WriteDebits
  <2>2. /\ t \in TxTypes /\ Carries(t, "debits", own[r]) /\ Fits(own[r])
    BY <1>1, RequestTyped
  <2>3. /\ t.op = "edit" /\ e \in Entries /\ t.veiculo \in Vehicles /\ t.seen \in VehicleRows
        /\ \A f \in Entries : own[r][f] = Untouched
    BY <2>2 DEF Carries
  <2>4. now \in EntryRows
    BY <1>3, <2>3, RequestTyped
  <2>5. e \in Things /\ now \in RowsOf(e) /\ now # NoRow /\ now # Untouched
        /\ e \notin Clients \cup Vehicles
    BY <2>3, <2>4, Kinds
  <2> HIDE DEF e, now
  <2>6. Step(r, t, "cost", o) /\ UNCHANGED <<db, drift>>
    BY <2>1, <2>2, <2>5, WritesIsStep DEF IInv
  <2>7. Fits(o) /\ o[e] = now /\ \A y : y # e => o[y] = own[r][y]
    BY <2>2, <2>5, WrittenFits
  <2> HIDE DEF o
  <2>8. Carries(t, "cost", o)
    <3>1. \A f \in Entries : o[f] # Untouched => f = t.entry
      BY <2>3, <2>7 DEF e
    <3>2. \A x \in Clients \cup Vehicles : o[x] # NoRow
      BY <2>2, <2>5, <2>7 DEF Carries
    <3>3. ~Creates(t) /\ ~Moves(t)
      BY <2>3 DEF Creates, Moves
    <3> QED BY <2>3, <3>1, <3>2, <3>3 DEF Carries
  <2>9. Fresh'
    BY <2>6, SameEntryFresh
  <2>10. RowWaits(r, e) = {}
    BY <1>1, Unblocked DEF e
  <2>11. ASSUME NEW f \in Entries, f # e, NEW b \in Versions(f)
         PROVE  /\ IsRow(b) => ~SameKey(now, b)
                /\ ~SameKey(b, now)
    <3>1. now \in Versions(e) /\ IsRow(now)
      BY <2>5 DEF Versions, now, IsRow
    <3> QED BY <3>1, <2>3, <2>11 DEF IInv, OneKey
  <2>12. ASSUME NEW u \in Vehicles, Refers(now, u)
         PROVE  View(r, u) # NoRow /\ \A q \in Others(r) : own[q][u] # NoRow
    <3>1. db[u] # NoRow
      BY <2>3, <2>12 DEF IInv, VehicleIsThere, now
    <3>2. View(r, u) # NoRow
      BY <2>2, <3>1 DEF View, Carries
    <3>3. ASSUME NEW q \in Others(r), own[q][u] = NoRow PROVE FALSE
      <4>1. own[q][e] = Untouched
        BY <2>10 DEF RowWaits
      <4>2. View(q, e) = now
        BY <4>1 DEF View, now
      <4>3. ~Refers(View(q, e), u)
        BY <2>3, <3>3 DEF IInv, Dropped, Others
      <4> QED BY <2>12, <4>2, <4>3
    <3> QED BY <3>2, <3>3
  <2>13. Cross'
    <3>1. \A u \in Vehicles : own[r][u] # NoRow
      BY <2>2 DEF Carries
    <3>2. ~Creates(t)
      BY <2>3 DEF Creates
    <3> QED BY <1>1, <2>3, <2>6, <2>7, <2>10, <2>11, <2>12, <3>1, <3>2, EntryWritten
            DEF IInv, Cross
  <2> QED BY <2>2, <2>6, <2>7, <2>8, <2>9, <2>13, StepKeeps DEF Places
<1> QED BY <1>2, <1>3

LEMMA SkipDebitsKeeps ==
  ASSUME IInv, NEW r \in Requests, SkipDebits(r)
  PROVE  IInv'
<1>1. pc[r] = "debits" /\ Goes(r, tx[r], "cost")
  BY DEF SkipDebits
<1>2. /\ tx[r] \in TxTypes /\ Carries(tx[r], "debits", own[r])
  BY <1>1, RequestTyped
<1>3. Step(r, tx[r], "cost", own[r]) /\ UNCHANGED <<db, drift>>
  BY <1>1, <1>2, GoesIsStep DEF IInv
<1>4. Carries(tx[r], "cost", own[r])
  BY <1>2 DEF Carries, Creates, Moves
<1> QED BY <1>1, <1>2, <1>3, <1>4, QuietKeeps DEF Places

-----------------------------------------------------------------------------
(* The theorems.                                                           *)

LEMMA InitHolds == Init => IInv
<1> SUFFICES ASSUME Init PROVE IInv
  OBVIOUS
<1>1. /\ \A x \in Things : db[x] = NoRow
      /\ \A r \in Requests : own[r] = Nothing /\ pc[r] = "idle" /\ tx[r] = NoTx
      /\ drift = {}
  BY DEF Init
<1>2. \A r \in Requests, x \in Clients \cup Vehicles \cup Entries : own[r][x] = Untouched
  BY <1>1, NothingFits, Kinds
<1>3. \A e \in Entries : db[e] = NoRow
  BY <1>1, Kinds
<1>4. Typed
  <2>1. db \in [Things -> AllRows]
    BY DEF Init, AllRows
  <2>2. Nothing \in [Things -> AllRows]
    BY NothingFits DEF Fits
  <2>3. own \in [Requests -> [Things -> AllRows]]
    BY <2>2 DEF Init
  <2>4. pc \in [Requests -> Places] /\ tx \in [Requests -> TxTypes]
    BY NoTxTyped DEF Init, Places
  <2>5. TypeStock
    BY <1>1, NothingFits DEF TypeStock
  <2> QED BY <2>1, <2>3, <2>4, <2>5 DEF Typed
<1>5. Carried
  BY <1>1, IdleCarries DEF Carried
<1>6. Fresh
  BY <1>1 DEF Fresh, NoTx, Creates
<1>7. RowLocks
  BY <1>2 DEF RowLocks
<1>8. OneKey
  <2>1. \A e \in Entries : \A a \in Versions(e) : ~IsRow(a)
    BY <1>2, <1>3 DEF Versions, IsRow
  <2> QED BY <2>1 DEF OneKey
<1>9. VehicleIsThere
  BY <1>3 DEF VehicleIsThere, Refers
<1>10. Pinned /\ Dropped
  BY <1>2, Kinds DEF Pinned, Dropped, Refers
<1>11. Backed
  BY <1>2 DEF Backed, IsRow
<1> QED BY <1>4, <1>5, <1>6, <1>7, <1>8, <1>9, <1>10, <1>11 DEF IInv

LEMMA NextKeeps == IInv /\ [Next]_vars => IInv'
<1> SUFFICES ASSUME IInv, [Next]_vars PROVE IInv'
  OBVIOUS
<1>1. CASE UNCHANGED vars
  BY <1>1 DEF vars, IInv, Typed, TypeStock, Carried, RowLocks, Fresh, OneKey, Versions,
              VehicleIsThere, Pinned, Dropped, Backed, View
<1>2. ASSUME NEW r \in Requests, BeginEntry(r) PROVE IInv'
  BY <1>2, BeginEntryKeeps
<1>3. ASSUME NEW r \in Requests, BeginUpdate(r) PROVE IInv'
  BY <1>3, BeginUpdateKeeps
<1>4. ASSUME NEW r \in Requests, BeginDelete(r) PROVE IInv'
  BY <1>4, BeginDeleteKeeps
<1>5. ASSUME NEW r \in Requests, BeginVehicle(r) PROVE IInv'
  BY <1>5, BeginVehicleKeeps
<1>6. ASSUME NEW r \in Requests, Abort(r) PROVE IInv'
  BY <1>6, RollbackKeeps DEF Abort
<1>7. ASSUME NEW r \in Requests, Advance(r) PROVE IInv'
  <2>1. CASE InsertNested(r) /\ WaitsFor(r) = {}
    BY <2>1, InsertNestedKeeps
  <2>2. CASE NestedTaken(r)
    BY <2>2, RollbackKeeps DEF NestedTaken
  <2>3. CASE Refuse(r)
    BY <2>3, RefusalKeeps
  <2>4. CASE Insert(r) /\ WaitsFor(r) = {}
    BY <2>4, InsertKeeps
  <2>5. CASE ReadCost(r)
    BY <2>5, ReadCostKeeps
  <2>6. CASE WriteCash(r)
    BY <2>6, WriteCashKeeps
  <2>7. CASE Update(r) /\ WaitsFor(r) = {}
    BY <2>7, UpdateKeeps
  <2>8. CASE SyncStatus(r) /\ WaitsFor(r) = {}
    BY <2>8, SyncStatusKeeps
  <2>9. CASE Erase(r) /\ WaitsFor(r) = {}
    BY <2>9, EraseKeeps
  <2>10. CASE DropCash(r)
    BY <2>10, DropCashKeeps
  <2>11. CASE DropVehicle(r) /\ WaitsFor(r) = {}
    BY <2>11, DropVehicleKeeps
  <2>12. CASE Register(r) /\ WaitsFor(r) = {}
    BY <2>12, RegisterKeeps
  <2>13. CASE EditVehicle(r) /\ WaitsFor(r) = {}
    BY <2>13, EditVehicleKeeps
  <2>14. CASE WriteDebits(r) /\ WaitsFor(r) = {}
    BY <2>14, WriteDebitsKeeps
  <2>15. CASE SkipDebits(r)
    BY <2>15, SkipDebitsKeeps
  <2>16. CASE Commit(r)
    BY <2>16, PublishKeeps DEF Commit
  <2>17. CASE DeadlockVictim(r)
    BY <2>17, RollbackKeeps DEF DeadlockVictim
  <2> QED BY <1>7, <2>1, <2>2, <2>3, <2>4, <2>5, <2>6, <2>7, <2>8, <2>9, <2>10, <2>11,
             <2>12, <2>13, <2>14, <2>15, <2>16, <2>17 DEF Advance
<1> QED BY <1>1, <1>2, <1>3, <1>4, <1>5, <1>6, <1>7 DEF Next

LEMMA AlwaysIInv == Spec => []IInv
  BY InitHolds, NextKeeps, PTL DEF Spec

\* The type invariant: every committed and every uncommitted row is one its
\* table allows, and a request that is idle holds nothing.
THEOREM StockTypes == Spec => []TypeStock
<1>1. IInv => TypeStock
  BY DEF IInv, Typed
<1> QED BY <1>1, AlwaysIInv, PTL

\* A form that is sent twice, or again after an error, leaves one purchase or
\* one consignment, whatever runs at the same time: idempotency_key is unique,
\* and an update never gives a row another key.
THEOREM OneFormOneEntry == Spec => []OneEntryPerKey
<1>1. IInv => OneEntryPerKey
  <2> SUFFICES ASSUME IInv, NEW e \in Entries, NEW f \in Entries, e # f, db[e] # NoRow
               PROVE  ~SameKey(db[f], db[e])
    BY DEF OneEntryPerKey
  <2>1. db[e] \in Versions(e) /\ db[f] \in Versions(f)
    BY DEF Versions
  <2>2. IsRow(db[e])
    <3>1. e \in Things /\ db[e] \in EntryRows
      BY Kinds DEF IInv, Typed, TypeStock
    <3> QED BY <3>1, Kinds DEF IsRow
  <2> QED BY <2>1, <2>2 DEF IInv, OneKey
<1> QED BY <1>1, AlwaysIInv, PTL

\* No purchase and no consignment refers to a vehicle that is gone: the delete
\* of a vehicle and a new reference to it exclude each other.
THEOREM EntriesHaveVehicle == Spec => []VehicleIsThere
<1>1. IInv => VehicleIsThere
  BY DEF IInv
<1> QED BY <1>1, AlwaysIInv, PTL

\* What a form creates on the way appears together with its entry, a vehicle
\* otherwise together with its cash row.
THEOREM CreatedWhole == Spec => NothingHalfCreated
<1> DEFINE Whole == \A x \in Clients \cup Vehicles :
             db[x] = NoRow /\ db'[x] # NoRow =>
               \/ \E e \in Entries : db[e] = NoRow /\ db'[e] # NoRow
               \/ x \in Vehicles /\ db'[Caixa[x]] # NoRow
<1>1. IInv /\ [Next]_vars => [Whole]_vars
  <2> SUFFICES ASSUME IInv, Next, NEW x \in Clients \cup Vehicles,
                      db[x] = NoRow, db'[x] # NoRow
               PROVE  \/ \E e \in Entries : db[e] = NoRow /\ db'[e] # NoRow
                      \/ x \in Vehicles /\ db'[Caixa[x]] # NoRow
    BY DEF vars
  <2>1. \/ UNCHANGED db
        \/ \E r \in Requests : pc[r] \in {"commit", "insert"} /\ Publish(r)
                               /\ (pc[r] = "insert" => ~tx[r].nested)
    <3>1. ASSUME NEW r \in Requests, Advance(r)
          PROVE  \/ UNCHANGED db
                 \/ pc[r] \in {"commit", "insert"} /\ Publish(r)
                    /\ (pc[r] = "insert" => ~tx[r].nested)
      BY <3>1 DEF Advance, InsertNested, NestedTaken, Refuse, Insert, ReadCost, WriteCash,
                  Update, SyncStatus, Erase, DropCash, DropVehicle, Register, EditVehicle,
                  WriteDebits, SkipDebits, Commit, DeadlockVictim, Rollback, Writes, Goes
    <3>2. ASSUME NEW r \in Requests,
                 \/ BeginEntry(r) \/ BeginUpdate(r) \/ BeginDelete(r) \/ BeginVehicle(r)
                 \/ Abort(r)
          PROVE  UNCHANGED db
      <4>1. ASSUME NEW t, NEW w, Begins(r, t, w) PROVE UNCHANGED db
        BY <4>1 DEF Begins
      <4>2. CASE BeginEntry(r)
        BY <4>1, <4>2 DEF BeginEntry
      <4>3. CASE BeginUpdate(r)
        BY <4>1, <4>3 DEF BeginUpdate
      <4>4. CASE BeginDelete(r)
        BY <4>1, <4>4 DEF BeginDelete
      <4>5. CASE BeginVehicle(r)
        BY <4>1, <4>5 DEF BeginVehicle
      <4>6. CASE Abort(r)
        BY <4>6 DEF Abort, Rollback
      <4> QED BY <3>2, <4>2, <4>3, <4>4, <4>5, <4>6
    <3> QED BY <3>1, <3>2 DEF Next
  <2>2. PICK r \in Requests : /\ pc[r] \in {"commit", "insert"} /\ Publish(r)
                              /\ pc[r] = "insert" => ~tx[r].nested
    BY <2>1
  <2>3. \A y \in Things : db'[y] = View(r, y)
    BY <2>2 DEF Publish
  <2>4. x \in Things /\ IsRow(own[r][x])
    <3>1. x \in Things
      BY Kinds
    <3>2. own[r][x] # Untouched /\ own[r][x] = db'[x]
      BY <2>3, <3>1 DEF View
    <3> QED BY <3>1, <3>2 DEF IsRow
  <2>5. Carries(tx[r], pc[r], own[r])
    BY RequestTyped
  <2>6. CASE Creates(tx[r])
    <3>1. pc[r] = "commit"
      BY <2>2, <2>4, <2>5, <2>6 DEF Carries, IsRow
    <3>2. tx[r].entry \in Entries /\ IsRow(own[r][tx[r].entry])
      BY <2>5, <2>6, <3>1 DEF Carries
    <3>3. db[tx[r].entry] = NoRow
      BY <2>6 DEF IInv, Fresh
    <3>4. db'[tx[r].entry] # NoRow
      BY <2>3, <3>2, Kinds DEF View, IsRow
    <3> QED BY <3>2, <3>3, <3>4
  <2>7. CASE ~Creates(tx[r])
    <3>1. x \in Vehicles /\ IsRow(own[r][Caixa[x]])
      BY <2>4, <2>7 DEF IInv, Backed
    <3> QED BY <2>3, <3>1, Kinds DEF View, IsRow
  <2> QED BY <2>6, <2>7
<1> QED BY <1>1, AlwaysIInv, PTL DEF Spec, NothingHalfCreated

-----------------------------------------------------------------------------
(* The order in which requests that only create take their locks.          *)

Makers == {"buy", "consign", "register"}

Orders ==
  {<<>>, <<"investor">>, <<"client">>, <<"vehicle">>, <<"investor", "client">>,
   <<"investor", "vehicle">>, <<"client", "vehicle">>, <<"investor", "client", "vehicle">>}

\* What such a request has not written yet at the place p.
Climbs(t, p, o) ==
  /\ t.forUpdate => t.op = "update"
  /\ t.op \in Makers =>
       /\ p \in {"nested", "insert", "cost", "cash", "commit", "register"}
       /\ p # "commit" => \A v \in Vehicles : o[Caixa[v]] = Untouched
       /\ p = "nested" =>
            /\ t.todo \in Orders
            /\ \A v \in Vehicles : o[v] = Untouched
            /\ Head(t.todo) # "vehicle" => \A c \in Clients : o[c] = Untouched
            /\ Head(t.todo) = "investor" => o[Consignado] = Untouched

Ladder == \A r \in Requests : Climbs(tx[r], pc[r], own[r])

\* How far it has climbed: the number of the lock it asks for next.
Rung(r) ==
  IF pc[r] = "nested" THEN
    IF Head(tx[r].todo) = "investor" THEN 1
    ELSE IF Head(tx[r].todo) = "client" THEN 2 ELSE 3
  ELSE IF pc[r] = "register" THEN 3
  ELSE IF pc[r] = "insert" THEN 4
  ELSE IF pc[r] = "cash" THEN 5
  ELSE 6

\* Two and three things to create, one after the other.
LEMMA Pair ==
  ASSUME NEW S, NEW a \in S, NEW b \in S
  PROVE  <<a>> \o <<b>> = <<a, b>>
<1> DEFINE s == <<a>> \o <<b>>
           t == <<a, b>>
<1>1. /\ s \in Seq(S) /\ Len(s) = 2 /\ s[1] = a /\ s[2] = b
  BY ConcatProperties
<1>2. /\ t \in Seq(S) /\ Len(t) = 2 /\ t[1] = a /\ t[2] = b
  OBVIOUS
<1>3. \A i \in 1..2 : i = 1 \/ i = 2
  OBVIOUS
<1> HIDE DEF s, t
<1>4. s = t
  BY <1>1, <1>2, <1>3, SeqEqual
<1> QED BY <1>4 DEF s, t

LEMMA Triple ==
  ASSUME NEW S, NEW a \in S, NEW b \in S, NEW c \in S
  PROVE  <<a, b>> \o <<c>> = <<a, b, c>>
<1> DEFINE s == <<a, b>> \o <<c>>
           t == <<a, b, c>>
<1>1. /\ s \in Seq(S) /\ Len(s) = 3 /\ s[1] = a /\ s[2] = b /\ s[3] = c
  BY ConcatProperties
<1>2. /\ t \in Seq(S) /\ Len(t) = 3 /\ t[1] = a /\ t[2] = b /\ t[3] = c
  OBVIOUS
<1>3. \A i \in 1..3 : i = 1 \/ i = 2 \/ i = 3
  OBVIOUS
<1> HIDE DEF s, t
<1>4. s = t
  BY <1>1, <1>2, <1>3, SeqEqual
<1> QED BY <1>4 DEF s, t

LEMMA ClimbStep ==
  ASSUME Typed, Ladder, NEW r \in Requests, NEW t, NEW p, NEW o,
         Step(r, t, p, o), Climbs(t, p, o)
  PROVE  Ladder'
<1>1. own'[r] = o /\ pc'[r] = p /\ tx'[r] = t
  BY DEF Step, Typed
<1>2. ASSUME NEW q \in Others(r) PROVE Climbs(tx'[q], pc'[q], own'[q])
  <2>1. own'[q] = own[q] /\ pc'[q] = pc[q] /\ Climbs(tx[q], pc[q], own[q])
    BY DEF Step, Typed, Others, Ladder
  <2>2. tx'[q] = [tx[q] EXCEPT !.lone = tx'[q].lone] /\ tx[q] \in TxTypes
    BY DEF Step, Typed, Others
  <2>3. tx'[q].op = tx[q].op /\ tx'[q].todo = tx[q].todo /\ tx'[q].forUpdate = tx[q].forUpdate
    BY <2>2 DEF TxTypes
  <2> QED BY <2>1, <2>3 DEF Climbs
<1> QED BY <1>1, <1>2 DEF Ladder, Others

LEMMA ClimbEnd ==
  ASSUME Typed, Ladder, NEW r \in Requests, NEW disturbed, Ends(r, disturbed)
  PROVE  Ladder'
<1>1. Climbs(NoTx, "idle", Nothing)
  BY DEF Climbs, NoTx, Makers
<1> QED BY <1>1, EndsIsStep, ClimbStep

\* A step that keeps the operation, after the creations on the way.
LEMMA ClimbFrame ==
  ASSUME IInv, Ladder, NEW r \in Requests, NEW t, NEW p,
         tx' = [tx EXCEPT ![r] = t], pc' = [pc EXCEPT ![r] = p],
         \A q \in Others(r) : own'[q] = own[q],
         t.op = tx[r].op,
         t.forUpdate => t.op = "update",
         t.op \in Makers => /\ p \in {"insert", "cost", "cash", "commit"}
                            /\ p # "commit" => \A v \in Vehicles : own'[r][Caixa[v]] = Untouched
  PROVE  Ladder'
<1>1. tx'[r] = t /\ pc'[r] = p
  BY DEF IInv, Typed
<1>2. Climbs(tx'[r], pc'[r], own'[r])
  BY <1>1 DEF Climbs
<1>3. \A q \in Others(r) : tx'[q] = tx[q] /\ pc'[q] = pc[q] /\ own'[q] = own[q]
  BY DEF IInv, Typed, Others
<1> QED BY <1>2, <1>3 DEF Ladder, Others

LEMMA ClimbOn ==
  ASSUME IInv, Ladder, NEW r \in Requests, NEW t, NEW p,
         Goes(r, t, p) \/ \E x, row : Writes(r, x, row, t, p),
         t.op = tx[r].op,
         t.forUpdate => t.op = "update",
         t.op \in Makers => /\ p \in {"insert", "cost", "cash", "commit"}
                            /\ p # "commit" => \A v \in Vehicles : own'[r][Caixa[v]] = Untouched
  PROVE  Ladder'
<1>1. /\ tx' = [tx EXCEPT ![r] = t] /\ pc' = [pc EXCEPT ![r] = p]
      /\ \A q \in Others(r) : own'[q] = own[q]
  BY DEF Goes, Writes, IInv, Typed, Others
<1> QED BY <1>1, ClimbFrame

LEMMA ClimbBegins ==
  ASSUME Typed, Ladder, NEW r \in Requests, NEW t \in TxTypes, NEW w, Begins(r, t, w),
         ~t.forUpdate,
         t.op \in Makers => w \in {"nested", "insert", "register"},
         w = "nested" => t.todo \in Orders
  PROVE  Ladder'
<1>1. PICK b \in BOOLEAN : Step(r, [t EXCEPT !.lone = b], w, Nothing)
  BY BeginsIsStep
<1> DEFINE u == [t EXCEPT !.lone = b]
<1>2. u.op = t.op /\ u.todo = t.todo /\ u.forUpdate = t.forUpdate
  BY DEF TxTypes
<1>3. Step(r, u, w, Nothing)
  BY <1>1
<1> HIDE DEF u
<1>4. Climbs(u, w, Nothing)
  BY <1>2, NothingFits, Kinds DEF Climbs
<1> QED BY <1>3, <1>4, ClimbStep

LEMMA Names == "investor" \in Nests /\ "client" \in Nests /\ "vehicle" \in Nests
BY DEF Nests

LEMMA TodoOrder ==
  ASSUME NEW op, NEW c, NEW v
  PROVE  Todo(op, c, v) \in Orders
<1> DEFINE one(what) ==
             IF db[Nested([client |-> c, veiculo |-> v], what)] = NoRow THEN <<what>> ELSE <<>>
           inv == IF op = "consign" /\ db[v] = NoRow THEN one("investor") ELSE <<>>
           cli == one("client")
           vei == one("vehicle")
<1>1. inv \in {<<>>, <<"investor">>} /\ cli \in {<<>>, <<"client">>} /\ vei \in {<<>>, <<"vehicle">>}
  OBVIOUS
<1>2. Todo(op, c, v) = inv \o cli \o vei
  BY DEF Todo
<1> HIDE DEF inv, cli, vei
<1>3. inv \o cli \in {<<>>, <<"investor">>, <<"client">>, <<"investor", "client">>}
  <2>1. /\ <<>> \o <<>> = <<>> /\ <<>> \o <<"client">> = <<"client">>
        /\ <<"investor">> \o <<>> = <<"investor">>
    OBVIOUS
  <2>2. <<"investor">> \o <<"client">> = <<"investor", "client">>
    BY Names, Pair
  <2> QED BY <1>1, <2>1, <2>2
<1> DEFINE m == inv \o cli
<1>4. Todo(op, c, v) = m \o vei /\ m \in {<<>>, <<"investor">>, <<"client">>, <<"investor", "client">>}
  BY <1>2, <1>3
<1> HIDE DEF m
<1>5. CASE vei = <<>>
  <2>1. m \o <<>> = m
    BY <1>4
  <2> QED BY <1>4, <1>5, <2>1 DEF Orders
<1>6. CASE vei = <<"vehicle">>
  <2>1. <<>> \o <<"vehicle">> = <<"vehicle">>
    OBVIOUS
  <2>2. <<"investor">> \o <<"vehicle">> = <<"investor", "vehicle">>
    BY Names, Pair
  <2>3. <<"client">> \o <<"vehicle">> = <<"client", "vehicle">>
    BY Names, Pair
  <2>4. <<"investor", "client">> \o <<"vehicle">> = <<"investor", "client", "vehicle">>
    BY Names, Triple
  <2>5. \/ m \o vei = <<"vehicle">> \/ m \o vei = <<"investor", "vehicle">>
        \/ m \o vei = <<"client", "vehicle">> \/ m \o vei = <<"investor", "client", "vehicle">>
    BY <1>4, <1>6, <2>1, <2>2, <2>3, <2>4
  <2> QED BY <1>4, <2>5 DEF Orders
<1> QED BY <1>1, <1>5, <1>6

LEMMA OrderTail ==
  ASSUME NEW s \in Orders, s # <<>>
  PROVE  /\ Head(s) \in Nests /\ Tail(s) \in Orders /\ Len(s) \in 1..3
         /\ Len(s) = 1 <=> Tail(s) = <<>>
         /\ Tail(s) # <<>> => /\ Head(s) # "vehicle" /\ Head(Tail(s)) # "investor"
                              /\ Head(s) = "client" => Head(Tail(s)) = "vehicle"
<1>1. CASE s \in {<<"investor">>, <<"client">>, <<"vehicle">>}
  <2>1. ASSUME NEW what \in Nests, s = <<what>>
        PROVE  Tail(s) = <<>> /\ Len(s) = 1 /\ Head(s) \in Nests
    BY <2>1
  <2>2. Tail(s) = <<>> /\ Len(s) = 1 /\ Head(s) \in Nests
    BY <1>1, <2>1 DEF Nests
  <2> QED BY <2>2 DEF Orders
<1>2. CASE s \in {<<"investor", "client">>, <<"investor", "vehicle">>, <<"client", "vehicle">>}
  <2>1. CASE s = <<"investor", "client">>
    <3>1. Tail(s) = <<"client">> /\ Len(s) = 2 /\ Head(s) = "investor"
      BY <2>1
    <3> QED BY <3>1 DEF Orders, Nests
  <2>2. CASE s = <<"investor", "vehicle">>
    <3>1. Tail(s) = <<"vehicle">> /\ Len(s) = 2 /\ Head(s) = "investor"
      BY <2>2
    <3> QED BY <3>1 DEF Orders, Nests
  <2>3. CASE s = <<"client", "vehicle">>
    <3>1. Tail(s) = <<"vehicle">> /\ Len(s) = 2 /\ Head(s) = "client"
      BY <2>3
    <3> QED BY <3>1 DEF Orders, Nests
  <2> QED BY <1>2, <2>1, <2>2, <2>3
<1>3. CASE s = <<"investor", "client", "vehicle">>
  <2>1. Tail(s) = <<"client", "vehicle">> /\ Len(s) = 3 /\ Head(s) = "investor"
    BY <1>3
  <2> QED BY <2>1 DEF Orders, Nests
<1> QED BY <1>1, <1>2, <1>3 DEF Orders

LEMMA ClimbBeginnings ==
  ASSUME IInv, Ladder, NEW r \in Requests,
         BeginEntry(r) \/ BeginUpdate(r) \/ BeginDelete(r) \/ BeginVehicle(r)
  PROVE  Ladder'
<1>0. Typed
  BY DEF IInv
<1>1. CASE BeginEntry(r)
  <2>1. PICK op \in {"buy", "consign"}, e \in Entries, k \in Keys, c \in Clients,
             v \in Vehicles, i \in Inputs, d \in Donos :
          LET row  == [compra |-> op = "buy", key |-> k, veiculo |-> v,
                       valor |-> i.valor, dia |-> i.dia]
              todo == Todo(op, c, v)
          IN  /\ Free(e) /\ ~KeyTaken(row)
              /\ Begins(r,
                   [NoTx EXCEPT !.op = op, !.entry = e, !.client = c, !.veiculo = v, !.row = row,
                                !.todo = todo, !.nested = (db[c] = NoRow \/ db[v] = NoRow),
                                !.seen = [dono |-> IF op = "buy" THEN d ELSE Consignado]],
                   IF todo = <<>> THEN "insert" ELSE "nested")
    BY <1>1 DEF BeginEntry
  <2> DEFINE row == [compra |-> op = "buy", key |-> k, veiculo |-> v,
                     valor |-> i.valor, dia |-> i.dia]
             todo == Todo(op, c, v)
             new == db[c] = NoRow \/ db[v] = NoRow
             seen == [dono |-> IF op = "buy" THEN d ELSE Consignado]
             t == [NoTx EXCEPT !.op = op, !.entry = e, !.client = c, !.veiculo = v, !.row = row,
                               !.todo = todo, !.nested = new, !.seen = seen]
             p == IF todo = <<>> THEN "insert" ELSE "nested"
  <2>2. Begins(r, t, p)
    BY <2>1
  <2>3. row \in EntryRows /\ seen \in VehicleRows /\ new \in BOOLEAN
    BY InputTyped DEF EntryRows, VehicleRows
  <2>4. todo \in Seq(Nests) /\ todo \in Orders
    BY TodoTyped, TodoOrder
  <2>5. p \in {"insert", "nested"}
    OBVIOUS
  <2> HIDE DEF row, todo, new, seen, p
  <2>6. t \in TxTypes
    BY <2>3, <2>4 DEF TxTypes, NoTx, AllOps
  <2>7. t.todo = todo /\ ~t.forUpdate
    BY DEF NoTx
  <2> HIDE DEF t
  <2> QED BY <1>0, <2>2, <2>4, <2>5, <2>6, <2>7, ClimbBegins
<1>2. CASE BeginUpdate(r)
  <2>1. PICK op \in {"update", "json_update"}, e \in Entries, v \in Vehicles, i \in Inputs :
          /\ db[e] # NoRow
          /\ Begins(r,
               [NoTx EXCEPT !.op = op, !.entry = e, !.veiculo = v, !.old = db[e],
                            !.row = [db[e] EXCEPT !.veiculo = v, !.valor = i.valor,
                                                  !.dia = i.dia]],
               "update")
    BY <1>2 DEF BeginUpdate
  <2> DEFINE old == db[e]
             row == [old EXCEPT !.veiculo = v, !.valor = i.valor, !.dia = i.dia]
             t == [NoTx EXCEPT !.op = op, !.entry = e, !.veiculo = v, !.old = old, !.row = row]
  <2>2. Begins(r, t, "update")
    BY <2>1
  <2>3. old \in EntryRows
    BY <2>1, RequestTyped
  <2> HIDE DEF old
  <2>4. row \in EntryRows
    BY <2>3, InputTyped DEF EntryRows
  <2> HIDE DEF row
  <2>5. t \in TxTypes
    BY <2>3, <2>4, NoTxTyped DEF TxTypes, AllOps
  <2>6. ~t.forUpdate /\ t.op \notin Makers
    BY DEF NoTx, Makers
  <2> HIDE DEF t
  <2> QED BY <1>0, <2>2, <2>5, <2>6, ClimbBegins
<1>3. CASE BeginDelete(r)
  <2>1. PICK op \in {"delete", "json_delete"}, e \in Entries :
          /\ db[e] # NoRow
          /\ Begins(r,
               [NoTx EXCEPT !.op = op, !.entry = e, !.veiculo = db[e].veiculo, !.old = db[e],
                            !.row = db[e], !.seen = db[db[e].veiculo]],
               "erase")
    BY <1>3 DEF BeginDelete
  <2> DEFINE old == db[e]
             v == db[e].veiculo
             seen == db[v]
             t == [NoTx EXCEPT !.op = op, !.entry = e, !.veiculo = v, !.old = old, !.row = old,
                               !.seen = seen]
  <2>2. Begins(r, t, "erase")
    BY <2>1
  <2>3. old \in EntryRows /\ v \in Vehicles
    BY <2>1, RequestTyped DEF EntryRows
  <2>4. seen \in VehicleRows \cup {NoRow}
    BY <2>3, RequestTyped
  <2> HIDE DEF old, v, seen
  <2>5. t \in TxTypes
    BY <2>3, <2>4, NoTxTyped DEF TxTypes, AllOps
  <2>6. ~t.forUpdate /\ t.op \notin Makers
    BY DEF NoTx, Makers
  <2> HIDE DEF t
  <2> QED BY <1>0, <2>2, <2>5, <2>6, ClimbBegins
<1>4. CASE BeginVehicle(r)
  <2>1. PICK op \in {"register", "edit", "drop"}, v \in Vehicles, d \in Donos :
          Begins(r, [NoTx EXCEPT !.op = op, !.veiculo = v, !.seen = [dono |-> d]],
                 IF op = "drop" THEN "dropcash" ELSE op)
    BY <1>4 DEF BeginVehicle
  <2> DEFINE seen == [dono |-> d]
             t == [NoTx EXCEPT !.op = op, !.veiculo = v, !.seen = seen]
             p == IF op = "drop" THEN "dropcash" ELSE op
  <2>2. Begins(r, t, p)
    BY <2>1
  <2>3. seen \in VehicleRows
    BY DEF VehicleRows
  <2> HIDE DEF seen
  <2>4. t \in TxTypes
    BY <2>3, NoTxTyped DEF TxTypes, AllOps
  <2>5. t.op = op /\ ~t.forUpdate
    BY DEF NoTx
  <2>6. (t.op \in Makers => p = "register") /\ p # "nested"
    BY <2>5 DEF Makers
  <2> HIDE DEF t, p
  <2> QED BY <1>0, <2>2, <2>4, <2>5, <2>6, ClimbBegins
<1> QED BY <1>1, <1>2, <1>3, <1>4

LEMMA ClimbNested ==
  ASSUME IInv, Ladder, NEW r \in Requests, InsertNested(r)
  PROVE  Ladder'
<1> DEFINE todo == tx[r].todo
           what == Head(todo)
           x == Nested(tx[r], what)
           row == NestedRow(tx[r], what)
           t == [tx[r] EXCEPT !.todo = Tail(@)]
           w == IF Len(todo) = 1 THEN "insert" ELSE "nested"
           o == [own[r] EXCEPT ![x] = row]
<1>1. pc[r] = "nested" /\ Writes(r, x, row, t, w)
  BY DEF InsertNested
<1>2. /\ tx[r] \in TxTypes /\ Carries(tx[r], "nested", own[r]) /\ Fits(own[r])
      /\ Climbs(tx[r], "nested", own[r])
  BY <1>1, RequestTyped DEF Ladder
<1>3. Creates(tx[r]) /\ tx[r].client \in Clients /\ tx[r].veiculo \in Vehicles /\ todo # <<>>
  BY <1>2 DEF Carries
<1>4. /\ tx[r].op \in Makers /\ ~tx[r].forUpdate /\ todo \in Orders
      /\ \A v \in Vehicles : own[r][v] = Untouched /\ own[r][Caixa[v]] = Untouched
      /\ what # "vehicle" => \A c \in Clients : own[r][c] = Untouched
  BY <1>2, <1>3 DEF Climbs, Creates, Makers
<1>5. /\ what \in Nests /\ Tail(todo) \in Orders /\ Tail(todo) \in Seq(Nests)
      /\ w = "nested" => /\ what # "vehicle" /\ Head(Tail(todo)) # "investor"
                         /\ what = "client" => Head(Tail(todo)) = "vehicle"
  <2>1. Len(todo) = 1 <=> Tail(todo) = <<>>
    BY <1>3, <1>4, OrderTail
  <2>2. w = "nested" => Tail(todo) # <<>>
    BY <2>1
  <2>3. Tail(todo) \in Seq(Nests)
    BY <1>2, <1>3 DEF TxTypes
  <2> QED BY <1>3, <1>4, <2>2, <2>3, OrderTail
<1>6. /\ x \in Things
      /\ what = "investor" => x = Consignado
      /\ what = "client" => x \in Clients
      /\ what = "vehicle" => x \in Vehicles
  BY <1>3, <1>5, Kinds DEF Nested, Nests
<1>7. w \in {"insert", "nested"}
  OBVIOUS
<1> HIDE DEF todo, what, x, row, w
<1>8. /\ t \in TxTypes /\ t.op = tx[r].op /\ t.forUpdate = tx[r].forUpdate
      /\ t.todo = Tail(todo)
  BY <1>2, <1>5 DEF TxTypes, todo
<1>9. Step(r, t, w, o)
  BY <1>1, <1>6, <1>8, WritesIsStep DEF IInv
<1>10. \A y : y # x => o[y] = own[r][y]
  OBVIOUS
<1> HIDE DEF t, o
<1>11. \A v \in Vehicles : o[Caixa[v]] = Untouched
  <2>1. \A v \in Vehicles : Caixa[v] # x
    BY <1>5, <1>6, Kinds, StockAssumption DEF Caixas, Nests
  <2> QED BY <1>4, <1>10, <2>1
<1>12. w = "nested" => \A v \in Vehicles : o[v] = Untouched
  <2>1. w = "nested" => \A v \in Vehicles : v # x
    BY <1>5, <1>6, Kinds DEF Nests
  <2> QED BY <1>4, <1>10, <2>1
<1>13. w = "nested" /\ Head(Tail(todo)) # "vehicle" => \A c \in Clients : o[c] = Untouched
  <2>1. w = "nested" /\ Head(Tail(todo)) # "vehicle" => what = "investor"
    BY <1>5 DEF Nests
  <2>2. w = "nested" /\ Head(Tail(todo)) # "vehicle" => \A c \in Clients : c # x
    BY <1>6, <2>1, Kinds
  <2> QED BY <1>4, <1>10, <2>1, <2>2
<1>14. Climbs(t, w, o)
  BY <1>4, <1>5, <1>7, <1>8, <1>11, <1>12, <1>13 DEF Climbs
<1> QED BY <1>9, <1>14, ClimbStep DEF IInv

LEMMA ClimbMakes ==
  ASSUME IInv, Ladder, NEW r \in Requests,
         Insert(r) \/ ReadCost(r) \/ WriteCash(r) \/ Register(r)
  PROVE  Ladder'
<1>0. Typed /\ tx[r] \in TxTypes /\ Carries(tx[r], pc[r], own[r])
      /\ Climbs(tx[r], pc[r], own[r])
  BY RequestTyped DEF Ladder, IInv
<1>1. CASE Rollback(r)
  BY <1>0, <1>1, ClimbEnd DEF Rollback
<1>2. CASE Insert(r) /\ ~Rollback(r)
  <2> DEFINE e == tx[r].entry
             seen == View(r, tx[r].veiculo)
             t == [tx[r] EXCEPT !.seen = seen]
             w == IF tx[r].row.compra THEN "cost" ELSE "commit"
  <2>1. pc[r] = "insert" /\ Writes(r, e, tx[r].row, t, w)
    BY <1>2 DEF Insert
  <2>2. e \in Entries
    BY <1>0, <2>1 DEF Carries
  <2>3. t.op = tx[r].op /\ t.forUpdate = tx[r].forUpdate
    BY <1>0 DEF TxTypes
  <2>4. w \in {"cost", "commit"}
    OBVIOUS
  <2> HIDE DEF e, t, w
  <2>5. own'[r] = [own[r] EXCEPT ![e] = tx[r].row]
    BY <1>0, <2>1 DEF Writes, Typed
  <2>6. \A v \in Vehicles : own'[r][Caixa[v]] = own[r][Caixa[v]]
    BY <2>2, <2>5, Kinds
  <2>7. t.op \in Makers => \A v \in Vehicles : own'[r][Caixa[v]] = Untouched
    BY <1>0, <2>1, <2>3, <2>6 DEF Climbs
  <2> QED BY <1>0, <2>1, <2>3, <2>4, <2>7, ClimbOn DEF Climbs
<1>3. CASE ReadCost(r)
  <2>1. PICK t, w : /\ pc[r] = "cost" /\ Goes(r, t, w) /\ w \in {"commit", "cash"}
                    /\ t.op = tx[r].op /\ t.forUpdate = tx[r].forUpdate
    <3>1. PICK novo, lanc :
            \/ Goes(r, [tx[r] EXCEPT !.synced = TRUE], "commit")
            \/ Goes(r, [tx[r] EXCEPT !.synced = TRUE, !.cash = novo, !.cashOld = lanc], "cash")
      BY <1>3 DEF ReadCost
    <3> DEFINE t1 == [tx[r] EXCEPT !.synced = TRUE]
               t2 == [tx[r] EXCEPT !.synced = TRUE, !.cash = novo, !.cashOld = lanc]
    <3>2. t1.op = tx[r].op /\ t1.forUpdate = tx[r].forUpdate
      BY <1>0 DEF TxTypes
    <3>3. t2.op = tx[r].op /\ t2.forUpdate = tx[r].forUpdate
      BY <1>0 DEF TxTypes
    <3>4. Goes(r, t1, "commit") \/ Goes(r, t2, "cash")
      BY <3>1
    <3>5. pc[r] = "cost"
      BY <1>3 DEF ReadCost
    <3> HIDE DEF t1, t2
    <3> QED BY <3>2, <3>3, <3>4, <3>5
  <2>2. own' = own
    BY <2>1 DEF Goes
  <2>3. t.op \in Makers => \A v \in Vehicles : own'[r][Caixa[v]] = Untouched
    BY <1>0, <2>1, <2>2 DEF Climbs
  <2> QED BY <1>0, <2>1, <2>3, ClimbOn DEF Climbs
<1>4. CASE WriteCash(r) /\ ~Rollback(r)
  <2>1. \E x, row : Writes(r, x, row, tx[r], "commit")
    BY <1>4 DEF WriteCash
  <2> QED BY <1>0, <2>1, ClimbOn DEF Climbs
<1>5. CASE Register(r) /\ ~Rollback(r)
  <2> DEFINE t == [tx[r] EXCEPT !.synced = TRUE]
  <2>1. /\ tx' = [tx EXCEPT ![r] = t] /\ pc' = [pc EXCEPT ![r] = "commit"]
        /\ \A q \in Others(r) : own'[q] = own[q]
    BY <1>0, <1>5 DEF Register, Typed, Others
  <2>2. t.op = tx[r].op /\ t.forUpdate = tx[r].forUpdate
    BY <1>0 DEF TxTypes
  <2> HIDE DEF t
  <2> QED BY <1>0, <2>1, <2>2, ClimbFrame DEF Climbs
<1> QED BY <1>1, <1>2, <1>3, <1>4, <1>5

\* The steps of updates, deletes and edits.
LEMMA ClimbOthers ==
  ASSUME IInv, Ladder, NEW r \in Requests,
         \/ Update(r) \/ SyncStatus(r) \/ Erase(r) \/ DropCash(r) \/ DropVehicle(r)
         \/ EditVehicle(r) \/ WriteDebits(r) \/ SkipDebits(r)
  PROVE  Ladder'
<1>0. Typed /\ tx[r] \in TxTypes /\ Carries(tx[r], pc[r], own[r])
      /\ Climbs(tx[r], pc[r], own[r])
  BY RequestTyped DEF Ladder, IInv
<1>1. /\ pc[r] \in {"update", "status", "erase", "dropcash", "drop", "edit", "debits"}
      /\ pc[r] = "status" => tx[r].op = "update"
      /\ tx[r].op \notin Makers
  <2>1. pc[r] \in {"update", "status", "erase", "dropcash", "drop", "edit", "debits"}
    BY DEF Update, SyncStatus, Erase, DropCash, DropVehicle, EditVehicle, WriteDebits, SkipDebits
  <2> QED BY <1>0, <2>1 DEF Carries, Moves, Erases, Makers
<1>2. ASSUME NEW t, NEW p, t.op = tx[r].op, t.forUpdate => t.op = "update",
             Goes(r, t, p) \/ \E x, row : Writes(r, x, row, t, p)
      PROVE  Ladder'
  BY <1>1, <1>2, ClimbOn
<1>3. CASE Rollback(r)
  BY <1>0, <1>3, ClimbEnd DEF Rollback
<1>4. CASE Update(r) /\ ~Rollback(r)
  <2>1. PICK v, row, seen :
          \/ Goes(r, [tx[r] EXCEPT !.veiculo = v, !.row = row, !.seen = seen], AfterEntry(r))
          \/ Writes(r, tx[r].entry, row,
                    [tx[r] EXCEPT !.veiculo = v, !.row = row, !.seen = seen], AfterEntry(r))
    BY <1>4 DEF Update
  <2> DEFINE t == [tx[r] EXCEPT !.veiculo = v, !.row = row, !.seen = seen]
             p == AfterEntry(r)
  <2>2. t.op = tx[r].op /\ t.forUpdate = tx[r].forUpdate
    BY <1>0 DEF TxTypes
  <2>3. Goes(r, t, p) \/ Writes(r, tx[r].entry, row, t, p)
    BY <2>1
  <2> HIDE DEF t, p
  <2> QED BY <1>0, <1>2, <2>2, <2>3 DEF Climbs
<1>5. CASE SyncStatus(r)
  <2> DEFINE t == [tx[r] EXCEPT !.forUpdate = TRUE]
  <2>1. t.op = tx[r].op /\ tx[r].op = "update"
    BY <1>0, <1>1, <1>5 DEF TxTypes, SyncStatus
  <2>2. \/ Goes(r, tx[r], "commit")
        \/ \E x, row, p : Writes(r, x, row, t, p)
    BY <1>5 DEF SyncStatus
  <2> HIDE DEF t
  <2> QED BY <1>2, <2>1, <2>2
<1>6. CASE Erase(r) \/ DropCash(r) \/ SkipDebits(r)
  <2>1. \E p : Goes(r, tx[r], p) \/ \E x, row : Writes(r, x, row, tx[r], p)
    BY <1>6 DEF Erase, DropCash, SkipDebits
  <2> QED BY <1>0, <1>2, <2>1 DEF Climbs
<1>7. CASE WriteDebits(r) /\ ~Rollback(r)
  <2>1. \E p, x, row : Writes(r, x, row, tx[r], p)
    BY <1>7 DEF WriteDebits
  <2> QED BY <1>0, <1>2, <2>1 DEF Climbs
<1>8. CASE EditVehicle(r) /\ ~Rollback(r)
  <2>1. PICK e, x, row, p :
          Writes(r, x, row, tx[r], p) \/ Writes(r, x, row, [tx[r] EXCEPT !.entry = e], p)
    BY <1>8 DEF EditVehicle
  <2> DEFINE t == [tx[r] EXCEPT !.entry = e]
  <2>2. t.op = tx[r].op /\ t.forUpdate = tx[r].forUpdate
    BY <1>0 DEF TxTypes
  <2>3. Writes(r, x, row, tx[r], p) \/ Writes(r, x, row, t, p)
    BY <2>1
  <2> HIDE DEF t
  <2> QED BY <1>0, <1>2, <2>2, <2>3 DEF Climbs
<1>9. CASE DropVehicle(r) /\ ~Rollback(r)
  <2>1. /\ tx' = [tx EXCEPT ![r] = tx[r]] /\ pc' = [pc EXCEPT ![r] = "commit"]
        /\ \A q \in Others(r) : own'[q] = own[q]
    BY <1>0, <1>9 DEF DropVehicle, Typed, Others
  <2> QED BY <1>0, <1>1, <2>1, ClimbFrame DEF Climbs
<1> QED BY <1>3, <1>4, <1>5, <1>6, <1>7, <1>8, <1>9

LEMMA LadderStep == IInv /\ Ladder /\ [Next]_vars => Ladder'
<1> SUFFICES ASSUME IInv, Ladder, [Next]_vars PROVE Ladder'
  OBVIOUS
<1>1. CASE UNCHANGED vars
  BY <1>1 DEF Ladder, Climbs, vars
<1>2. ASSUME NEW r \in Requests, Rollback(r) \/ Publish(r)
      PROVE  Ladder'
  BY <1>2, ClimbEnd DEF Rollback, Publish, IInv
<1>3. ASSUME NEW r \in Requests, Advance(r) \/ Abort(r)
      PROVE  Ladder'
  <2>1. CASE \/ InsertNested(r) \/ Insert(r) \/ ReadCost(r) \/ WriteCash(r) \/ Register(r)
             \/ Update(r) \/ SyncStatus(r) \/ Erase(r) \/ DropCash(r) \/ DropVehicle(r)
             \/ EditVehicle(r) \/ WriteDebits(r) \/ SkipDebits(r)
    BY <2>1, ClimbNested, ClimbMakes, ClimbOthers
  <2>2. CASE NestedTaken(r) \/ Refuse(r) \/ Commit(r) \/ DeadlockVictim(r) \/ Abort(r)
    <3>1. Rollback(r) \/ Publish(r)
      BY <2>2 DEF NestedTaken, Refuse, Commit, DeadlockVictim, Abort
    <3> QED BY <1>2, <3>1
  <2> QED BY <1>3, <2>1, <2>2 DEF Advance
<1> QED BY <1>1, <1>3, ClimbBeginnings DEF Next

LEMMA AlwaysLadder == Spec => []Ladder
<1>1. Init => Ladder
  BY DEF Init, Ladder, Climbs, NoTx, Makers
<1> QED BY <1>1, LadderStep, AlwaysIInv, PTL DEF Spec

\* Whom such a request waits for is further up.
LEMMA WaitsUpwards ==
  ASSUME IInv, Ladder, NEW r \in Requests, NEW q \in WaitsFor(r),
         tx[r].op \in Makers, tx[q].op \in Makers
  PROVE  Rung(r) \in 1..5 /\ Rung(q) \in 1..6 /\ Rung(r) < Rung(q)
<1>1. /\ pc[r] \in {"nested", "insert", "cost", "cash", "commit", "register"}
      /\ Carries(tx[r], pc[r], own[r]) /\ Climbs(tx[r], pc[r], own[r])
  BY RequestTyped DEF Ladder, Climbs
<1>2. q \in Requests
  BY <1>1 DEF WaitsFor, RowWaits, KeyWaits, PinWaits, Others
<1>3. /\ pc[q] \in {"nested", "insert", "cost", "cash", "commit", "register"}
      /\ Carries(tx[q], pc[q], own[q]) /\ Climbs(tx[q], pc[q], own[q])
  BY <1>2, RequestTyped DEF Ladder, Climbs
<1>4. /\ pc[q] = "register" => own[q] = Nothing
      /\ pc[q] \in {"nested", "insert"} => \A e \in Entries : own[q][e] = Untouched
      /\ pc[q] # "commit" => \A v \in Vehicles : own[q][v] # NoRow
      /\ pc[q] # "commit" => \A v \in Vehicles : own[q][Caixa[v]] = Untouched
      /\ ~tx[q].forUpdate
      /\ pc[q] = "nested" => \A v \in Vehicles : own[q][v] = Untouched
      /\ pc[q] = "nested" /\ Head(tx[q].todo) # "vehicle" => \A c \in Clients : own[q][c] = Untouched
      /\ pc[q] = "nested" /\ Head(tx[q].todo) = "investor" => own[q][Consignado] = Untouched
  BY <1>3 DEF Carries, Climbs, Makers
<1>5. tx[r].veiculo \in Vehicles
  BY <1>1 DEF Carries
<1>6. Rung(q) \in 1..6
  BY DEF Rung
<1>7. CASE pc[r] = "nested"
  <2> DEFINE x == Nested(tx[r], Head(tx[r].todo))
  <2>1. /\ tx[r].client \in Clients /\ tx[r].todo \in Orders /\ tx[r].todo # <<>>
    BY <1>1, <1>7 DEF Carries, Climbs
  <2>2. Head(tx[r].todo) \in Nests
    BY <2>1, OrderTail
  <2>3. own[q][x] # Untouched
    BY <1>7 DEF WaitsFor, RowWaits
  <2>4. CASE Head(tx[r].todo) = "investor"
    <3>1. x = Consignado /\ Rung(r) = 1
      BY <1>7, <2>4 DEF Nested, Rung
    <3>2. own[q][Consignado] # Untouched
      BY <2>3, <3>1
    <3>3. ~(pc[q] = "nested" /\ Head(tx[q].todo) = "investor")
      BY <1>4, <3>2
    <3> QED BY <3>1, <3>3 DEF Rung
  <2>5. CASE Head(tx[r].todo) = "client"
    <3>1. x \in Clients /\ Rung(r) = 2
      BY <1>7, <2>1, <2>5 DEF Nested, Rung
    <3>2. pc[q] = "nested" => Head(tx[q].todo) = "vehicle"
      BY <1>4, <2>3, <3>1
    <3> QED BY <3>1, <3>2 DEF Rung
  <2>6. CASE Head(tx[r].todo) = "vehicle"
    <3>1. x \in Vehicles /\ Rung(r) = 3
      BY <1>5, <1>7, <2>6 DEF Nested, Rung
    <3>2. pc[q] # "nested" /\ pc[q] # "register"
      BY <1>4, <2>3, <3>1, NothingFits, Kinds
    <3> QED BY <3>1, <3>2 DEF Rung
  <2> QED BY <2>2, <2>4, <2>5, <2>6 DEF Nests
<1>8. CASE pc[r] = "register"
  <2>1. own[q][tx[r].veiculo] # Untouched
    BY <1>8 DEF WaitsFor, RowWaits
  <2>2. pc[q] # "nested" /\ pc[q] # "register"
    BY <1>4, <1>5, <2>1, NothingFits, Kinds
  <2> QED BY <1>8, <2>2 DEF Rung
<1>9. CASE pc[r] = "insert"
  <2>1. q \in KeyWaits(r, tx[r].row) \/ q \in PinWaits(r, tx[r].veiculo)
    BY <1>9 DEF WaitsFor
  <2>2. CASE q \in KeyWaits(r, tx[r].row)
    <3>1. \E e \in Entries : own[q][e] # Untouched
      BY <2>2, Kinds DEF KeyWaits, SameKey
    <3>2. pc[q] \notin {"nested", "insert", "register"}
      BY <1>4, <3>1, NothingFits, Kinds
    <3> QED BY <1>9, <3>2 DEF Rung
  <2>3. CASE q \in PinWaits(r, tx[r].veiculo)
    <3>1. own[q][tx[r].veiculo] = NoRow
      BY <1>4, <2>3 DEF PinWaits
    <3>2. pc[q] = "commit"
      BY <1>4, <1>5, <3>1
    <3> QED BY <1>9, <3>2 DEF Rung
  <2> QED BY <2>1, <2>2, <2>3
<1>10. CASE pc[r] = "cash"
  <2>1. own[q][Caixa[tx[r].veiculo]] # Untouched
    BY <1>10 DEF WaitsFor, RowWaits
  <2>2. pc[q] = "commit"
    BY <1>4, <1>5, <2>1
  <2> QED BY <1>10, <2>2 DEF Rung
<1>11. CASE pc[r] \in {"cost", "commit"}
  <2>1. WaitsFor(r) = {}
    BY <1>11 DEF WaitsFor
  <2> QED BY <2>1
<1> QED BY <1>1, <1>6, <1>7, <1>8, <1>9, <1>10, <1>11

\* However many forms create clients, vehicles, investors and entries at once,
\* they never wait for each other in a circle: every one asks for its rows in the
\* order investor, client, vehicle, entry, cash row.
THEOREM CreatesInOrder == Spec => []CreatesNeverDeadlock
<1>1. IInv /\ Ladder => CreatesNeverDeadlock
  <2>0. SUFFICES ASSUME IInv, Ladder PROVE CreatesNeverDeadlock
    OBVIOUS
  <2>1. SUFFICES ASSUME NEW c \in SUBSET Requests, Cycle(c), \A r \in c : tx[r].op \in Makers
                 PROVE  FALSE
    BY DEF CreatesNeverDeadlock, Makers
  <2>2. ASSUME NEW r \in c
        PROVE  \E q \in c : Rung(r) \in 1..5 /\ Rung(q) \in 1..6 /\ Rung(r) < Rung(q)
    <3>1. PICK q \in c : q \in WaitsFor(r)
      BY <2>1, <2>2 DEF Cycle
    <3> QED BY <2>0, <2>1, <3>1, WaitsUpwards
  <2> DEFINE At(n) == \E r \in c : Rung(r) = n
  <2>3. ~At(6)
    BY <2>2
  <2>4. ~At(5)
    BY <2>2, <2>3
  <2>5. ~At(4)
    BY <2>2, <2>3, <2>4
  <2>6. ~At(3)
    BY <2>2, <2>3, <2>4, <2>5
  <2>7. ~At(2)
    BY <2>2, <2>3, <2>4, <2>5, <2>6
  <2>8. ~At(1)
    BY <2>2, <2>3, <2>4, <2>5, <2>6, <2>7
  <2>9. c = {}
    BY <2>2, <2>4, <2>5, <2>6, <2>7, <2>8
  <2> QED BY <2>1, <2>9 DEF Cycle
<1> QED BY <1>1, AlwaysIInv, AlwaysLadder, PTL

-----------------------------------------------------------------------------
(* The cash row of a vehicle mirrors its purchases.                        *)

\* The rows a request that wrote o sees over the committed rows d.
Seen(d, o) == [x \in Things |-> IF o[x] # Untouched THEN o[x] ELSE d[x]]

Buys(row, v) == Refers(row, v) /\ row.compra
Purchases(m, v) == {e \in Entries : Buys(m[e], v)}

\* Among the rows m, c is the cash row of what v cost.
Mirrors(m, v, c) ==
  /\ c.dono = m[v].dono
  /\ IF Purchases(m, v) = {} THEN c.valor = 0
     ELSE \E e \in Purchases(m, v) :
            /\ c.valor = m[e].valor
            /\ \A f \in Purchases(m, v) : m[f].dia <= m[e].dia
UpToDate(m, v) == m[v] # NoRow /\ m[Caixa[v]] # NoRow => Mirrors(m, v, m[Caixa[v]])

\* What t, which is at p, may have written.
Holds(t, p, o) ==
  /\ \A v \in Vehicles :
       /\ o[v] # Untouched \/ o[Caixa[v]] # Untouched => v = t.veiculo
       /\ o[v] = NoRow => o[Caixa[v]] = NoRow
       /\ \/ p = "commit"
          \/ o[Caixa[v]] = Untouched
          \/ p = "drop" /\ o[Caixa[v]] = NoRow
       /\ p = "status" => o[v] = Untouched
  /\ \A e \in Entries :
       /\ IsRow(o[e]) /\ t.op # "edit" => o[e].veiculo = t.veiculo
       /\ o[e] = NoRow => ~Moves(t)
  /\ Erases(t) => t.old \in EntryRows /\ t.old.veiculo = t.veiculo
  /\ Moves(t) \/ Erases(t) => t.entry \in Entries
  /\ ~Moves(t) /\ ~Erases(t) => t.old = NoRow
  /\ t.op \in {"register", "drop", "none"} => t.entry = None
  /\ t.synced => p \in {"cash", "commit"}
  /\ p = "cash" => t.synced

\* A cash row is there only with its vehicle; debts change no row.
Backs(d, t, o) ==
  /\ \A v \in Vehicles :
       /\ o[Caixa[v]] # Untouched => d[v] # NoRow \/ o[v] # Untouched
       /\ IsRow(o[Caixa[v]]) => o[v] # NoRow /\ (o[v] = Untouched => d[v] # NoRow)
  /\ t.op = "edit" => \A e \in Entries : o[e] \in {Untouched, d[e]}

\* What t wrote changes no purchase, and nothing of the vehicle.
Still(d, t, o) ==
  /\ o[Caixa[t.veiculo]] = Untouched
  /\ o[t.veiculo] \in {Untouched, d[t.veiculo]} \/ d[t.veiculo] = NoRow
  /\ \A e \in Entries : o[e] # Untouched =>
       /\ IsRow(o[e]) => ~o[e].compra
       /\ Creates(t) \/ ((Moves(t) \/ Erases(t)) /\ ~t.old.compra)

\* What a request that is alone on its vehicles knows of the committed rows d.
Knows(d, t, p, o) ==
  LET v == t.veiculo
      m == Seen(d, o)
  IN  /\ Moves(t) \/ Erases(t) =>
           /\ d[t.entry] = t.old
           /\ t.row.compra = t.old.compra
           /\ IsRow(o[t.entry]) => o[t.entry].compra = t.old.compra
      /\ t.op = "edit" /\ t.entry # None => Refers(d[t.entry], v)
      /\ p \in {"nested", "insert"} /\ o[v] # Untouched => d[v] = NoRow
      /\ p \in {"status", "erase", "cost", "debits"} /\ m[v] # NoRow => t.seen = m[v]
      /\ p = "cash" => /\ d[Caixa[v]] = t.cashOld
                       /\ m[v] # NoRow => Mirrors(m, v, t.cash)
      /\ p = "commit" => IF t.synced THEN UpToDate(m, v)
                         ELSE o[v] = NoRow \/ Still(d, t, o)

Held == \A r \in Requests : Holds(tx[r], pc[r], own[r]) /\ Backs(db, tx[r], own[r])
Known ==
  \A r \in Requests : pc[r] # "idle" /\ tx[r].lone => Knows(db, tx[r], pc[r], own[r])
LoneApart ==
  \A q, r \in Requests : q # r /\ tx[q].lone /\ tx[r].lone =>
    Concerns(tx[q]) \cap Concerns(tx[r]) = {}
CashLocks ==
  \A v \in Vehicles, q, r \in Requests :
    own[q][Caixa[v]] # Untouched /\ own[r][Caixa[v]] # Untouched => q = r
CashHasVehicle == \A v \in Vehicles : IsRow(db[Caixa[v]]) => db[v] # NoRow

\* Ids and days have an end: there is a latest purchase.
Bound(n, e, row) == IsRow(row) => e <= n /\ row.dia <= n
Bounded == \E n \in Nat : \A e \in Entries : Bound(n, e, db[e])

Cash == /\ Held /\ Known /\ LoneApart /\ CashLocks /\ CashHasVehicle /\ Bounded
        /\ CashMirrors

-----------------------------------------------------------------------------
(* Rows and purchases.                                                     *)

LEMMA SeenAt ==
  ASSUME NEW d, NEW o, NEW x \in Things
  PROVE  Seen(d, o)[x] = IF o[x] # Untouched THEN o[x] ELSE d[x]
BY DEF Seen

\* The purchases of v, the vehicle and its cash row are the same among m and n.
Alike(m, n, v) ==
  /\ n[v] = m[v] /\ n[Caixa[v]] = m[Caixa[v]]
  /\ \A e \in Entries : n[e] = m[e] \/ (~Buys(m[e], v) /\ ~Buys(n[e], v))

LEMMA AlikePurchases ==
  ASSUME NEW m, NEW n, NEW v,
         \A e \in Entries : n[e] = m[e] \/ (~Buys(m[e], v) /\ ~Buys(n[e], v))
  PROVE  Purchases(n, v) = Purchases(m, v) /\ \A e \in Purchases(m, v) : n[e] = m[e]
<1>1. ASSUME NEW e \in Entries PROVE Buys(n[e], v) <=> Buys(m[e], v)
  BY <1>1
<1>2. Purchases(n, v) = Purchases(m, v)
  BY <1>1 DEF Purchases
<1>3. \A e \in Purchases(m, v) : n[e] = m[e]
  BY DEF Purchases
<1> QED BY <1>2, <1>3

LEMMA AlikeMirrors ==
  ASSUME NEW m, NEW n, NEW v, NEW c, n[v] = m[v],
         \A e \in Entries : n[e] = m[e] \/ (~Buys(m[e], v) /\ ~Buys(n[e], v)),
         Mirrors(m, v, c)
  PROVE  Mirrors(n, v, c)
<1>1. Purchases(n, v) = Purchases(m, v) /\ \A e \in Purchases(m, v) : n[e] = m[e]
  BY AlikePurchases
<1> QED BY <1>1 DEF Mirrors

LEMMA AlikeUpToDate ==
  ASSUME NEW m, NEW n, NEW v, Alike(m, n, v), UpToDate(m, v)
  PROVE  UpToDate(n, v)
BY AlikeMirrors DEF Alike, UpToDate

\* Every nonempty set of numbers has a least one, and below a bound a greatest.
LEMMA Least ==
  ASSUME NEW S, S \subseteq Nat, S # {}
  PROVE  \E x \in S : \A y \in S : x <= y
<1> DEFINE R == OpToRel(<, Nat)
<1>1. IsWellFoundedOn(R, Nat)
  BY NatLessThanWellFounded
<1>2. \A x, y \in Nat : <<x, y>> \in R <=> x < y
  BY DEF OpToRel
<1> HIDE DEF R
<1>3. PICK x \in S : \A y \in S : ~(<<y, x>> \in R)
  BY <1>1, WFMin
<1>4. ASSUME NEW y \in S PROVE x <= y
  <2>1. x \in Nat /\ y \in Nat /\ ~(y < x)
    BY <1>2, <1>3
  <2> QED BY <2>1
<1> QED BY <1>4

LEMMA Greatest ==
  ASSUME NEW S, S \subseteq Nat, S # {}, NEW n \in Nat, \A x \in S : x <= n
  PROVE  \E x \in S : \A y \in S : y <= x
<1> DEFINE T == {k \in Nat : \E x \in S : k = n - x}
<1>1. T \subseteq Nat /\ T # {}
  <2>1. PICK x : x \in S
    OBVIOUS
  <2>2. n - x \in T
    BY <2>1
  <2> QED BY <2>2
<1>2. PICK z \in T : \A w \in T : z <= w
  BY <1>1, Least
<1>3. PICK x \in S : z = n - x
  OBVIOUS
<1>4. ASSUME NEW y \in S PROVE y <= x
  <2>1. n - y \in T /\ x \in Nat /\ y \in Nat
    OBVIOUS
  <2>2. n - x <= n - y
    BY <1>2, <1>3, <2>1
  <2> QED BY <2>1, <2>2
<1> QED BY <1>4

LEMMA EntryRowTyped ==
  ASSUME NEW row \in EntryRows
  PROVE  /\ row.compra \in BOOLEAN /\ row.veiculo \in Vehicles
         /\ row.valor \in Nat /\ row.dia \in Nat
BY DEF EntryRows, Values

\* What a request sees is rows.
LEMMA ViewTyped ==
  ASSUME IInv, NEW r \in Requests
  PROVE  /\ \A x \in Things : View(r, x) = Seen(db, own[r])[x]
         /\ \A e \in Entries : View(r, e) \in EntryRows \cup {NoRow}
         /\ \A v \in Vehicles : View(r, v) \in VehicleRows \cup {NoRow}
         /\ \A v \in Vehicles : View(r, Caixa[v]) \in CashRows \cup {NoRow}
<1>1. \A x \in Things : View(r, x) \in RowsOf(x) \cup {NoRow}
  BY DEF View, IInv, Typed, TypeStock
<1>2. \A x \in Things : View(r, x) = Seen(db, own[r])[x]
  BY DEF View, Seen
<1> QED BY <1>1, <1>2, Kinds

\* A vehicle with a purchase has a latest one.
LEMMA LatestIsThere ==
  ASSUME IInv, Bounded, NEW r \in Requests, NEW v, Compras(r, v) # {}
  PROVE  Latest(r, v) # {}
<1>1. PICK n \in Nat : \A e \in Entries : Bound(n, e, db[e])
  BY DEF Bounded
<1> DEFINE C == Compras(r, v)
           day(e) == View(r, e).dia
           N == n + tx[r].entry + day(tx[r].entry)
<1>2. ASSUME NEW e \in C PROVE e \in Entries /\ View(r, e) \in EntryRows
                               /\ e \in Nat /\ day(e) \in Nat
  <2>1. e \in Entries /\ View(r, e) # NoRow
    BY DEF Compras, Refers
  <2>2. View(r, e) \in EntryRows
    BY <2>1, ViewTyped
  <2> QED BY <2>1, <2>2, EntryRowTyped, StockAssumption
<1>3. PICK m \in Nat : \A e \in C : e <= m /\ day(e) <= m
  <2> DEFINE x == tx[r].entry
             m == IF x \in C THEN n + x + day(x) ELSE n
  <2>1. m \in Nat
    BY <1>2
  <2>2. ASSUME NEW e \in C PROVE e <= m /\ day(e) <= m
    <3>1. CASE e = x
      BY <1>2, <3>1
    <3>2. CASE e # x
      <4>1. own[r][e] = Untouched
        BY <1>2, <3>2, RequestTyped DEF Carries
      <4>2. View(r, e) = db[e] /\ IsRow(db[e])
        BY <4>1 DEF View, Compras, Refers, IsRow
      <4>3. e <= n /\ day(e) <= n
        BY <1>1, <1>2, <4>2 DEF Bound
      <4> QED BY <1>2, <4>3
    <3> QED BY <3>1, <3>2
  <2> HIDE DEF m
  <2> QED BY <2>1, <2>2
<1> HIDE DEF C, day
<1> DEFINE Days == {k \in Nat : \E e \in C : k = day(e)}
<1>4. C # {}
  BY DEF C
<1>5. Days # {} /\ Days \subseteq Nat /\ \A k \in Days : k <= m
  <2>1. PICK e : e \in C
    BY <1>4
  <2>2. day(e) \in Days
    BY <1>2, <2>1
  <2> QED BY <1>3, <2>2
<1>6. PICK last \in Days : \A k \in Days : k <= last
  BY <1>5, Greatest
<1> DEFINE L == {e \in C : day(e) = last}
<1>7. L # {} /\ L \subseteq Nat /\ \A e \in L : e <= m
  BY <1>2, <1>3, <1>6
<1>8. PICK e \in L : \A f \in L : f <= e
  BY <1>7, Greatest
<1>9. ASSUME NEW f \in C PROVE day(f) < day(e) \/ (day(f) = day(e) /\ f <= e)
  <2>1. day(f) \in Days /\ day(f) <= last /\ day(e) = last
    BY <1>2, <1>6, <1>8
  <2>2. CASE day(f) = last
    BY <1>8, <2>1, <2>2
  <2>3. CASE day(f) # last
    BY <1>2, <1>6, <2>1, <2>3
  <2> QED BY <2>2, <2>3
<1>10. e \in C
  BY <1>8
<1> QED BY <1>9, <1>10 DEF Latest, C, day

\* What is said of a request does not depend on whether it is alone.
LEMMA CashLoneOnly ==
  ASSUME NEW t \in TxTypes, NEW b \in BOOLEAN, NEW p, NEW o, NEW d
  PROVE  LET u == [t EXCEPT !.lone = b]
         IN  /\ u.lone = b
             /\ Holds(t, p, o) => Holds(u, p, o)
             /\ Backs(d, t, o) => Backs(d, u, o)
             /\ Knows(d, t, p, o) => Knows(d, u, p, o)
             /\ Concerns(u) = Concerns(t)
<1> DEFINE u == [t EXCEPT !.lone = b]
<1>1. /\ u.op = t.op /\ u.entry = t.entry /\ u.veiculo = t.veiculo /\ u.row = t.row
      /\ u.old = t.old /\ u.seen = t.seen /\ u.cash = t.cash /\ u.cashOld = t.cashOld
      /\ u.synced = t.synced /\ u.lone = b
  BY DEF TxTypes
<1> HIDE DEF u
<1>2. Holds(t, p, o) => Holds(u, p, o)
  BY <1>1 DEF Holds, Moves, Erases
<1>3. Backs(d, t, o) => Backs(d, u, o)
  BY <1>1 DEF Backs
<1>4. Knows(d, t, p, o) => Knows(d, u, p, o)
  BY <1>1 DEF Knows, Still, Moves, Erases, Creates
<1>5. Concerns(u) = Concerns(t)
  BY <1>1 DEF Concerns
<1> QED BY <1>1, <1>2, <1>3, <1>4, <1>5 DEF u

\* No step makes another request alone.
Quieter(r) == \A q \in Others(r) : tx'[q].lone => tx[q].lone

LEMMA OthersConcerns ==
  ASSUME Typed, NEW r \in Requests, NEW t, NEW p, NEW o, Step(r, t, p, o), NEW q \in Others(r)
  PROVE  /\ Concerns(tx'[q]) = Concerns(tx[q])
         /\ Holds(tx[q], pc[q], own[q]) => Holds(tx'[q], pc'[q], own'[q])
         /\ \A d : /\ Backs(d, tx[q], own[q]) => Backs(d, tx'[q], own'[q])
                   /\ Knows(d, tx[q], pc[q], own[q]) => Knows(d, tx'[q], pc'[q], own'[q])
         /\ pc'[q] = pc[q] /\ own'[q] = own[q]
<1>1. /\ tx'[q] = [tx[q] EXCEPT !.lone = tx'[q].lone]
      /\ tx[q] \in TxTypes /\ tx'[q].lone \in BOOLEAN
  BY DEF Step, Typed, Others, TxTypes
<1>2. pc'[q] = pc[q] /\ own'[q] = own[q]
  BY StepEffect DEF Others
<1> QED BY <1>1, <1>2, CashLoneOnly

\* A step that commits nothing: what it has to keep of the request it is of.
LEMMA CashStep ==
  ASSUME IInv, Cash, NEW r \in Requests, NEW t, NEW p, NEW o, Step(r, t, p, o),
         UNCHANGED <<db, drift>>, Quieter(r),
         Holds(t, p, o), Backs(db, t, o),
         p # "idle" /\ t.lone => Knows(db, t, p, o),
         \A q \in Others(r) : t.lone /\ tx'[q].lone => Concerns(tx[q]) \cap Concerns(t) = {},
         \A v \in Vehicles : o[Caixa[v]] # Untouched =>
           \A q \in Others(r) : own[q][Caixa[v]] = Untouched
  PROVE  Cash'
<1>0. Typed /\ own'[r] = o /\ pc'[r] = p /\ tx'[r] = t
  BY StepEffect DEF IInv
<1>1. Held'
  <2>1. ASSUME NEW q \in Requests
        PROVE  Holds(tx'[q], pc'[q], own'[q]) /\ Backs(db', tx'[q], own'[q])
    <3>1. CASE q = r
      BY <1>0, <3>1
    <3>2. CASE q # r
      BY <1>0, <3>2, OthersConcerns DEF Cash, Held, Others
    <3> QED BY <3>1, <3>2
  <2> QED BY <2>1 DEF Held
<1>2. Known'
  <2>1. ASSUME NEW q \in Requests, pc'[q] # "idle", tx'[q].lone
        PROVE  Knows(db', tx'[q], pc'[q], own'[q])
    <3>1. CASE q = r
      BY <1>0, <2>1, <3>1
    <3>2. CASE q # r
      <4>1. q \in Others(r) /\ pc[q] # "idle" /\ tx[q].lone
        BY <1>0, <2>1, <3>2, OthersConcerns DEF Quieter, Others
      <4>2. Knows(db, tx[q], pc[q], own[q])
        BY <4>1 DEF Cash, Known
      <4> QED BY <1>0, <4>1, <4>2, OthersConcerns
    <3> QED BY <3>1, <3>2
  <2> QED BY <2>1 DEF Known
<1>3. LoneApart'
  <2>1. ASSUME NEW q \in Requests, NEW s \in Requests, q # s, tx'[q].lone, tx'[s].lone
        PROVE  Concerns(tx'[q]) \cap Concerns(tx'[s]) = {}
    <3>1. CASE q = r
      BY <1>0, <2>1, <3>1, OthersConcerns DEF Others
    <3>2. CASE s = r
      BY <1>0, <2>1, <3>2, OthersConcerns DEF Others
    <3>3. CASE q # r /\ s # r
      <4>1. tx[q].lone /\ tx[s].lone
        BY <2>1, <3>3 DEF Quieter, Others
      <4>2. Concerns(tx'[q]) = Concerns(tx[q]) /\ Concerns(tx'[s]) = Concerns(tx[s])
        BY <1>0, <3>3, OthersConcerns DEF Others
      <4> QED BY <2>1, <4>1, <4>2 DEF Cash, LoneApart
    <3> QED BY <3>1, <3>2, <3>3
  <2> QED BY <2>1 DEF LoneApart
<1>4. CashLocks'
  <2>1. \A q \in Requests : q # r => own'[q] = own[q]
    BY <1>0, StepEffect
  <2> QED BY <1>0, <2>1 DEF Cash, CashLocks, Others
<1>5. CashHasVehicle' /\ Bounded' /\ CashMirrors'
  BY DEF Cash, CashHasVehicle, Bounded, Bound, CashMirrors, Mirrored
<1> QED BY <1>1, <1>2, <1>3, <1>4, <1>5 DEF Cash

LEMMA WritesQuieter ==
  ASSUME Typed, NEW r \in Requests, NEW t, NEW w,
         Goes(r, t, w) \/ \E x, row : Writes(r, x, row, t, w)
  PROVE  Quieter(r) /\ \A q \in Others(r) : tx'[q] = tx[q]
BY DEF Goes, Writes, Typed, Quieter, Others

LEMMA EndsQuieter ==
  ASSUME Typed, NEW r \in Requests, NEW disturbed, Ends(r, disturbed)
  PROVE  \A q \in Others(r) : tx'[q].lone =>
           tx[q].lone /\ Concerns(tx[q]) \cap disturbed = {}
<1>1. \A q \in Others(r) : tx'[q] = [tx[q] EXCEPT !.lone = @ /\ Concerns(tx[q]) \cap disturbed = {}]
  BY DEF Ends, Others
<1>2. ASSUME NEW q \in Others(r), tx'[q].lone
      PROVE  tx[q].lone /\ Concerns(tx[q]) \cap disturbed = {}
  <2> DEFINE b == tx[q].lone /\ Concerns(tx[q]) \cap disturbed = {}
  <2>1. tx[q] \in TxTypes
    BY DEF Typed, Others
  <2>2. tx'[q] = [tx[q] EXCEPT !.lone = b]
    BY <1>1
  <2>3. tx'[q].lone = b
    <3> HIDE DEF b
    <3> QED BY <2>1, <2>2 DEF TxTypes
  <2> QED BY <1>2, <2>3
<1> QED BY <1>2

LEMMA BeginsQuieter ==
  ASSUME Typed, NEW r \in Requests, NEW t \in TxTypes, NEW w, Begins(r, t, w)
  PROVE  \E b \in BOOLEAN :
           /\ Step(r, [t EXCEPT !.lone = b], w, Nothing)
           /\ Quieter(r)
           /\ b => \A q \in Others(r) : Concerns(tx[q]) \cap Concerns(t) = {}
<1> DEFINE with == {q \in Others(r) : Concerns(tx[q]) \cap Concerns(t) # {}}
<1>1. tx' = [q \in Requests |->
               IF q = r THEN [t EXCEPT !.lone = (with = {})]
               ELSE IF q \in with THEN [tx[q] EXCEPT !.lone = FALSE] ELSE tx[q]]
  BY DEF Begins
<1>2. PICK b \in BOOLEAN : Step(r, [t EXCEPT !.lone = b], w, Nothing)
  BY BeginsIsStep
<1>3. tx'[r].lone = b
  <2>1. tx'[r] = [t EXCEPT !.lone = b]
    BY <1>2, StepEffect
  <2> QED BY <2>1 DEF TxTypes
<1>4. tx'[r].lone = (with = {})
  <2>1. tx'[r] = [t EXCEPT !.lone = (with = {})]
    BY <1>1
  <2> HIDE DEF with
  <2> QED BY <2>1 DEF TxTypes
<1>5. Quieter(r)
  <2>1. ASSUME NEW q \in Others(r), tx'[q].lone PROVE tx[q].lone
    <3>1. CASE q \in with
      <4>1. tx'[q] = [tx[q] EXCEPT !.lone = FALSE] /\ tx[q] \in TxTypes
        BY <1>1, <3>1 DEF Others, Typed
      <4>2. tx'[q].lone = FALSE
        BY <4>1 DEF TxTypes
      <4> QED BY <2>1, <4>2
    <3>2. CASE q \notin with
      BY <1>1, <2>1, <3>2 DEF Others
    <3> QED BY <3>1, <3>2
  <2> QED BY <2>1 DEF Quieter
<1>6. b => with = {}
  BY <1>3, <1>4
<1> QED BY <1>2, <1>5, <1>6

LEMMA NothingCash ==
  /\ \A x \in Things : Nothing[x] = Untouched
  /\ \A v \in Vehicles : Nothing[v] = Untouched /\ Nothing[Caixa[v]] = Untouched
  /\ \A e \in Entries : Nothing[e] = Untouched
  /\ \A t, d : Backs(d, t, Nothing)
<1>1. /\ \A x \in Things : Nothing[x] = Untouched
      /\ \A v \in Vehicles : Nothing[v] = Untouched /\ Nothing[Caixa[v]] = Untouched
      /\ \A e \in Entries : Nothing[e] = Untouched
  BY NothingFits, Kinds
<1> QED BY <1>1 DEF Backs, IsRow

LEMMA CashBegins ==
  ASSUME IInv, Cash, NEW r \in Requests, NEW t \in TxTypes, NEW w, Begins(r, t, w),
         Holds(t, w, Nothing), Knows(db, t, w, Nothing)
  PROVE  Cash'
<1>1. PICK b \in BOOLEAN :
        /\ Step(r, [t EXCEPT !.lone = b], w, Nothing)
        /\ Quieter(r)
        /\ b => \A q \in Others(r) : Concerns(tx[q]) \cap Concerns(t) = {}
  BY BeginsQuieter DEF IInv
<1>2. UNCHANGED <<db, drift>>
  BY DEF Begins
<1> DEFINE u == [t EXCEPT !.lone = b]
<1>3. u.lone = b /\ Holds(u, w, Nothing) /\ Knows(db, u, w, Nothing) /\ Concerns(u) = Concerns(t)
  BY CashLoneOnly
<1>4. Step(r, u, w, Nothing)
  BY <1>1
<1> HIDE DEF u
<1>5. \A v \in Vehicles : Nothing[Caixa[v]] = Untouched
  BY NothingCash
<1> QED BY <1>1, <1>2, <1>3, <1>4, <1>5, NothingCash, CashStep

LEMMA NoTxHolds == Holds(NoTx, "idle", Nothing) /\ Concerns(NoTx) = {}
BY NothingCash DEF Holds, NoTx, IsRow, Moves, Erases, Concerns

LEMMA CashRollback ==
  ASSUME IInv, Cash, NEW r \in Requests, Rollback(r)
  PROVE  Cash'
<1>1. Step(r, NoTx, "idle", Nothing) /\ UNCHANGED <<db, drift>>
  BY EndsIsStep DEF IInv, Rollback
<1>2. Quieter(r)
  BY EndsQuieter DEF IInv, Rollback, Quieter
<1> QED BY <1>1, <1>2, NoTxHolds, NothingCash, CashStep

LEMMA BeginEntryCash ==
  ASSUME IInv, Cash, NEW r \in Requests, BeginEntry(r)
  PROVE  Cash'
<1>1. PICK op \in {"buy", "consign"}, e \in Entries, k \in Keys, c \in Clients,
           v \in Vehicles, i \in Inputs, d \in Donos :
        LET row  == [compra |-> op = "buy", key |-> k, veiculo |-> v,
                     valor |-> i.valor, dia |-> i.dia]
            todo == Todo(op, c, v)
        IN  /\ Free(e) /\ ~KeyTaken(row)
            /\ Begins(r,
                 [NoTx EXCEPT !.op = op, !.entry = e, !.client = c, !.veiculo = v, !.row = row,
                              !.todo = todo, !.nested = (db[c] = NoRow \/ db[v] = NoRow),
                              !.seen = [dono |-> IF op = "buy" THEN d ELSE Consignado]],
                 IF todo = <<>> THEN "insert" ELSE "nested")
  BY DEF BeginEntry
<1> DEFINE row == [compra |-> op = "buy", key |-> k, veiculo |-> v,
                   valor |-> i.valor, dia |-> i.dia]
           todo == Todo(op, c, v)
           new == db[c] = NoRow \/ db[v] = NoRow
           seen == [dono |-> IF op = "buy" THEN d ELSE Consignado]
           t == [NoTx EXCEPT !.op = op, !.entry = e, !.client = c, !.veiculo = v, !.row = row,
                             !.todo = todo, !.nested = new, !.seen = seen]
           p == IF todo = <<>> THEN "insert" ELSE "nested"
<1>2. Begins(r, t, p)
  BY <1>1
<1>3. row \in EntryRows
  BY InputTyped DEF EntryRows
<1>4. seen \in VehicleRows
  BY DEF VehicleRows
<1>5. todo \in Seq(Nests) /\ p \in {"insert", "nested"} /\ new \in BOOLEAN
  BY TodoTyped
<1> HIDE DEF row, todo, new, seen, p
<1>6. t \in TxTypes
  BY <1>3, <1>4, <1>5 DEF TxTypes, NoTx, AllOps
<1>7. /\ t.op = op /\ t.entry = e /\ t.veiculo = v /\ t.old = NoRow /\ t.synced = FALSE
  BY DEF NoTx
<1> HIDE DEF t
<1>8. Holds(t, p, Nothing)
  BY <1>5, <1>7, NothingCash DEF Holds, IsRow, Moves, Erases
<1>9. Knows(db, t, p, Nothing)
  BY <1>5, <1>7, NothingCash DEF Knows, Moves, Erases
<1> QED BY <1>2, <1>6, <1>8, <1>9, CashBegins

LEMMA BeginUpdateCash ==
  ASSUME IInv, Cash, NEW r \in Requests, BeginUpdate(r)
  PROVE  Cash'
<1>1. PICK op \in {"update", "json_update"}, e \in Entries, v \in Vehicles, i \in Inputs :
        /\ db[e] # NoRow
        /\ Begins(r,
             [NoTx EXCEPT !.op = op, !.entry = e, !.veiculo = v, !.old = db[e],
                          !.row = [db[e] EXCEPT !.veiculo = v, !.valor = i.valor,
                                                !.dia = i.dia]],
             "update")
  BY DEF BeginUpdate
<1> DEFINE old == db[e]
           row == [old EXCEPT !.veiculo = v, !.valor = i.valor, !.dia = i.dia]
           t == [NoTx EXCEPT !.op = op, !.entry = e, !.veiculo = v, !.old = old, !.row = row]
<1>2. Begins(r, t, "update") /\ old = db[e]
  BY <1>1
<1>3. old \in EntryRows
  BY <1>1, Kinds DEF IInv, Typed, TypeStock
<1> HIDE DEF old
<1>4. row \in EntryRows /\ row.compra = old.compra
  BY <1>3, InputTyped DEF EntryRows
<1> HIDE DEF row
<1>5. t \in TxTypes
  BY <1>3, <1>4, NoTxTyped DEF TxTypes, AllOps
<1>6. /\ t.op = op /\ t.entry = e /\ t.veiculo = v /\ t.row = row /\ t.old = old
      /\ t.synced = FALSE
  BY DEF NoTx
<1> HIDE DEF t
<1>7. Holds(t, "update", Nothing)
  BY <1>6, NothingCash, Kinds DEF Holds, IsRow, Moves, Erases
<1>8. Knows(db, t, "update", Nothing)
  BY <1>2, <1>4, <1>6, NothingCash DEF Knows, IsRow, Moves, Erases
<1> QED BY <1>2, <1>5, <1>7, <1>8, CashBegins

LEMMA BeginDeleteCash ==
  ASSUME IInv, Cash, NEW r \in Requests, BeginDelete(r)
  PROVE  Cash'
<1>1. PICK op \in {"delete", "json_delete"}, e \in Entries :
        /\ db[e] # NoRow
        /\ Begins(r,
             [NoTx EXCEPT !.op = op, !.entry = e, !.veiculo = db[e].veiculo, !.old = db[e],
                          !.row = db[e], !.seen = db[db[e].veiculo]],
             "erase")
  BY DEF BeginDelete
<1> DEFINE old == db[e]
           v == db[e].veiculo
           seen == db[v]
           t == [NoTx EXCEPT !.op = op, !.entry = e, !.veiculo = v, !.old = old, !.row = old,
                             !.seen = seen]
<1>2. Begins(r, t, "erase") /\ old = db[e] /\ v = old.veiculo /\ seen = db[v]
  BY <1>1
<1>3. old \in EntryRows
  BY <1>1, Kinds DEF IInv, Typed, TypeStock
<1>4. v \in Vehicles
  BY <1>3 DEF EntryRows
<1>5. seen \in VehicleRows \cup {NoRow}
  BY <1>4, RequestTyped
<1> HIDE DEF old, v, seen
<1>6. t \in TxTypes
  BY <1>3, <1>4, <1>5, NoTxTyped DEF TxTypes, AllOps
<1>7. /\ t.op = op /\ t.entry = e /\ t.veiculo = v /\ t.row = old /\ t.old = old
      /\ t.seen = seen /\ t.synced = FALSE
  BY DEF NoTx
<1> HIDE DEF t
<1>8. Holds(t, "erase", Nothing)
  BY <1>2, <1>3, <1>7, NothingCash, Kinds DEF Holds, IsRow, Moves, Erases
<1>9. Knows(db, t, "erase", Nothing)
  <2>1. Seen(db, Nothing)[v] = db[v]
    BY <1>4, NothingCash, SeenAt, Kinds
  <2> QED BY <1>2, <1>7, <2>1, NothingCash DEF Knows, IsRow, Moves, Erases
<1> QED BY <1>2, <1>6, <1>8, <1>9, CashBegins

LEMMA BeginVehicleCash ==
  ASSUME IInv, Cash, NEW r \in Requests, BeginVehicle(r)
  PROVE  Cash'
<1>1. PICK op \in {"register", "edit", "drop"}, v \in Vehicles, d \in Donos :
        Begins(r, [NoTx EXCEPT !.op = op, !.veiculo = v, !.seen = [dono |-> d]],
               IF op = "drop" THEN "dropcash" ELSE op)
  BY DEF BeginVehicle
<1> DEFINE seen == [dono |-> d]
           t == [NoTx EXCEPT !.op = op, !.veiculo = v, !.seen = seen]
           p == IF op = "drop" THEN "dropcash" ELSE op
<1>2. Begins(r, t, p)
  BY <1>1
<1>3. seen \in VehicleRows
  BY DEF VehicleRows
<1> HIDE DEF seen
<1>4. t \in TxTypes
  BY <1>3, NoTxTyped DEF TxTypes, AllOps
<1>5. t.op = op /\ t.entry = None /\ t.veiculo = v /\ t.old = NoRow /\ t.synced = FALSE
  BY DEF NoTx
<1>6. p \in {"register", "edit", "dropcash"}
  OBVIOUS
<1> HIDE DEF t, p
<1>7. Holds(t, p, Nothing)
  BY <1>5, <1>6, NothingCash DEF Holds, IsRow, Moves, Erases
<1>8. Knows(db, t, p, Nothing)
  BY <1>5, <1>6, NothingCash DEF Knows, Moves, Erases
<1> QED BY <1>2, <1>4, <1>7, <1>8, CashBegins

LEMMA CaixaKinds ==
  /\ \A v \in Vehicles : /\ Caixa[v] # Consignado
                         /\ Caixa[v] \notin Vehicles \cup Clients \cup Entries
                         /\ Caixa[v] \in Things /\ v \in Things
  /\ \A v, w \in Vehicles : Caixa[v] = Caixa[w] => v = w
<1>1. \A v \in Vehicles : Caixa[v] \in Caixas
  BY DEF Caixas
<1> QED BY <1>1, Kinds, StockAssumption

\* What is known of a request before it advances.
LEMMA CashKnown ==
  ASSUME IInv, Cash, NEW r \in Requests
  PROVE  /\ Holds(tx[r], pc[r], own[r]) /\ Backs(db, tx[r], own[r])
         /\ pc[r] # "idle" /\ tx[r].lone => Knows(db, tx[r], pc[r], own[r])
BY DEF Cash, Held, Known

LEMMA CashGoes ==
  ASSUME IInv, Cash, NEW r \in Requests, NEW t \in TxTypes, NEW w, Goes(r, t, w),
         Holds(t, w, own[r]), t.op = tx[r].op,
         t.lone => /\ tx[r].lone /\ Concerns(t) = Concerns(tx[r])
                   /\ Knows(db, t, w, own[r])
  PROVE  Cash'
<1>1. Step(r, t, w, own[r]) /\ UNCHANGED <<db, drift>>
  BY GoesIsStep DEF IInv
<1>2. Quieter(r) /\ \A q \in Others(r) : tx'[q] = tx[q]
  BY WritesQuieter DEF IInv
<1>3. Backs(db, t, own[r])
  BY CashKnown DEF Backs
<1>4. ASSUME NEW q \in Others(r), t.lone, tx'[q].lone
      PROVE  Concerns(tx[q]) \cap Concerns(t) = {}
  BY <1>2, <1>4 DEF Cash, LoneApart, Others
<1>5. ASSUME NEW v \in Vehicles, own[r][Caixa[v]] # Untouched, NEW q \in Others(r)
      PROVE  own[q][Caixa[v]] = Untouched
  BY <1>5 DEF Cash, CashLocks, Others
<1> QED BY <1>1, <1>2, <1>3, <1>4, <1>5, CashStep

LEMMA CashWrites ==
  ASSUME IInv, Cash, NEW r \in Requests, NEW t \in TxTypes, NEW w, NEW x \in Things, NEW row,
         Writes(r, x, row, t, w), NEW o, o = [own[r] EXCEPT ![x] = row],
         RowWaits(r, x) = {} \/ \A v \in Vehicles : x # Caixa[v],
         Holds(t, w, o), Backs(db, t, o),
         t.lone => /\ tx[r].lone /\ Concerns(t) = Concerns(tx[r])
                   /\ Knows(db, t, w, o)
  PROVE  Cash'
<1>1. Step(r, t, w, o) /\ UNCHANGED <<db, drift>>
  BY WritesIsStep DEF IInv
<1>2. Quieter(r) /\ \A q \in Others(r) : tx'[q] = tx[q]
  BY WritesQuieter DEF IInv
<1>4. ASSUME NEW q \in Others(r), t.lone, tx'[q].lone
      PROVE  Concerns(tx[q]) \cap Concerns(t) = {}
  BY <1>2, <1>4 DEF Cash, LoneApart, Others
<1>5. ASSUME NEW v \in Vehicles, o[Caixa[v]] # Untouched, NEW q \in Others(r)
      PROVE  own[q][Caixa[v]] = Untouched
  <2>1. CASE Caixa[v] = x
    BY <2>1, <1>5 DEF RowWaits
  <2>2. CASE Caixa[v] # x
    <3>1. own[r][Caixa[v]] # Untouched
      BY <1>5, <2>2
    <3> QED BY <3>1 DEF Cash, CashLocks, Others
  <2> QED BY <2>1, <2>2
<1>6. w # "idle" /\ t.lone => Knows(db, t, w, o)
  OBVIOUS
<1>7. \A q \in Others(r) : t.lone /\ tx'[q].lone => Concerns(tx[q]) \cap Concerns(t) = {}
  BY <1>4
<1>8. \A v \in Vehicles : o[Caixa[v]] # Untouched =>
        \A q \in Others(r) : own[q][Caixa[v]] = Untouched
  BY <1>5
<1> QED BY <1>1, <1>2, <1>6, <1>7, <1>8, CashStep, Zenon

\* No cash row was written, and none is.
LEMMA BacksPlain ==
  ASSUME IInv, Cash, NEW r \in Requests, NEW t, NEW o, NEW d,
         pc[r] \notin {"commit", "drop"},
         \A v \in Vehicles : o[Caixa[v]] = own[r][Caixa[v]],
         t.op = "edit" => \A e \in Entries : o[e] \in {Untouched, d[e]}
  PROVE  Backs(d, t, o) /\ \A v \in Vehicles : o[Caixa[v]] = Untouched
<1>1. \A v \in Vehicles : o[Caixa[v]] = Untouched
  BY CashKnown DEF Holds
<1> QED BY <1>1 DEF Backs, IsRow

LEMMA InsertNestedCash ==
  ASSUME IInv, Cash, NEW r \in Requests, InsertNested(r)
  PROVE  Cash'
<1> DEFINE todo == tx[r].todo
           what == Head(todo)
           x == Nested(tx[r], what)
           row == NestedRow(tx[r], what)
           t == [tx[r] EXCEPT !.todo = Tail(@)]
           w == IF Len(todo) = 1 THEN "insert" ELSE "nested"
           o == [own[r] EXCEPT ![x] = row]
<1>1. pc[r] = "nested" /\ Writes(r, x, row, t, w) /\ db[x] = NoRow
  BY DEF InsertNested
<1>2. /\ tx[r] \in TxTypes /\ Carries(tx[r], "nested", own[r]) /\ Fits(own[r])
      /\ Holds(tx[r], "nested", own[r])
      /\ tx[r].lone => Knows(db, tx[r], "nested", own[r])
  BY <1>1, RequestTyped, CashKnown
<1>3. todo \in Seq(Nests) /\ todo # <<>>
  BY <1>2 DEF TxTypes, Carries
<1>4. what \in Nests /\ Tail(todo) \in Seq(Nests)
  BY <1>3
<1>5. /\ Creates(tx[r]) /\ tx[r].client \in Clients /\ tx[r].veiculo \in Vehicles
      /\ tx[r].seen \in VehicleRows
  BY <1>2 DEF Carries
<1>6. x \in Things /\ row \in RowsOf(x) /\ x \notin Entries
      /\ (x \in Vehicles => x = tx[r].veiculo)
      /\ \A v \in Vehicles : x # Caixa[v]
  <2>1. CASE what = "investor"
    BY <2>1, Kinds, CaixaKinds DEF Nested, NestedRow, Here
  <2>2. CASE what = "client"
    BY <2>2, <1>5, Kinds, CaixaKinds DEF Nested, NestedRow, Here
  <2>3. CASE what = "vehicle"
    BY <2>3, <1>5, Kinds, CaixaKinds DEF Nested, NestedRow
  <2> QED BY <2>1, <2>2, <2>3, <1>4 DEF Nests
<1>7. w \in {"insert", "nested"}
  OBVIOUS
<1>8. row # NoRow /\ row # Untouched
  BY <1>6, Kinds DEF RowsOf
<1> HIDE DEF todo, what, x, row, w
<1>9. t \in TxTypes
  BY <1>2, <1>4 DEF TxTypes, todo
<1>10. /\ t.op = tx[r].op /\ t.entry = tx[r].entry /\ t.veiculo = tx[r].veiculo
       /\ t.old = tx[r].old /\ t.synced = tx[r].synced /\ t.lone = tx[r].lone
  BY <1>2 DEF TxTypes
<1> HIDE DEF t
<1>11. Fits(o) /\ o[x] = row /\ \A y : y # x => o[y] = own[r][y]
  BY <1>2, <1>6, WrittenFits
<1> HIDE DEF o
<1>12. /\ Creates(t) /\ ~Moves(t) /\ ~Erases(t) /\ t.op # "edit"
       /\ ~Moves(tx[r]) /\ ~Erases(tx[r])
  BY <1>5, <1>10 DEF Creates, Moves, Erases
<1>13. /\ \A v \in Vehicles : o[Caixa[v]] = own[r][Caixa[v]]
       /\ \A e \in Entries : o[e] = own[r][e] /\ own[r][e] = Untouched
  BY <1>2, <1>6, <1>11 DEF Carries
<1>14. Backs(db, t, o) /\ \A v \in Vehicles : o[Caixa[v]] = Untouched
  BY <1>1, <1>12, <1>13, BacksPlain
<1>15. Holds(t, w, o)
  <2>1. \A v \in Vehicles : o[v] # NoRow /\ (o[v] # Untouched => v = t.veiculo)
    BY <1>2, <1>6, <1>8, <1>10, <1>11 DEF Holds, Carries
  <2> QED BY <1>2, <1>7, <1>10, <1>12, <1>13, <1>14, <2>1 DEF Holds, IsRow, Creates
<1>16. t.lone => Knows(db, t, w, o)
  <2>1. t.lone /\ o[t.veiculo] # Untouched => db[t.veiculo] = NoRow
    BY <1>1, <1>2, <1>10, <1>11 DEF Knows, x
  <2> QED BY <1>7, <1>12, <2>1 DEF Knows
<1>17. Concerns(t) = Concerns(tx[r])
  BY <1>10 DEF Concerns
<1>18. Writes(r, x, row, t, w) /\ o = [own[r] EXCEPT ![x] = row]
  BY <1>1 DEF o, t, todo
<1> QED BY <1>6, <1>9, <1>10, <1>14, <1>15, <1>16, <1>17, <1>18, CashWrites

LEMMA InsertCash ==
  ASSUME IInv, Cash, NEW r \in Requests, Insert(r)
  PROVE  Cash'
<1>1. CASE InsertFails(r)
  BY <1>1, CashRollback DEF Insert
<1>2. CASE ~InsertFails(r)
  <2> DEFINE e == tx[r].entry
             v == tx[r].veiculo
             row == tx[r].row
             seen == View(r, v)
             t == [tx[r] EXCEPT !.seen = seen]
             w == IF row.compra THEN "cost" ELSE "commit"
             o == [own[r] EXCEPT ![e] = row]
  <2>1. pc[r] = "insert" /\ Writes(r, e, row, t, w)
    BY <1>2 DEF Insert
  <2>2. /\ tx[r] \in TxTypes /\ Carries(tx[r], "insert", own[r]) /\ Fits(own[r])
        /\ Holds(tx[r], "insert", own[r])
        /\ tx[r].lone => Knows(db, tx[r], "insert", own[r])
    BY <2>1, RequestTyped, CashKnown
  <2>3. /\ Creates(tx[r]) /\ e \in Entries /\ v \in Vehicles /\ row \in EntryRows
        /\ row.veiculo = v
        /\ \A f \in Entries : own[r][f] = Untouched
    BY <2>2 DEF Carries
  <2>4. seen \in VehicleRows
    BY <1>2, <2>3, ViewTyped DEF InsertFails
  <2>5. w \in {"cost", "commit"} /\ (w = "commit" => ~row.compra)
    OBVIOUS
  <2>6. row # NoRow /\ row # Untouched /\ e \in Things /\ row \in RowsOf(e)
    BY <2>3, Kinds
  <2>7. seen = Seen(db, own[r])[v]
    BY <2>3, ViewTyped, Kinds
  <2> HIDE DEF e, v, row, seen, w
  <2>8. t \in TxTypes
    BY <2>2, <2>4 DEF TxTypes
  <2>9. /\ t.op = tx[r].op /\ t.entry = e /\ t.veiculo = v /\ t.old = tx[r].old
        /\ t.seen = seen /\ t.synced = tx[r].synced /\ t.lone = tx[r].lone
    BY <2>2 DEF TxTypes, e, v
  <2> HIDE DEF t
  <2>10. Fits(o) /\ o[e] = row /\ \A y : y # e => o[y] = own[r][y]
    BY <2>2, <2>6, WrittenFits
  <2>11. o = [own[r] EXCEPT ![e] = row]
    OBVIOUS
  <2> HIDE DEF o
  <2>12. /\ Creates(t) /\ ~Moves(t) /\ ~Erases(t) /\ t.op # "edit"
         /\ ~Moves(tx[r]) /\ ~Erases(tx[r])
    BY <2>3, <2>9 DEF Creates, Moves, Erases
  <2>13. \A u \in Vehicles : o[u] = own[r][u] /\ o[Caixa[u]] = own[r][Caixa[u]] /\ Caixa[u] # e
    BY <2>3, <2>10, Kinds
  <2>14. Backs(db, t, o) /\ \A u \in Vehicles : o[Caixa[u]] = Untouched
    BY <2>1, <2>12, <2>13, BacksPlain
  <2>15. \A f \in Entries : o[f] = Untouched \/ o[f] = row
    BY <2>3, <2>10
  <2>16. Holds(t, w, o)
    BY <2>2, <2>3, <2>5, <2>6, <2>9, <2>12, <2>13, <2>14, <2>15 DEF Holds, IsRow, Creates, v
  <2>17. t.lone => Knows(db, t, w, o)
    <3>1. Seen(db, o)[v] = seen
      BY <2>3, <2>7, <2>13, SeenAt, Kinds
    <3>2. \A f \in Entries : IsRow(o[f]) => o[f] = row
      BY <2>15 DEF IsRow
    <3>3. tx[r].synced = FALSE
      BY <2>2 DEF Holds, TxTypes
    <3>4. t.lone /\ w = "commit" => Still(db, t, o)
      <4>1. t.lone => o[v] = Untouched \/ db[v] = NoRow
        BY <2>2, <2>3, <2>9, <2>13 DEF Knows, v
      <4> QED BY <2>3, <2>5, <2>9, <2>12, <2>14, <3>2, <4>1 DEF Still
    <3> QED BY <2>5, <2>9, <2>12, <3>1, <3>3, <3>4 DEF Knows
  <2>18. Concerns(t) = Concerns(tx[r])
    BY <2>9 DEF Concerns, v
  <2>19. Writes(r, e, row, t, w)
    BY <2>1 DEF t
  <2> QED BY <2>6, <2>8, <2>9, <2>11, <2>13, <2>14, <2>16, <2>17, <2>18, <2>19, CashWrites
<1> QED BY <1>1, <1>2

\* The cost computed is the value of the latest purchase the request sees.
LEMMA CostMirrors ==
  ASSUME IInv, Bounded, NEW r \in Requests, NEW v \in Vehicles, NEW custo \in Custos(r, v),
         NEW c, c.valor = custo, c.dono = View(r, v).dono
  PROVE  Mirrors(Seen(db, own[r]), v, c)
<1> DEFINE m == Seen(db, own[r])
<1>1. \A e \in Entries : m[e] = View(r, e) /\ View(r, e) \in EntryRows \cup {NoRow}
  BY ViewTyped, Kinds
<1>2. m[v] = View(r, v)
  BY ViewTyped, Kinds
<1>3. Purchases(m, v) = Compras(r, v)
  <2> HIDE DEF m
  <2> QED BY <1>1 DEF Purchases, Compras, Buys
<1> HIDE DEF m
<1>4. CASE Latest(r, v) = {}
  <2>1. Compras(r, v) = {}
    BY <1>4, LatestIsThere
  <2>2. c.valor = 0
    BY <1>4 DEF Custos
  <2> QED BY <1>2, <1>3, <2>1, <2>2 DEF Mirrors, m
<1>5. CASE Latest(r, v) # {}
  <2>1. PICK e \in Latest(r, v) : custo = View(r, e).valor
    BY <1>5 DEF Custos
  <2>2. e \in Compras(r, v) /\ \A f \in Compras(r, v) : f \in Entries /\ View(r, f) \in EntryRows
    BY <1>1 DEF Latest, Compras, Refers
  <2>3. \A f \in Compras(r, v) : View(r, f).dia \in Nat
    BY <2>2, EntryRowTyped
  <2>4. ASSUME NEW f \in Compras(r, v) PROVE View(r, f).dia <= View(r, e).dia
    <3>1. View(r, f).dia < View(r, e).dia \/ View(r, f).dia = View(r, e).dia
      BY DEF Latest
    <3> QED BY <2>2, <2>3, <3>1
  <2>5. /\ c.valor = m[e].valor
        /\ \A f \in Purchases(m, v) : m[f].dia <= m[e].dia
    BY <1>1, <1>3, <2>1, <2>2, <2>4
  <2> QED BY <1>2, <1>3, <2>2, <2>5 DEF Mirrors, m
<1> QED BY <1>4, <1>5

LEMMA ReadCostCash ==
  ASSUME IInv, Cash, NEW r \in Requests, ReadCost(r)
  PROVE  Cash'
<1> DEFINE v == tx[r].veiculo
           lanc == View(r, Caixa[v])
           novo(custo) == [valor |-> custo, dono |-> tx[r].seen.dono]
           t0 == [tx[r] EXCEPT !.synced = TRUE]
           m == Seen(db, own[r])
<1>1. pc[r] = "cost"
  BY DEF ReadCost
<1>2. PICK custo \in Custos(r, v) :
        IF lanc \in {NoRow, novo(custo)} THEN Goes(r, t0, "commit")
        ELSE Goes(r, [t0 EXCEPT !.cash = novo(custo), !.cashOld = lanc], "cash")
  <2>1. \A c : [tx[r] EXCEPT !.synced = TRUE, !.cash = novo(c), !.cashOld = lanc]
                = [t0 EXCEPT !.cash = novo(c), !.cashOld = lanc]
    OBVIOUS
  <2> QED BY <2>1 DEF ReadCost
<1>3. /\ tx[r] \in TxTypes /\ Carries(tx[r], "cost", own[r]) /\ Fits(own[r])
      /\ Holds(tx[r], "cost", own[r])
      /\ tx[r].lone => Knows(db, tx[r], "cost", own[r])
  BY <1>1, RequestTyped, CashKnown
<1>4. v \in Vehicles /\ tx[r].seen \in VehicleRows
  BY <1>3 DEF Carries
<1>5. custo \in Values
  <2>1. CASE Latest(r, v) = {}
    BY <2>1 DEF Custos, Values
  <2>2. ASSUME NEW e \in Latest(r, v), custo = View(r, e).valor PROVE custo \in Values
    <3>1. View(r, e) \in EntryRows
      BY ViewTyped DEF Latest, Compras, Refers
    <3> QED BY <2>2, <3>1 DEF EntryRows
  <2> QED BY <2>1, <2>2 DEF Custos
<1> DEFINE new == novo(custo)
<1>6. new \in CashRows /\ new.valor = custo /\ new.dono = tx[r].seen.dono
  BY <1>4, <1>5 DEF VehicleRows, CashRows
<1>7. /\ lanc \in CashRows \cup {NoRow} /\ lanc = m[Caixa[v]]
      /\ View(r, v) = m[v]
  BY <1>4, ViewTyped, CaixaKinds
<1>8. own[r][Caixa[v]] = Untouched /\ lanc = db[Caixa[v]]
  <2>1. own[r][Caixa[v]] = Untouched
    BY <1>3, <1>4 DEF Holds
  <2> QED BY <2>1 DEF View
<1>9. tx[r].lone /\ m[v] # NoRow => Mirrors(m, v, new)
  <2>1. SUFFICES ASSUME tx[r].lone, m[v] # NoRow PROVE Mirrors(m, v, new)
    OBVIOUS
  <2>2. tx[r].seen = m[v]
    BY <1>3, <2>1 DEF Knows
  <2> HIDE DEF m, new, v
  <2>3. new.dono = View(r, v).dono
    BY <1>6, <1>7, <2>2
  <2> QED BY <1>2, <1>4, <1>6, <2>3, CostMirrors DEF Cash, m
<1>10. IF lanc \in {NoRow, new} THEN Goes(r, t0, "commit")
       ELSE Goes(r, [t0 EXCEPT !.cash = new, !.cashOld = lanc], "cash")
  BY <1>2
<1>11. t0 \in TxTypes /\ t0.op = tx[r].op /\ t0.entry = tx[r].entry /\ t0.veiculo = v
       /\ t0.row = tx[r].row /\ t0.old = tx[r].old /\ t0.lone = tx[r].lone /\ t0.synced = TRUE
  BY <1>3 DEF TxTypes
<1> HIDE DEF v, lanc, novo, new, t0, m
<1>12. CASE lanc \in {NoRow, new}
  <2>1. Holds(t0, "commit", own[r])
    BY <1>3, <1>11 DEF Holds, Moves, Erases, v
  <2>2. t0.lone => Knows(db, t0, "commit", own[r])
    <3>1. t0.lone => UpToDate(m, v)
      BY <1>7, <1>9, <1>11, <1>12 DEF UpToDate
    <3> QED BY <1>3, <1>11, <3>1 DEF Knows, Moves, Erases, v, m
  <2>3. Concerns(t0) = Concerns(tx[r])
    BY <1>11 DEF Concerns, v
  <2> QED BY <1>10, <1>11, <1>12, <2>1, <2>2, <2>3, CashGoes
<1>13. CASE lanc \notin {NoRow, new}
  <2> DEFINE t1 == [t0 EXCEPT !.cash = new]
             t == [t1 EXCEPT !.cashOld = lanc]
  <2>1. t1 \in TxTypes /\ t1.op = t0.op /\ t1.entry = t0.entry /\ t1.veiculo = t0.veiculo
        /\ t1.row = t0.row /\ t1.old = t0.old /\ t1.lone = t0.lone /\ t1.synced = t0.synced
        /\ t1.cash = new
    BY <1>6, <1>11 DEF TxTypes
  <2>2. [t0 EXCEPT !.cash = new, !.cashOld = lanc] = t
    OBVIOUS
  <2> HIDE DEF t1
  <2>3. t \in TxTypes /\ t.op = t0.op /\ t.entry = t0.entry /\ t.veiculo = t0.veiculo
        /\ t.row = t0.row /\ t.old = t0.old /\ t.lone = t0.lone /\ t.synced = t0.synced
        /\ t.cash = new /\ t.cashOld = lanc
    BY <1>7, <2>1 DEF TxTypes
  <2>4. Goes(r, t, "cash")
    BY <1>10, <1>13, <2>2
  <2> HIDE DEF t
  <2>5. Holds(t, "cash", own[r])
    BY <1>3, <1>11, <2>3 DEF Holds, Moves, Erases, v
  <2>6. t.lone => Knows(db, t, "cash", own[r])
    BY <1>3, <1>8, <1>9, <1>11, <2>3 DEF Knows, Moves, Erases, v, m
  <2>7. Concerns(t) = Concerns(tx[r])
    BY <1>11, <2>3 DEF Concerns, v
  <2> QED BY <1>11, <2>3, <2>4, <2>5, <2>6, <2>7, CashGoes
<1> QED BY <1>12, <1>13

\* What was merged into the row that was loaded is the row asked for.
LEMMA MergedAlone ==
  ASSUME NEW new, NEW old, DOMAIN new = DOMAIN old, new = [f \in DOMAIN new |-> new[f]]
  PROVE  Merged(new, old, old) = new
<1>1. \A f \in DOMAIN old : (IF new[f] # old[f] THEN new[f] ELSE old[f]) = new[f]
  OBVIOUS
<1>2. Merged(new, old, old) = [f \in DOMAIN old |-> new[f]]
  BY <1>1 DEF Merged
<1> QED BY <1>2

LEMMA CashMerged ==
  ASSUME NEW new \in CashRows, NEW old \in CashRows
  PROVE  Merged(new, old, old) = new
<1>1. DOMAIN new = DOMAIN old /\ new = [f \in DOMAIN new |-> new[f]]
  BY DEF CashRows
<1> QED BY <1>1, MergedAlone

LEMMA EntryMerged ==
  ASSUME NEW new \in EntryRows, NEW old \in EntryRows
  PROVE  Merged(new, old, old) = new
<1>1. DOMAIN new = DOMAIN old /\ new = [f \in DOMAIN new |-> new[f]]
  BY DEF EntryRows
<1> QED BY <1>1, MergedAlone

LEMMA WriteCashCash ==
  ASSUME IInv, Cash, NEW r \in Requests, WaitsFor(r) = {}, WriteCash(r)
  PROVE  Cash'
<1> DEFINE v == tx[r].veiculo
           x == Caixa[v]
           row == Merged(tx[r].cash, tx[r].cashOld, db[x])
           t == tx[r]
           o == [own[r] EXCEPT ![x] = row]
           m == Seen(db, own[r])
           n == Seen(db, o)
<1>1. pc[r] = "cash"
  BY DEF WriteCash
<1>2. CASE db[x] = NoRow
  BY <1>2, CashRollback DEF WriteCash
<1>3. CASE db[x] # NoRow
  <2>1. Writes(r, x, row, t, "commit")
    BY <1>3 DEF WriteCash
  <2>2. /\ t \in TxTypes /\ Carries(t, "cash", own[r]) /\ Fits(own[r])
        /\ Holds(t, "cash", own[r]) /\ Backs(db, t, own[r])
        /\ t.lone => Knows(db, t, "cash", own[r])
    BY <1>1, RequestTyped, CashKnown
  <2>3. v \in Vehicles /\ t.cash \in CashRows /\ t.cashOld \in CashRows
        /\ \A u \in Vehicles : own[r][u] # NoRow
    BY <2>2 DEF Carries
  <2>4. db[x] \in CashRows /\ x \in Things /\ db[v] # NoRow
    <3>1. db[x] \in CashRows /\ x \in Things
      BY <1>3, <2>3, Kinds DEF IInv, Typed, TypeStock
    <3>2. IsRow(db[x])
      BY <3>1, Kinds DEF IsRow
    <3> QED BY <2>3, <3>1, <3>2 DEF Cash, CashHasVehicle
  <2>5. RowWaits(r, x) = {}
    BY <1>1 DEF WaitsFor
  <2>6. t.lone => row = t.cash
    BY <2>2, <2>3, <2>4, CashMerged DEF Knows
  <2>7. o[x] = row /\ \A y : y # x => o[y] = own[r][y]
    BY <2>2, <2>4 DEF Fits
  <2>8. t.synced
    BY <2>2 DEF Holds
  <2>9. /\ \A u \in Vehicles : u # x /\ (Caixa[u] = x => u = v)
        /\ \A e \in Entries : e # x
    BY <2>3, CaixaKinds
  <2>10. t.lone => UpToDate(n, v)
    <3>1. SUFFICES ASSUME t.lone, n[v] # NoRow PROVE Mirrors(n, v, n[x])
      BY DEF UpToDate
    <3>0. \A y \in Things : /\ n[y] = IF o[y] # Untouched THEN o[y] ELSE db[y]
                            /\ m[y] = IF own[r][y] # Untouched THEN own[r][y] ELSE db[y]
      <4> HIDE DEF o, row, v, x
      <4> QED BY SeenAt
    <3>6. m[v] # NoRow => Mirrors(m, v, t.cash)
      BY <2>2, <3>1 DEF Knows
    <3>3. row # Untouched
      BY <2>3, <2>6, <3>1, Kinds
    <3> HIDE DEF n, m, o, row
    <3>2. n[v] = m[v] /\ \A e \in Entries : n[e] = m[e]
      BY <2>3, <2>7, <2>9, <3>0, Kinds
    <3>4. n[x] = t.cash
      BY <2>4, <2>6, <2>7, <3>0, <3>1, <3>3
    <3>5. Mirrors(m, v, t.cash)
      BY <3>1, <3>2, <3>6
    <3> QED BY <3>2, <3>4, <3>5, AlikeMirrors
  <2> HIDE DEF v, x, row, m, n
  <2>11. Holds(t, "commit", o)
    <3>1. \A u \in Vehicles : o[u] = own[r][u] /\ (Caixa[u] # x => o[Caixa[u]] = own[r][Caixa[u]])
      BY <2>7, <2>9
    <3>2. \A e \in Entries : o[e] = own[r][e]
      BY <2>7, <2>9
    <3> HIDE DEF o
    <3> QED BY <2>2, <2>3, <2>9, <3>1, <3>2 DEF Holds, v
  <2>12. Backs(db, t, o)
    <3>1. \A u \in Vehicles : o[u] = own[r][u] /\ (Caixa[u] # x => o[Caixa[u]] = own[r][Caixa[u]])
      BY <2>7, <2>9
    <3>2. \A e \in Entries : o[e] = own[r][e]
      BY <2>7, <2>9
    <3> HIDE DEF o
    <3> QED BY <2>2, <2>3, <2>4, <2>9, <3>1, <3>2 DEF Backs
  <2>13. t.lone => Knows(db, t, "commit", o)
    <3>1. \A e \in Entries : o[e] = own[r][e]
      BY <2>7, <2>9
    <3>2. n = Seen(db, o)
      BY DEF n
    <3> HIDE DEF o
    <3> QED BY <2>2, <2>8, <2>10, <3>1, <3>2 DEF Knows, Holds, v
  <2>14. o = [own[r] EXCEPT ![x] = row]
    OBVIOUS
  <2> HIDE DEF o
  <2> QED BY <2>1, <2>2, <2>4, <2>5, <2>11, <2>12, <2>13, <2>14, CashWrites
<1> QED BY <1>2, <1>3

LEMMA UpdateCash ==
  ASSUME IInv, Cash, NEW r \in Requests, Update(r)
  PROVE  Cash'
<1>1. CASE UpdateFails(r)
  BY <1>1, CashRollback DEF Update
<1>2. CASE ~UpdateFails(r)
  <2> DEFINE e == tx[r].entry
             new == tx[r].row
             old == tx[r].old
             now == db[e]
             row == Merged(new, old, now)
             v == row.veiculo
             seen == db[v]
             t == [tx[r] EXCEPT !.veiculo = v, !.row = row, !.seen = seen]
             w == AfterEntry(r)
             o == [own[r] EXCEPT ![e] = row]
  <2>1. pc[r] = "update"
    BY DEF Update
  <2>2. /\ tx[r] \in TxTypes /\ Carries(tx[r], "update", own[r]) /\ Fits(own[r])
        /\ Holds(tx[r], "update", own[r])
        /\ tx[r].lone => Knows(db, tx[r], "update", own[r])
    BY <2>1, RequestTyped, CashKnown
  <2>3. /\ Moves(tx[r]) /\ e \in Entries /\ new \in EntryRows /\ old \in EntryRows
        /\ new.key = old.key /\ new.compra = old.compra /\ new.veiculo = tx[r].veiculo
        /\ tx[r].veiculo \in Vehicles /\ own[r] = Nothing
    BY <2>2 DEF Carries
  <2>4. now \in EntryRows
    BY <1>2, <2>3, RequestTyped DEF UpdateFails
  <2>5. row \in EntryRows
    BY <2>3, <2>4, MergedTyped
  <2>6. IF new = old THEN Goes(r, t, w) ELSE Writes(r, e, row, t, w)
    BY <1>2 DEF Update
  <2>7. w \in {"status", "cost", "commit"} /\ (w = "commit" => ~new.compra)
    BY DEF AfterEntry
  <2>8. v \in Vehicles
    BY <2>5 DEF EntryRows
  <2>9. row # NoRow /\ row # Untouched /\ e \in Things /\ row \in RowsOf(e)
    BY <2>3, <2>5, Kinds
  <2>10. tx[r].lone => now = old /\ row = new
    BY <2>2, <2>3, EntryMerged DEF Knows
  <2>11. seen \in VehicleRows \cup {NoRow}
    BY <2>8, RequestTyped
  <2>12. /\ \A u \in Vehicles : own[r][u] = Untouched /\ own[r][Caixa[u]] = Untouched
                                /\ u # e /\ Caixa[u] # e
         /\ \A f \in Entries : own[r][f] = Untouched
    BY <2>3, NothingCash, Kinds
  <2>13. v = row.veiculo /\ seen = db[v] /\ now = db[e]
    OBVIOUS
  <2> DEFINE u == [tx[r] EXCEPT !.veiculo = v]
                u2 == [u EXCEPT !.row = row]
  <2> HIDE DEF e, new, old, now, row, v, seen, w
  <2>15. /\ t \in TxTypes /\ t.op = tx[r].op /\ t.entry = e /\ t.veiculo = v /\ t.old = old
         /\ t.row = row /\ t.seen = seen /\ t.synced = tx[r].synced /\ t.lone = tx[r].lone
    <3>1. /\ u \in TxTypes /\ u.op = tx[r].op /\ u.entry = e /\ u.veiculo = v /\ u.old = old
          /\ u.synced = tx[r].synced /\ u.lone = tx[r].lone
      BY <2>2, <2>8 DEF TxTypes, e, old
    <3> HIDE DEF u
    <3>2. /\ u2 \in TxTypes /\ u2.op = tx[r].op /\ u2.entry = e /\ u2.veiculo = v /\ u2.old = old
          /\ u2.row = row /\ u2.synced = tx[r].synced /\ u2.lone = tx[r].lone
      BY <2>5, <3>1 DEF TxTypes
    <3>3. t = [u2 EXCEPT !.seen = seen]
      BY DEF u
    <3> HIDE DEF u2, t
    <3> QED BY <2>11, <3>2, <3>3 DEF TxTypes
  <2> HIDE DEF t
  <2>16. Moves(t) /\ ~Erases(t) /\ t.op \notin {"edit", "register", "drop", "none"}
         /\ t.synced = FALSE
    BY <2>2, <2>3, <2>15 DEF Moves, Erases, Holds, TxTypes
  <2>17. ASSUME NEW p, \A f \in Entries : p[f] \in {Untouched, row} /\ (p[f] # Untouched => f = e),
                \A x \in Vehicles : p[x] = Untouched /\ p[Caixa[x]] = Untouched
         PROVE  /\ Holds(t, w, p)
                /\ t.lone => /\ Knows(db, t, w, p)
                             /\ tx[r].lone /\ Concerns(t) = Concerns(tx[r])
    <3>1. Holds(t, w, p)
      <4>1. w # "cash" /\ row.veiculo = t.veiculo /\ t.entry \in Entries
        BY <2>3, <2>7, <2>13, <2>15
      <4>2. \A x \in Vehicles :
              /\ p[x] # Untouched \/ p[Caixa[x]] # Untouched => x = t.veiculo
              /\ p[x] = NoRow => p[Caixa[x]] = NoRow
              /\ p[Caixa[x]] = Untouched
              /\ w = "status" => p[x] = Untouched
        BY <2>17, Kinds
      <4>3. \A f \in Entries : /\ IsRow(p[f]) => p[f] = row
                               /\ p[f] # NoRow
        BY <2>9, <2>17, Kinds DEF IsRow
      <4> QED BY <2>16, <4>1, <4>2, <4>3 DEF Holds
    <3>2. ASSUME t.lone
          PROVE  /\ Knows(db, t, w, p)
                 /\ tx[r].lone /\ Concerns(t) = Concerns(tx[r])
      <4>1. tx[r].lone /\ now = old /\ row = new
        BY <2>10, <2>15, <3>2
      <4>2. v = tx[r].veiculo
        BY <2>3, <2>13, <4>1
      <4>3. Concerns(t) = Concerns(tx[r])
        BY <2>15, <4>2 DEF Concerns, old
      <4>4. Seen(db, p)[v] = db[v]
        BY <2>8, <2>17, SeenAt, Kinds
      <4>5. row.compra = old.compra
        BY <2>3, <4>1
      <4>6. w = "commit" => ~row.compra
        BY <2>7, <4>1
      <4>7. w = "commit" => Still(db, t, p)
        BY <2>8, <2>15, <2>16, <2>17, <4>5, <4>6 DEF Still
      <4>8. IsRow(p[e]) => p[e] = row
        BY <2>3, <2>17 DEF IsRow
      <4> QED BY <2>7, <2>13, <2>15, <2>16, <4>1, <4>3, <4>4, <4>5, <4>7, <4>8 DEF Knows
    <3> QED BY <3>1, <3>2
  <2>18. CASE new = old
    <3>1. Goes(r, t, w)
      BY <2>6, <2>18
    <3>2. /\ Holds(t, w, own[r])
          /\ t.lone => /\ Knows(db, t, w, own[r])
                       /\ tx[r].lone /\ Concerns(t) = Concerns(tx[r])
      BY <2>12, <2>17
    <3> QED BY <2>15, <3>1, <3>2, CashGoes
  <2>19. CASE new # old
    <3>1. Writes(r, e, row, t, w)
      BY <2>6, <2>19
    <3>2. Fits(o) /\ o[e] = row /\ \A y : y # e => o[y] = own[r][y]
      BY <2>2, <2>9, WrittenFits
    <3>3. o = [own[r] EXCEPT ![e] = row]
      OBVIOUS
    <3> HIDE DEF o
    <3>4. /\ Holds(t, w, o)
          /\ t.lone => /\ Knows(db, t, w, o)
                       /\ tx[r].lone /\ Concerns(t) = Concerns(tx[r])
      BY <2>12, <2>17, <3>2
    <3>5. Backs(db, t, o)
      BY <2>1, <2>12, <2>16, <3>2, BacksPlain
    <3>6. \A x \in Vehicles : e # Caixa[x]
      BY <2>12
    <3> QED BY <2>9, <2>15, <3>1, <3>3, <3>4, <3>5, <3>6, CashWrites
  <2> QED BY <2>18, <2>19
<1> QED BY <1>1, <1>2

LEMMA SyncStatusCash ==
  ASSUME IInv, Cash, NEW r \in Requests, SyncStatus(r)
  PROVE  Cash'
<1> DEFINE v == tx[r].veiculo
           w == IF tx[r].row.compra THEN "cost" ELSE "commit"
           t == [tx[r] EXCEPT !.forUpdate = TRUE]
           o == [own[r] EXCEPT ![v] = db[v]]
<1>1. pc[r] = "status"
  BY DEF SyncStatus
<1>2. /\ tx[r] \in TxTypes /\ Carries(tx[r], "status", own[r]) /\ Fits(own[r])
      /\ Holds(tx[r], "status", own[r])
      /\ tx[r].lone => Knows(db, tx[r], "status", own[r])
  BY <1>1, RequestTyped, CashKnown
<1>3. /\ tx[r].op = "update" /\ v \in Vehicles
  BY <1>2 DEF Carries
<1>4. /\ Moves(tx[r]) /\ ~Erases(tx[r]) /\ tx[r].entry \in Entries
      /\ \A e \in Entries : own[r][e] # NoRow /\ (own[r][e] # Untouched => e = tx[r].entry)
      /\ \A u \in Vehicles : own[r][u] = Untouched /\ own[r][Caixa[u]] = Untouched
      /\ tx[r].synced = FALSE
  BY <1>2, <1>3 DEF Carries, Moves, Erases, Holds, TxTypes
<1>5. IF db[v] = NoRow THEN Goes(r, tx[r], "commit") ELSE Writes(r, v, db[v], t, w)
  BY DEF SyncStatus
<1>6. w \in {"cost", "commit"} /\ (w = "commit" => ~tx[r].row.compra)
  OBVIOUS
<1> HIDE DEF v, w
<1>7. CASE db[v] = NoRow
  <2>1. Goes(r, tx[r], "commit")
    BY <1>5, <1>7
  <2>2. Holds(tx[r], "commit", own[r])
    BY <1>2 DEF Holds
  <2>3. \A e \in Entries : own[r][e] = Untouched
    <3>1. ASSUME NEW e \in Entries, own[r][e] # Untouched PROVE FALSE
      <4>1. Refers(own[r][e], v)
        BY <1>2, <1>3, <1>4, <3>1 DEF Holds, IsRow, Refers, v
      <4>2. View(r, v) # NoRow
        BY <1>3, <4>1 DEF IInv, Pinned
      <4> QED BY <1>3, <1>4, <1>7, <4>2 DEF View
    <3> QED BY <3>1
  <2>4. Still(db, tx[r], own[r])
    BY <1>3, <1>4, <2>3 DEF Still, v
  <2>5. tx[r].lone => Knows(db, tx[r], "commit", own[r])
    BY <1>2, <1>4, <2>4 DEF Knows
  <2> QED BY <1>2, <2>1, <2>2, <2>5, CashGoes
<1>8. CASE db[v] # NoRow
  <2>1. v \in Things /\ db[v] \in RowsOf(v) /\ db[v] # Untouched
    BY <1>3, <1>8, Kinds, RequestTyped
  <2>2. /\ t \in TxTypes /\ t.op = tx[r].op /\ t.entry = tx[r].entry
        /\ t.veiculo = v /\ t.old = tx[r].old /\ t.seen = tx[r].seen /\ t.row = tx[r].row
        /\ t.synced = FALSE /\ t.lone = tx[r].lone
    BY <1>2, <1>4 DEF TxTypes, v
  <2> HIDE DEF t
  <2>3. Fits(o) /\ o[v] = db[v] /\ \A y : y # v => o[y] = own[r][y]
    BY <1>2, <2>1, WrittenFits
  <2>4. o = [own[r] EXCEPT ![v] = db[v]]
    OBVIOUS
  <2> HIDE DEF o
  <2>5. \A e \in Entries : o[e] = own[r][e]
    BY <1>3, <2>3, Kinds
  <2>6. \A u \in Vehicles : o[Caixa[u]] = Untouched /\ Caixa[u] # v
                            /\ (u # v => o[u] = Untouched)
    BY <1>3, <1>4, <2>3, Kinds
  <2>7. Moves(t) /\ ~Erases(t) /\ t.op = "update"
    BY <1>3, <2>2 DEF Moves, Erases
  <2>8. Holds(t, w, o)
    <3>1. \A u \in Vehicles :
            /\ o[u] # Untouched \/ o[Caixa[u]] # Untouched => u = t.veiculo
            /\ o[u] = NoRow => o[Caixa[u]] = NoRow
            /\ o[Caixa[u]] = Untouched
      BY <1>8, <2>2, <2>3, <2>6, Kinds
    <3>2. \A e \in Entries : IsRow(o[e]) => o[e].veiculo = t.veiculo
      BY <1>2, <1>3, <2>2, <2>5 DEF Holds, v
    <3>3. \A e \in Entries : o[e] # NoRow
      BY <1>4, <2>5
    <3>4. t.entry \in Entries
      BY <1>4, <2>2
    <3> QED BY <1>6, <2>2, <2>7, <3>1, <3>2, <3>3, <3>4 DEF Holds
  <2>9. Backs(db, t, o)
    BY <1>1, <1>4, <2>6, <2>7, BacksPlain
  <2>10. ASSUME t.lone PROVE Knows(db, t, w, o)
    <3>1. Knows(db, tx[r], "status", own[r])
      BY <1>2, <2>2, <2>10
    <3>2. Seen(db, o)[v] = db[v] /\ Seen(db, own[r])[v] = db[v]
      BY <1>3, <1>4, <2>1, <2>3, SeenAt
    <3>3. t.seen = db[v]
      BY <1>3, <1>8, <2>2, <3>1, <3>2 DEF Knows, v
    <3>4. w = "commit" => Still(db, t, o)
      <4>1. SUFFICES ASSUME w = "commit" PROVE Still(db, t, o)
        OBVIOUS
      <4>2. ~t.old.compra
        BY <1>4, <1>6, <2>2, <3>1, <4>1 DEF Knows
      <4>3. \A e \in Entries : IsRow(o[e]) => ~o[e].compra
        BY <1>4, <2>2, <2>5, <3>1, <4>2 DEF Knows, IsRow
      <4> QED BY <1>3, <2>2, <2>3, <2>6, <2>7, <4>2, <4>3 DEF Still
    <3> QED BY <1>4, <1>6, <2>2, <2>5, <2>7, <3>1, <3>2, <3>3, <3>4 DEF Knows
  <2>11. Concerns(t) = Concerns(tx[r])
    BY <2>2 DEF Concerns, v
  <2>12. Writes(r, v, db[v], t, w)
    BY <1>5, <1>8
  <2> QED BY <2>1, <2>2, <2>4, <2>6, <2>8, <2>9, <2>10, <2>11, <2>12, CashWrites
<1> QED BY <1>7, <1>8

LEMMA EraseCash ==
  ASSUME IInv, Cash, NEW r \in Requests, Erase(r)
  PROVE  Cash'
<1> DEFINE e == tx[r].entry
           t == tx[r]
           w == IF ~Json(r) THEN IF tx[r].row.compra THEN "dropcash" ELSE "drop"
                ELSE IF tx[r].row.compra THEN "cost" ELSE "commit"
           o == [own[r] EXCEPT ![e] = NoRow]
<1>1. pc[r] = "erase" /\ Writes(r, e, NoRow, t, w)
  BY DEF Erase
<1>2. /\ t \in TxTypes /\ Carries(t, "erase", own[r]) /\ Fits(own[r])
      /\ Holds(t, "erase", own[r])
      /\ t.lone => Knows(db, t, "erase", own[r])
  BY <1>1, RequestTyped, CashKnown
<1>3. /\ Erases(t) /\ e \in Entries /\ t.veiculo \in Vehicles /\ own[r] = Nothing
  BY <1>2 DEF Carries
<1>4. /\ w \in {"dropcash", "drop", "cost", "commit"}
      /\ w = "commit" => ~t.row.compra
  OBVIOUS
<1>5. e \in Things /\ ~Moves(t) /\ ~Creates(t) /\ t.op # "edit"
  BY <1>3, Kinds DEF Erases, Moves, Creates
<1> HIDE DEF e, w
<1>6. Fits(o) /\ o[e] = NoRow /\ \A y : y # e => o[y] = own[r][y]
  BY <1>2, <1>5, WrittenFits
<1>7. o = [own[r] EXCEPT ![e] = NoRow]
  OBVIOUS
<1> HIDE DEF o
<1>8. /\ \A u \in Vehicles : o[u] = Untouched /\ o[Caixa[u]] = Untouched /\ Caixa[u] # e
                             /\ own[r][Caixa[u]] = Untouched /\ own[r][u] = Untouched
      /\ \A f \in Entries : o[f] \in {NoRow, Untouched}
  BY <1>3, <1>6, NothingCash, Kinds
<1>9. t.synced = FALSE
  BY <1>2 DEF Holds, TxTypes
<1>10. Holds(t, w, o)
  BY <1>2, <1>3, <1>4, <1>5, <1>8, <1>9 DEF Holds, IsRow
<1>11. Backs(db, t, o)
  BY <1>1, <1>5, <1>8, BacksPlain
<1>12. ASSUME t.lone PROVE Knows(db, t, w, o)
  <2>1. Knows(db, t, "erase", own[r])
    BY <1>2, <1>12
  <2>2. Seen(db, o)[t.veiculo] = Seen(db, own[r])[t.veiculo]
    BY <1>3, <1>8, SeenAt, Kinds
  <2>3. \A f \in Entries : ~IsRow(o[f])
    BY <1>8 DEF IsRow
  <2>4. w = "commit" => Still(db, t, o)
    BY <1>3, <1>4, <1>8, <2>1, <2>3 DEF Still, Knows
  <2> QED BY <1>3, <1>4, <1>5, <1>9, <2>1, <2>2, <2>3, <2>4 DEF Knows, e
<1> QED BY <1>1, <1>2, <1>5, <1>7, <1>8, <1>10, <1>11, <1>12, CashWrites

LEMMA DropCashCash ==
  ASSUME IInv, Cash, NEW r \in Requests, WaitsFor(r) = {}, DropCash(r)
  PROVE  Cash'
<1> DEFINE t == tx[r]
           v == t.veiculo
           x == Caixa[v]
           o == [own[r] EXCEPT ![x] = NoRow]
<1>1. pc[r] = "dropcash"
  BY DEF DropCash
<1>2. /\ t \in TxTypes /\ Carries(t, "dropcash", own[r]) /\ Fits(own[r])
      /\ Holds(t, "dropcash", own[r])
      /\ t.lone => Knows(db, t, "dropcash", own[r])
  BY <1>1, RequestTyped, CashKnown
<1>3. v \in Vehicles /\ t.op \in {"delete", "drop"}
  BY <1>2 DEF Carries
<1>4. CASE View(r, x) = NoRow
  <2>1. Goes(r, t, "drop")
    BY <1>4 DEF DropCash
  <2>2. Holds(t, "drop", own[r])
    BY <1>2 DEF Holds
  <2>3. t.lone => Knows(db, t, "drop", own[r])
    BY <1>2, <1>3 DEF Knows
  <2> QED BY <1>2, <2>1, <2>2, <2>3, CashGoes
<1>5. CASE View(r, x) # NoRow
  <2>1. Writes(r, x, NoRow, t, "drop")
    BY <1>5 DEF DropCash
  <2>2. x \in Things /\ NoRow \in RowsOf(x) \cup {NoRow}
    BY <1>3, CaixaKinds
  <2>3. RowWaits(r, x) = {}
    BY <1>1 DEF WaitsFor
  <2>4. Fits(o) /\ o[x] = NoRow /\ \A y : y # x => o[y] = own[r][y]
    BY <1>2, <2>2, WrittenFits
  <2>5. o = [own[r] EXCEPT ![x] = NoRow]
    OBVIOUS
  <2> HIDE DEF o
  <2>6. /\ \A u \in Vehicles : o[u] = own[r][u] /\ (Caixa[u] # x => o[Caixa[u]] = own[r][Caixa[u]])
                               /\ (Caixa[u] = x => u = v)
        /\ \A e \in Entries : o[e] = own[r][e]
    BY <1>3, <2>4, CaixaKinds
  <2>7. \A u \in Vehicles : own[r][Caixa[u]] = Untouched
    BY <1>2 DEF Holds
  <2>8. db[v] # NoRow
    <3>1. View(r, x) = db[x]
      BY <1>3, <2>7 DEF View
    <3>2. IsRow(db[x])
      <4>1. db[x] \in CashRows
        BY <1>3, <1>5, <3>1, Kinds DEF IInv, Typed, TypeStock
      <4> QED BY <4>1, Kinds DEF IsRow
    <3> QED BY <1>3, <3>2 DEF Cash, CashHasVehicle
  <2>9. \A u \in Vehicles : /\ o[Caixa[u]] \in {Untouched, NoRow}
                            /\ o[Caixa[u]] # Untouched => u = v
    BY <2>4, <2>6, <2>7
  <2> HIDE DEF v, x
  <2>10. Holds(t, "drop", o)
    BY <1>2, <2>6, <2>7, <2>9 DEF Holds, v
  <2>11. Backs(db, t, o)
    BY <1>3, <2>8, <2>9 DEF Backs, IsRow
  <2>12. t.lone => Knows(db, t, "drop", o)
    <3>1. Moves(t) \/ Erases(t) => t.entry \in Entries
      BY <1>2 DEF Holds
    <3> QED BY <1>2, <1>3, <2>6, <3>1 DEF Knows
  <2> QED BY <1>2, <2>1, <2>2, <2>3, <2>5, <2>10, <2>11, <2>12, CashWrites
<1> QED BY <1>4, <1>5

LEMMA DropVehicleCash ==
  ASSUME IInv, Cash, NEW r \in Requests, WaitsFor(r) = {}, DropVehicle(r)
  PROVE  Cash'
<1> DEFINE v == tx[r].veiculo
           t == tx[r]
           o1 == [own[r] EXCEPT ![v] = NoRow]
           o == [o1 EXCEPT ![Caixa[v]] = NoRow]
<1>1. pc[r] = "drop"
  BY DEF DropVehicle
<1>2. CASE \E e \in Entries : Refers(View(r, e), v)
  BY <1>2, CashRollback DEF DropVehicle
<1>3. CASE ~\E e \in Entries : Refers(View(r, e), v)
  <2>1. /\ own' = [own EXCEPT ![r][v] = NoRow, ![r][Caixa[v]] = NoRow]
        /\ pc' = [pc EXCEPT ![r] = "commit"]
        /\ UNCHANGED <<db, tx, drift>>
    BY <1>3 DEF DropVehicle
  <2>2. /\ t \in TxTypes /\ Carries(t, "drop", own[r]) /\ Fits(own[r])
        /\ Holds(t, "drop", own[r]) /\ Backs(db, t, own[r])
        /\ t.lone => Knows(db, t, "drop", own[r])
    BY <1>1, RequestTyped, CashKnown
  <2>3. v \in Vehicles /\ t.op \in {"delete", "drop"}
    BY <2>2 DEF Carries
  <2>4. RowWaits(r, Caixa[v]) = {}
    BY <1>1 DEF WaitsFor
  <2>5. own' = [own EXCEPT ![r] = o]
    BY <2>1, <2>2 DEF IInv, Typed
  <2>6. /\ \A u \in Vehicles : /\ o[u] = IF u = v THEN NoRow ELSE own[r][u]
                               /\ o[Caixa[u]] = IF u = v THEN NoRow ELSE own[r][Caixa[u]]
        /\ \A e \in Entries : o[e] = own[r][e]
    <3> HIDE DEF v
    <3>1. v \in Things /\ Caixa[v] \in Things
      BY <2>3, CaixaKinds
    <3>2. o1[v] = NoRow /\ Fits(o1) /\ \A y : y # v => o1[y] = own[r][y]
      BY <2>2, <3>1, WrittenFits
    <3> HIDE DEF o1
    <3>3. Fits(o) /\ o[Caixa[v]] = NoRow /\ \A y : y # Caixa[v] => o[y] = o1[y]
      BY <3>1, <3>2, WrittenFits
    <3> HIDE DEF o
    <3> QED BY <2>3, <3>2, <3>3, CaixaKinds, Kinds
  <2>7. Step(r, t, "commit", o)
    <3>1. /\ tx' \in [Requests -> TxTypes]
          /\ \A q \in Requests : tx'[q] = [tx[q] EXCEPT !.lone = tx'[q].lone]
      BY <2>1 DEF IInv, Typed, TxTypes
    <3> QED BY <2>1, <2>5, <3>1 DEF Step, Others
  <2> HIDE DEF v, o1, o
  <2>8. Quieter(r) /\ UNCHANGED <<db, drift>>
    BY <2>1 DEF Quieter
  <2>9. Holds(t, "commit", o)
    BY <2>2, <2>6 DEF Holds, v
  <2>10. Backs(db, t, o)
    BY <2>2, <2>3, <2>6, Kinds DEF Backs, IsRow
  <2>11. t.lone => Knows(db, t, "commit", o)
    <3>1. t.synced = FALSE
      BY <2>2 DEF Holds, TxTypes
    <3>2. Moves(t) \/ Erases(t) => t.entry \in Entries
      BY <2>2 DEF Holds
    <3> QED BY <2>2, <2>3, <2>6, <3>1, <3>2 DEF Knows, v
  <2>12. \A q \in Others(r) : t.lone /\ tx'[q].lone => Concerns(tx[q]) \cap Concerns(t) = {}
    BY <2>1 DEF Cash, LoneApart, Others
  <2>13. ASSUME NEW u \in Vehicles, o[Caixa[u]] # Untouched, NEW q \in Others(r)
         PROVE  own[q][Caixa[u]] = Untouched
    <3>1. CASE u = v
      BY <2>4, <3>1 DEF RowWaits
    <3>2. CASE u # v
      BY <2>6, <2>13, <3>2 DEF Cash, CashLocks, Others
    <3> QED BY <3>1, <3>2
  <2> QED BY <2>7, <2>8, <2>9, <2>10, <2>11, <2>12, <2>13, CashStep
<1> QED BY <1>2, <1>3

LEMMA RegisterCash ==
  ASSUME IInv, Cash, NEW r \in Requests, WaitsFor(r) = {}, Register(r)
  PROVE  Cash'
<1> DEFINE v == tx[r].veiculo
           seen == tx[r].seen
           cash == [valor |-> 0, dono |-> seen.dono]
           t == [tx[r] EXCEPT !.synced = TRUE]
           o1 == [own[r] EXCEPT ![v] = seen]
           o == [o1 EXCEPT ![Caixa[v]] = cash]
<1>1. pc[r] = "register"
  BY DEF Register
<1>2. CASE db[v] # NoRow
  BY <1>2, CashRollback DEF Register
<1>3. CASE db[v] = NoRow
  <2>1. /\ own' = [own EXCEPT ![r][v] = seen, ![r][Caixa[v]] = cash]
        /\ tx' = [tx EXCEPT ![r].synced = TRUE]
        /\ pc' = [pc EXCEPT ![r] = "commit"]
        /\ UNCHANGED <<db, drift>>
    BY <1>3 DEF Register
  <2>2. /\ tx[r] \in TxTypes /\ Carries(tx[r], "register", own[r]) /\ Fits(own[r])
        /\ Holds(tx[r], "register", own[r])
    BY <1>1, RequestTyped, CashKnown
  <2>3. v \in Vehicles /\ seen \in VehicleRows /\ tx[r].op = "register" /\ own[r] = Nothing
    BY <2>2 DEF Carries
  <2>4. cash \in CashRows /\ cash.valor = 0 /\ cash.dono = seen.dono
    BY <2>3 DEF VehicleRows, CashRows, Values
  <2>5. IsRow(seen) /\ IsRow(cash)
    BY <2>3, <2>4, Kinds DEF IsRow
  <2>6. own' = [own EXCEPT ![r] = o]
    BY <2>1, <2>2 DEF IInv, Typed
  <2>7. tx' = [tx EXCEPT ![r] = t]
    BY <2>1 DEF IInv, Typed
  <2>8. /\ t \in TxTypes /\ t.op = "register" /\ t.entry = tx[r].entry /\ t.veiculo = v
        /\ t.old = tx[r].old /\ t.synced = TRUE /\ t.lone = tx[r].lone
    BY <2>2, <2>3 DEF TxTypes
  <2> HIDE DEF v, seen, cash, t
  <2>9. /\ \A u \in Vehicles : /\ o[u] = IF u = v THEN seen ELSE Untouched
                               /\ o[Caixa[u]] = IF u = v THEN cash ELSE Untouched
        /\ \A e \in Entries : o[e] = Untouched
    <3>1. v \in Things /\ Caixa[v] \in Things /\ seen \in RowsOf(v) /\ cash \in RowsOf(Caixa[v])
      BY <2>3, <2>4, Kinds
    <3>2. o1[v] = seen /\ Fits(o1) /\ \A y : y # v => o1[y] = own[r][y]
      BY <2>2, <3>1, WrittenFits
    <3> HIDE DEF o1
    <3>3. Fits(o) /\ o[Caixa[v]] = cash /\ \A y : y # Caixa[v] => o[y] = o1[y]
      BY <3>1, <3>2, WrittenFits
    <3> HIDE DEF o
    <3> QED BY <2>3, <3>2, <3>3, NothingCash, CaixaKinds, Kinds
  <2>10. Step(r, t, "commit", o)
    <3>1. tx' \in [Requests -> TxTypes] /\ tx'[r] = t
      BY <2>7, <2>8 DEF IInv, Typed
    <3>2. \A q \in Others(r) : tx'[q] = tx[q] /\ tx[q] = [tx[q] EXCEPT !.lone = tx[q].lone]
      BY <2>7 DEF IInv, Typed, TxTypes, Others
    <3> QED BY <2>1, <2>6, <3>1, <3>2 DEF Step
  <2>11. \A q \in Others(r) : tx'[q] = tx[q]
    BY <2>7 DEF IInv, Typed, Others
  <2> HIDE DEF o1, o
  <2>12. Quieter(r) /\ UNCHANGED <<db, drift>>
    BY <2>1, <2>11 DEF Quieter
  <2>13. ~Moves(t) /\ ~Erases(t) /\ ~Moves(tx[r]) /\ ~Erases(tx[r])
    BY <2>3, <2>8 DEF Moves, Erases
  <2>14. Holds(t, "commit", o)
    BY <2>2, <2>3, <2>5, <2>8, <2>9, <2>13, Kinds DEF Holds, IsRow
  <2>15. Backs(db, t, o)
    BY <2>5, <2>8, <2>9, Kinds DEF Backs, IsRow
  <2>16. Knows(db, t, "commit", o)
    <3> DEFINE m == Seen(db, o)
    <3>1. m[v] = seen /\ m[Caixa[v]] = cash
      BY <2>3, <2>5, <2>9, SeenAt, CaixaKinds DEF IsRow
    <3>2. \A e \in Entries : m[e] = db[e]
      BY <2>9, SeenAt, Kinds
    <3>3. Purchases(m, v) = {}
      <4> HIDE DEF m
      <4> QED BY <1>3, <2>3, <3>2 DEF Purchases, Buys, IInv, VehicleIsThere, v
    <3>4. UpToDate(m, v)
      BY <2>4, <3>1, <3>3 DEF UpToDate, Mirrors
    <3> QED BY <2>8, <2>13, <3>4 DEF Knows
  <2>17. \A q \in Others(r) : t.lone /\ tx'[q].lone => Concerns(tx[q]) \cap Concerns(t) = {}
    <3>1. Concerns(t) = Concerns(tx[r])
      BY <2>8 DEF Concerns, v
    <3> QED BY <2>8, <2>11, <3>1 DEF Cash, LoneApart, Others
  <2>18. ASSUME NEW u \in Vehicles, o[Caixa[u]] # Untouched, NEW q \in Others(r)
         PROVE  own[q][Caixa[u]] = Untouched
    <3>1. u = v /\ q \in Requests
      BY <2>9, <2>18 DEF Others
    <3>2. own[q][v] = Untouched
      BY <1>1 DEF WaitsFor, RowWaits, v
    <3>3. db[v] = NoRow
      BY <1>3 DEF v
    <3> QED BY <2>3, <3>1, <3>2, <3>3, CashKnown DEF Backs
  <2> QED BY <2>10, <2>12, <2>14, <2>15, <2>16, <2>17, <2>18, CashStep
<1> QED BY <1>2, <1>3

LEMMA EditVehicleCash ==
  ASSUME IInv, Cash, NEW r \in Requests, EditVehicle(r)
  PROVE  Cash'
<1> DEFINE v == tx[r].veiculo
           seen == tx[r].seen
           o == [own[r] EXCEPT ![v] = seen]
<1>1. pc[r] = "edit"
  BY DEF EditVehicle
<1>2. CASE db[v] = NoRow
  BY <1>2, CashRollback DEF EditVehicle
<1>3. CASE db[v] # NoRow
  <2>1. /\ tx[r] \in TxTypes /\ Carries(tx[r], "edit", own[r]) /\ Fits(own[r])
        /\ Holds(tx[r], "edit", own[r])
        /\ tx[r].lone => Knows(db, tx[r], "edit", own[r])
    BY <1>1, RequestTyped, CashKnown
  <2>2. v \in Vehicles /\ seen \in VehicleRows /\ tx[r].op = "edit" /\ own[r] = Nothing
    BY <2>1 DEF Carries
  <2>3. v \in Things /\ seen \in RowsOf(v) /\ seen # NoRow /\ seen # Untouched
    BY <2>2, Kinds
  <2>4. PICK t, w :
          /\ Writes(r, v, seen, t, w)
          /\ \/ t = tx[r] /\ w = "cost"
             \/ \E e \in Latest(r, v) : t = [tx[r] EXCEPT !.entry = e] /\ w = "debits"
    BY <1>3 DEF EditVehicle
  <2>5. \A e \in Latest(r, v) : e \in Entries /\ Refers(db[e], v)
    <3>1. \A e \in Entries : own[r][e] = Untouched
      BY <2>2, NothingCash
    <3> QED BY <3>1 DEF Latest, Compras, View
  <2>6. /\ t \in TxTypes /\ t.op = "edit" /\ t.veiculo = v /\ t.seen = seen
        /\ t.old = tx[r].old /\ t.synced = tx[r].synced /\ t.lone = tx[r].lone
        /\ \/ w = "cost" /\ t.entry = tx[r].entry
           \/ w = "debits" /\ t.entry \in Entries /\ Refers(db[t.entry], v)
    <3>1. CASE t = tx[r] /\ w = "cost"
      BY <2>1, <2>2, <3>1
    <3>2. ASSUME NEW e \in Latest(r, v), t = [tx[r] EXCEPT !.entry = e], w = "debits"
          PROVE  /\ t \in TxTypes /\ t.op = "edit" /\ t.veiculo = v /\ t.seen = seen
                 /\ t.old = tx[r].old /\ t.synced = tx[r].synced /\ t.lone = tx[r].lone
                 /\ t.entry = e
      <4>1. e \in Entries
        BY <2>5
      <4> QED BY <2>1, <2>2, <3>2, <4>1 DEF TxTypes
    <3> QED BY <2>4, <2>5, <3>1, <3>2
  <2> HIDE DEF v, seen
  <2>7. Fits(o) /\ o[v] = seen /\ \A y : y # v => o[y] = own[r][y]
    BY <2>1, <2>3, WrittenFits
  <2>8. o = [own[r] EXCEPT ![v] = seen]
    OBVIOUS
  <2> HIDE DEF o
  <2>9. /\ \A u \in Vehicles : /\ u # v => o[u] = Untouched
                               /\ o[Caixa[u]] = Untouched /\ own[r][Caixa[u]] = Untouched
                               /\ Caixa[u] # v
        /\ \A e \in Entries : o[e] = Untouched
    BY <2>2, <2>7, NothingCash, CaixaKinds, Kinds
  <2>10. ~Moves(t) /\ ~Erases(t) /\ ~Moves(tx[r]) /\ ~Erases(tx[r]) /\ t.synced = FALSE
    BY <2>1, <2>2, <2>6 DEF Moves, Erases, Holds, TxTypes
  <2>11. Holds(t, w, o)
    BY <2>1, <2>3, <2>6, <2>7, <2>9, <2>10, Kinds DEF Holds, IsRow
  <2>12. Backs(db, t, o)
    BY <1>1, <2>9, BacksPlain
  <2>13. t.lone => Knows(db, t, w, o)
    <3>1. Seen(db, o)[v] = seen
      BY <2>3, <2>7, SeenAt
    <3>2. t.lone /\ t.entry # None => Refers(db[t.entry], v)
      BY <2>1, <2>2, <2>6 DEF Knows, v
    <3> QED BY <2>6, <2>10, <3>1, <3>2 DEF Knows
  <2>14. Concerns(t) = Concerns(tx[r])
    BY <2>6 DEF Concerns, v
  <2> QED BY <2>3, <2>4, <2>6, <2>8, <2>9, <2>11, <2>12, <2>13, <2>14, CashWrites
<1> QED BY <1>2, <1>3

LEMMA WriteDebitsCash ==
  ASSUME IInv, Cash, NEW r \in Requests, WriteDebits(r)
  PROVE  Cash'
<1> DEFINE e == tx[r].entry
           t == tx[r]
           now == db[e]
           o == [own[r] EXCEPT ![e] = now]
<1>1. pc[r] = "debits"
  BY DEF WriteDebits
<1>2. CASE db[e] = NoRow
  BY <1>2, CashRollback DEF WriteDebits
<1>3. CASE db[e] # NoRow
  <2>1. Writes(r, e, now, t, "cost")
    BY <1>3 DEF WriteDebits
  <2>2. /\ t \in TxTypes /\ Carries(t, "debits", own[r]) /\ Fits(own[r])
        /\ Holds(t, "debits", own[r])
        /\ t.lone => Knows(db, t, "debits", own[r])
    BY <1>1, RequestTyped, CashKnown
  <2>3. /\ t.op = "edit" /\ e \in Entries /\ t.veiculo \in Vehicles
        /\ \A f \in Entries : own[r][f] = Untouched
    BY <2>2 DEF Carries
  <2>4. e \in Things /\ now \in RowsOf(e) /\ now # NoRow /\ now = db[e]
    BY <1>3, <2>3, RequestTyped, Kinds
  <2> HIDE DEF e, now
  <2>5. Fits(o) /\ o[e] = now /\ \A y : y # e => o[y] = own[r][y]
    BY <2>2, <2>4, WrittenFits
  <2>6. o = [own[r] EXCEPT ![e] = now]
    OBVIOUS
  <2> HIDE DEF o
  <2>7. \A u \in Vehicles : /\ o[u] = own[r][u] /\ o[Caixa[u]] = own[r][Caixa[u]]
                            /\ Caixa[u] # e
    BY <2>3, <2>5, Kinds
  <2>8. \A f \in Entries : o[f] \in {Untouched, db[f]} /\ o[f] # NoRow
    BY <2>3, <2>4, <2>5, Kinds
  <2>9. Holds(t, "cost", o)
    BY <2>2, <2>3, <2>7, <2>8 DEF Holds
  <2>10. Backs(db, t, o)
    BY <1>1, <2>7, <2>8, BacksPlain
  <2>11. t.lone => Knows(db, t, "cost", o)
    <3>1. Seen(db, o)[t.veiculo] = Seen(db, own[r])[t.veiculo]
      BY <2>3, <2>7, SeenAt, Kinds
    <3>2. ~Moves(t) /\ ~Erases(t)
      BY <2>3 DEF Moves, Erases
    <3> QED BY <2>2, <3>1, <3>2 DEF Knows
  <2> QED BY <2>1, <2>2, <2>4, <2>6, <2>7, <2>9, <2>10, <2>11, CashWrites
<1> QED BY <1>2, <1>3

LEMMA SkipDebitsCash ==
  ASSUME IInv, Cash, NEW r \in Requests, SkipDebits(r)
  PROVE  Cash'
<1>1. pc[r] = "debits" /\ Goes(r, tx[r], "cost")
  BY DEF SkipDebits
<1>2. /\ tx[r] \in TxTypes /\ Holds(tx[r], "debits", own[r])
      /\ tx[r].lone => Knows(db, tx[r], "debits", own[r])
  BY <1>1, RequestTyped, CashKnown
<1>3. Holds(tx[r], "cost", own[r])
  BY <1>2 DEF Holds
<1>4. tx[r].lone => Knows(db, tx[r], "cost", own[r])
  BY <1>2 DEF Knows
<1> QED BY <1>1, <1>2, <1>3, <1>4, CashGoes

-----------------------------------------------------------------------------
(* A commit: what the request saw becomes what is committed.               *)

\* The vehicles a commit may change something of.
Touch(r) ==
  Concerns(tx[r])
    \cup {v \in Vehicles : tx[r].entry # None /\ Refers(db[tx[r].entry], v)}

\* Nothing of v differs between the rows d and m.
Same(d, m, v) ==
  /\ m[v] = d[v] /\ m[Caixa[v]] = d[Caixa[v]]
  /\ \A e \in Entries : m[e] = d[e] \/ (~Refers(m[e], v) /\ ~Refers(d[e], v))

\* Who publishes is at the end of its work, or was refused before it wrote
\* anything of a vehicle or an entry.
Publishes(r) ==
  /\ Publish(r)
  /\ pc[r] = "commit" \/ (pc[r] = "insert" /\ ~tx[r].nested)

LEMMA ConcernsOwn ==
  ASSUME NEW t, t.veiculo \in Vehicles
  PROVE  t.veiculo \in Concerns(t)
         /\ (t.old # NoRow /\ t.old.veiculo \in Vehicles => t.old.veiculo \in Concerns(t))
BY StockAssumption DEF Concerns, Things

LEMMA Published ==
  ASSUME IInv, Cash, NEW r \in Requests, Publishes(r)
  PROVE  /\ db' = Seen(db, own[r])
         /\ \A u \in Vehicles :
              /\ db'[u] = IF own[r][u] # Untouched THEN own[r][u] ELSE db[u]
              /\ db'[Caixa[u]] = IF own[r][Caixa[u]] # Untouched THEN own[r][Caixa[u]]
                                 ELSE db[Caixa[u]]
         /\ \A e \in Entries : db'[e] = IF own[r][e] # Untouched THEN own[r][e] ELSE db[e]
         /\ tx[r].veiculo \in Vehicles
         /\ \A u \in Vehicles : own[r][u] # Untouched \/ own[r][Caixa[u]] # Untouched
                                => u = tx[r].veiculo
         /\ \A e \in Entries : /\ own[r][e] # Untouched => e = tx[r].entry
                               /\ e # None
<1>1. db' = Seen(db, own[r])
  BY DEF Publishes, Publish, View, Seen
<1>2. \A x \in Things : db'[x] = IF own[r][x] # Untouched THEN own[r][x] ELSE db[x]
  BY <1>1, SeenAt
<1>3. Carries(tx[r], pc[r], own[r]) /\ Holds(tx[r], pc[r], own[r]) /\ pc[r] # "idle"
  BY RequestTyped, CashKnown DEF Publishes
<1>4. /\ tx[r].veiculo \in Vehicles
      /\ \A e \in Entries : own[r][e] # Untouched => e = tx[r].entry
  BY <1>3 DEF Carries
<1>5. \A u \in Vehicles : own[r][u] # Untouched \/ own[r][Caixa[u]] # Untouched
                          => u = tx[r].veiculo
  BY <1>3 DEF Holds
<1>6. \A e \in Entries : e # None
  BY StockAssumption DEF Things
<1> QED BY <1>1, <1>2, <1>4, <1>5, <1>6, Kinds

LEMMA PublishFrame ==
  ASSUME IInv, Cash, NEW r \in Requests, Publishes(r), NEW u \in Vehicles, u \notin Touch(r)
  PROVE  Same(db, db', u)
<1> DEFINE t == tx[r]
<1>1. u # t.veiculo
  BY Published, ConcernsOwn DEF Touch
<1>2. db'[u] = db[u] /\ db'[Caixa[u]] = db[Caixa[u]]
  BY <1>1, Published
<1>3. ASSUME NEW e \in Entries, db'[e] # db[e]
      PROVE  ~Refers(db'[e], u) /\ ~Refers(db[e], u)
  <2>1. own[r][e] # Untouched /\ db'[e] = own[r][e] /\ e = t.entry /\ e # None
    BY <1>3, Published
  <2>2. ~Refers(db[e], u)
    BY <2>1 DEF Touch
  <2>3. Holds(t, pc[r], own[r]) /\ Backs(db, t, own[r])
    BY CashKnown
  <2>4. t.op # "edit"
    BY <1>3, <2>1, <2>3 DEF Backs
  <2>5. ~Refers(db'[e], u)
    BY <1>1, <2>1, <2>3, <2>4 DEF Holds, IsRow, Refers
  <2> QED BY <2>2, <2>5
<1> QED BY <1>2, <1>3 DEF Same

\* A request that is alone touches what it concerns.
LEMMA LoneTouch ==
  ASSUME IInv, Cash, NEW r \in Requests, pc[r] # "idle", tx[r].lone
  PROVE  Touch(r) \subseteq Concerns(tx[r])
<1> DEFINE t == tx[r]
<1>1. t \in TxTypes /\ Holds(t, pc[r], own[r]) /\ Knows(db, t, pc[r], own[r])
      /\ t.veiculo \in Vehicles
  BY RequestTyped, CashKnown DEF Carries
<1>2. ASSUME NEW u \in Vehicles, t.entry # None, Refers(db[t.entry], u)
      PROVE  u \in Concerns(t)
  <2>1. CASE Creates(t)
    BY <1>2, <2>1 DEF IInv, Fresh, Refers
  <2>2. CASE Moves(t) \/ Erases(t)
    <3>1. db[t.entry] = t.old
      BY <1>1, <2>2 DEF Knows
    <3>2. t.old # NoRow /\ t.old.veiculo = u
      BY <1>2, <3>1 DEF Refers
    <3> QED BY <1>1, <3>2, ConcernsOwn
  <2>3. CASE t.op = "edit"
    <3>1. Refers(db[t.entry], t.veiculo)
      BY <1>1, <1>2, <2>3 DEF Knows
    <3>2. u = t.veiculo
      BY <1>2, <3>1 DEF Refers
    <3> QED BY <1>1, <3>2, ConcernsOwn
  <2>4. CASE t.op \in {"register", "drop", "none"}
    BY <1>1, <1>2, <2>4 DEF Holds
  <2>5. t.op \in AllOps \cup {"none"}
    BY <1>1 DEF TxTypes
  <2> QED BY <2>1, <2>2, <2>3, <2>4, <2>5 DEF AllOps, Creates, Moves, Erases
<1> QED BY <1>2 DEF Touch

\* Who is still alone after a commit was not touched by it.
LEMMA StillAlone ==
  ASSUME IInv, Cash, NEW r \in Requests, Publishes(r), NEW q \in Others(r), tx'[q].lone
  PROVE  tx[q].lone /\ Concerns(tx[q]) \cap Touch(r) = {}
<1>1. tx[q].lone /\ Concerns(tx[q]) \cap Disturbs(r) = {}
  BY EndsQuieter DEF IInv, Publishes, Publish
<1>2. CASE tx[r].lone
  <2>1. Concerns(tx[q]) \cap Concerns(tx[r]) = {}
    BY <1>1, <1>2 DEF Cash, LoneApart, Others
  <2>2. Touch(r) \subseteq Concerns(tx[r])
    BY <1>2, LoneTouch DEF Publishes
  <2> QED BY <1>1, <2>1, <2>2
<1>3. CASE ~tx[r].lone
  BY <1>1, <1>3 DEF Disturbs, Touch
<1> QED BY <1>2, <1>3

\* What a request knows stays true of rows that are the same for its vehicles.
LEMMA KnowsOn ==
  ASSUME NEW t \in TxTypes, NEW p, NEW o, NEW d, NEW c, Knows(d, t, p, o), Holds(t, p, o),
         t.veiculo \in Vehicles, Moves(t) => t.old \in EntryRows,
         \A u \in Vehicles : u \in Concerns(t) => Same(d, c, u)
  PROVE  Knows(c, t, p, o)
<1> DEFINE v == t.veiculo
           m == Seen(d, o)
           n == Seen(c, o)
<1>1. Same(d, c, v)
  BY ConcernsOwn
<1>2. c[v] = d[v] /\ c[Caixa[v]] = d[Caixa[v]]
  BY <1>1 DEF Same
<1>3. Moves(t) \/ Erases(t) => c[t.entry] = d[t.entry]
  <2>1. SUFFICES ASSUME Moves(t) \/ Erases(t) PROVE c[t.entry] = d[t.entry]
    OBVIOUS
  <2>2. d[t.entry] = t.old /\ t.entry \in Entries
    BY <2>1 DEF Knows, Holds
  <2>3. t.old \in EntryRows
    BY <2>1 DEF Holds
  <2>4. t.old.veiculo \in Vehicles /\ t.old \notin {NoRow, Untouched}
    BY <2>3, EntryRowTyped, Kinds
  <2>5. Same(d, c, t.old.veiculo)
    BY <2>4, ConcernsOwn
  <2>6. Refers(d[t.entry], t.old.veiculo)
    BY <2>2, <2>4 DEF Refers
  <2> QED BY <2>2, <2>5, <2>6 DEF Same
<1>4. t.op = "edit" /\ t.entry # None => c[t.entry] = d[t.entry]
  <2>1. t.entry # None => t.entry \in Entries
    BY DEF TxTypes
  <2> QED BY <1>1, <2>1 DEF Knows, Same
<1>5. n[v] = m[v] /\ n[Caixa[v]] = m[Caixa[v]]
  BY <1>2, SeenAt, CaixaKinds
<1>6. \A e \in Entries : n[e] = m[e] \/ (~Buys(m[e], v) /\ ~Buys(n[e], v))
  <2>1. ASSUME NEW e \in Entries
        PROVE  n[e] = m[e] \/ (~Buys(m[e], v) /\ ~Buys(n[e], v))
    <3>1. /\ n[e] = IF o[e] # Untouched THEN o[e] ELSE c[e]
          /\ m[e] = IF o[e] # Untouched THEN o[e] ELSE d[e]
      BY SeenAt, Kinds
    <3> HIDE DEF n, m
    <3> QED BY <1>1, <3>1 DEF Same, Buys
  <2> QED BY <2>1
<1>7. \A x : Mirrors(m, v, x) => Mirrors(n, v, x)
  <2> HIDE DEF m, n
  <2> QED BY <1>5, <1>6, AlikeMirrors
<1>8. UpToDate(m, v) => UpToDate(n, v)
  BY <1>5, <1>7 DEF UpToDate
<1>9. Still(d, t, o) => Still(c, t, o)
  BY <1>2 DEF Still
<1>10. /\ Moves(t) \/ Erases(t) =>
            /\ c[t.entry] = t.old
            /\ t.row.compra = t.old.compra
            /\ IsRow(o[t.entry]) => o[t.entry].compra = t.old.compra
       /\ t.op = "edit" /\ t.entry # None => Refers(c[t.entry], v)
       /\ p \in {"nested", "insert"} /\ o[v] # Untouched => c[v] = NoRow
  BY <1>2, <1>3, <1>4 DEF Knows
<1>11. /\ p \in {"status", "erase", "cost", "debits"} /\ m[v] # NoRow => t.seen = m[v]
       /\ p = "cash" => /\ d[Caixa[v]] = t.cashOld
                        /\ m[v] # NoRow => Mirrors(m, v, t.cash)
       /\ p = "commit" => IF t.synced THEN UpToDate(m, v)
                          ELSE o[v] = NoRow \/ Still(d, t, o)
  BY DEF Knows
<1>12. Knows(d, t, p, o)
  OBVIOUS
<1> HIDE DEF m
<1>13. /\ p \in {"status", "erase", "cost", "debits"} /\ n[v] # NoRow => t.seen = n[v]
       /\ p = "cash" => /\ c[Caixa[v]] = t.cashOld
                        /\ n[v] # NoRow => Mirrors(n, v, t.cash)
       /\ p = "commit" => IF t.synced THEN UpToDate(n, v)
                          ELSE o[v] = NoRow \/ Still(c, t, o)
  <2> HIDE DEF n
  <2> QED BY <1>2, <1>5, <1>7, <1>8, <1>9, <1>11
<1> QED BY <1>10, <1>13 DEF Knows

\* What the others hold is still backed.
LEMMA PublishBacks ==
  ASSUME IInv, Cash, NEW r \in Requests, Publishes(r), NEW q \in Others(r)
  PROVE  Backs(db', tx[q], own[q])
<1>1. q \in Requests /\ q # r
  BY DEF Others
<1>2. Backs(db, tx[q], own[q]) /\ Holds(tx[r], pc[r], own[r])
  BY <1>1, CashKnown
<1>3. ASSUME NEW u \in Vehicles, own[q][Caixa[u]] # Untouched, db[u] # NoRow
      PROVE  db'[u] # NoRow
  <2>1. own[r][Caixa[u]] = Untouched
    BY <1>1, <1>3 DEF Cash, CashLocks
  <2>2. own[r][u] # NoRow
    BY <1>2, <2>1, Kinds DEF Holds
  <2> QED BY <1>3, <2>2, Published
<1>4. ASSUME tx[q].op = "edit", NEW e \in Entries
      PROVE  own[q][e] \in {Untouched, db'[e]}
  <2>1. CASE own[q][e] = Untouched
    BY <2>1
  <2>2. CASE own[q][e] # Untouched
    <3>1. own[r][e] = Untouched
      BY <1>1, <2>2 DEF IInv, RowLocks
    <3> QED BY <1>2, <1>4, <2>2, <3>1, Published DEF Backs
  <2> QED BY <2>1, <2>2
<1>5. \A u \in Vehicles :
        /\ own[q][Caixa[u]] # Untouched => db[u] # NoRow \/ own[q][u] # Untouched
        /\ IsRow(own[q][Caixa[u]]) => own[q][u] # NoRow /\ (own[q][u] = Untouched => db[u] # NoRow)
  BY <1>2 DEF Backs
<1>6. \A u \in Vehicles : IsRow(own[q][Caixa[u]]) => own[q][Caixa[u]] # Untouched
  BY DEF IsRow
<1> QED BY <1>3, <1>4, <1>5, <1>6 DEF Backs

LEMMA MirroredIs ==
  /\ \A v \in Vehicles : Mirrored(v) <=> UpToDate(db, v)
  /\ \A v \in Vehicles : Mirrored(v)' <=> UpToDate(db', v)
<1>1. \A v \in Vehicles : Mirrored(v) <=> UpToDate(db, v)
  BY DEF Mirrored, UpToDate, Mirrors, Purchases, Buys
<1>2. \A v \in Vehicles : Mirrored(v)' <=> UpToDate(db', v)
  BY DEF Mirrored, UpToDate, Mirrors, Purchases, Buys
<1> QED BY <1>1, <1>2

\* A lone request that did not compute the cash row had no reason to.
LEMMA PublishStill ==
  ASSUME IInv, Cash, NEW r \in Requests, Publishes(r), tx[r].lone, ~tx[r].synced,
         UpToDate(db, tx[r].veiculo)
  PROVE  UpToDate(db', tx[r].veiculo)
<1> DEFINE t == tx[r]
           v == t.veiculo
           o == own[r]
<1>1. /\ t \in TxTypes /\ Carries(t, pc[r], o) /\ Holds(t, pc[r], o)
      /\ Knows(db, t, pc[r], o) /\ v \in Vehicles /\ pc[r] # "idle"
  BY RequestTyped, CashKnown, Published DEF Publishes
<1>2. o[v] = NoRow \/ Still(db, t, o)
  <2>1. CASE pc[r] = "commit"
    BY <1>1, <2>1 DEF Knows
  <2>2. CASE pc[r] = "insert" /\ ~t.nested
    <3>1. /\ Creates(t) /\ \A e \in Entries : o[e] = Untouched
          /\ o[v] = Untouched
      BY <1>1, <2>2 DEF Carries
    <3>2. o[Caixa[v]] = Untouched
      BY <1>1, <2>2 DEF Holds
    <3> QED BY <3>1, <3>2 DEF Still
  <2> QED BY <2>1, <2>2 DEF Publishes
<1>3. CASE o[v] = NoRow
  BY <1>1, <1>3, Published, Kinds DEF UpToDate
<1>4. CASE Still(db, t, o) /\ db[v] = NoRow
  <2>1. ~IsRow(db[Caixa[v]])
    BY <1>1, <1>4 DEF Cash, CashHasVehicle
  <2>2. db[Caixa[v]] = NoRow
    <3>1. db[Caixa[v]] \in CashRows \cup {NoRow}
      BY <1>1, Kinds DEF IInv, Typed, TypeStock
    <3> QED BY <2>1, <3>1, Kinds DEF IsRow
  <2>3. db'[Caixa[v]] = NoRow
    BY <1>1, <1>4, <2>2, Published DEF Still
  <2> QED BY <2>3 DEF UpToDate
<1>5. CASE Still(db, t, o) /\ db[v] # NoRow
  <2>1. db'[v] = db[v] /\ db'[Caixa[v]] = db[Caixa[v]]
    BY <1>1, <1>5, Published DEF Still
  <2>2. ASSUME NEW e \in Entries, db'[e] # db[e] PROVE ~Buys(db[e], v) /\ ~Buys(db'[e], v)
    <3>1. o[e] # Untouched /\ db'[e] = o[e] /\ e = t.entry
      BY <2>2, Published
    <3>2. ~Buys(db'[e], v)
      BY <1>5, <3>1 DEF Still, Buys, Refers, IsRow
    <3>3. CASE Creates(t)
      BY <3>1, <3>2, <3>3 DEF IInv, Fresh, Buys, Refers
    <3>4. CASE (Moves(t) \/ Erases(t)) /\ ~t.old.compra
      BY <1>1, <3>1, <3>2, <3>4 DEF Knows, Buys
    <3>5. Creates(t) \/ ((Moves(t) \/ Erases(t)) /\ ~t.old.compra)
      BY <1>5, <3>1 DEF Still
    <3> QED BY <3>3, <3>4, <3>5
  <2>3. Alike(db, db', v)
    BY <2>1, <2>2 DEF Alike
  <2> QED BY <2>3, AlikeUpToDate
<1> QED BY <1>2, <1>3, <1>4, <1>5

\* The vehicle an entry left, unless it was a purchase.
LEMMA PublishLeft ==
  ASSUME IInv, Cash, NEW r \in Requests, Publishes(r), tx[r].lone,
         NEW u \in Vehicles, u \in Concerns(tx[r]), u # tx[r].veiculo, u \notin drift',
         UpToDate(db, u)
  PROVE  UpToDate(db', u)
<1> DEFINE t == tx[r]
<1>1. /\ t \in TxTypes /\ Carries(t, pc[r], own[r]) /\ Holds(t, pc[r], own[r])
      /\ Knows(db, t, pc[r], own[r]) /\ pc[r] # "idle"
  BY RequestTyped, CashKnown DEF Publishes
<1>2. t.old # NoRow /\ u = t.old.veiculo
  BY DEF Concerns
<1>3. Moves(t)
  BY <1>1, <1>2 DEF Holds
<1>4. ~t.old.compra
  BY <1>2, <1>3 DEF Publishes, Publish, Drifted, Moves
<1>5. db'[u] = db[u] /\ db'[Caixa[u]] = db[Caixa[u]]
  BY Published
<1>6. ASSUME NEW e \in Entries, db'[e] # db[e] PROVE ~Buys(db[e], u) /\ ~Buys(db'[e], u)
  <2>1. own[r][e] # Untouched /\ db'[e] = own[r][e] /\ e = t.entry
    BY <1>6, Published
  <2>2. db[e] = t.old /\ (IsRow(own[r][e]) => own[r][e].compra = t.old.compra)
    BY <1>1, <1>3, <2>1 DEF Knows
  <2> QED BY <1>4, <2>1, <2>2 DEF Buys, Refers, IsRow
<1>7. Alike(db, db', u)
  BY <1>5, <1>6 DEF Alike
<1> QED BY <1>7, AlikeUpToDate

LEMMA PublishMirrors ==
  ASSUME IInv, Cash, NEW r \in Requests, Publishes(r)
  PROVE  CashMirrors'
<1> DEFINE t == tx[r]
<1>1. SUFFICES ASSUME NEW u \in Vehicles, u \notin drift' PROVE UpToDate(db', u)
  BY MirroredIs DEF CashMirrors
<1>2. drift' = (drift \ (IF t.lone /\ t.synced THEN {t.veiculo} ELSE {}))
               \cup (IF t.op \in {"update", "json_update"} /\ t.old.compra
                        /\ t.old.veiculo # t.veiculo THEN {t.old.veiculo} ELSE {})
               \cup Disturbs(r)
  BY DEF Publishes, Publish, Drifted
<1>3. CASE t.lone /\ t.synced /\ u = t.veiculo
  <2>1. pc[r] = "commit" /\ Knows(db, t, pc[r], own[r])
    BY <1>3, CashKnown DEF Publishes, Holds
  <2>2. UpToDate(Seen(db, own[r]), u)
    BY <1>3, <2>1 DEF Knows
  <2> QED BY <2>2, Published
<1>4. CASE ~(t.lone /\ t.synced /\ u = t.veiculo)
  <2>1. u \notin drift
    BY <1>1, <1>2, <1>4
  <2>2. UpToDate(db, u)
    BY <1>1, <2>1, MirroredIs DEF Cash, CashMirrors
  <2>3. CASE u \notin Touch(r)
    <3>1. Same(db, db', u)
      BY <1>1, <2>3, PublishFrame
    <3>2. Alike(db, db', u)
      BY <3>1 DEF Same, Alike, Buys
    <3> QED BY <2>2, <3>2, AlikeUpToDate
  <2>4. CASE u \in Touch(r)
    <3>1. t.lone
      BY <1>1, <1>2, <2>4 DEF Disturbs, Touch
    <3>2. u \in Concerns(t)
      BY <2>4, <3>1, LoneTouch DEF Publishes
    <3>3. CASE u = t.veiculo
      BY <1>4, <2>2, <3>1, <3>3, PublishStill
    <3>4. CASE u # t.veiculo
      BY <1>1, <2>2, <3>1, <3>2, <3>4, PublishLeft
    <3> QED BY <3>3, <3>4
  <2> QED BY <2>3, <2>4
<1> QED BY <1>3, <1>4

LEMMA PublishBounded ==
  ASSUME IInv, Cash, NEW r \in Requests, Publishes(r)
  PROVE  Bounded'
<1> DEFINE x == tx[r].entry
<1>1. PICK n \in Nat : \A e \in Entries : Bound(n, e, db[e])
  BY DEF Cash, Bounded
<1>2. PICK m \in Nat : \A e \in Entries : Bound(m, e, db'[e])
  <2>1. CASE x \in Entries /\ own[r][x] \in EntryRows
    <3>1. x \in Nat /\ own[r][x].dia \in Nat
      BY <2>1, EntryRowTyped, StockAssumption
    <3> DEFINE m == n + x + own[r][x].dia
    <3>2. m \in Nat /\ n <= m /\ x <= m /\ own[r][x].dia <= m
      BY <3>1
    <3>3. ASSUME NEW e \in Entries PROVE Bound(m, e, db'[e])
      <4>1. CASE e = x
        <5>1. db'[e] = own[r][x]
          BY <2>1, <4>1, Published, Kinds
        <5> HIDE DEF m
        <5> QED BY <3>2, <4>1, <5>1 DEF Bound
      <4>2. CASE e # x
        <5>1. db'[e] = db[e] /\ db[e] \in EntryRows \cup {NoRow} /\ e \in Nat
          BY <4>2, Published, RequestTyped, StockAssumption
        <5>2. IsRow(db[e]) => db[e].dia \in Nat /\ e <= n /\ db[e].dia <= n
          BY <1>1, <5>1, EntryRowTyped DEF Bound, IsRow
        <5> HIDE DEF m
        <5> QED BY <3>2, <5>1, <5>2 DEF Bound
      <4> QED BY <4>1, <4>2
    <3> HIDE DEF m
    <3> QED BY <3>2, <3>3
  <2>2. CASE ~(x \in Entries /\ own[r][x] \in EntryRows)
    <3>1. ASSUME NEW e \in Entries PROVE Bound(n, e, db'[e])
      <4>1. own[r][e] \in {NoRow, Untouched}
        <5>1. own[r][e] \in EntryRows \cup {NoRow, Untouched}
          BY Kinds DEF IInv, Typed, TypeStock
        <5>2. own[r][e] # Untouched => e = x
          BY Published
        <5> QED BY <2>2, <5>1, <5>2
      <4>2. db'[e] = db[e] \/ db'[e] = NoRow
        BY <4>1, Published
      <4> QED BY <1>1, <4>2 DEF Bound, IsRow
    <3> QED BY <3>1
  <2> QED BY <2>1, <2>2
<1> QED BY <1>2 DEF Bounded, Bound

LEMMA PublishCash ==
  ASSUME IInv, Cash, NEW r \in Requests, Publishes(r)
  PROVE  Cash'
<1>1. Step(r, NoTx, "idle", Nothing) /\ Typed
  BY EndsIsStep DEF IInv, Publishes, Publish
<1>2. own'[r] = Nothing /\ pc'[r] = "idle" /\ tx'[r] = NoTx
  BY <1>1, StepEffect
<1>3. ASSUME NEW q \in Others(r)
      PROVE  /\ Concerns(tx'[q]) = Concerns(tx[q])
             /\ Holds(tx[q], pc[q], own[q]) => Holds(tx'[q], pc'[q], own'[q])
             /\ \A d : /\ Backs(d, tx[q], own[q]) => Backs(d, tx'[q], own'[q])
                       /\ Knows(d, tx[q], pc[q], own[q]) => Knows(d, tx'[q], pc'[q], own'[q])
             /\ pc'[q] = pc[q] /\ own'[q] = own[q]
  BY <1>1, OthersConcerns
<1>4. Held'
  <2>1. ASSUME NEW q \in Requests
        PROVE  Holds(tx'[q], pc'[q], own'[q]) /\ Backs(db', tx'[q], own'[q])
    <3>1. CASE q = r
      BY <1>2, <3>1, NoTxHolds, NothingCash
    <3>2. CASE q # r
      <4>1. q \in Others(r)
        BY <3>2 DEF Others
      <4> QED BY <1>3, <4>1, PublishBacks, CashKnown
    <3> QED BY <3>1, <3>2
  <2> QED BY <2>1 DEF Held
<1>5. Known'
  <2>1. ASSUME NEW q \in Requests, pc'[q] # "idle", tx'[q].lone
        PROVE  Knows(db', tx'[q], pc'[q], own'[q])
    <3>1. q \in Others(r) /\ pc[q] # "idle"
      BY <1>2, <1>3, <2>1 DEF Others
    <3>2. tx[q].lone /\ Concerns(tx[q]) \cap Touch(r) = {}
      BY <2>1, <3>1, StillAlone
    <3>3. /\ tx[q] \in TxTypes /\ tx[q].veiculo \in Vehicles
          /\ Moves(tx[q]) => tx[q].old \in EntryRows
          /\ Holds(tx[q], pc[q], own[q]) /\ Knows(db, tx[q], pc[q], own[q])
      BY <3>1, <3>2, RequestTyped, CashKnown DEF Carries
    <3>4. \A u \in Vehicles : u \in Concerns(tx[q]) => Same(db, db', u)
      BY <3>2, PublishFrame
    <3>5. Knows(db', tx[q], pc[q], own[q])
      BY <3>3, <3>4, KnowsOn
    <3> QED BY <1>3, <3>1, <3>5
  <2> QED BY <2>1 DEF Known
<1>6. LoneApart'
  <2>1. ASSUME NEW q \in Requests, NEW s \in Requests, q # s, tx'[q].lone, tx'[s].lone
        PROVE  Concerns(tx'[q]) \cap Concerns(tx'[s]) = {}
    <3>1. CASE q = r \/ s = r
      BY <1>2, <3>1, NoTxHolds
    <3>2. CASE q # r /\ s # r
      <4>1. q \in Others(r) /\ s \in Others(r)
        BY <3>2 DEF Others
      <4>2. tx[q].lone /\ tx[s].lone
        BY <2>1, <4>1, StillAlone
      <4>3. Concerns(tx'[q]) = Concerns(tx[q]) /\ Concerns(tx'[s]) = Concerns(tx[s])
        BY <1>3, <4>1
      <4> QED BY <2>1, <4>2, <4>3 DEF Cash, LoneApart
    <3> QED BY <3>1, <3>2
  <2> QED BY <2>1 DEF LoneApart
<1>7. CashLocks'
  BY <1>2, <1>3, NothingCash DEF Cash, CashLocks, Others
<1>8. CashHasVehicle'
  <2>1. ASSUME NEW u \in Vehicles, IsRow(db'[Caixa[u]]) PROVE db'[u] # NoRow
    <3>1. Holds(tx[r], pc[r], own[r]) /\ Backs(db, tx[r], own[r])
      BY CashKnown
    <3>2. CASE own[r][Caixa[u]] = Untouched
      <4>1. own[r][u] # NoRow
        BY <3>1, <3>2, Kinds DEF Holds
      <4>2. db[u] # NoRow
        BY <2>1, <3>2, Published DEF Cash, CashHasVehicle
      <4> QED BY <4>1, <4>2, Published
    <3>3. CASE own[r][Caixa[u]] # Untouched
      <4>1. IsRow(own[r][Caixa[u]])
        BY <2>1, <3>3, Published
      <4> QED BY <3>1, <4>1, Published DEF Backs
    <3> QED BY <3>2, <3>3
  <2> QED BY <2>1 DEF CashHasVehicle
<1> QED BY <1>4, <1>5, <1>6, <1>7, <1>8, PublishBounded, PublishMirrors DEF Cash

-----------------------------------------------------------------------------
LEMMA CashInit == Init => Cash
<1> SUFFICES ASSUME Init PROVE Cash
  OBVIOUS
<1>1. /\ \A x \in Things : db[x] = NoRow
      /\ \A r \in Requests : own[r] = Nothing /\ pc[r] = "idle" /\ tx[r] = NoTx
  BY DEF Init
<1>2. /\ \A e \in Entries : db[e] = NoRow
      /\ \A v \in Vehicles : db[v] = NoRow /\ db[Caixa[v]] = NoRow
  BY <1>1, Kinds
<1>3. Held /\ Known
  BY <1>1, NoTxHolds, NothingCash DEF Held, Known
<1>4. LoneApart /\ CashLocks
  BY <1>1, NoTxHolds, NothingCash DEF LoneApart, CashLocks
<1>5. CashHasVehicle /\ CashMirrors
  BY <1>2 DEF CashHasVehicle, CashMirrors, Mirrored, IsRow
<1>6. Bounded
  <2>1. \A e \in Entries : Bound(0, e, db[e])
    BY <1>2 DEF Bound, IsRow
  <2> QED BY <2>1 DEF Bounded
<1> QED BY <1>3, <1>4, <1>5, <1>6 DEF Cash

LEMMA CashNext == IInv /\ Cash /\ [Next]_vars => Cash'
<1> SUFFICES ASSUME IInv, Cash, [Next]_vars PROVE Cash'
  OBVIOUS
<1>1. CASE UNCHANGED vars
  BY <1>1 DEF vars, Cash, Held, Known, LoneApart, CashLocks, CashHasVehicle, Bounded, Bound,
              CashMirrors, Mirrored
<1>2. ASSUME NEW r \in Requests, BeginEntry(r) PROVE Cash'
  BY <1>2, BeginEntryCash
<1>3. ASSUME NEW r \in Requests, BeginUpdate(r) PROVE Cash'
  BY <1>3, BeginUpdateCash
<1>4. ASSUME NEW r \in Requests, BeginDelete(r) PROVE Cash'
  BY <1>4, BeginDeleteCash
<1>5. ASSUME NEW r \in Requests, BeginVehicle(r) PROVE Cash'
  BY <1>5, BeginVehicleCash
<1>6. ASSUME NEW r \in Requests, Abort(r) PROVE Cash'
  BY <1>6, CashRollback DEF Abort
<1>7. ASSUME NEW r \in Requests, Advance(r) PROVE Cash'
  <2>1. CASE InsertNested(r)
    BY <2>1, InsertNestedCash
  <2>2. CASE NestedTaken(r)
    BY <2>2, CashRollback DEF NestedTaken
  <2>3. CASE Refuse(r)
    BY <2>3, CashRollback, PublishCash DEF Refuse, Publishes
  <2>4. CASE Insert(r)
    BY <2>4, InsertCash
  <2>5. CASE ReadCost(r)
    BY <2>5, ReadCostCash
  <2>6. CASE WriteCash(r) /\ WaitsFor(r) = {}
    BY <2>6, WriteCashCash
  <2>7. CASE Update(r)
    BY <2>7, UpdateCash
  <2>8. CASE SyncStatus(r)
    BY <2>8, SyncStatusCash
  <2>9. CASE Erase(r)
    BY <2>9, EraseCash
  <2>10. CASE DropCash(r) /\ WaitsFor(r) = {}
    BY <2>10, DropCashCash
  <2>11. CASE DropVehicle(r) /\ WaitsFor(r) = {}
    BY <2>11, DropVehicleCash
  <2>12. CASE Register(r) /\ WaitsFor(r) = {}
    BY <2>12, RegisterCash
  <2>13. CASE EditVehicle(r)
    BY <2>13, EditVehicleCash
  <2>14. CASE WriteDebits(r)
    BY <2>14, WriteDebitsCash
  <2>15. CASE SkipDebits(r)
    BY <2>15, SkipDebitsCash
  <2>16. CASE Commit(r)
    BY <2>16, PublishCash DEF Commit, Publishes
  <2>17. CASE DeadlockVictim(r)
    BY <2>17, CashRollback DEF DeadlockVictim
  <2> QED BY <1>7, <2>1, <2>2, <2>3, <2>4, <2>5, <2>6, <2>7, <2>8, <2>9, <2>10, <2>11,
             <2>12, <2>13, <2>14, <2>15, <2>16, <2>17 DEF Advance
<1> QED BY <1>1, <1>2, <1>3, <1>4, <1>5, <1>6, <1>7 DEF Next

LEMMA AlwaysCash == Spec => []Cash
<1>1. Init => IInv /\ Cash
  BY InitHolds, CashInit
<1>2. IInv /\ Cash /\ [Next]_vars => (IInv /\ Cash)'
  BY NextKeeps, CashNext
<1> QED BY <1>1, <1>2, PTL DEF Spec

\* A cash row is charged what the latest purchase of its vehicle cost, to the
\* investor who owns it, whatever requests do with the vehicle one at a time;
\* sincronizar_lancamento_veiculo forgets it only when two overlapped on the
\* vehicle, or a purchase was moved off it.
THEOREM CashIsMirror == Spec => []CashMirrors
<1>1. Cash => CashMirrors
  BY DEF Cash
<1> QED BY <1>1, AlwaysCash, PTL

\* No cash row outlives its vehicle: a delete of the vehicle takes its row with
\* it, even when another request is about to write that row.
THEOREM CashHasItsVehicle == Spec => []CashHasVehicle
<1>1. Cash => CashHasVehicle
  BY DEF Cash
<1> QED BY <1>1, AlwaysCash, PTL

=============================================================================
