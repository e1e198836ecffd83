---------------------------- MODULE AccountsProofs ----------------------------
(***************************************************************************)
(* Theorems about Accounts, for any number of requests, accounts, names    *)
(* and profiles and any mix of operations.                                 *)
(*                                                                         *)
(*   AccountTypes      the type invariant                                  *)
(*   DroppedIsNobodys  a profile that was deleted is no account's profile  *)
(*   RevokedForGood    no token outlives a password change or a logout     *)
(***************************************************************************)
EXTENDS Accounts, TLAPS

OpNames == AllOps \cup {None}

TxTypes ==
  [at: Places, op: OpNames, id: Ids \cup {None}, loaded: Rows \cup {None},
   form: Rows \cup {None}, ends: BOOLEAN, perfil: Perfis \cup {None},
   todo: SUBSET Ids, era: Nat, wrote: SUBSET Ids, rows: [Ids -> Rows \cup {None}]]

\* What a request carries, by the place it is at.
Phase(t) ==
  /\ t.at \in {"idle", "token", "write"} => t.wrote = {}
  /\ t.at = "token" => t.id \in Ids /\ t.loaded \in Rows
  /\ t.at = "write" /\ t.op # "new_perfil" => t.form \in Rows
  /\ t.at = "write" /\ t.op \notin {"new_perfil", "create"} => t.id \in Ids
  /\ t.at = "clear" => /\ t.op = "drop"
                       /\ \A i \in t.wrote : t.rows[i] # None => t.rows[i].perfil = None
  /\ t.at = "commit" /\ t.op = "new_perfil" => t.perfil \in Perfis
  /\ t.op = "drop" => t.loaded = None /\ ~t.ends /\ t.perfil \in Perfis /\ t.id = None
  /\ t.op = "create" => t.loaded = None /\ ~t.ends /\ t.id = None
  /\ t.op = "create" /\ t.at = "write" => t.form.version = 0
  /\ t.op \in {"delete", "new_perfil"} => ~t.ends
  /\ t.at = "commit" /\ t.ends => t.id \in t.wrote

\* Ids are given out once.
Ordered ==
  /\ \A i \in Ids : i >= nextId => ~Exists(i) /\ ended[i] = 0
  /\ \A r \in Requests :
       /\ tx[r].id # None => tx[r].id < nextId
       /\ \A i \in tx[r].wrote \cup tx[r].todo : i < nextId

Typed ==
  /\ TypeOK
  /\ tx \in [Requests -> TxTypes]
  /\ \A r \in Requests : Phase(tx[r])
  /\ Ordered

\* The version of an account counts what ended its tokens; an uncommitted row
\* is ahead of it by what its request ends.
Counted ==
  /\ \A i \in Ids : Exists(i) => users[i].version = ended[i]
  /\ \A t \in tokens : t.version = t.era
  /\ \A r \in Requests : Is(r, "token") => tx[r].loaded.version = tx[r].era
  /\ \A r \in Requests, i \in Ids :
       Writes(r, i) =>
         tx[r].rows[i].version =
           IF i = tx[r].id /\ tx[r].ends THEN ended[i] + 1 ELSE ended[i]

\* The profile an uncommitted row gives is there, and its request has checked
\* it or found it in the row.
Checked(r, i) ==
  LET p == tx[r].rows[i].perfil IN
  p = None \/ /\ p \in perfis
              /\ "perfil" \in Dirty(r) \/ (Exists(i) /\ users[i].perfil = p)

\* Nobody has a profile whose deletion waits for its commit, and nobody is
\* about to get it.
Cleared(r, p) ==
  \A i \in Ids :
    /\ Exists(i) /\ users[i].perfil = p =>
         i \in tx[r].wrote /\ (tx[r].rows[i] # None => tx[r].rows[i].perfil # p)
    /\ \A s \in Requests : Writes(s, i) => tx[s].rows[i].perfil # p

Holding ==
  /\ ProfilesExist
  /\ \A r \in Requests, i \in Ids : Writes(r, i) => Checked(r, i)
  /\ \A r \in Requests : Dropping(r) # None => Cleared(r, Dropping(r))

-----------------------------------------------------------------------------
(* Types. *)

LEMMA TypedFacts ==
  ASSUME Typed, NEW r \in Requests
  PROVE  /\ tx \in [Requests -> TxTypes] /\ tx[r] \in TxTypes /\ Phase(tx[r])
         /\ tx[r].wrote \subseteq Ids /\ tx[r].todo \subseteq Ids
         /\ \A i \in tx[r].wrote : locks[i] = r
         /\ \A i \in Ids : users[i] \in Rows \cup {None} /\ ended[i] \in Nat
         /\ \A i \in Ids : Exists(i) => users[i] \in Rows /\ i < nextId
         /\ nextId \in Nat /\ Ids \subseteq Nat /\ None \notin Ids /\ r # None
         /\ asked \in 0..MaxAsked /\ perfis \subseteq Perfis
<1>1. nextId \in Nat /\ Ids \subseteq Nat /\ None \notin Ids /\ r # None
  BY AccountsAssumption DEF Typed, TypeOK
<1>2. \A i \in Ids : Exists(i) => users[i] \in Rows /\ i < nextId
  BY <1>1 DEF Typed, TypeOK, Ordered, Exists
<1> QED BY <1>1, <1>2 DEF Typed, TypeOK

LEMMA TransactionType ==
  ASSUME NEW a \in Places, NEW o \in OpNames, NEW i \in Ids \cup {None},
         NEW l \in Rows \cup {None}, NEW f \in Rows \cup {None}
  PROVE  /\ Transaction(a, o, i, l, f) \in TxTypes
         /\ Transaction(a, o, i, l, f).at = a
         /\ Transaction(a, o, i, l, f).op = o
         /\ Transaction(a, o, i, l, f).id = i
         /\ Transaction(a, o, i, l, f).loaded = l
         /\ Transaction(a, o, i, l, f).form = f
         /\ ~Transaction(a, o, i, l, f).ends
         /\ Transaction(a, o, i, l, f).wrote = {}
         /\ Transaction(a, o, i, l, f).todo = {}
         /\ Transaction(a, o, i, l, f).era = 0
BY DEF Transaction, TxTypes

\* A step of one request that commits nothing.
OwnStep(r, q) ==
  /\ q \in TxTypes /\ Phase(q) /\ tx' = [tx EXCEPT ![r] = q]
  /\ UNCHANGED <<users, perfis, ended>>
  /\ nextId' \in Nat /\ nextId' >= nextId /\ nextPerfil' \in Nat
  /\ asked' \in 0..MaxAsked /\ tokens' \subseteq Tokens
  /\ locks' \in [Ids -> Requests \cup {None}]
  /\ \A i \in q.wrote : locks'[i] = r
  /\ \A s \in Requests \ {r} : \A i \in tx[s].wrote : locks'[i] = s
  /\ q.id # None => q.id < nextId'
  /\ \A i \in q.wrote \cup q.todo : i < nextId'

LEMMA OwnTypes ==
  ASSUME Typed, NEW r \in Requests, NEW q, OwnStep(r, q)
  PROVE  Typed' /\ tx'[r] = q /\ \A s \in Requests : s # r => tx'[s] = tx[s]
<1>1. /\ tx' \in [Requests -> TxTypes] /\ tx'[r] = q
      /\ \A s \in Requests : s # r => tx'[s] = tx[s]
  BY TypedFacts DEF OwnStep
<1>2. \A s \in Requests : Phase(tx'[s])
  BY <1>1 DEF OwnStep, Typed
<1>3. ASSUME NEW s \in Requests
      PROVE  /\ tx'[s].at \in Places /\ tx'[s].wrote \subseteq Ids /\ tx'[s].todo \subseteq Ids
             /\ tx'[s].rows \in [Ids -> Rows \cup {None}]
             /\ \A i \in tx'[s].wrote : locks'[i] = s
  <2>1. tx'[s] \in TxTypes
    BY <1>1
  <2>2. CASE s = r
    BY <1>1, <2>1, <2>2 DEF OwnStep, TxTypes
  <2>3. CASE s # r
    BY <1>1, <2>1, <2>3 DEF OwnStep, TxTypes
  <2> QED BY <2>2, <2>3
<1>4. TypeOK'
  BY <1>3 DEF OwnStep, Typed, TypeOK
<1>5. Ordered'
  <2>1. nextId \in Nat /\ nextId' \in Nat /\ nextId' >= nextId /\ Ids \subseteq Nat
    BY TypedFacts DEF OwnStep
  <2>2. \A i \in Ids : i >= nextId' => ~Exists(i)' /\ ended'[i] = 0
    BY <2>1 DEF OwnStep, Typed, Ordered, Exists
  <2>3. ASSUME NEW s \in Requests
        PROVE  /\ tx'[s].id # None => tx'[s].id < nextId'
               /\ \A i \in tx'[s].wrote \cup tx'[s].todo : i < nextId'
    <3>1. CASE s = r
      BY <1>1, <3>1 DEF OwnStep
    <3>2. CASE s # r
      <4>1. tx[s].id \in Ids \cup {None} /\ tx[s].wrote \subseteq Ids /\ tx[s].todo \subseteq Ids
        BY TypedFacts DEF TxTypes
      <4>2. /\ tx[s].id # None => tx[s].id < nextId
            /\ \A i \in tx[s].wrote \cup tx[s].todo : i < nextId
        BY DEF Typed, Ordered
      <4>3. \A i \in Ids : i < nextId => i < nextId'
        BY <2>1
      <4>4. tx'[s] = tx[s]
        BY <1>1, <3>2
      <4> HIDE DEF TxTypes
      <4> QED BY <4>1, <4>2, <4>3, <4>4
    <3> QED BY <3>1, <3>2
  <2> QED BY <2>2, <2>3 DEF Ordered
<1> QED BY <1>1, <1>2, <1>4, <1>5 DEF Typed

\* Nothing is left of a request, and its locks are free.
LEMMA FreeType ==
  ASSUME Typed, NEW r \in Requests
  PROVE  /\ Free(r) \in [Ids -> Requests \cup {None}]
         /\ \A s \in Requests \ {r} : \A i \in tx[s].wrote : Free(r)[i] = s
<1>1. locks \in [Ids -> Requests \cup {None}]
  BY DEF Typed, TypeOK
<1>2. ASSUME NEW s \in Requests \ {r}, NEW i \in tx[s].wrote PROVE Free(r)[i] = s
  <2>1. i \in Ids /\ locks[i] = s
    BY <1>2, TypedFacts
  <2> QED BY <2>1 DEF Free
<1> QED BY <1>1, <1>2 DEF Free

LEMMA QuietType ==
  Quiet \in TxTypes /\ Phase(Quiet) /\ Quiet.id = None /\ Quiet.wrote = {}
    /\ Quiet.todo = {} /\ Quiet.at = "idle" /\ Quiet.op \notin AllOps
<1>1. "idle" \in Places /\ None \in OpNames
  BY DEF Places, OpNames, AllOps
<1>2. Quiet \in TxTypes /\ Quiet.at = "idle" /\ Quiet.op = None /\ Quiet.id = None
      /\ Quiet.wrote = {} /\ Quiet.todo = {} /\ ~Quiet.ends
  BY <1>1, TransactionType DEF Quiet
<1> QED BY <1>2, AccountsAssumption DEF Phase, AllOps

LEMMA RollbackOwn ==
  ASSUME Typed, NEW r \in Requests, Rollback(r)
  PROVE  OwnStep(r, Quiet)
BY QuietType, FreeType, TypedFacts DEF Rollback, OwnStep, Typed, TypeOK

\* What an authenticated request asks for.
LEMMA AskedType ==
  ASSUME Typed, NEW actor \in Ids, Exists(actor), NEW a \in Asks(actor)
  PROVE  /\ a \in TxTypes /\ Phase(a) /\ a.wrote = {} /\ a.at \in {"write", "clear"}
         /\ a.id # None => a.id < nextId
         /\ \A i \in a.todo : i < nextId
<1> DEFINE Good(b) == /\ b \in TxTypes /\ Phase(b) /\ b.wrote = {} /\ b.at \in {"write", "clear"}
                      /\ b.id # None => b.id < nextId
                      /\ \A i \in b.todo : i < nextId
<1>0. /\ "write" \in Places /\ "clear" \in Places
      /\ {"create", "edit", "perfil", "senha", "conta", "logout", "delete", "new_perfil", "drop"}
           \subseteq OpNames
      /\ 0 \in 0..MaxVersion
      /\ \A i \in Ids : Exists(i) => users[i] \in Rows /\ i < nextId
      /\ perfis \subseteq Perfis
      /\ Accounts \subseteq Ids /\ \A i \in Accounts : Exists(i)
  <2>1. perfis \subseteq Perfis /\ nextId \in Nat /\ Ids \subseteq Nat
    BY AccountsAssumption DEF Typed, TypeOK
  <2>2. \A i \in Ids : Exists(i) => users[i] \in Rows /\ i < nextId
    BY <2>1 DEF Typed, TypeOK, Ordered, Exists
  <2> QED BY <2>1, <2>2, AccountsAssumption DEF Places, OpNames, AllOps, Accounts
\* A row a form leads to.
<1>1. ASSUME NEW f \in Forms, NEW v \in 0..MaxVersion
      PROVE  Filled(v, f) \in Rows /\ Filled(v, f).version = v
  BY <1>0 DEF Forms, Filled, Rows
\* A request for an account that is there.
<1>2. ASSUME NEW i \in Ids, Exists(i), NEW row \in Rows,
             NEW o \in {"edit", "perfil", "senha", "conta", "logout", "delete"}
      PROVE  /\ Good(Asked(o, i, row))
             /\ o # "delete" =>
                  \A b \in BOOLEAN : Good([Asked(o, i, row) EXCEPT !.ends = b])
  <2> DEFINE t == Asked(o, i, row)
  <2>1. /\ t \in TxTypes /\ t.at = "write" /\ t.op = o /\ t.id = i /\ t.form = row
        /\ ~t.ends /\ t.wrote = {} /\ t.todo = {}
    BY <1>0, <1>2, TransactionType DEF Asked
  <2>2. i < nextId
    BY <1>0, <1>2
  <2> HIDE DEF t
  <2>3. Good(t)
    BY <1>2, <2>1, <2>2 DEF Phase
  <2>4. ASSUME NEW b \in BOOLEAN, o # "delete" PROVE Good([t EXCEPT !.ends = b])
    <3> DEFINE e == [t EXCEPT !.ends = b]
    <3>1. /\ e \in TxTypes /\ e.at = "write" /\ e.op = o /\ e.id = i /\ e.form = row
          /\ e.wrote = {} /\ e.todo = {}
      BY <2>1 DEF TxTypes
    <3> HIDE DEF e
    <3>2. Good(e)
      BY <1>2, <2>2, <2>4, <3>1 DEF Phase
    <3> QED BY <3>2 DEF e
  <2> HIDE DEF Good
  <2> QED BY <2>3, <2>4 DEF t
<1>3. ASSUME a \in Creates PROVE Good(a)
  <2>1. PICK f \in Forms : a = Transaction("write", "create", None, None, Filled(0, f))
    BY <1>3 DEF Creates
  <2>2. Filled(0, f) \in Rows /\ Filled(0, f).version = 0
    BY <1>0, <1>1
  <2>3. /\ a \in TxTypes /\ a.at = "write" /\ a.op = "create" /\ a.id = None
        /\ a.loaded = None /\ a.form = Filled(0, f)
        /\ ~a.ends /\ a.wrote = {} /\ a.todo = {}
    <3>1. /\ "create" \in OpNames /\ "write" \in Places /\ None \in Ids \cup {None}
          /\ None \in Rows \cup {None} /\ Filled(0, f) \in Rows \cup {None}
      BY <1>0, <2>2
    <3> DEFINE t == Transaction("write", "create", None, None, Filled(0, f))
    <3>2. /\ t \in TxTypes /\ t.at = "write" /\ t.op = "create" /\ t.id = None
          /\ t.loaded = None /\ t.form = Filled(0, f)
          /\ ~t.ends /\ t.wrote = {} /\ t.todo = {}
      BY <3>1, TransactionType
    <3> QED BY <2>1, <3>2
  <2> QED BY <2>2, <2>3 DEF Phase
<1>4. ASSUME a \in CreatesPerfil PROVE Good(a)
  <2>1. /\ a \in TxTypes /\ a.at = "write" /\ a.op = "new_perfil" /\ a.id = None
        /\ ~a.ends /\ a.wrote = {} /\ a.todo = {}
    <3>1. /\ "new_perfil" \in OpNames /\ "write" \in Places /\ None \in Ids \cup {None}
          /\ None \in Rows \cup {None}
      BY <1>0
    <3>2. a = Transaction("write", "new_perfil", None, None, None)
      BY <1>4 DEF CreatesPerfil
    <3> DEFINE t == Transaction("write", "new_perfil", None, None, None)
    <3>3. /\ t \in TxTypes /\ t.at = "write" /\ t.op = "new_perfil" /\ t.id = None
          /\ ~t.ends /\ t.wrote = {} /\ t.todo = {}
      BY <3>1, TransactionType
    <3> HIDE DEF t
    <3> QED BY <3>2, <3>3 DEF t
  <2> QED BY <2>1 DEF Phase
<1>5. ASSUME a \in DropsPerfil PROVE Good(a)
  <2> DEFINE t == Transaction("clear", "drop", None, None, None)
             Todo(p) == {i \in Accounts : users[i].perfil = p}
  <2>1. PICK p \in perfis : a = [t EXCEPT !.perfil = p, !.todo = Todo(p)]
    BY <1>5 DEF DropsPerfil
  <2>2. /\ t \in TxTypes /\ t.at = "clear" /\ t.op = "drop" /\ t.id = None
        /\ t.loaded = None /\ ~t.ends /\ t.wrote = {}
    <3>1. /\ "drop" \in OpNames /\ "clear" \in Places /\ None \in Ids \cup {None}
          /\ None \in Rows \cup {None}
      BY <1>0
    <3> QED BY <3>1, TransactionType
  <2>3. Todo(p) \subseteq Ids /\ (\A i \in Todo(p) : i < nextId) /\ p \in Perfis
    BY <1>0
  <2> HIDE DEF t, Todo
  <2>4. PICK u \in TxTypes :
          /\ u = [t EXCEPT !.perfil = p]
          /\ u.at = "clear" /\ u.op = "drop" /\ u.id = None /\ u.perfil = p
          /\ u.loaded = None /\ ~u.ends /\ u.wrote = {}
    <3>1. [t EXCEPT !.perfil = p] \in TxTypes
      BY <2>2, <2>3 DEF TxTypes
    <3> QED BY <2>2, <2>3, <3>1 DEF TxTypes
  <2>5. a = [u EXCEPT !.todo = Todo(p)]
    BY <2>1, <2>4
  <2>6. /\ a \in TxTypes /\ a.at = "clear" /\ a.op = "drop" /\ a.id = None
        /\ a.perfil = p /\ a.loaded = None /\ ~a.ends /\ a.wrote = {} /\ a.todo = Todo(p)
    BY <2>3, <2>4, <2>5 DEF TxTypes
  <2> QED BY <2>3, <2>6 DEF Phase
<1>6. ASSUME a \in Edits PROVE Good(a)
  <2>1. PICK i \in Accounts, f \in Forms, b \in BOOLEAN :
          a = [Asked("edit", i, Filled(users[i].version, f)) EXCEPT !.ends = b]
    BY <1>6 DEF Edits
  <2>2. Filled(users[i].version, f) \in Rows
    <3>1. users[i].version \in 0..MaxVersion
      BY <1>0 DEF Rows
    <3> QED BY <1>1, <3>1
  <2> HIDE DEF Good
  <2> QED BY <1>0, <1>2, <2>1, <2>2
<1>7. ASSUME a \in SetsPerfil PROVE Good(a)
  <2>1. PICK i \in Accounts, p \in perfis \cup {None} :
          a = Asked("perfil", i, [users[i] EXCEPT !.perfil = p])
    BY <1>7 DEF SetsPerfil
  <2>2. [users[i] EXCEPT !.perfil = p] \in Rows
    BY <1>0 DEF Rows
  <2> HIDE DEF Good
  <2> QED BY <1>0, <1>2, <2>1, <2>2
<1>8. ASSUME a \in ChangesPassword \cup ChangesOwn(actor) \cup LogsOut(actor)
                     \cup Deletes(actor)
      PROVE  Good(a)
  <2>0. users[actor] \in Rows /\ \A i \in Accounts : i \in Ids /\ Exists(i) /\ users[i] \in Rows
    BY <1>0
  <2> HIDE DEF Good
  <2>1. CASE a \in ChangesPassword
    <3>1. PICK i \in Accounts : a = [Asked("senha", i, users[i]) EXCEPT !.ends = TRUE]
      BY <2>1 DEF ChangesPassword
    <3> QED BY <1>2, <2>0, <3>1
  <2>2. CASE a \in ChangesOwn(actor)
    <3>1. a = [Asked("conta", actor, users[actor]) EXCEPT !.ends = TRUE]
      BY <2>2 DEF ChangesOwn
    <3> QED BY <1>2, <2>0, <3>1
  <2>3. CASE a \in LogsOut(actor)
    <3>1. a = [Asked("logout", actor, users[actor]) EXCEPT !.ends = TRUE]
      BY <2>3 DEF LogsOut
    <3> QED BY <1>2, <2>0, <3>1
  <2>4. CASE a \in Deletes(actor)
    <3>1. PICK i \in Accounts : a = Asked("delete", i, users[i])
      BY <2>4 DEF Deletes
    <3> QED BY <1>2, <2>0, <3>1
  <2> QED BY <1>8, <2>1, <2>2, <2>3, <2>4
<1> HIDE DEF Good
<1>9. Good(a)
  BY <1>3, <1>4, <1>5, <1>6, <1>7, <1>8 DEF Asks
<1> QED BY <1>9 DEF Good

\* A step that leaves the locks and the ids: what is left to see of it.
LEMMA PlainOwn ==
  ASSUME Typed, NEW r \in Requests, NEW q \in TxTypes, Phase(q),
         tx' = [tx EXCEPT ![r] = q],
         UNCHANGED <<users, perfis, ended, nextId, locks>>,
         nextPerfil' \in Nat, asked' \in 0..MaxAsked, tokens' \subseteq Tokens,
         q.wrote \subseteq tx[r].wrote,
         q.id # None => q.id < nextId, \A i \in q.todo : i < nextId
  PROVE  OwnStep(r, q)
<1>1. /\ nextId \in Nat /\ locks \in [Ids -> Requests \cup {None}]
      /\ \A s \in Requests : \A i \in tx[s].wrote : locks[i] = s
      /\ \A i \in tx[r].wrote : i < nextId
  BY DEF Typed, TypeOK, Ordered
<1> HIDE DEF TxTypes, Phase
<1> QED BY <1>1 DEF OwnStep

LEMMA SendsType ==
  ASSUME Typed, Sends
  PROVE  asked' \in 0..MaxAsked
BY AccountsAssumption DEF Typed, TypeOK, Sends

\* The change of one field or two of a transaction.
LEMMA SetsAt ==
  ASSUME NEW t \in TxTypes, NEW a \in Places
  PROVE  /\ [t EXCEPT !.at = a] \in TxTypes
         /\ [t EXCEPT !.at = a].at = a /\ [t EXCEPT !.at = a].op = t.op
         /\ [t EXCEPT !.at = a].id = t.id /\ [t EXCEPT !.at = a].loaded = t.loaded
         /\ [t EXCEPT !.at = a].form = t.form /\ [t EXCEPT !.at = a].ends = t.ends
         /\ [t EXCEPT !.at = a].perfil = t.perfil /\ [t EXCEPT !.at = a].todo = t.todo
         /\ [t EXCEPT !.at = a].wrote = t.wrote /\ [t EXCEPT !.at = a].rows = t.rows
BY DEF TxTypes

LEMMA LoginOwn ==
  ASSUME Typed, NEW r \in Requests, Login(r)
  PROVE  \E q : /\ OwnStep(r, q) /\ q.at = "token" /\ q.wrote = {}
                /\ Is(r, "idle") /\ tokens' = tokens
                /\ \E i \in Ids : /\ Exists(i) /\ q.loaded = users[i]
                                  /\ q.era = ended[i]
<1>1. PICK i \in Ids :
        /\ Exists(i)
        /\ tx' = [tx EXCEPT ![r] =
             [Transaction("token", "login", i, users[i], None) EXCEPT !.era = ended[i]]]
  BY DEF Login, Named, Start
<1>2. /\ UNCHANGED <<users, perfis, nextId, nextPerfil, locks, tokens, ended>>
      /\ Is(r, "idle") /\ Sends
  BY DEF Login
<1>3. users[i] \in Rows /\ ended[i] \in Nat /\ i < nextId /\ nextPerfil \in Nat
      /\ tokens \subseteq Tokens
  BY <1>1, TypedFacts DEF Typed, TypeOK
<1> DEFINE u == Transaction("token", "login", i, users[i], None)
           q == [u EXCEPT !.era = ended[i]]
<1>4. /\ u \in TxTypes /\ u.at = "token" /\ u.op = "login" /\ u.id = i
      /\ u.loaded = users[i] /\ ~u.ends /\ u.wrote = {} /\ u.todo = {}
  <2>1. "token" \in Places /\ "login" \in OpNames /\ None \in Rows \cup {None}
        /\ users[i] \in Rows \cup {None} /\ i \in Ids \cup {None}
    BY <1>3 DEF Places, OpNames, AllOps
  <2>2. ASSUME NEW l \in Rows \cup {None}
        PROVE  LET t == Transaction("token", "login", i, l, None) IN
               /\ t \in TxTypes /\ t.at = "token" /\ t.op = "login" /\ t.id = i
               /\ t.loaded = l /\ ~t.ends /\ t.wrote = {} /\ t.todo = {}
    BY <2>1, TransactionType
  <2> QED BY <2>1, <2>2
<1>5. tx' = [tx EXCEPT ![r] = q]
  BY <1>1
<1> HIDE DEF u
<1>6. /\ q \in TxTypes /\ q.at = "token" /\ q.op = "login" /\ q.id = i
      /\ q.loaded = users[i] /\ ~q.ends /\ q.wrote = {} /\ q.todo = {} /\ q.era = ended[i]
  BY <1>3, <1>4 DEF TxTypes
<1> HIDE DEF q
<1>7. Phase(q)
  BY <1>3, <1>6 DEF Phase
<1>8. OwnStep(r, q)
  BY <1>2, <1>3, <1>5, <1>6, <1>7, SendsType, PlainOwn
<1> QED BY <1>1, <1>2, <1>6, <1>8

LEMMA IssueOwn ==
  ASSUME Typed, NEW r \in Requests, IssueToken(r)
  PROVE  /\ OwnStep(r, Quiet) /\ Is(r, "token")
         /\ \A t \in tokens' \ tokens : t.version = tx[r].loaded.version /\ t.era = tx[r].era
<1> DEFINE n == [id |-> tx[r].id, name |-> tx[r].loaded.name,
                 version |-> tx[r].loaded.version, era |-> tx[r].era]
<1>1. /\ tokens' = tokens \cup {n} /\ Is(r, "token")
      /\ tx' = [tx EXCEPT ![r] = Quiet]
      /\ UNCHANGED <<users, perfis, nextId, nextPerfil, locks, ended, asked>>
  BY DEF IssueToken
<1>2. n \in Tokens
  <2>1. tx[r].id \in Ids /\ tx[r].loaded \in Rows /\ tx[r].era \in Nat
    BY <1>1, TypedFacts DEF Phase, Is, TxTypes
  <2> QED BY <2>1 DEF Rows, Tokens
<1>3. nextPerfil \in Nat /\ asked \in 0..MaxAsked /\ tokens \subseteq Tokens
  BY DEF Typed, TypeOK
<1>4. OwnStep(r, Quiet)
  BY <1>1, <1>2, <1>3, QuietType, TypedFacts, PlainOwn
<1> QED BY <1>1, <1>4

LEMMA BeginOwn ==
  ASSUME Typed, NEW r \in Requests, Begin(r)
  PROVE  \E q : /\ OwnStep(r, q) /\ q.at \in {"write", "clear"} /\ q.wrote = {}
                /\ Is(r, "idle") /\ tokens' = tokens
<1>1. PICK actor \in Ids : Exists(actor) /\ \E a \in Asks(actor) : Start(r, a)
  BY DEF Begin, Opens
<1>2. PICK a \in Asks(actor) : tx' = [tx EXCEPT ![r] = a]
  BY <1>1 DEF Start
<1>3. /\ UNCHANGED <<users, perfis, nextId, nextPerfil, locks, tokens, ended>>
      /\ Is(r, "idle") /\ Sends
  BY DEF Begin
<1>4. nextPerfil \in Nat /\ tokens \subseteq Tokens
  BY DEF Typed, TypeOK
<1>5. /\ a \in TxTypes /\ Phase(a) /\ a.wrote = {} /\ a.at \in {"write", "clear"}
      /\ a.id # None => a.id < nextId
      /\ \A i \in a.todo : i < nextId
  BY <1>1, AskedType
<1>6. OwnStep(r, a)
  BY <1>2, <1>3, <1>4, <1>5, SendsType, PlainOwn
<1> QED BY <1>3, <1>5, <1>6

\* A write of row i: the transaction then waits for its commit.
LEMMA WroteType ==
  ASSUME Typed, NEW r \in Requests, NEW i \in Ids, NEW row \in Rows \cup {None},
         Wrote(r, i, row)
  PROVE  \E q \in TxTypes :
           /\ tx' = [tx EXCEPT ![r] = q]
           /\ q.at = "commit" /\ q.op = tx[r].op /\ q.id = tx[r].id
           /\ q.loaded = tx[r].loaded /\ q.form = tx[r].form /\ q.ends = tx[r].ends
           /\ q.perfil = tx[r].perfil /\ q.todo = tx[r].todo
           /\ q.wrote = tx[r].wrote \cup {i}
           /\ q.rows = [tx[r].rows EXCEPT ![i] = row]
<1> DEFINE t == tx[r]
           u == [t EXCEPT !.rows = [t.rows EXCEPT ![i] = row]]
           v == [u EXCEPT !.wrote = t.wrote \cup {i}]
           q == [v EXCEPT !.at = "commit"]
<1>1. t \in TxTypes /\ "commit" \in Places
  BY TypedFacts DEF Places
<1> HIDE DEF t
<1>2. /\ u \in TxTypes /\ u.at = t.at /\ u.op = t.op /\ u.id = t.id /\ u.loaded = t.loaded
      /\ u.form = t.form /\ u.ends = t.ends /\ u.perfil = t.perfil /\ u.todo = t.todo
      /\ u.wrote = t.wrote /\ u.rows = [t.rows EXCEPT ![i] = row]
  BY <1>1 DEF TxTypes
<1>3. tx' = [tx EXCEPT ![r] = q]
  BY <1>1, <1>2, TypedFacts DEF Wrote, t, TxTypes
<1> HIDE DEF u
<1>4. /\ v \in TxTypes /\ v.op = t.op /\ v.id = t.id /\ v.loaded = t.loaded
      /\ v.form = t.form /\ v.ends = t.ends /\ v.perfil = t.perfil /\ v.todo = t.todo
      /\ v.wrote = t.wrote \cup {i} /\ v.rows = [t.rows EXCEPT ![i] = row]
  BY <1>1, <1>2 DEF TxTypes
<1> HIDE DEF v
<1>5. /\ q \in TxTypes /\ q.at = "commit"
      /\ q.op = v.op /\ q.id = v.id /\ q.loaded = v.loaded /\ q.form = v.form
      /\ q.ends = v.ends /\ q.perfil = v.perfil /\ q.todo = v.todo
      /\ q.wrote = v.wrote /\ q.rows = v.rows
  BY <1>1, <1>4, SetsAt
<1> HIDE DEF q
<1> QED BY <1>3, <1>4, <1>5 DEF t

\* The lock of the row that is written: it was free, or the row is new.
LEMMA LockType ==
  ASSUME Typed, NEW r \in Requests, NEW i \in Ids, locks' = [locks EXCEPT ![i] = r],
         \A s \in Requests \ {r} : i \notin tx[s].wrote
  PROVE  /\ locks' \in [Ids -> Requests \cup {None}] /\ locks'[i] = r
         /\ \A s \in Requests \ {r} : \A j \in tx[s].wrote : locks'[j] = s
         /\ \A j \in tx[r].wrote : locks'[j] = r
<1>1. locks \in [Ids -> Requests \cup {None}]
      /\ \A s \in Requests : tx[s].wrote \subseteq Ids /\ \A j \in tx[s].wrote : locks[j] = s
  BY DEF Typed, TypeOK
<1> QED BY <1>1

\* A write takes the lock: what OwnStep asks for.
LEMMA WroteOwn ==
  ASSUME Typed, NEW r \in Requests, NEW i \in Ids, NEW row \in Rows \cup {None},
         Wrote(r, i, row), \A s \in Requests \ {r} : i \notin tx[s].wrote,
         i < nextId', nextId' \in Nat, nextId' >= nextId,
         UNCHANGED <<users, perfis, nextPerfil, tokens, ended, asked>>,
         NEW q \in TxTypes, Phase(q), tx' = [tx EXCEPT ![r] = q],
         q.id = tx[r].id, q.todo = tx[r].todo, q.wrote = tx[r].wrote \cup {i}
  PROVE  OwnStep(r, q)
<1>1. /\ locks' \in [Ids -> Requests \cup {None}]
      /\ \A s \in Requests \ {r} : \A j \in tx[s].wrote : locks'[j] = s
      /\ \A j \in q.wrote : locks'[j] = r
  <2>1. locks' = [locks EXCEPT ![i] = r]
    BY DEF Wrote
  <2>2. /\ locks' \in [Ids -> Requests \cup {None}] /\ locks'[i] = r
        /\ \A s \in Requests \ {r} : \A j \in tx[s].wrote : locks'[j] = s
        /\ \A j \in tx[r].wrote : locks'[j] = r
    BY <2>1, LockType
  <2> QED BY <2>2
<1>2. /\ tx[r].wrote \subseteq Ids /\ tx[r].todo \subseteq Ids /\ tx[r].id \in Ids \cup {None}
      /\ tx[r].id # None => tx[r].id < nextId
      /\ \A j \in tx[r].wrote \cup tx[r].todo : j < nextId
  BY TypedFacts DEF Typed, Ordered, TxTypes
<1>3. nextPerfil \in Nat /\ asked \in 0..MaxAsked /\ tokens \subseteq Tokens
      /\ nextId \in Nat /\ Ids \subseteq Nat
  BY TypedFacts DEF Typed, TypeOK
<1>4. \A j \in Ids : j < nextId => j < nextId'
  BY <1>3
<1>5. (q.id # None => q.id < nextId') /\ \A j \in q.wrote \cup q.todo : j < nextId'
  BY <1>2, <1>4
<1> HIDE DEF TxTypes, Phase
<1> QED BY <1>1, <1>3, <1>5 DEF OwnStep

LEMMA InsertPerfilOwn ==
  ASSUME Typed, NEW r \in Requests, InsertPerfil(r)
  PROVE  \E q : OwnStep(r, q) /\ q.at \in {"idle", "commit"} /\ q.op # "drop" /\ q.wrote = {}
<1>1. CASE Rollback(r)
  BY <1>1, RollbackOwn, QuietType DEF AllOps
<1>2. CASE ~Rollback(r)
  <2> DEFINE t == tx[r]
             u == [t EXCEPT !.perfil = nextPerfil]
             q == [u EXCEPT !.at = "commit"]
  <2>1. /\ t \in TxTypes /\ "commit" \in Places /\ nextPerfil \in Perfis
        /\ t.wrote = {} /\ t.op = "new_perfil" /\ ~t.ends
        /\ t.id # None => t.id < nextId
        /\ \A i \in t.todo : i < nextId
    BY TypedFacts DEF Typed, Ordered, InsertPerfil, Phase, Is, Op, Places, TxTypes
  <2>2. tx' = [tx EXCEPT ![r] = q]
    BY <1>2, <2>1, TypedFacts DEF InsertPerfil, TxTypes
  <2> HIDE DEF t
  <2>3. /\ u \in TxTypes /\ u.op = t.op /\ u.id = t.id /\ u.ends = t.ends
        /\ u.perfil = nextPerfil /\ u.todo = t.todo /\ u.wrote = t.wrote
    BY <2>1 DEF TxTypes
  <2> HIDE DEF u
  <2>4. /\ q \in TxTypes /\ q.at = "commit" /\ q.op = t.op /\ q.id = t.id
        /\ q.ends = t.ends /\ q.perfil = nextPerfil /\ q.todo = t.todo /\ q.wrote = t.wrote
    BY <2>1, <2>3, SetsAt
  <2> HIDE DEF q
  <2>5. Phase(q)
    BY <2>1, <2>4 DEF Phase
  <2>6. /\ UNCHANGED <<users, perfis, nextId, locks, tokens, ended, asked>>
        /\ nextPerfil' = nextPerfil + 1
    BY <1>2 DEF InsertPerfil
  <2>7. nextPerfil' \in Nat /\ asked' \in 0..MaxAsked /\ tokens' \subseteq Tokens
    BY <2>6 DEF Typed, TypeOK
  <2>8. OwnStep(r, q)
    BY <2>1, <2>2, <2>4, <2>5, <2>6, <2>7, PlainOwn DEF t
  <2> QED BY <2>1, <2>4, <2>8
<1> QED BY <1>1, <1>2

LEMMA DropOwn ==
  ASSUME Typed, NEW r \in Requests, Drop(r), ~Rollback(r)
  PROVE  \E q : /\ OwnStep(r, q) /\ q.at = "commit" /\ q.op = "drop"
                /\ q.perfil = tx[r].perfil /\ q.id = tx[r].id /\ q.ends = tx[r].ends
                /\ q.wrote = tx[r].wrote /\ q.rows = tx[r].rows
                /\ tokens' = tokens
<1> DEFINE t == tx[r]
           q == [t EXCEPT !.at = "commit"]
<1>1. /\ t \in TxTypes /\ Phase(t) /\ "commit" \in Places
      /\ t.at = "clear" /\ t.op = "drop" /\ t.todo = {} /\ t.id = None
      /\ tx' = [tx EXCEPT ![r] = q]
      /\ UNCHANGED <<users, perfis, nextId, nextPerfil, locks, tokens, ended, asked>>
  BY TypedFacts DEF Drop, Phase, Is, Places
<1>2. nextPerfil' \in Nat /\ asked' \in 0..MaxAsked /\ tokens' \subseteq Tokens
  BY <1>1 DEF Typed, TypeOK
<1> HIDE DEF t
<1>3. /\ q \in TxTypes /\ q.at = "commit" /\ q.op = t.op /\ q.id = t.id /\ q.loaded = t.loaded
      /\ q.ends = t.ends /\ q.perfil = t.perfil /\ q.todo = t.todo /\ q.wrote = t.wrote
      /\ q.rows = t.rows
  BY <1>1, SetsAt
<1> HIDE DEF q
<1>4. Phase(q)
  BY <1>1, <1>3 DEF Phase
<1>5. OwnStep(r, q)
  <2>1. q.wrote \subseteq tx[r].wrote /\ q.id = None /\ q.todo = {}
    BY <1>1, <1>3 DEF t
  <2>2. \A i \in q.todo : i < nextId
    BY <2>1
  <2> HIDE DEF TxTypes, Phase
  <2> QED BY <1>1, <1>2, <1>3, <1>4, <2>1, <2>2, PlainOwn
<1> QED BY <1>1, <1>3, <1>5 DEF t

LEMMA InsertOwn ==
  ASSUME Typed, NEW r \in Requests, Insert(r), ~Rollback(r)
  PROVE  \E q : /\ OwnStep(r, q) /\ q.at = "commit" /\ q.op = "create"
                /\ nextId \in Ids /\ tx[r].form.version = 0 /\ tx[r].form \in Rows
                /\ q.loaded = None /\ q.id = None /\ ~q.ends
                /\ q.wrote = {nextId} /\ q.rows[nextId] = tx[r].form
                /\ ~Waits(r, nextId, tx[r].form) /\ ~Breaks(r, nextId, tx[r].form)
                /\ tx[r].loaded = None /\ tokens' = tokens
<1> DEFINE row == tx[r].form
<1>1. /\ nextId \in Ids /\ Wrote(r, nextId, row) /\ nextId' = nextId + 1
      /\ UNCHANGED <<users, perfis, nextPerfil, tokens, ended, asked>>
      /\ ~Waits(r, nextId, row) /\ ~Breaks(r, nextId, row)
  BY DEF Insert
<1>2. /\ row \in Rows /\ row.version = 0 /\ tx[r].loaded = None /\ tx[r].id = None
      /\ ~tx[r].ends /\ tx[r].wrote = {} /\ tx[r].op = "create"
      /\ tx[r].rows \in [Ids -> Rows \cup {None}]
  BY TypedFacts DEF Insert, Is, Op, Phase, TxTypes
<1>3. nextId' \in Nat /\ nextId' >= nextId /\ nextId < nextId'
      /\ \A s \in Requests \ {r} : nextId \notin tx[s].wrote
  BY <1>1, TypedFacts DEF Typed, Ordered
<1> HIDE DEF row
<1>4. PICK q \in TxTypes :
        /\ tx' = [tx EXCEPT ![r] = q]
        /\ q.at = "commit" /\ q.op = tx[r].op /\ q.id = tx[r].id
        /\ q.loaded = tx[r].loaded /\ q.ends = tx[r].ends
        /\ q.todo = tx[r].todo /\ q.wrote = tx[r].wrote \cup {nextId}
        /\ q.rows = [tx[r].rows EXCEPT ![nextId] = row]
  BY <1>1, <1>2, WroteType
<1>5. Phase(q)
  BY <1>2, <1>4 DEF Phase
<1>6. OwnStep(r, q)
  BY <1>1, <1>2, <1>3, <1>4, <1>5, WroteOwn
<1>7. q.wrote = {nextId} /\ q.rows[nextId] = row
  BY <1>1, <1>2, <1>4
<1> QED BY <1>1, <1>2, <1>4, <1>6, <1>7 DEF row

\* The row an UPDATE writes.
LEMMA UpdatedType ==
  ASSUME NEW r \in Requests, NEW row \in Rows, tx[r].form \in Rows,
         NEW v \in 0..MaxVersion
  PROVE  /\ Updated(r, row, v) \in Rows /\ Updated(r, row, v).version = v
         /\ "perfil" \notin Dirty(r) => Updated(r, row, v).perfil = row.perfil
BY DEF Updated, Rows

LEMMA UpdateOwn ==
  ASSUME Typed, NEW r \in Requests, Update(r), ~Rollback(r)
  PROVE  \E q : /\ OwnStep(r, q) /\ q.at = "commit" /\ q.op # "drop"
                /\ tokens' = tokens
                /\ \/ q.wrote = {}
                   \/ /\ tx[r].id \in Ids /\ q.wrote = {tx[r].id} /\ q.id = tx[r].id
                      /\ q.ends = tx[r].ends
                      /\ q.loaded = tx[r].loaded /\ q.form = tx[r].form
                      /\ Exists(q.id) /\ locks[q.id] = None
                      /\ q.rows[q.id] = Merged(r, users[q.id])
                      /\ q.rows[q.id].version =
                           users[q.id].version + (IF q.ends THEN 1 ELSE 0)
                      /\ ~Waits(r, q.id, q.rows[q.id]) /\ ~Breaks(r, q.id, q.rows[q.id])
                      /\ "perfil" \notin Dirty(r) => q.rows[q.id].perfil = users[q.id].perfil
<1> DEFINE i == tx[r].id
           row == Merged(r, users[i])
<1>1. /\ i \in Ids /\ i < nextId /\ tx[r].form \in Rows /\ tx[r].wrote = {}
      /\ tx[r].op \in {"edit", "perfil", "senha", "conta", "logout"} /\ tx[r].ends \in BOOLEAN
      /\ tx[r].rows \in [Ids -> Rows \cup {None}] /\ tx[r] \in TxTypes /\ "commit" \in Places
      /\ \A j \in tx[r].todo : j < nextId
  <2>1. Is(r, "write") /\ Op(r) \in {"edit", "perfil", "senha", "conta", "logout"}
    BY DEF Update
  <2>2. i \in Ids /\ tx[r].form \in Rows /\ tx[r].wrote = {}
    BY <2>1, TypedFacts DEF Is, Op, Phase
  <2>3. i < nextId /\ \A j \in tx[r].todo : j < nextId
    BY <2>2, TypedFacts DEF Typed, Ordered
  <2> QED BY <2>1, <2>2, <2>3, TypedFacts DEF Op, TxTypes, Places
<1>2. CASE ~(Dirty(r) # {} \/ tx[r].ends)
  <2> DEFINE t == tx[r]
             q == [t EXCEPT !.at = "commit"]
  <2>1. /\ t \in TxTypes /\ tx' = [tx EXCEPT ![r] = q]
        /\ UNCHANGED <<users, perfis, nextId, nextPerfil, locks, tokens, ended, asked>>
        /\ t.wrote = {} /\ ~t.ends /\ t.op \in {"edit", "perfil", "senha", "conta", "logout"}
        /\ t.id < nextId /\ \A j \in t.todo : j < nextId
    BY <1>1, <1>2 DEF Update
  <2> HIDE DEF t
  <2>2. /\ q \in TxTypes /\ q.at = "commit" /\ q.op = t.op /\ q.id = t.id
        /\ q.ends = t.ends /\ q.todo = t.todo /\ q.wrote = t.wrote
    BY <1>1, <2>1, SetsAt
  <2> HIDE DEF q
  <2>3. Phase(q)
    BY <2>1, <2>2 DEF Phase
  <2>4. nextPerfil' \in Nat /\ asked' \in 0..MaxAsked /\ tokens' \subseteq Tokens
    BY <2>1 DEF Typed, TypeOK
  <2>5. OwnStep(r, q)
    BY <2>1, <2>2, <2>3, <2>4, PlainOwn
  <2> QED BY <2>1, <2>2, <2>5
<1>3. CASE Dirty(r) # {} \/ tx[r].ends
  <2>1. /\ locks[i] = None /\ Exists(i) /\ ~Waits(r, i, row) /\ ~Breaks(r, i, row)
        /\ tx[r].ends => users[i].version < MaxVersion
        /\ Wrote(r, i, row)
        /\ UNCHANGED <<users, perfis, nextId, nextPerfil, tokens, ended, asked>>
    BY <1>3 DEF Update
  <2>2. /\ row \in Rows /\ row.version = users[i].version + (IF tx[r].ends THEN 1 ELSE 0)
        /\ "perfil" \notin Dirty(r) => row.perfil = users[i].perfil
    <3> DEFINE v == IF tx[r].ends THEN users[i].version + 1 ELSE users[i].version
    <3>1. users[i] \in Rows /\ users[i].version \in 0..MaxVersion
      BY <1>1, <2>1, TypedFacts DEF Rows
    <3>2. v \in 0..MaxVersion /\ v = users[i].version + (IF tx[r].ends THEN 1 ELSE 0)
      BY <2>1, <3>1, AccountsAssumption
    <3>3. row = Updated(r, users[i], v)
      BY DEF Merged
    <3> HIDE DEF v, row
    <3> QED BY <1>1, <3>1, <3>2, <3>3, UpdatedType
  <2>3. \A s \in Requests \ {r} : i \notin tx[s].wrote
    BY <2>1, TypedFacts DEF Typed, TypeOK
  <2>4. nextId' \in Nat /\ nextId' >= nextId /\ i < nextId'
    BY <1>1, <2>1, TypedFacts
  <2> HIDE DEF row, i
  <2>5. PICK q \in TxTypes :
          /\ tx' = [tx EXCEPT ![r] = q]
          /\ q.at = "commit" /\ q.op = tx[r].op /\ q.id = tx[r].id
          /\ q.loaded = tx[r].loaded /\ q.form = tx[r].form /\ q.ends = tx[r].ends
          /\ q.todo = tx[r].todo /\ q.wrote = tx[r].wrote \cup {i}
          /\ q.rows = [tx[r].rows EXCEPT ![i] = row]
    BY <1>1, <2>1, <2>2, WroteType
  <2>6. Phase(q)
    BY <1>1, <2>5 DEF Phase, i
  <2>7. OwnStep(r, q)
    BY <1>1, <2>1, <2>2, <2>3, <2>4, <2>5, <2>6, WroteOwn DEF i
  <2>8. q.wrote = {i} /\ q.rows[i] = row
    BY <1>1, <2>5
  <2> QED BY <1>1, <2>1, <2>2, <2>5, <2>7, <2>8 DEF row, i
<1> QED BY <1>2, <1>3

LEMMA DeleteOwn ==
  ASSUME Typed, NEW r \in Requests, Delete(r), ~Rollback(r)
  PROVE  \E q : /\ OwnStep(r, q) /\ q.at = "commit" /\ q.op # "drop" /\ tokens' = tokens
                /\ \A i \in q.wrote : q.rows[i] = None
<1> DEFINE i == tx[r].id
<1>1. /\ i \in Ids /\ i < nextId /\ tx[r].wrote = {} /\ tx[r].op = "delete" /\ ~tx[r].ends
      /\ tx[r].rows \in [Ids -> Rows \cup {None}]
  <2>1. i \in Ids /\ tx[r].wrote = {} /\ tx[r].op = "delete" /\ ~tx[r].ends
    BY TypedFacts DEF Delete, Is, Op, Phase
  <2> QED BY <2>1, TypedFacts DEF Typed, Ordered, TxTypes
<1>2. /\ locks[i] = None /\ Wrote(r, i, None)
      /\ UNCHANGED <<users, perfis, nextId, nextPerfil, tokens, ended, asked>>
  BY DEF Delete
<1>3. \A s \in Requests \ {r} : i \notin tx[s].wrote
  BY <1>2, TypedFacts DEF Typed, TypeOK
<1>4. nextId' \in Nat /\ nextId' >= nextId /\ i < nextId' /\ None \in Rows \cup {None}
  BY <1>1, <1>2, TypedFacts
<1> HIDE DEF i
<1>5. PICK q \in TxTypes :
        /\ tx' = [tx EXCEPT ![r] = q]
        /\ q.at = "commit" /\ q.op = tx[r].op /\ q.id = tx[r].id
        /\ q.ends = tx[r].ends
        /\ q.todo = tx[r].todo /\ q.wrote = tx[r].wrote \cup {i}
        /\ q.rows = [tx[r].rows EXCEPT ![i] = None]
  BY <1>1, <1>2, <1>4, WroteType
<1>6. Phase(q)
  BY <1>1, <1>5 DEF Phase
<1>7. OwnStep(r, q)
  BY <1>1, <1>2, <1>3, <1>4, <1>5, <1>6, WroteOwn
<1>8. q.wrote = {i} /\ q.rows[i] = None
  BY <1>1, <1>5
<1> QED BY <1>1, <1>2, <1>5, <1>7, <1>8 DEF i

LEMMA ClearOwn ==
  ASSUME Typed, NEW r \in Requests, Clear(r), ~Rollback(r)
  PROVE  \E q : /\ OwnStep(r, q) /\ q.at = "clear" /\ tokens' = tokens
                /\ q.id = None /\ ~q.ends /\ tx[r].id = None
                /\ \E i \in Ids :
                     /\ Exists(i) /\ q.wrote = tx[r].wrote \cup {i}
                     /\ q.rows = [tx[r].rows EXCEPT ![i] = [users[i] EXCEPT !.perfil = None]]
<1> DEFINE t == tx[r]
<1>1. /\ t \in TxTypes /\ Phase(t) /\ t.at = "clear" /\ t.op = "drop" /\ ~t.ends /\ t.id = None
      /\ t.rows \in [Ids -> Rows \cup {None}] /\ t.wrote \subseteq Ids /\ t.todo \subseteq Ids
      /\ \A j \in t.wrote \cup t.todo : j < nextId
      /\ \A j \in t.wrote : t.rows[j] # None => t.rows[j].perfil = None
  BY TypedFacts DEF Clear, Is, Phase, TxTypes, Typed, Ordered
<1>2. PICK i \in t.todo :
        /\ locks[i] = None /\ Exists(i) /\ locks' = [locks EXCEPT ![i] = r]
        /\ tx' = [tx EXCEPT ![r].rows[i] = [users[i] EXCEPT !.perfil = None],
                            ![r].wrote = @ \cup {i}, ![r].todo = @ \ {i}]
        /\ UNCHANGED <<users, perfis, nextId, nextPerfil, tokens, ended, asked>>
  BY DEF Clear
<1> DEFINE row == [users[i] EXCEPT !.perfil = None]
           u == [t EXCEPT !.rows = [t.rows EXCEPT ![i] = row]]
           v == [u EXCEPT !.wrote = t.wrote \cup {i}]
           q == [v EXCEPT !.todo = t.todo \ {i}]
<1>3. i \in Ids /\ row \in Rows /\ row.perfil = None
  BY <1>1, <1>2, TypedFacts DEF Rows
<1>4. tx' = [tx EXCEPT ![r] = q]
  BY <1>1, <1>2, <1>3, TypedFacts DEF TxTypes
<1> HIDE DEF t, row
<1>5. /\ u \in TxTypes /\ u.at = t.at /\ u.op = t.op /\ u.id = t.id /\ u.loaded = t.loaded
      /\ u.ends = t.ends /\ u.perfil = t.perfil /\ u.todo = t.todo
      /\ u.wrote = t.wrote /\ u.rows = [t.rows EXCEPT ![i] = row]
  BY <1>1, <1>3 DEF TxTypes
<1> HIDE DEF u
<1>6. /\ v \in TxTypes /\ v.at = t.at /\ v.op = t.op /\ v.id = t.id /\ v.loaded = t.loaded
      /\ v.ends = t.ends /\ v.perfil = t.perfil /\ v.todo = t.todo
      /\ v.wrote = t.wrote \cup {i} /\ v.rows = [t.rows EXCEPT ![i] = row]
  BY <1>1, <1>3, <1>5 DEF TxTypes
<1> HIDE DEF v
<1>7. /\ q \in TxTypes /\ q.at = t.at /\ q.op = t.op /\ q.id = t.id /\ q.loaded = t.loaded
      /\ q.ends = t.ends /\ q.perfil = t.perfil /\ q.todo = t.todo \ {i}
      /\ q.wrote = t.wrote \cup {i} /\ q.rows = [t.rows EXCEPT ![i] = row]
  BY <1>1, <1>3, <1>6 DEF TxTypes
<1> HIDE DEF q
<1>8. Phase(q)
  <2>1. \A j \in q.wrote : q.rows[j] # None => q.rows[j].perfil = None
    BY <1>1, <1>3, <1>7
  <2>2. q.loaded = None /\ q.perfil \in Perfis
    BY <1>1, <1>7 DEF Phase
  <2> QED BY <1>1, <1>7, <2>1, <2>2 DEF Phase
<1>9. OwnStep(r, q)
  <2>1. \A s \in Requests \ {r} : i \notin tx[s].wrote
    BY <1>2, <1>3, TypedFacts DEF Typed, TypeOK
  <2>2. /\ locks' \in [Ids -> Requests \cup {None}] /\ locks'[i] = r
        /\ \A s \in Requests \ {r} : \A j \in tx[s].wrote : locks'[j] = s
        /\ \A j \in tx[r].wrote : locks'[j] = r
    BY <1>2, <1>3, <2>1, LockType
  <2>3. nextPerfil \in Nat /\ asked \in 0..MaxAsked /\ tokens \subseteq Tokens /\ nextId \in Nat
    BY DEF Typed, TypeOK
  <2>4. q.id = None /\ \A j \in q.wrote \cup q.todo : j < nextId'
    BY <1>1, <1>2, <1>7
  <2>5. \A j \in q.wrote : locks'[j] = r
    BY <1>7, <2>2 DEF t
  <2>6. /\ UNCHANGED <<users, perfis, ended>>
        /\ nextId' \in Nat /\ nextId' >= nextId /\ nextPerfil' \in Nat
        /\ asked' \in 0..MaxAsked /\ tokens' \subseteq Tokens
    BY <1>2, <2>3
  <2>7. q \in TxTypes
    BY <1>7
  <2> HIDE DEF TxTypes, Phase
  <2> QED BY <1>4, <1>8, <2>2, <2>4, <2>5, <2>6, <2>7 DEF OwnStep
<1>10. /\ q.at = "clear" /\ tokens' = tokens /\ q.id = None /\ ~q.ends /\ tx[r].id = None
       /\ i \in Ids /\ Exists(i) /\ q.wrote = tx[r].wrote \cup {i}
       /\ q.rows = [tx[r].rows EXCEPT ![i] = [users[i] EXCEPT !.perfil = None]]
  BY <1>1, <1>2, <1>3, <1>7 DEF t, row
<1> QED BY <1>9, <1>10

\* The commit: the rows of the request become the accounts.
LEMMA CommitFacts ==
  ASSUME Typed, NEW r \in Requests, Commit(r)
  PROVE  /\ Typed' /\ Is(r, "commit") /\ tokens' = tokens
         /\ tx'[r] = Quiet /\ \A s \in Requests : s # r => tx'[s] = tx[s]
         /\ \A i \in tx[r].wrote : users'[i] = tx[r].rows[i]
         /\ \A i \in Ids \ tx[r].wrote : users'[i] = users[i]
         /\ \A i \in Ids :
              ended'[i] = IF i = tx[r].id /\ tx[r].ends THEN ended[i] + 1 ELSE ended[i]
         /\ \A s \in Requests : s # r => \A i \in tx[s].wrote : i \notin tx[r].wrote
<1>1. /\ Is(r, "commit") /\ locks' = Free(r) /\ tx' = [tx EXCEPT ![r] = Quiet]
      /\ users' = [i \in Ids |-> IF i \in tx[r].wrote THEN tx[r].rows[i] ELSE users[i]]
      /\ ended' = [i \in Ids |-> IF i = tx[r].id /\ tx[r].ends THEN ended[i] + 1 ELSE ended[i]]
      /\ UNCHANGED <<nextId, nextPerfil, tokens, asked>>
  BY DEF Commit
<1>2. /\ tx'[r] = Quiet /\ \A s \in Requests : s # r => tx'[s] = tx[s]
      /\ tx' \in [Requests -> TxTypes]
  BY <1>1, TypedFacts, QuietType
<1>3. /\ tx[r].wrote \subseteq Ids /\ tx[r].rows \in [Ids -> Rows \cup {None}]
      /\ \A s \in Requests : tx[s].wrote \subseteq Ids
      /\ \A s \in Requests : s # r => \A i \in tx[s].wrote : i \notin tx[r].wrote
  BY TypedFacts DEF Typed, TypeOK
<1>4. users' \in [Ids -> Rows \cup {None}] /\ ended' \in [Ids -> Nat]
  <2>1. \A i \in Ids : tx[r].rows[i] \in Rows \cup {None} /\ users[i] \in Rows \cup {None}
                       /\ ended[i] \in Nat
    BY <1>3, TypedFacts
  <2> QED BY <1>1, <2>1
<1>5. perfis' \subseteq Perfis
  <2>1. Op(r) = "new_perfil" => tx[r].perfil \in Perfis
    BY <1>1, TypedFacts DEF Is, Op, Phase
  <2> QED BY <2>1, TypedFacts DEF Commit
<1>6. locks' \in [Ids -> Requests \cup {None}]
      /\ \A s \in Requests : \A i \in tx'[s].wrote : locks'[i] = s
  BY <1>1, <1>2, FreeType, QuietType
<1>7. TypeOK'
  <2>1. ASSUME NEW s \in Requests
        PROVE  /\ tx'[s].at \in Places /\ tx'[s].wrote \subseteq Ids /\ tx'[s].todo \subseteq Ids
               /\ tx'[s].rows \in [Ids -> Rows \cup {None}]
    BY <1>2 DEF TxTypes
  <2>2. /\ tokens' \subseteq Tokens /\ nextId' \in Nat /\ nextPerfil' \in Nat
        /\ asked' \in 0..MaxAsked
    BY <1>1 DEF Typed, TypeOK
  <2> QED BY <1>4, <1>5, <1>6, <2>1, <2>2 DEF TypeOK
<1>8. \A s \in Requests : Phase(tx'[s])
  BY <1>2, QuietType DEF Typed
<1>9. Ordered'
  <2>1. ASSUME NEW i \in Ids, i >= nextId' PROVE ~Exists(i)' /\ ended'[i] = 0
    <3>1. i >= nextId /\ i \in Nat /\ nextId \in Nat /\ tx[r].id \in Ids \cup {None}
      BY <1>1, <2>1, TypedFacts DEF TxTypes
    <3>2. ~Exists(i) /\ ended[i] = 0 /\ i \notin tx[r].wrote /\ i # tx[r].id
      <4>1. /\ i >= nextId => ~Exists(i) /\ ended[i] = 0
            /\ tx[r].id # None => tx[r].id < nextId
            /\ \A j \in tx[r].wrote : j < nextId
        BY DEF Typed, Ordered
      <4>2. i # None
        BY TypedFacts
      <4> QED BY <3>1, <4>1, <4>2
    <3> QED BY <1>1, <3>2 DEF Exists
  <2>2. ASSUME NEW s \in Requests
        PROVE  /\ tx'[s].id # None => tx'[s].id < nextId'
               /\ \A i \in tx'[s].wrote \cup tx'[s].todo : i < nextId'
    <3>1. CASE s = r
      BY <1>2, <3>1, QuietType
    <3>2. CASE s # r
      BY <1>1, <1>2, <3>2 DEF Typed, Ordered
    <3> QED BY <3>1, <3>2
  <2> QED BY <2>1, <2>2 DEF Ordered
<1>10. Typed'
  BY <1>2, <1>7, <1>8, <1>9 DEF Typed
<1> QED BY <1>1, <1>2, <1>3, <1>10

LEMMA InitTyped == Init => Typed
<1> SUFFICES ASSUME Init PROVE Typed
  OBVIOUS
<1> USE DEF Init
<1>1. users \in [Ids -> Rows \cup {None}]
  BY AccountsAssumption DEF Rows
<1>2. tx = [r \in Requests |-> Quiet] /\ \A r \in Requests : tx[r] = Quiet
  OBVIOUS
<1>3. TypeOK
  <2>1. ASSUME NEW s \in Requests
        PROVE  /\ tx[s].at \in Places /\ tx[s].wrote \subseteq Ids /\ tx[s].todo \subseteq Ids
               /\ tx[s].rows \in [Ids -> Rows \cup {None}]
               /\ \A i \in tx[s].wrote : locks[i] = s
    BY <1>2, QuietType DEF TxTypes
  <2>2. /\ perfis \subseteq Perfis /\ nextId \in Nat /\ nextPerfil \in Nat
        /\ asked \in 0..MaxAsked /\ locks \in [Ids -> Requests \cup {None}]
        /\ tokens \subseteq Tokens /\ ended \in [Ids -> Nat]
    BY AccountsAssumption
  <2> HIDE DEF Init
  <2> QED BY <1>1, <2>1, <2>2 DEF TypeOK
<1>4. tx \in [Requests -> TxTypes] /\ \A r \in Requests : Phase(tx[r])
  BY <1>2, QuietType
<1>5. Ordered
  <2>1. \A i \in Ids : i >= nextId => ~Exists(i) /\ ended[i] = 0
    BY AccountsAssumption DEF Exists
  <2> QED BY <1>2, <2>1, QuietType DEF Ordered
<1> QED BY <1>3, <1>4, <1>5 DEF Typed

-----------------------------------------------------------------------------
(* The count of the tokens ended. *)

\* What a request carries agrees with the count.
Tallied(q) ==
  /\ q.at = "token" => q.loaded.version = q.era
  /\ \A i \in q.wrote :
       q.rows[i] # None =>
         q.rows[i].version = IF i = q.id /\ q.ends THEN ended[i] + 1 ELSE ended[i]

LEMMA OwnCounted ==
  ASSUME Typed, Counted, NEW r \in Requests, NEW q, OwnStep(r, q), Tallied(q),
         \A t \in tokens' : t.version = t.era
  PROVE  Counted'
<1>1. /\ tx'[r] = q /\ \A s \in Requests : s # r => tx'[s] = tx[s]
      /\ UNCHANGED <<users, ended>>
  BY OwnTypes DEF OwnStep
<1>2. \A i \in Ids : Exists(i)' => users'[i].version = ended'[i]
  BY <1>1 DEF Counted, Exists
<1>3. ASSUME NEW s \in Requests
      PROVE  /\ Is(s, "token")' => tx'[s].loaded.version = tx'[s].era
             /\ \A i \in Ids :
                  Writes(s, i)' => tx'[s].rows[i].version =
                    IF i = tx'[s].id /\ tx'[s].ends THEN ended'[i] + 1 ELSE ended'[i]
  <2>1. CASE s = r
    BY <1>1, <2>1 DEF Tallied, Is, Writes
  <2>2. CASE s # r
    BY <1>1, <2>2 DEF Counted, Is, Writes
  <2> QED BY <2>1, <2>2
<1> QED BY <1>2, <1>3 DEF Counted

LEMMA CommitCounted ==
  ASSUME Typed, Counted, NEW r \in Requests, Commit(r)
  PROVE  Counted'
<1>1. /\ tokens' = tokens
      /\ tx'[r] = Quiet /\ \A s \in Requests : s # r => tx'[s] = tx[s]
      /\ \A i \in tx[r].wrote : users'[i] = tx[r].rows[i]
      /\ \A i \in Ids \ tx[r].wrote : users'[i] = users[i]
      /\ \A i \in Ids : ended'[i] = IF i = tx[r].id /\ tx[r].ends THEN ended[i] + 1 ELSE ended[i]
      /\ \A s \in Requests : s # r => \A i \in tx[s].wrote : i \notin tx[r].wrote
      /\ tx[r].ends => tx[r].id \in tx[r].wrote
  BY CommitFacts, TypedFacts DEF Is, Phase
<1>2. ASSUME NEW i \in Ids, Exists(i)' PROVE users'[i].version = ended'[i]
  <2>1. CASE i \in tx[r].wrote
    BY <1>1, <1>2, <2>1 DEF Counted, Writes, Exists
  <2>2. CASE i \notin tx[r].wrote
    <3>1. users'[i] = users[i] /\ ended'[i] = ended[i]
      BY <1>1, <2>2
    <3> QED BY <1>2, <3>1 DEF Counted, Exists
  <2> QED BY <2>1, <2>2
<1>3. ASSUME NEW s \in Requests
      PROVE  /\ Is(s, "token")' => tx'[s].loaded.version = tx'[s].era
             /\ \A i \in Ids :
                  Writes(s, i)' => tx'[s].rows[i].version =
                    IF i = tx'[s].id /\ tx'[s].ends THEN ended'[i] + 1 ELSE ended'[i]
  <2>1. CASE s = r
    BY <1>1, <2>1, QuietType DEF Is, Writes
  <2>2. CASE s # r
    <3>1. tx'[s] = tx[s]
      BY <1>1, <2>2
    <3>2. \A i \in tx[s].wrote : i \in Ids => ended'[i] = ended[i]
      BY <1>1, <2>2
    <3> QED BY <3>1, <3>2 DEF Counted, Is, Writes
  <2> QED BY <2>1, <2>2
<1> QED BY <1>1, <1>2, <1>3 DEF Counted

\* What each step but the commit makes of a request.
LEMMA StepCounted ==
  ASSUME Typed, Counted, NEW r \in Requests,
         \/ Login(r) \/ IssueToken(r) \/ Begin(r) \/ Insert(r) \/ Update(r) \/ Delete(r)
         \/ InsertPerfil(r) \/ Clear(r) \/ Drop(r)
  PROVE  Counted'
<1>0. /\ \A t \in tokens : t.version = t.era
      /\ \A i \in Ids : Exists(i) => users[i].version = ended[i]
      /\ \A i \in Ids : Writes(r, i) =>
           tx[r].rows[i].version =
             IF i = tx[r].id /\ tx[r].ends THEN ended[i] + 1 ELSE ended[i]
      /\ Is(r, "token") => tx[r].loaded.version = tx[r].era
      /\ tx[r].wrote \subseteq Ids
  BY TypedFacts DEF Counted
<1>1. CASE Rollback(r)
  <2>1. Tallied(Quiet) /\ tokens' = tokens
    BY <1>1, QuietType DEF Tallied, Rollback
  <2> QED BY <1>0, <1>1, <2>1, RollbackOwn, OwnCounted
<1>2. CASE Login(r)
  <2>1. PICK q : /\ OwnStep(r, q) /\ q.wrote = {} /\ tokens' = tokens
                 /\ \E i \in Ids : Exists(i) /\ q.loaded = users[i] /\ q.era = ended[i]
    BY <1>2, LoginOwn
  <2>2. Tallied(q)
    BY <1>0, <2>1 DEF Tallied
  <2> QED BY <1>0, <2>1, <2>2, OwnCounted
<1>3. CASE IssueToken(r)
  <2>1. /\ OwnStep(r, Quiet) /\ Is(r, "token")
        /\ \A t \in tokens' \ tokens : t.version = tx[r].loaded.version /\ t.era = tx[r].era
    BY <1>3, IssueOwn
  <2>2. \A t \in tokens' : t.version = t.era
    BY <1>0, <2>1
  <2>3. Tallied(Quiet)
    BY QuietType DEF Tallied
  <2> QED BY <2>1, <2>2, <2>3, OwnCounted
<1>4. CASE Begin(r)
  <2>1. PICK q : OwnStep(r, q) /\ q.at \in {"write", "clear"} /\ q.wrote = {} /\ tokens' = tokens
    BY <1>4, BeginOwn
  <2>2. Tallied(q)
    BY <2>1 DEF Tallied
  <2> QED BY <1>0, <2>1, <2>2, OwnCounted
<1>5. CASE Insert(r) /\ ~Rollback(r)
  <2>1. PICK q : /\ OwnStep(r, q) /\ q.at = "commit" /\ nextId \in Ids
                 /\ q.id = None /\ ~q.ends /\ q.wrote = {nextId}
                 /\ q.rows[nextId] = tx[r].form /\ tx[r].form.version = 0
                 /\ tokens' = tokens
    BY <1>5, InsertOwn
  <2>2. ended[nextId] = 0
    <3>1. nextId \in Nat /\ nextId >= nextId
      BY TypedFacts
    <3> QED BY <2>1, <3>1 DEF Typed, Ordered
  <2>3. Tallied(q)
    BY <2>1, <2>2 DEF Tallied
  <2> QED BY <1>0, <2>1, <2>3, OwnCounted
<1>6. CASE Update(r) /\ ~Rollback(r)
  <2>1. PICK q : /\ OwnStep(r, q) /\ q.at = "commit" /\ tokens' = tokens
                 /\ \/ q.wrote = {}
                    \/ /\ q.id \in Ids /\ q.wrote = {q.id} /\ Exists(q.id)
                       /\ q.rows[q.id].version =
                            users[q.id].version + (IF q.ends THEN 1 ELSE 0)
    BY <1>6, UpdateOwn
  <2>2. Tallied(q)
    <3>1. CASE q.wrote = {}
      BY <2>1, <3>1 DEF Tallied
    <3>2. CASE q.wrote # {}
      <4>1. /\ q.id \in Ids /\ q.wrote = {q.id} /\ users[q.id].version = ended[q.id]
            /\ q.rows[q.id].version = ended[q.id] + (IF q.ends THEN 1 ELSE 0)
        BY <1>0, <2>1, <3>2
      <4>2. ended[q.id] \in Nat
        BY <4>1, TypedFacts
      <4>3. q.rows[q.id].version = IF q.ends THEN ended[q.id] + 1 ELSE ended[q.id]
        BY <4>1, <4>2
      <4> QED BY <2>1, <4>1, <4>3 DEF Tallied
    <3> QED BY <3>1, <3>2
  <2> QED BY <1>0, <2>1, <2>2, OwnCounted
<1>7. CASE Delete(r) /\ ~Rollback(r)
  <2>1. PICK q : /\ OwnStep(r, q) /\ q.at = "commit" /\ tokens' = tokens
                 /\ \A i \in q.wrote : q.rows[i] = None
    BY <1>7, DeleteOwn
  <2>2. Tallied(q)
    BY <2>1 DEF Tallied
  <2> QED BY <1>0, <2>1, <2>2, OwnCounted
<1>8. CASE InsertPerfil(r) /\ ~Rollback(r)
  <2>1. PICK q : OwnStep(r, q) /\ q.at \in {"idle", "commit"} /\ q.wrote = {}
    BY <1>8, InsertPerfilOwn
  <2>2. Tallied(q) /\ tokens' = tokens
    BY <1>8, <2>1 DEF Tallied, InsertPerfil
  <2> QED BY <1>0, <2>1, <2>2, OwnCounted
<1>9. CASE Clear(r) /\ ~Rollback(r)
  <2>1. PICK q : /\ OwnStep(r, q) /\ q.at = "clear" /\ tokens' = tokens
                 /\ q.id = None /\ ~q.ends /\ tx[r].id = None
                 /\ \E i \in Ids :
                      /\ Exists(i) /\ q.wrote = tx[r].wrote \cup {i}
                      /\ q.rows = [tx[r].rows EXCEPT ![i] = [users[i] EXCEPT !.perfil = None]]
    BY <1>9, ClearOwn
  <2>2. PICK i \in Ids :
          /\ Exists(i) /\ q.wrote = tx[r].wrote \cup {i}
          /\ q.rows = [tx[r].rows EXCEPT ![i] = [users[i] EXCEPT !.perfil = None]]
    BY <2>1
  <2>3. [users[i] EXCEPT !.perfil = None].version = ended[i]
    BY <1>0, <2>2, TypedFacts DEF Rows
  <2>4. ASSUME NEW j \in q.wrote, q.rows[j] # None PROVE q.rows[j].version = ended[j]
    <3>1. tx[r].rows \in [Ids -> Rows \cup {None}] /\ j \in Ids
      BY <1>0, <2>2, TypedFacts DEF TxTypes
    <3>2. CASE j = i
      BY <2>2, <2>3, <3>1, <3>2
    <3>3. CASE j # i
      <4>1. q.rows[j] = tx[r].rows[j] /\ j \in tx[r].wrote
        BY <2>2, <3>1, <3>3
      <4>2. Writes(r, j) /\ j # tx[r].id
        BY <2>1, <2>4, <3>1, <4>1, TypedFacts DEF Writes
      <4> QED BY <1>0, <3>1, <4>1, <4>2
    <3> QED BY <3>2, <3>3
  <2>5. Tallied(q)
    BY <2>1, <2>4 DEF Tallied
  <2> QED BY <1>0, <2>1, <2>5, OwnCounted
<1>10. CASE Drop(r) /\ ~Rollback(r)
  <2>1. PICK q : /\ OwnStep(r, q) /\ q.at = "commit" /\ tokens' = tokens
                 /\ q.id = tx[r].id /\ q.ends = tx[r].ends
                 /\ q.wrote = tx[r].wrote /\ q.rows = tx[r].rows
    BY <1>10, DropOwn
  <2>2. Tallied(q)
    BY <1>0, <2>1 DEF Tallied, Writes
  <2> QED BY <1>0, <2>1, <2>2, OwnCounted
<1> QED BY <1>1, <1>2, <1>3, <1>4, <1>5, <1>6, <1>7, <1>8, <1>9, <1>10

\* No step of a request but the commit: the types.
LEMMA StepTyped ==
  ASSUME Typed, NEW r \in Requests,
         \/ Login(r) \/ IssueToken(r) \/ Begin(r) \/ Insert(r) \/ Update(r) \/ Delete(r)
         \/ InsertPerfil(r) \/ Clear(r) \/ Drop(r)
  PROVE  \E q : OwnStep(r, q)
<1>1. CASE Rollback(r)
  BY <1>1, RollbackOwn
<1>2. CASE Login(r)
  BY <1>2, LoginOwn
<1>3. CASE IssueToken(r)
  BY <1>3, IssueOwn
<1>4. CASE Begin(r)
  BY <1>4, BeginOwn
<1>5. CASE Insert(r) /\ ~Rollback(r)
  BY <1>5, InsertOwn
<1>6. CASE Update(r) /\ ~Rollback(r)
  BY <1>6, UpdateOwn
<1>7. CASE Delete(r) /\ ~Rollback(r)
  BY <1>7, DeleteOwn
<1>8. CASE InsertPerfil(r)
  BY <1>8, InsertPerfilOwn
<1>9. CASE Clear(r) /\ ~Rollback(r)
  BY <1>9, ClearOwn
<1>10. CASE Drop(r) /\ ~Rollback(r)
  BY <1>10, DropOwn
<1> QED BY <1>1, <1>2, <1>3, <1>4, <1>5, <1>6, <1>7, <1>8, <1>9, <1>10

-----------------------------------------------------------------------------
(* The profiles that are deleted. *)

LEMMA DirtyPerfil ==
  ASSUME NEW r \in Requests
  PROVE  "perfil" \in Dirty(r) <=>
           tx[r].loaded = None \/ tx[r].form.perfil # tx[r].loaded.perfil
BY DEF Dirty, Columns

\* The profiles a request gives are there, and nobody is deleting them.
Fits(r, q) ==
  \A i \in q.wrote :
    q.rows[i] # None /\ q.rows[i].perfil # None =>
      /\ q.rows[i].perfil \in perfis
      /\ \/ q.loaded = None \/ q.form.perfil # q.loaded.perfil
         \/ Exists(i) /\ users[i].perfil = q.rows[i].perfil
      /\ \A s \in Requests \ {r} : Dropping(s) # q.rows[i].perfil

LEMMA OwnHolding ==
  ASSUME Typed, Holding, NEW r \in Requests, NEW q, OwnStep(r, q), Fits(r, q),
         q.op = "drop" /\ q.at = "commit" => Cleared(r, q.perfil)'
  PROVE  Holding'
<1>1. /\ tx'[r] = q /\ \A s \in Requests : s # r => tx'[s] = tx[s]
      /\ UNCHANGED <<users, perfis, ended>>
  BY OwnTypes DEF OwnStep
<1>2. ProfilesExist'
  BY <1>1 DEF Holding, ProfilesExist, Exists
<1>3. ASSUME NEW s \in Requests, NEW i \in Ids, Writes(s, i)' PROVE Checked(s, i)'
  <2>1. CASE s = r
    <3>1. /\ q.rows[i].perfil # None =>
               /\ q.rows[i].perfil \in perfis
               /\ \/ q.loaded = None \/ q.form.perfil # q.loaded.perfil
                  \/ Exists(i) /\ users[i].perfil = q.rows[i].perfil
      BY <1>1, <1>3, <2>1 DEF Fits, Writes
    <3>2. ("perfil" \in Dirty(r))' <=> q.loaded = None \/ q.form.perfil # q.loaded.perfil
      BY <1>1 DEF Dirty, Columns
    <3> QED BY <1>1, <2>1, <3>1, <3>2 DEF Checked, Exists
  <2>2. CASE s # r
    <3>1. tx'[s] = tx[s] /\ Writes(s, i) /\ Dirty(s)' = Dirty(s)
      BY <1>1, <1>3, <2>2 DEF Writes, Dirty
    <3>2. Checked(s, i)
      BY <3>1 DEF Holding
    <3> QED BY <1>1, <3>1, <3>2 DEF Checked, Exists
  <2> QED BY <2>1, <2>2
<1>4. ASSUME NEW s \in Requests, Dropping(s)' # None PROVE Cleared(s, Dropping(s))'
  <2>1. CASE s = r
    <3>1. q.op = "drop" /\ q.at = "commit" /\ Dropping(r)' = q.perfil
      BY <1>1, <1>4, <2>1 DEF Dropping, Op
    <3> QED BY <1>1, <2>1, <3>1 DEF Cleared, Exists, Writes
  <2>2. CASE s # r
    <3>1. Dropping(s)' = Dropping(s) /\ Dropping(s) # None /\ tx'[s] = tx[s]
      BY <1>1, <1>4, <2>2 DEF Dropping, Op
    <3> DEFINE p == Dropping(s)
    <3>2. Cleared(s, p)
      BY <3>1 DEF Holding
    <3>3. \A i \in Ids : Writes(r, i)' => tx'[r].rows[i].perfil # p
      BY <1>1, <2>2, <3>1 DEF Fits, Writes
    <3> HIDE DEF p
    <3>4. ASSUME NEW i \in Ids
          PROVE  /\ Exists(i)' /\ users'[i].perfil = p =>
                      /\ i \in tx'[s].wrote
                      /\ tx'[s].rows[i] # None => tx'[s].rows[i].perfil # p
                 /\ \A s2 \in Requests : Writes(s2, i)' => tx'[s2].rows[i].perfil # p
      <4>1. \A s2 \in Requests : s2 # r => (Writes(s2, i)' => tx'[s2].rows[i].perfil # p)
        BY <1>1, <3>2 DEF Cleared, Writes
      <4>2. Exists(i)' /\ users'[i].perfil = p =>
              i \in tx'[s].wrote /\ (tx'[s].rows[i] # None => tx'[s].rows[i].perfil # p)
        BY <1>1, <3>1, <3>2 DEF Cleared, Exists
      <4> QED BY <3>3, <4>1, <4>2
    <3>5. p = Dropping(s)'
      BY <3>1 DEF p
    <3> QED BY <3>4, <3>5 DEF Cleared, Exists, Writes
  <2> QED BY <2>1, <2>2
<1> QED BY <1>2, <1>3, <1>4 DEF Holding

LEMMA StepHolding ==
  ASSUME Typed, Holding, NEW r \in Requests,
         \/ Login(r) \/ IssueToken(r) \/ Begin(r) \/ Insert(r) \/ Update(r) \/ Delete(r)
         \/ InsertPerfil(r) \/ Clear(r) \/ Drop(r)
  PROVE  Holding'
\* A request that gives nobody a profile and deletes none.
<1>0. ASSUME NEW q, OwnStep(r, q), \A i \in q.wrote : q.rows[i] # None => q.rows[i].perfil = None,
             q.at # "commit" \/ q.op # "drop"
      PROVE  Holding'
  <2>1. Fits(r, q)
    BY <1>0 DEF Fits
  <2> QED BY <1>0, <2>1, OwnHolding
<1>1. CASE Rollback(r)
  BY <1>0, <1>1, RollbackOwn, QuietType
<1>2. CASE Login(r)
  BY <1>0, <1>2, LoginOwn
<1>3. CASE IssueToken(r)
  BY <1>0, <1>3, IssueOwn, QuietType
<1>4. CASE Begin(r)
  BY <1>0, <1>4, BeginOwn
<1>5. CASE Insert(r) /\ ~Rollback(r)
  <2>1. PICK q : /\ OwnStep(r, q) /\ q.op = "create" /\ q.loaded = None
                 /\ q.wrote = {nextId} /\ q.rows[nextId] = tx[r].form
                 /\ ~Waits(r, nextId, tx[r].form) /\ ~Breaks(r, nextId, tx[r].form)
                 /\ tx[r].loaded = None
    BY <1>5, InsertOwn
  <2> DEFINE p == tx[r].form.perfil
  <2>2. "perfil" \in Dirty(r)
    BY <2>1, DirtyPerfil
  <2>3. p \in perfis \cup {None} /\ ~PerfilWaits(r, p)
    BY <2>1, <2>2 DEF Waits, Breaks
  <2>4. Fits(r, q)
    BY <2>1, <2>3 DEF Fits, PerfilWaits
  <2> QED BY <2>1, <2>4, OwnHolding
<1>6. CASE Update(r) /\ ~Rollback(r)
  <2>1. PICK q : /\ OwnStep(r, q) /\ q.op # "drop"
                 /\ \/ q.wrote = {}
                    \/ /\ tx[r].id \in Ids /\ q.wrote = {tx[r].id} /\ q.id = tx[r].id
                       /\ q.loaded = tx[r].loaded /\ q.form = tx[r].form
                       /\ Exists(q.id) /\ locks[q.id] = None
                       /\ ~Waits(r, q.id, q.rows[q.id]) /\ ~Breaks(r, q.id, q.rows[q.id])
                       /\ "perfil" \notin Dirty(r) => q.rows[q.id].perfil = users[q.id].perfil
    BY <1>6, UpdateOwn
  <2>2. CASE q.wrote = {}
    BY <1>0, <2>1, <2>2
  <2>3. CASE q.wrote # {}
    <3> DEFINE i == q.id
               p == q.rows[i].perfil
    <3>1. /\ i \in Ids /\ q.wrote = {i} /\ Exists(i) /\ locks[i] = None
          /\ ~Waits(r, i, q.rows[i]) /\ ~Breaks(r, i, q.rows[i])
          /\ "perfil" \notin Dirty(r) => p = users[i].perfil
          /\ "perfil" \in Dirty(r) <=> q.loaded = None \/ q.form.perfil # q.loaded.perfil
      BY <2>1, <2>3, DirtyPerfil
    <3> HIDE DEF i
    <3>2. ASSUME p # None
          PROVE  /\ p \in perfis
                 /\ \/ q.loaded = None \/ q.form.perfil # q.loaded.perfil
                    \/ Exists(i) /\ users[i].perfil = p
                 /\ \A s \in Requests \ {r} : Dropping(s) # p
      <4>1. CASE "perfil" \in Dirty(r)
        <5>1. p \in perfis \cup {None} /\ ~PerfilWaits(r, p)
          BY <3>1, <4>1 DEF Waits, Breaks
        <5> QED BY <3>1, <3>2, <4>1, <5>1 DEF PerfilWaits
      <4>2. CASE "perfil" \notin Dirty(r)
        <5>1. p = users[i].perfil /\ p \in perfis
          BY <3>1, <3>2, <4>2 DEF Holding, ProfilesExist
        <5>2. ASSUME NEW s \in Requests \ {r}, Dropping(s) = p PROVE FALSE
          <6>1. Cleared(s, p)
            BY <3>2, <5>2 DEF Holding
          <6>2. i \in tx[s].wrote
            BY <3>1, <5>1, <6>1 DEF Cleared
          <6>3. locks[i] = s /\ s # None
            BY <6>2, TypedFacts
          <6> QED BY <3>1, <6>3
        <5> QED BY <3>1, <5>1, <5>2
      <4> QED BY <4>1, <4>2
    <3>3. Fits(r, q)
      BY <3>1, <3>2 DEF Fits
    <3> QED BY <2>1, <3>3, OwnHolding
  <2> QED BY <2>2, <2>3
<1>7. CASE Delete(r) /\ ~Rollback(r)
  BY <1>0, <1>7, DeleteOwn
<1>8. CASE InsertPerfil(r)
  BY <1>0, <1>8, InsertPerfilOwn
<1>9. CASE Clear(r) /\ ~Rollback(r)
  <2>1. PICK q : OwnStep(r, q) /\ q.at = "clear"
    BY <1>9, ClearOwn
  <2>2. \A i \in q.wrote : q.rows[i] # None => q.rows[i].perfil = None
    BY <2>1 DEF OwnStep, Phase
  <2> QED BY <1>0, <2>1, <2>2
<1>10. CASE Drop(r) /\ ~Rollback(r)
  <2> DEFINE p == tx[r].perfil
  <2>1. PICK q : /\ OwnStep(r, q) /\ q.perfil = p /\ q.wrote = tx[r].wrote /\ q.rows = tx[r].rows
    BY <1>10, DropOwn
  <2>2. /\ ~Given(r, p) /\ Holders(r, p) = {} /\ p # None
        /\ \A i \in tx[r].wrote : tx[r].rows[i] # None => tx[r].rows[i].perfil = None
    <3>1. p \in Perfis /\ \A i \in tx[r].wrote : tx[r].rows[i] # None => tx[r].rows[i].perfil = None
      BY <1>10, TypedFacts DEF Drop, Is, Phase
    <3> QED BY <1>10, <3>1, AccountsAssumption DEF Drop
  <2>3. /\ tx'[r] = q /\ \A s \in Requests : s # r => tx'[s] = tx[s]
        /\ UNCHANGED <<users, perfis>>
    BY <2>1, OwnTypes DEF OwnStep
  <2> HIDE DEF p
  <2>4. ASSUME NEW i \in Ids, Exists(i), users[i].perfil = p
        PROVE  i \in tx[r].wrote /\ (tx[r].rows[i] # None => tx[r].rows[i].perfil # p)
    BY <2>2, <2>4 DEF Holders
  <2>5. ASSUME NEW i \in Ids, NEW s \in Requests, Writes(s, i) PROVE tx[s].rows[i].perfil # p
    <3>1. CASE s = r
      BY <2>2, <2>5, <3>1 DEF Writes
    <3>2. CASE s # r
      <4> SUFFICES ASSUME tx[s].rows[i].perfil = p PROVE FALSE
        OBVIOUS
      <4>1. "perfil" \notin Dirty(s)
        BY <2>2, <2>5, <3>2 DEF Given
      <4>2. Exists(i) /\ users[i].perfil = p
        BY <2>2, <2>5, <4>1 DEF Holding, Checked
      <4>3. i \in tx[r].wrote /\ i \in tx[s].wrote
        BY <2>4, <2>5, <4>2 DEF Writes
      <4>4. locks[i] = r /\ locks[i] = s
        BY <4>3, TypedFacts
      <4> QED BY <3>2, <4>4
    <3> QED BY <3>1, <3>2
  <2>6. Cleared(r, q.perfil)'
    <3>1. ASSUME NEW i \in Ids
          PROVE  /\ Exists(i)' /\ users'[i].perfil = p =>
                      i \in tx'[r].wrote /\ (tx'[r].rows[i] # None => tx'[r].rows[i].perfil # p)
                 /\ \A s \in Requests : Writes(s, i)' => tx'[s].rows[i].perfil # p
      <4>1. \A s \in Requests : tx'[s].wrote = tx[s].wrote /\ tx'[s].rows = tx[s].rows
        BY <2>1, <2>3
      <4> QED BY <2>3, <2>4, <2>5, <4>1 DEF Exists, Writes
    <3> QED BY <2>1, <3>1 DEF Cleared, Exists, Writes
  <2>7. Fits(r, q)
    BY <2>1, <2>2 DEF Fits
  <2> QED BY <2>1, <2>3, <2>6, <2>7, OwnHolding
<1> QED BY <1>1, <1>2, <1>3, <1>4, <1>5, <1>6, <1>7, <1>8, <1>9, <1>10

LEMMA CommitHolding ==
  ASSUME Typed, Holding, NEW r \in Requests, Commit(r)
  PROVE  Holding'
<1>1. /\ tx'[r] = Quiet /\ \A s \in Requests : s # r => tx'[s] = tx[s]
      /\ \A i \in tx[r].wrote : users'[i] = tx[r].rows[i]
      /\ \A i \in Ids \ tx[r].wrote : users'[i] = users[i]
      /\ \A s \in Requests : s # r => \A i \in tx[s].wrote : i \notin tx[r].wrote
      /\ Is(r, "commit")
  BY CommitFacts
\* A profile stays unless it is the one this request deletes.
<1>2. \A p \in perfis : p # Dropping(r) => p \in perfis'
  BY <1>1 DEF Commit, Dropping, Is, Op
<1>3. Dropping(r) # None => Cleared(r, Dropping(r))
  BY DEF Holding
<1>4. \A p \in perfis : p # None
  BY TypedFacts, AccountsAssumption
\* What another request has written is not what this one deletes.
<1>5. ASSUME NEW s \in Requests, NEW i \in Ids, Writes(s, i), tx[s].rows[i].perfil # None
      PROVE  tx[s].rows[i].perfil \in perfis'
  <2>1. tx[s].rows[i].perfil \in perfis
    BY <1>5 DEF Holding, Checked
  <2>2. tx[s].rows[i].perfil # Dropping(r)
    BY <1>3, <1>5 DEF Cleared
  <2> QED BY <1>2, <2>1, <2>2
<1>6. ASSUME NEW i \in Ids, Exists(i)' PROVE users'[i].perfil \in perfis' \cup {None}
  <2>1. CASE i \in tx[r].wrote
    <3>1. users'[i] = tx[r].rows[i] /\ Writes(r, i)
      BY <1>1, <1>6, <2>1 DEF Exists, Writes
    <3> QED BY <1>5, <3>1
  <2>2. CASE i \notin tx[r].wrote
    <3>1. users'[i] = users[i] /\ Exists(i)
      BY <1>1, <1>6, <2>2 DEF Exists
    <3>2. users[i].perfil \in perfis \cup {None}
      BY <3>1 DEF Holding, ProfilesExist
    <3>3. users[i].perfil = None \/ users[i].perfil # Dropping(r)
      BY <1>3, <2>2, <3>1 DEF Cleared
    <3> QED BY <1>2, <3>1, <3>2, <3>3
  <2> QED BY <2>1, <2>2
<1>7. ASSUME NEW s \in Requests, NEW i \in Ids, Writes(s, i)'
      PROVE  /\ s # r /\ tx'[s] = tx[s] /\ Writes(s, i) /\ i \notin tx[r].wrote
             /\ users'[i] = users[i] /\ Dirty(s)' = Dirty(s)
  <2>1. s # r
    BY <1>1, <1>7, QuietType DEF Writes
  <2>2. tx'[s] = tx[s]
    BY <1>1, <2>1
  <2>3. Writes(s, i) /\ Dirty(s)' = Dirty(s)
    BY <1>7, <2>2 DEF Writes, Dirty
  <2>4. i \notin tx[r].wrote
    BY <1>1, <2>1, <2>3 DEF Writes
  <2> QED BY <1>1, <2>1, <2>2, <2>3, <2>4
<1>8. ASSUME NEW s \in Requests, NEW i \in Ids, Writes(s, i)' PROVE Checked(s, i)'
  <2>1. Checked(s, i)
    BY <1>7, <1>8 DEF Holding
  <2>2. tx[s].rows[i].perfil # None => tx[s].rows[i].perfil \in perfis'
    BY <1>5, <1>7, <1>8
  <2>3. tx'[s] = tx[s] /\ users'[i] = users[i] /\ Dirty(s)' = Dirty(s)
    BY <1>7, <1>8
  <2> QED BY <2>1, <2>2, <2>3 DEF Checked, Exists
<1>9. ASSUME NEW s \in Requests, Dropping(s)' # None PROVE Cleared(s, Dropping(s))'
  <2>1. s # r
    BY <1>1, <1>9, QuietType DEF Dropping, Op
  <2>2. tx'[s] = tx[s] /\ Dropping(s)' = Dropping(s) /\ Dropping(s) # None
    BY <1>1, <1>9, <2>1 DEF Dropping, Op
  <2> DEFINE p == Dropping(s)
  <2>3. Cleared(s, p) /\ p' = p
    BY <2>2 DEF Holding
  <2> HIDE DEF p
  <2>4. ASSUME NEW i \in Ids, Exists(i)', users'[i].perfil = p
        PROVE  i \in tx[s].wrote /\ (tx[s].rows[i] # None => tx[s].rows[i].perfil # p)
    <3>1. CASE i \in tx[r].wrote
      <4>1. users'[i] = tx[r].rows[i] /\ Writes(r, i)
        BY <1>1, <2>4, <3>1 DEF Exists, Writes
      <4> QED BY <2>3, <2>4, <4>1 DEF Cleared
    <3>2. CASE i \notin tx[r].wrote
      <4>1. users'[i] = users[i] /\ Exists(i)
        BY <1>1, <2>4, <3>2 DEF Exists
      <4> QED BY <2>3, <2>4, <4>1 DEF Cleared
    <3> QED BY <3>1, <3>2
  <2>5. ASSUME NEW i \in Ids, NEW s2 \in Requests, Writes(s2, i)'
        PROVE  tx'[s2].rows[i].perfil # p
    <3>1. Writes(s2, i) /\ tx'[s2] = tx[s2]
      BY <1>7, <2>5
    <3> QED BY <2>3, <3>1 DEF Cleared
  <2>6. Cleared(s, p)'
    BY <2>2, <2>3, <2>4, <2>5 DEF Cleared, Exists, Writes
  <2> QED BY <2>6 DEF p
<1> QED BY <1>6, <1>8, <1>9 DEF Holding, ProfilesExist

-----------------------------------------------------------------------------
(* The theorems. *)

IInv == Typed /\ Counted /\ Holding

LEMMA InitInv == Init => IInv
<1> SUFFICES ASSUME Init PROVE IInv
  OBVIOUS
<1>1. Typed /\ \A r \in Requests : tx[r] = Quiet
  BY InitTyped DEF Init
<1>2. \A i \in Ids : Exists(i) => users[i].version = 0 /\ ended[i] = 0 /\ users[i].perfil = None
  BY DEF Init, Exists
<1>3. /\ \A r \in Requests : ~Is(r, "token") /\ \A i \in Ids : ~Writes(r, i)
      /\ tokens = {}
  BY <1>1, QuietType DEF Writes, Is, Init
<1>4. Counted
  BY <1>2, <1>3 DEF Counted
<1>5. Holding
  <2>1. \A r \in Requests : Dropping(r) = None
    BY <1>1, QuietType DEF Dropping
  <2> QED BY <1>2, <1>3, <2>1 DEF Holding, ProfilesExist
<1> QED BY <1>1, <1>4, <1>5 DEF IInv

LEMMA StutterInv ==
  ASSUME IInv, UNCHANGED vars
  PROVE  IInv'
<1>1. Typed'
  BY DEF IInv, vars, Typed, TypeOK, Ordered, Exists
<1>2. Counted'
  BY DEF IInv, vars, Counted, Exists, Is, Writes
<1>3. Holding'
  <2>1. \A r \in Requests : Dropping(r)' = Dropping(r) /\ Dirty(r)' = Dirty(r)
    BY DEF vars, Dropping, Op, Dirty
  <2> QED BY <2>1 DEF IInv, vars, Holding, ProfilesExist, Exists, Writes, Checked, Cleared
<1> QED BY <1>1, <1>2, <1>3 DEF IInv

LEMMA Invariance == Spec => []IInv
<1>1. ASSUME IInv, Next PROVE IInv'
  <2>1. PICK r \in Requests :
          \/ Login(r) \/ IssueToken(r) \/ Begin(r)
          \/ Insert(r) \/ Update(r) \/ Delete(r) \/ InsertPerfil(r) \/ Clear(r) \/ Drop(r)
          \/ Commit(r)
    BY <1>1 DEF Next
  <2>2. CASE Commit(r)
    BY <1>1, <2>2, CommitFacts, CommitCounted, CommitHolding DEF IInv
  <2>3. CASE ~Commit(r)
    <3>1. Typed'
      BY <1>1, <2>1, <2>3, StepTyped, OwnTypes DEF IInv
    <3> QED BY <1>1, <2>1, <2>3, <3>1, StepCounted, StepHolding DEF IInv
  <2> QED BY <2>2, <2>3
<1>2. IInv /\ [Next]_vars => IInv'
  BY <1>1, StutterInv
<1> QED BY InitInv, <1>2, PTL DEF Spec

\* Every reachable state is well formed, and an uncommitted row is locked by
\* the request that wrote it.
THEOREM AccountTypes == Spec => []TypeOK
<1>1. IInv => TypeOK
  BY DEF IInv, Typed
<1> QED BY Invariance, <1>1, PTL

\* No token of before the last password change or logout of its account opens
\* it: the version the database increments counts them, however many overlap.
THEOREM RevokedForGood == Spec => []RevokedIsRefused
<1>1. IInv => RevokedIsRefused
  BY DEF IInv, Typed, TypeOK, Tokens, Counted, RevokedIsRefused, Opens
<1> QED BY Invariance, <1>1, PTL

\* Whoever gives a profile to an account while it is deleted, one of the two
\* gives way, and no account is left with it.
THEOREM DroppedIsNobodys == Spec => []ProfilesExist
<1>1. IInv => ProfilesExist
  BY DEF IInv, Holding
<1> QED BY Invariance, <1>1, PTL
=============================================================================
