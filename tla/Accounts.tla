------------------------------ MODULE Accounts ------------------------------
(***************************************************************************)
(* User accounts, their access tokens and their profiles: login, logout,   *)
(* the requests that create, edit and delete accounts, those that change a *)
(* password, and the creation and deletion of profiles (usuario, auth,     *)
(* perfil, deps.py, json.py and the pages usuarios, conta, auth,           *)
(* perfis).  Requests run at READ COMMITTED: what one has loaded may be    *)
(* old when it writes, an UPDATE waits for the row's lock, and nothing is  *)
(* seen by the others before the commit.                                   *)
(***************************************************************************)
EXTENDS Integers, FiniteSets

CONSTANTS
  Requests,
  Ids,          \* account ids, given out in order and never again
  Names,        \* user names
  Admin,        \* the name of the first account
  Perfis,       \* profile ids, given out in order and never again
  Ops,          \* the requests to explore
  MaxVersion,   \* bound on a token_version
  MaxTokens,    \* bound on the tokens issued
  MaxAsked,     \* bound on the requests sent
  None

AllOps == {"login", "create", "edit", "perfil", "senha", "conta", "logout", "delete",
           "new_perfil", "drop"}

ASSUME AccountsAssumption ==
  /\ Ops \subseteq AllOps /\ None \notin AllOps
  /\ Ids \subseteq Nat \ {0} /\ 1 \in Ids
  /\ Perfis \subseteq Nat \ {0} /\ 1 \in Perfis
  /\ Admin \in Names
  /\ MaxVersion \in Nat /\ MaxTokens \in Nat /\ MaxAsked \in Nat
  /\ None \notin Nat /\ None \notin Requests /\ None \notin Names

VARIABLES
  users,      \* usuario, the committed rows; None where there is none
  perfis,     \* perfil, the committed ids
  nextId,     \* the id the next account is given
  nextPerfil, \* the id the next profile is given
  locks,      \* who holds the lock of an account's row
  tokens,     \* the tokens given out
  ended,      \* per account, the password changes and logouts committed (history)
  asked,      \* requests sent so far
  tx          \* per request, its transaction

vars == <<users, perfis, nextId, nextPerfil, locks, tokens, ended, asked, tx>>

Columns == {"name", "ativo", "admin", "perfil", "version"}
Rows == [name: Names, ativo: BOOLEAN, admin: BOOLEAN, perfil: Perfis \cup {None},
         version: 0..MaxVersion]
Tokens == [id: Ids, name: Names, version: 0..MaxVersion, era: Nat]

\* A request: where it is; its operation; the account it is about and the row
\* it loaded; the row its form asks for; whether it ends the tokens of the
\* account; the profile it makes or deletes and the accounts left to take it from; what
\* ended said when it read the account (history); the ids it has written and
\* the uncommitted rows.
Transaction(at, op, id, loaded, form) ==
  [at |-> at, op |-> op, id |-> id, loaded |-> loaded, form |-> form, ends |-> FALSE,
   perfil |-> None, todo |-> {}, era |-> 0, wrote |-> {}, rows |-> [i \in Ids |-> None]]
Quiet == Transaction("idle", None, None, None, None)

Exists(i) == users[i] # None
Named(n) == {i \in Ids : Exists(i) /\ users[i].name = n}

(***************************************************************************)
(* get_current_user, get_ui_user: a token names an account by user name    *)
(* and is good while that account is active and at the token's version.    *)
(***************************************************************************)
Opens(t, i) ==
  Exists(i) /\ users[i].name = t.name /\ users[i].ativo /\ users[i].version = t.version

Init ==
  /\ users = [i \in Ids |->
       IF i = 1 THEN [name |-> Admin, ativo |-> TRUE, admin |-> TRUE,
                      perfil |-> None, version |-> 0]
       ELSE None]
  /\ perfis = {1}
  /\ nextId = 2 /\ nextPerfil = 2
  /\ locks = [i \in Ids |-> None]
  /\ tokens = {}
  /\ ended = [i \in Ids |-> 0]
  /\ asked = 0
  /\ tx = [r \in Requests |-> Quiet]

Op(r) == tx[r].op
Is(r, place) == tx[r].at = place
Start(r, fields) == tx' = [tx EXCEPT ![r] = fields]
Sends == asked < MaxAsked /\ asked' = asked + 1
Free(r) == [i \in Ids |-> IF locks[i] = r THEN None ELSE locks[i]]

\* Leaves nothing: a refusal, an IntegrityError, a StaleDataError.
Rollback(r) ==
  /\ tx' = [tx EXCEPT ![r] = Quiet]
  /\ locks' = Free(r)
  /\ UNCHANGED <<users, perfis, nextId, nextPerfil, tokens, ended, asked>>

----------------------------------------------------------------------------
(* Login. *)

\* login, ui_login: the account is read, and the password is the right one.
Login(r) ==
  /\ Is(r, "idle") /\ Sends /\ "login" \in Ops /\ Cardinality(tokens) < MaxTokens
  /\ \E n \in Names : \E i \in Named(n) :
       /\ users[i].ativo
       /\ Start(r, [Transaction("token", "login", i, users[i], None) EXCEPT !.era = ended[i]])
  /\ UNCHANGED <<users, perfis, nextId, nextPerfil, locks, tokens, ended>>

\* create_access_token, with the version that was read.
IssueToken(r) ==
  LET row == tx[r].loaded
      t == [id |-> tx[r].id, name |-> row.name, version |-> row.version,
            era |-> tx[r].era]
  IN /\ Is(r, "token")
     /\ tokens' = tokens \cup {t}
     /\ tx' = [tx EXCEPT ![r] = Quiet]
     /\ UNCHANGED <<users, perfis, nextId, nextPerfil, locks, ended, asked>>

----------------------------------------------------------------------------
(* The requests of an authenticated user: what they read and refuse. *)

Forms == [name: Names, ativo: BOOLEAN, admin: BOOLEAN, perfil: perfis \cup {None}]
NameIsFree(n, i) == Named(n) \subseteq {i}

\* The row a form leads to, as the loaded object holds it before the flush.
Filled(version, form) ==
  [name |-> form.name, ativo |-> form.ativo, admin |-> form.admin,
   perfil |-> form.perfil, version |-> version]

\* The write of a loaded account, and the same for every account there is.
Asked(op, i, form) == Transaction("write", op, i, users[i], form)
Accounts == {i \in Ids : Exists(i)}

\* validate_create.
Creates ==
  {Transaction("write", "create", None, None, Filled(0, f)) :
     f \in {g \in Forms : g.ativo /\ Named(g.name) = {}}}

\* The form of an account, with or without a new password; validate_update.
Edits ==
  {a \in {[Asked("edit", i, Filled(users[i].version, f)) EXCEPT !.ends = b] :
             i \in Accounts, f \in Forms, b \in BOOLEAN} : NameIsFree(a.form.name, a.id)}

SetsPerfil ==
  {Asked("perfil", i, [users[i] EXCEPT !.perfil = p]) :
     i \in Accounts, p \in perfis \cup {None}}

ChangesPassword == {[Asked("senha", i, users[i]) EXCEPT !.ends = TRUE] : i \in Accounts}
ChangesOwn(actor) == {[Asked("conta", actor, users[actor]) EXCEPT !.ends = TRUE]}
LogsOut(actor) == {[Asked("logout", actor, users[actor]) EXCEPT !.ends = TRUE]}

\* Never of oneself.
Deletes(actor) == {Asked("delete", i, users[i]) : i \in Accounts \ {actor}}

CreatesPerfil == {Transaction("write", "new_perfil", None, None, None)}

\* The users that have the profile are loaded.
DropsPerfil ==
  {[Transaction("clear", "drop", None, None, None) EXCEPT
      !.perfil = p, !.todo = {i \in Accounts : users[i].perfil = p}] : p \in perfis}

\* require_admin, require_ui_admin.
Asks(actor) ==
  ChangesOwn(actor) \cup LogsOut(actor)
  \cup IF ~users[actor].admin THEN {}
       ELSE Creates \cup Edits \cup SetsPerfil \cup ChangesPassword
              \cup Deletes(actor) \cup CreatesPerfil \cup DropsPerfil

Begin(r) ==
  /\ Is(r, "idle") /\ Sends
  /\ \E t \in tokens : \E actor \in {i \in Ids : Opens(t, i)} : \E a \in Asks(actor) :
       /\ a.op \in Ops
       /\ Start(r, a)
  /\ UNCHANGED <<users, perfis, nextId, nextPerfil, locks, tokens, ended>>

----------------------------------------------------------------------------
(* The writes. *)

\* Another request has written the name, or the profile, and not committed.
Writes(s, i) == i \in tx[s].wrote /\ tx[s].rows[i] # None
NameWaits(r, i, n) ==
  \E s \in Requests \ {r}, j \in Ids \ {i} :
    \/ Writes(s, j) /\ tx[s].rows[j].name = n
    \/ j \in Named(n) /\ j \in tx[s].wrote
Dropping(s) == IF Op(s) = "drop" /\ tx[s].at = "commit" THEN tx[s].perfil ELSE None
PerfilWaits(r, p) == p # None /\ \E s \in Requests \ {r} : Dropping(s) = p

\* The columns the flush writes: those the form changed in the loaded object.
Dirty(r) ==
  IF tx[r].loaded = None THEN Columns
  ELSE {c \in Columns : tx[r].form[c] # tx[r].loaded[c]}

\* The UPDATE: the dirty columns over the row as it is now, and a version.
Updated(r, row, version) ==
  LET d == Dirty(r)
      f == tx[r].form
  IN [name |-> IF "name" \in d THEN f.name ELSE row.name,
      ativo |-> IF "ativo" \in d THEN f.ativo ELSE row.ativo,
      admin |-> IF "admin" \in d THEN f.admin ELSE row.admin,
      perfil |-> IF "perfil" \in d THEN f.perfil ELSE row.perfil,
      version |-> version]

\* Not the code: the new version is computed from the loaded object.
MergedLoaded(r, row) ==
  Updated(r, row, IF tx[r].ends THEN tx[r].loaded.version + 1 ELSE row.version)

\* token_version = token_version + 1 is computed by the database.
Merged(r, row) == Updated(r, row, IF tx[r].ends THEN row.version + 1 ELSE row.version)

Wrote(r, i, row) ==
  /\ locks' = [locks EXCEPT ![i] = r]
  /\ tx' = [tx EXCEPT ![r].rows[i] = row, ![r].wrote = @ \cup {i}, ![r].at = "commit"]

\* The unique index on username and the foreign key to perfil.
Waits(r, i, row) ==
  ("name" \in Dirty(r) /\ NameWaits(r, i, row.name))
    \/ ("perfil" \in Dirty(r) /\ PerfilWaits(r, row.perfil))
Breaks(r, i, row) ==
  \/ "name" \in Dirty(r) /\ ~NameIsFree(row.name, i)
  \/ "perfil" \in Dirty(r) /\ row.perfil \notin perfis \cup {None}

\* create: the INSERT takes the next id.
Insert(r) ==
  /\ Is(r, "write") /\ Op(r) = "create" /\ nextId \in Ids
  /\ ~Waits(r, nextId, tx[r].form)
  /\ IF Breaks(r, nextId, tx[r].form) THEN Rollback(r)
     ELSE /\ Wrote(r, nextId, tx[r].form)
          /\ nextId' = nextId + 1
          /\ UNCHANGED <<users, perfis, nextPerfil, tokens, ended, asked>>

\* update, set_perfil, change_password, invalidate_tokens.  Nothing is sent
\* when nothing changed; a row that is gone is a StaleDataError.
Update(r) ==
  LET i == tx[r].id IN
  /\ Is(r, "write") /\ Op(r) \in {"edit", "perfil", "senha", "conta", "logout"}
  /\ \/ /\ Dirty(r) = {} /\ ~tx[r].ends
        /\ tx' = [tx EXCEPT ![r].at = "commit"]
        /\ UNCHANGED <<users, perfis, nextId, nextPerfil, locks, tokens, ended, asked>>
     \/ /\ Dirty(r) # {} \/ tx[r].ends
        /\ locks[i] = None
        /\ IF ~Exists(i) THEN Rollback(r)
           ELSE /\ ~Waits(r, i, Merged(r, users[i]))
                /\ tx[r].ends => users[i].version < MaxVersion
                /\ IF Breaks(r, i, Merged(r, users[i])) THEN Rollback(r)
                   ELSE /\ Wrote(r, i, Merged(r, users[i]))
                        /\ UNCHANGED <<users, perfis, nextId, nextPerfil, tokens, ended, asked>>

\* delete: a row that is gone is only a warning; a sale or a closing that
\* names the account refuses.
Delete(r) ==
  LET i == tx[r].id IN
  /\ Is(r, "write") /\ Op(r) = "delete" /\ locks[i] = None
  /\ \/ Wrote(r, i, None) /\ UNCHANGED <<users, perfis, nextId, nextPerfil, tokens, ended, asked>>
     \/ Rollback(r)

\* perfil.create: the INSERT takes the next id, or its name is another's (409).
InsertPerfil(r) ==
  /\ Is(r, "write") /\ Op(r) = "new_perfil" /\ nextPerfil \in Perfis
  /\ \/ Rollback(r)
     \/ /\ tx' = [tx EXCEPT ![r].perfil = nextPerfil, ![r].at = "commit"]
        /\ nextPerfil' = nextPerfil + 1
        /\ UNCHANGED <<users, perfis, nextId, locks, tokens, ended, asked>>

\* Not the code: the rows are written without their locks.
ClearUnlocked(r) ==
  /\ Is(r, "clear") /\ tx[r].todo # {}
  /\ \E i \in {x \in tx[r].todo : \A y \in tx[r].todo : x <= y} :
     /\ Exists(i)
     /\ locks' = [locks EXCEPT ![i] = r]
     /\ tx' = [tx EXCEPT ![r].rows[i] = [users[i] EXCEPT !.perfil = None],
                         ![r].wrote = @ \cup {i}, ![r].todo = @ \ {i}]
     /\ UNCHANGED <<users, perfis, nextId, nextPerfil, tokens, ended, asked>>

\* perfil.delete: the profile is taken from the loaded users one by one.
Clear(r) ==
  /\ Is(r, "clear") /\ tx[r].todo # {}
  /\ \E i \in {x \in tx[r].todo : \A y \in tx[r].todo : x <= y} :
     /\ locks[i] = None
     /\ IF ~Exists(i) THEN Rollback(r)
        ELSE /\ locks' = [locks EXCEPT ![i] = r]
             /\ tx' = [tx EXCEPT ![r].rows[i] = [users[i] EXCEPT !.perfil = None],
                                 ![r].wrote = @ \cup {i},
                                 ![r].todo = @ \ {i}]
             /\ UNCHANGED <<users, perfis, nextId, nextPerfil, tokens, ended, asked>>

\* Not the code: without the foreign key, only the users loaded before count.
HoldersLoaded(r, p) == {i \in tx[r].todo : Exists(i) /\ users[i].perfil = p}

\* Who still has profile p: the committed rows this request has not rewritten.
Holders(r, p) == {i \in Ids \ tx[r].wrote : Exists(i) /\ users[i].perfil = p}

\* Another request has just given it to an account.
Given(r, p) ==
  \E s \in Requests \ {r}, i \in Ids :
    Writes(s, i) /\ tx[s].rows[i].perfil = p /\ "perfil" \in Dirty(s)

\* Then the profile itself: the DELETE waits for the others, and is refused
\* (409) when a user has it.
Drop(r) ==
  LET p == tx[r].perfil IN
  /\ Is(r, "clear") /\ tx[r].todo = {}
  /\ ~Given(r, p) /\ ~PerfilWaits(r, p)
  /\ IF Holders(r, p) # {} THEN Rollback(r)
     ELSE /\ tx' = [tx EXCEPT ![r].at = "commit"]
          /\ UNCHANGED <<users, perfis, nextId, nextPerfil, locks, tokens, ended, asked>>

\* finish_request_session.
Commit(r) ==
  /\ Is(r, "commit")
  /\ users' = [i \in Ids |-> IF i \in tx[r].wrote THEN tx[r].rows[i] ELSE users[i]]
  /\ perfis' = CASE Op(r) = "drop" -> perfis \ {tx[r].perfil}
                 [] Op(r) = "new_perfil" -> perfis \cup {tx[r].perfil}
                 [] OTHER -> perfis
  /\ ended' = [i \in Ids |-> IF i = tx[r].id /\ tx[r].ends THEN ended[i] + 1 ELSE ended[i]]
  /\ locks' = Free(r)
  /\ tx' = [tx EXCEPT ![r] = Quiet]
  /\ UNCHANGED <<nextId, nextPerfil, tokens, asked>>

Next ==
  \E r \in Requests :
    \/ Login(r) \/ IssueToken(r) \/ Begin(r)
    \/ Insert(r) \/ Update(r) \/ Delete(r) \/ InsertPerfil(r) \/ Clear(r) \/ Drop(r) \/ Commit(r)

Spec == Init /\ [][Next]_vars

----------------------------------------------------------------------------
Places == {"idle", "token", "write", "clear", "commit"}

TypeOK ==
  /\ users \in [Ids -> Rows \cup {None}]
  /\ perfis \subseteq Perfis
  /\ nextId \in Nat /\ nextPerfil \in Nat /\ asked \in 0..MaxAsked
  /\ locks \in [Ids -> Requests \cup {None}]
  /\ tokens \subseteq Tokens
  /\ ended \in [Ids -> Nat]
  /\ \A r \in Requests :
       /\ tx[r].at \in Places
       /\ tx[r].wrote \subseteq Ids /\ tx[r].todo \subseteq Ids
       /\ tx[r].rows \in [Ids -> Rows \cup {None}]
       /\ \A i \in tx[r].wrote : locks[i] = r

\* A profile that was deleted is no account's profile, whoever was giving it to
\* an account meanwhile (perfil/core.py:148-151).
ProfilesExist == \A i \in Ids : Exists(i) => users[i].perfil \in perfis \cup {None}

\* A password change or a logout ends every token the account had before it,
\* also when several of them, logins and edits of the account overlap: of its
\* own tokens an account accepts those from after the last of them only
\* (usuario/core.py:217, :233).  Of a token whose name another account has taken
\* over nothing is said.
RevokedIsRefused ==
  \A t \in tokens : Exists(t.id) /\ Opens(t, t.id) => t.era = ended[t.id]
=============================================================================
