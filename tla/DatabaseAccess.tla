-------------------------- MODULE DatabaseAccess --------------------------
(***************************************************************************)
(* The way of a request to the database and back: the rate limiter with    *)
(* its own commits, the restore guard, the session and its database (the   *)
(* primary or, while it is unreachable, the fallback), the contract job    *)
(* that a sale leaves to run, and the two requests that work on the whole  *)
(* database, the export and the restore (api/setup.py, database/core.py,   *)
(* connection.py, rate_limit.py, exportacao/core.py, configuracoes.py,     *)
(* vendas.py).                                                             *)
(***************************************************************************)
EXTENDS Integers

CONSTANTS
  Requests,
  Workers,     \* the processes
  Databases,   \* {"primary", "fallback"}
  None,
  Home,        \* Home[r]: the worker that runs request r
  Kinds,       \* the kinds of request to explore
  MaxWrites,   \* bound on the committed writes of a database
  MaxBegun,    \* bound on the requests sent
  MaxOutages   \* bound on the changes of reachability

ASSUME AccessAssumption ==
  /\ Databases = {"primary", "fallback"}
  /\ Home \in [Requests -> Workers]
  /\ Kinds \subseteq {"read", "write", "export", "restore", "health", "job"}
  /\ MaxWrites \in Nat
  /\ MaxBegun \in Nat
  /\ MaxOutages \in Nat
  /\ None \notin Requests

VARIABLES
  up,        \* per database, whether it can be reached
  begun,     \* requests sent so far
  outages,   \* changes of up so far
  target,    \* per worker, active_database_target
  store,     \* per worker, the database its rate limiter is bound to, or None
  shared,    \* requests that hold the lock file shared (traffic)
  owner,     \* the request that holds it exclusively (restore), or None
  data,      \* per database, the writes committed since its last restore
  counts,    \* per database, the changes of rate_limit_state since then
  backup,    \* what the last pre_restore backup holds, or None
  reported,  \* per worker, what /health last answered while up stays as it is
  jobs,      \* databases a contract job in the executor is to write to
  since,     \* who committed to the primary outside of the lock since the last
             \* backup (history): the limiter, a contract job
  req        \* per request, where it is, its kind and its session's database

vars ==
  <<up, outages, begun, target, store, shared, owner, data, counts, backup,
    reported, jobs, since, req>>
network  == <<up, outages>>
contents == <<data, counts, backup, since>>

Places == {"idle", "limit", "guard", "bind", "probe", "commit", "dump",
           "auth", "upload", "lock", "validate", "save", "replace", "unlock",
           "answer", "page", "garbage"}
Quiet == [at |-> "idle", kind |-> None, db |-> None]

Init ==
  /\ up = [d \in Databases |-> TRUE]
  /\ outages = 0 /\ begun = 0
  /\ target = [w \in Workers |-> "primary"]
  /\ store = [w \in Workers |-> None]
  /\ shared = {} /\ owner = None
  /\ data = [d \in Databases |-> 0]
  /\ counts = [d \in Databases |-> 0]
  /\ backup = None
  /\ reported = [w \in Workers |-> None]
  /\ jobs = {} /\ since = {}
  /\ req = [r \in Requests |-> Quiet]

Is(r, place) == req[r].at = place
To(r, place) == req' = [req EXCEPT ![r].at = place]
\* The answer is sent, and the traffic lock given back.
End(r) ==
  /\ req' = [req EXCEPT ![r] = Quiet]
  /\ shared' = shared \ {r}
  /\ UNCHANGED owner

(***************************************************************************)
(* get_engine, under _engine_state_lock: the primary when it answers,      *)
(* otherwise the fallback, otherwise an error that leaves the target.      *)
(***************************************************************************)
Reachable == {d \in Databases : up[d]}
Chosen == IF up["primary"] THEN "primary" ELSE "fallback"
GetEngine(w, d) ==
  /\ d \in Reachable /\ d = Chosen
  /\ target' = [target EXCEPT ![w] = d]

----------------------------------------------------------------------------
(* The limiter, outside of the guard and of the session. *)

\* _get_rate_limit_store: the first request of a process builds the store,
\* which keeps the engine of that moment.  /health is exempt from the limit.
Begin(r) ==
  LET w == Home[r]
      Enters(k, place) ==
        req' = [req EXCEPT ![r] = [at |-> place, kind |-> k, db |-> None]]
  IN
  /\ Is(r, "idle") /\ begun < MaxBegun
  /\ begun' = begun + 1
  /\ \/ /\ "health" \in Kinds
        /\ Enters("health", "guard")
        /\ UNCHANGED <<store, target>>
     \/ \E k \in Kinds \ {"health", "job"} :
          /\ \/ store[w] # None /\ UNCHANGED <<store, target>>
             \/ /\ store[w] = None
                /\ \E d \in Databases :
                     GetEngine(w, d) /\ store' = [store EXCEPT ![w] = d]
          /\ Enters(k, "limit")
     \/ /\ store[w] = None /\ Reachable = {}   \* 500 at once
        /\ UNCHANGED <<store, target, req>>
  /\ UNCHANGED <<network, shared, owner, contents, reported, jobs>>

\* DatabaseRateLimiterStore.allow (the module RateLimiter), in a transaction of
\* its own on the database the store is bound to, before the guard and so
\* beside a restore: a hit or a clean-up is committed there, unless the call is
\* refused, or the database is gone.  Then a 429, a 500, or on to the restore
\* guard, which the restore route itself skips.
LimitFails(r) == Is(r, "limit") /\ ~up[store[Home[r]]]
Tallies(d) ==
  /\ counts' = [counts EXCEPT ![d] = @ + 1]
  /\ since' = IF d = "primary" THEN since \cup {"limiter"} ELSE since
Limited(r) ==
  /\ Is(r, "limit")
  /\ \/ End(r) /\ UNCHANGED <<counts, since>>
     \/ ~LimitFails(r) /\ Tallies(store[Home[r]]) /\ End(r)
     \/ /\ ~LimitFails(r) /\ Tallies(store[Home[r]])
        /\ To(r, IF req[r].kind = "restore" THEN "bind" ELSE "guard")
        /\ UNCHANGED <<shared, owner>>
  /\ UNCHANGED <<network, begun, target, store, data, backup, reported, jobs>>

----------------------------------------------------------------------------
(* The guard, the session, the handler and the commit. *)

\* Not the code: the guard does not take the lock.
GuardLooks(r) ==
  /\ Is(r, "guard")
  /\ IF owner = None
     THEN To(r, IF req[r].kind = "health" THEN "probe" ELSE "bind")
          /\ UNCHANGED <<shared, owner>>
     ELSE End(r)
  /\ UNCHANGED <<network, begun, target, store, contents, reported, jobs>>

\* database_traffic_lock: shared unless a restore owns the file; else 503.
Guard(r) ==
  /\ Is(r, "guard")
  /\ \/ /\ owner = None
        /\ shared' = shared \cup {r}
        /\ To(r, IF req[r].kind = "health" THEN "probe" ELSE "bind")
        /\ UNCHANGED owner
     \/ owner # None /\ End(r)
  /\ UNCHANGED <<network, begun, target, store, contents, reported, jobs>>

\* bind_request_session: the session stays with the engine it is given.  An
\* export reads the user and gives the connection back
\* (detach_request_session) before pg_dump runs.
AfterBind(k) == CASE k = "export" -> "dump" [] k = "restore" -> "auth" [] OTHER -> "commit"
Bind(r) ==
  /\ Is(r, "bind")
  /\ \/ /\ \E d \in Databases :
             /\ GetEngine(Home[r], d)
             /\ req' = [req EXCEPT ![r].at = AfterBind(req[r].kind), ![r].db = d]
        /\ UNCHANGED <<shared, owner>>
     \/ Reachable = {} /\ End(r) /\ UNCHANGED target
  /\ UNCHANGED <<network, begun, store, contents, reported, jobs>>

\* Not the code: the status is given the database's word.
ProbeMixed(r) ==
  LET w == Home[r] IN
  /\ Is(r, "probe")
  /\ \/ /\ \E d \in Databases : GetEngine(w, d)
        /\ reported' = [reported EXCEPT ![w] = "ok"]
     \/ /\ Reachable = {}
        /\ reported' = [reported EXCEPT ![w] = "indisponivel"]
        /\ UNCHANGED target
  /\ End(r)
  /\ UNCHANGED <<network, begun, store, contents, jobs>>

\* GET /health: it asks for an engine and connects, outside of the session.
Probe(r) ==
  LET w == Home[r] IN
  /\ Is(r, "probe")
  /\ \/ /\ \E d \in Databases : GetEngine(w, d)
        /\ reported' = [reported EXCEPT ![w] = "ok"]
     \/ /\ Reachable = {}
        /\ reported' = [reported EXCEPT ![w] = "degradado"]
        /\ UNCHANGED target
  /\ End(r)
  /\ UNCHANGED <<network, begun, store, contents, jobs>>

\* The executor runs a contract job: a session of its own on the engine of the
\* sale, without the guard.
BeginJob(r) ==
  /\ Is(r, "idle") /\ "job" \in Kinds
  /\ \E d \in jobs :
       /\ jobs' = jobs \ {d}
       /\ req' = [req EXCEPT ![r] = [at |-> "commit", kind |-> "job", db |-> d]]
  /\ UNCHANGED <<network, begun, target, store, shared, owner, contents, reported>>

\* The handler and finish_request_session: a write commits, and may leave a
\* contract job; a read rolls back, and a database that is gone is a 500.
Commit(r) ==
  LET d == req[r].db
      k == req[r].kind
  IN
  /\ Is(r, "commit")
  /\ \/ /\ k \in {"write", "job"} /\ up[d] /\ data[d] < MaxWrites
        /\ data' = [data EXCEPT ![d] = @ + 1]
        /\ \/ UNCHANGED jobs
           \/ k = "write" /\ jobs' = jobs \cup {d}
        /\ since' = IF k = "job" /\ d = "primary" THEN since \cup {"job"} ELSE since
     \/ /\ k \in {"write", "job"} => ~up[d]
        /\ UNCHANGED <<data, jobs, since>>
  /\ End(r)
  /\ UNCHANGED <<network, begun, target, store, counts, backup, reported>>

\* pg_dump of DATABASE_URL, the primary, to a temporary file; when it fails the
\* answer is a page.
Dump(r) ==
  /\ Is(r, "dump")
  /\ \/ End(r)
     \/ To(r, "page") /\ UNCHANGED <<shared, owner>>
  /\ UNCHANGED <<network, begun, target, store, contents, reported, jobs>>

\* _pagina_empresa after a detach, as the export has it, and the test of a portal
\* credential: the session is used again, which begins a transaction, and
\* finish_request_session passes over a detached session.
Page(r) ==
  /\ Is(r, "page")
  /\ shared' = shared \ {r}
  /\ IF up[req[r].db] THEN To(r, "garbage") ELSE req' = [req EXCEPT ![r] = Quiet]
  /\ UNCHANGED <<network, begun, target, store, owner, contents, reported, jobs>>

\* The transaction ends when the session is collected.
Collect(r) ==
  /\ Is(r, "garbage")
  /\ req' = [req EXCEPT ![r] = Quiet]
  /\ UNCHANGED <<network, begun, target, store, shared, owner, contents, reported, jobs>>

----------------------------------------------------------------------------
(* The restore: ui_configuracoes_importar, restore_database_from_file *)

\* The route has no guard: its session is open while the user is read, and in a
\* transaction until the file is; a request that is refused, or fails, ends.
Authenticate(r) ==
  /\ Is(r, "auth")
  /\ \/ up[req[r].db] /\ To(r, "upload") /\ UNCHANGED <<shared, owner>>
     \/ End(r)
  /\ UNCHANGED <<network, begun, target, store, contents, reported, jobs>>

\* detach_request_session
Detach(r) ==
  /\ Is(r, "upload")
  /\ \/ To(r, "lock") /\ UNCHANGED <<shared, owner>>
     \/ End(r)
  /\ UNCHANGED <<network, begun, target, store, contents, reported, jobs>>

\* database_restore_lock: alone, or 409.
RestoreLock(r) ==
  /\ Is(r, "lock")
  /\ \/ /\ owner = None /\ shared = {}
        /\ owner' = r
        /\ To(r, "validate")
        /\ UNCHANGED shared
     \/ (owner # None \/ shared # {}) /\ End(r)
  /\ UNCHANGED <<network, begun, target, store, contents, reported, jobs>>

\* _validar_dump: pg_restore --list refuses the file, or it may go on.
Validate(r) ==
  /\ Is(r, "validate")
  /\ To(r, "save") \/ To(r, "unlock")
  /\ UNCHANGED <<network, begun, target, store, shared, owner, contents, reported, jobs>>

\* _salvar_backup_pre_restore: pg_dump of the primary; it may fail or time out.
SaveBackup(r) ==
  /\ Is(r, "save")
  /\ \/ /\ up["primary"]
        /\ backup' = [data |-> data["primary"], counts |-> counts["primary"]]
        /\ since' = {}
        /\ To(r, "replace")
     \/ To(r, "unlock") /\ UNCHANGED <<backup, since>>
  /\ UNCHANGED <<network, begun, target, store, shared, owner, data, counts,
                 reported, jobs>>

\* Requests in a transaction that reads or writes tables of the primary.
InTransaction ==
  {r \in Requests : req[r].at \in {"commit", "upload", "page", "garbage"}
                      /\ req[r].db = "primary"}

\* pg_restore --clean --single-transaction: all of it or nothing.  It drops the
\* tables, the limiter's with the rest, so it waits for whoever uses one, until
\* its timeout.
Replace(r) ==
  /\ Is(r, "replace")
  /\ To(r, "unlock")
  /\ \/ /\ up["primary"] /\ InTransaction = {}
        /\ data' = [data EXCEPT !["primary"] = 0]
        /\ counts' = [counts EXCEPT !["primary"] = 0]
     \/ UNCHANGED <<data, counts>>
  /\ UNCHANGED <<network, begun, target, store, shared, owner, backup, since,
                 reported, jobs>>

\* The with block is left, with or without an error.
RestoreUnlock(r) ==
  /\ Is(r, "unlock")
  /\ owner' = None
  /\ To(r, "answer")
  /\ UNCHANGED <<network, begun, target, store, shared, contents, reported, jobs>>

\* The page is read under the shared lock; or the answer is 503, for another
\* restore has the lock, or 500, for an error that is none of the expected.
Answer(r) ==
  /\ Is(r, "answer")
  /\ \/ /\ owner = None
        /\ shared' = shared \cup {r}
        /\ To(r, "page")
        /\ UNCHANGED owner
     \/ End(r)
  /\ UNCHANGED <<network, begun, target, store, contents, reported, jobs>>

----------------------------------------------------------------------------
\* A database is lost or comes back.
Outage(d) ==
  /\ outages < MaxOutages
  /\ outages' = outages + 1
  /\ up' = [up EXCEPT ![d] = ~@]
  /\ reported' = [w \in Workers |-> None]
  /\ UNCHANGED <<begun, target, store, shared, owner, contents, jobs, req>>

RestoreStep(r) ==
  \/ Authenticate(r) \/ Detach(r)
  \/ RestoreLock(r) \/ Validate(r) \/ SaveBackup(r) \/ Replace(r) \/ RestoreUnlock(r)
  \/ Answer(r)

Step(r) ==
  \/ Limited(r)
  \/ Guard(r) \/ Bind(r) \/ Probe(r) \/ Commit(r) \/ Dump(r)
  \/ RestoreStep(r)
  \/ Page(r) \/ Collect(r)

Next ==
  \/ \E r \in Requests : Begin(r) \/ BeginJob(r) \/ Step(r)
  \/ \E d \in Databases : Outage(d)

Spec == Init /\ [][Next]_vars

----------------------------------------------------------------------------
TypeOK ==
  /\ up \in [Databases -> BOOLEAN]
  /\ outages \in 0..MaxOutages
  /\ begun \in 0..MaxBegun
  /\ target \in [Workers -> Databases]
  /\ store \in [Workers -> Databases \cup {None}]
  /\ shared \subseteq Requests
  /\ owner \in Requests \cup {None}
  /\ data \in [Databases -> 0..MaxWrites]
  /\ counts \in [Databases -> Nat]
  /\ backup \in [data : 0..MaxWrites, counts : Nat] \cup {None}
  /\ reported \in [Workers -> {"ok", "degradado", None}]
  /\ jobs \subseteq Databases /\ since \subseteq {"limiter", "job"}
  /\ req \in [Requests -> [at: Places, kind: Kinds \cup {None},
                           db: Databases \cup {None}]]

\* A restore from the check of the file to the end of pg_restore, and the places
\* where a request, or what is left of it, is at a database.
Restoring(r) == req[r].at \in {"validate", "save", "replace"}
AtDatabase(r) ==
  req[r].at \in {"limit", "upload", "probe", "commit", "dump", "page", "garbage"}

\* What takes no lock: the limiter, a contract job, another restore that reads
\* its user, and a session that outlives its answer.
Unguarded(r) == req[r].kind = "job" \/ req[r].at \in {"limit", "upload", "garbage"}

\* No two restores run at once, and none beside a handler, an export, a probe or
\* a page, of any process: only what takes no lock may be at a database
\* meanwhile (database/core.py:33-62, setup.py:260-274).
RestoreIsAlone ==
  \A r, s \in Requests :
    Restoring(r) /\ s # r => ~Restoring(s) /\ (AtDatabase(s) => Unguarded(s))

\* What a restore throws away is in the backup it wrote just before: of all that
\* the requests of all workers commit, only a contract job's writes and the
\* limiter's own counts can get between the two (exportacao/core.py:140-154,
\* vendas.py:413, rate_limit.py:52).
ReplacedIsSaved ==
  [][\A r \in Requests :
       Is(r, "replace") /\ <<data, counts>>' # <<data, counts>> =>
         /\ backup.data = data["primary"] \/ "job" \in since
         /\ backup.counts = counts["primary"] \/ "limiter" \in since]_vars

\* API.md:41 says of an answer 200 of /health that the application and the
\* database are available; so no request of that process should fail for want
\* of the database until something changes.
HealthyIsServed ==
  \A r \in Requests :
    ~(/\ reported[Home[r]] = "ok"
      /\ LimitFails(r))
=============================================================================
