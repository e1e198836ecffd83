----------------------------- MODULE RsdClients -----------------------------
(***************************************************************************)
(* The clients of the RSD portal (rsd/core.py) and the requests that use   *)
(* them (routes rsd.py and configuracoes.py): the stored credential with   *)
(* the result of its last test, the cache of logged-in clients, the polls  *)
(* of a dossier, and the owner that an update writes to a vehicle.         *)
(*                                                                         *)
(* Requests of one process run in threads, except the pull of a plate,     *)
(* which keeps the event loop until it answers.  The cache has a lock,     *)
(* every client has one of its own that is held during a call to the       *)
(* portal, and the credential is a database row.  The portal may answer    *)
(* anything.                                                               *)
(***************************************************************************)
EXTENDS Naturals, FiniteSets, SequencesExt

CONSTANTS
  Threads,       \* serve one request after another: threads, or the event loop
  Clients,       \* the client objects; those out of use may be made again
  Creds,         \* credentials (address, e-mail and encrypted password)
  Stored,        \* those that may be stored at the start, or None
  None,
  CacheSize,     \* _CLIENT_CACHE_MAX_SIZE
  Tries,         \* calls of one kind before an error of the portal counts
  TransientMax,  \* _POLL_TRANSIENT_MAX
  MaxOwner,      \* bound: owners the vehicle has had, at the portal
  Mixes          \* bound: sets of operations, and of cache expiry, that occur together

ASSUME RsdAssumption ==
  /\ Stored \subseteq Creds \cup {None}
  /\ None \notin Threads \cup Creds \cup Clients
  /\ {CacheSize, Tries, TransientMax} \subseteq Nat \ {0}
  /\ \A mix \in Mixes : mix \subseteq {"pull", "start", "poll", "pdf", "update", "test", "save", "revoke",
                                    "expire"}
  /\ MaxOwner \in Nat

VARIABLES
  config,     \* the committed row: credential and status
  rowLock,    \* the request with an uncommitted update of the row
  cache,      \* cached clients, the least recently used first
  cacheLock,  \* holder of _client_cache_lock
  client,     \* the client objects: open, retired, holder of the lock
  req,        \* the request of each thread
  proofs,     \* credentials with a signed proof of a test that is still valid
  accepted,   \* credentials the portal accepted in a test
  raced,      \* two updates of the row overlapped
  dossier,    \* one dossier: its history row and its failure counter
  vehicle,    \* the vehicle's owners, and the owner the portal knows
  offered     \* the operations in use

shared == <<config, rowLock, proofs, accepted, raced, offered>>
vars   == <<config, rowLock, cache, cacheLock, client, req, proofs, accepted, raced, dossier, vehicle, offered>>

Statuses == {"saved_unverified", "verified", "failed"}
Configs  == [cred : Creds \cup {None}, status : Statuses]
Owners   == 0..MaxOwner

\* The calls of each operation; an update reads a page or waits for a dossier.
Calls(op) ==
  CASE op = "update" -> {<<"pull">>, <<"start", "wait", "pdf">>}
    [] op \in {"pull", "start", "pdf"} -> {<<op>>}
    [] op = "poll" -> {<<"status">>}
    [] OTHER -> {<<>>}

Operations == {"pull", "start", "poll", "pdf", "update", "test", "save", "revoke"}

Steps == {"idle", "lock", "clear", "close", "call", "http", "read_row", "write_row",
          "read_vehicle", "write_vehicle", "history", "count", "add", "flush", "commit"}

Idle(row) ==
  [at |-> "idle", op |-> "pull", calls |-> <<>>, loaded |-> row, new |-> row, mine |-> None,
   closing |-> {}, left |-> Tries, result |-> "none", count |-> 0, owner |-> 0, stored |-> 0]

NoRow == [cred |-> None, status |-> "saved_unverified"]

Fresh == [open |-> FALSE, retired |-> FALSE, lock |-> None]

InitRsd ==
  /\ config \in {[NoRow EXCEPT !.cred = c] : c \in Stored}
  /\ rowLock = None /\ cache = <<>> /\ cacheLock = None
  /\ client = [c \in Clients |-> Fresh]
  /\ req = [r \in Threads |-> Idle(NoRow)]
  /\ proofs = {} /\ accepted = {} /\ raced = FALSE
  /\ vehicle = [atual |-> 0, anterior |-> None, portal |-> 0]
  /\ offered \in Mixes
  /\ dossier = [known |-> "poll" \in offered, falhas |-> 0, failures |-> 0, overlapped |-> FALSE,
                row |-> IF "poll" \in offered THEN "processing" ELSE "none"]

Goes(r, step) == req' = [req EXCEPT ![r].at = step]
Running(r)    == req[r].at # "idle"

\* ui_rsd_puxar_dados is async and awaits nothing once it has the form: other
\* requests can neither begin one nor commit on the loop until it is over.
LoopFree == \A r \in Threads : req[r].op = "pull" => ~Running(r)

\* Client objects that nobody but r refers to.
Unused(r) ==
  {c \in Clients : /\ \A n \in 1..Len(cache) : cache[n].client # c
                   /\ \A q \in Threads \ {r} : c # req[q].mine /\ c \notin req[q].closing}

\* The request is over, and so may be the last reference to its client.
Ends(r) ==
  /\ req' = [req EXCEPT ![r] = Idle(NoRow)]
  /\ client' = [c \in Clients |-> IF c = req[r].mine /\ c \in Unused(r) THEN Fresh ELSE client[c]]

\* Mutant: clients are retired and closed without their lock.
FreeAnyway(c, r) == c \in Clients /\ r \in Threads

\* r may take the lock of c.
Free(c, r) == client[c].lock \in {None, r}

-----------------------------------------------------------------------------
(* The credential row.                                                     *)

\* get_config: the request works with the row it loaded, a test with the
\* values of the form.
Begins(r, op, loaded, step) ==
  /\ ~Running(r) /\ op \in offered
  /\ \E calls \in Calls(op) :
       req' = [req EXCEPT ![r] = [Idle(loaded) EXCEPT !.op = op, !.calls = calls, !.at = step]]
  /\ dossier' = [dossier EXCEPT !.overlapped =
       @ \/ (op = "poll" /\ \E q \in Threads : req[q].op = "poll" /\ Running(q))]
  /\ UNCHANGED <<shared, cache, cacheLock, client, vehicle>>

BeginSave(r) == \E op \in {"save", "revoke"} : Begins(r, op, config, "flush")

BeginTest(r) ==
  \E cred \in Creds : Begins(r, "test", [NoRow EXCEPT !.cred = cred], "http")

\* configurado; bound: one dossier.
BeginCall(r) ==
  /\ config.cred # None
  /\ \E op \in {"pull", "start", "poll", "pdf", "update"} :
       /\ op = "start" => ~dossier.known /\ \A q \in Threads : req[q].op # "start"
       /\ op = "poll" => dossier.known
       /\ op = "pull" => LoopFree
       /\ Begins(r, op, [NoRow EXCEPT !.cred = config.cred], "lock")

\* Mutant: a verified status survives a change of the credential.
StatusAfterSaveKept(r, cred) ==
  IF cred \in proofs \/ req[r].loaded.status = "verified"
    THEN "verified" ELSE "saved_unverified"

\* atualizar_config: verified with a proof for these very values, or when they
\* are the verified ones already.
StatusAfterSave(r, cred) ==
  IF cred \in proofs \/ req[r].loaded = [cred |-> cred, status |-> "verified"]
    THEN "verified" ELSE "saved_unverified"

\* Only the columns that differ from the row as loaded are in the update.
Merged(old, new, row) ==
  [cred   |-> IF new.cred = old.cred THEN row.cred ELSE new.cred,
   status |-> IF new.status = old.status THEN row.status ELSE new.status]

Races(old) == raced' = (raced \/ config # old)

\* The flush updates the row in the request's transaction, which locks it.
Updates(r, op, new) ==
  /\ req[r].at = "flush" /\ req[r].op = op /\ rowLock = None
  /\ req' = [req EXCEPT ![r].at = "clear", ![r].loaded = NoRow,
                        ![r].new = Merged(req[r].loaded, new, config)]
  /\ rowLock' = r /\ Races(req[r].loaded)
  /\ UNCHANGED <<config, cache, cacheLock, client, proofs, accepted, dossier, vehicle, offered>>

Save(r) == \E cred \in Creds :
  Updates(r, "save", [cred |-> cred, status |-> StatusAfterSave(r, cred)])

Revoke(r) == Updates(r, "revoke", [req[r].loaded EXCEPT !.cred = None])

\* The middleware commits, on the loop.
Commit(r) ==
  /\ req[r].at = "commit" /\ LoopFree
  /\ config' = req[r].new /\ rowLock' = None
  /\ Ends(r)
  /\ UNCHANGED <<cache, cacheLock, proofs, accepted, raced, dossier, vehicle, offered>>

\* registrar_teste_config_persistente, in a session of its own: the row is
\* read and compared with what was tested, then written.
ReadRow(r) ==
  /\ req[r].at = "read_row"
  /\ IF config.cred = req[r].loaded.cred
       THEN req' = [req EXCEPT ![r].new = config, ![r].at = "write_row"]
       ELSE Goes(r, "history")
  /\ UNCHANGED <<shared, cache, cacheLock, client, dossier, vehicle>>

WriteRow(r) ==
  LET read    == req[r].new
      written == [read EXCEPT !.status = IF req[r].result = "ok" THEN "verified" ELSE "failed"]
  IN  /\ req[r].at = "write_row" /\ rowLock = None
      /\ config' = Merged(read, written, config) /\ Races(read)
      /\ req' = [req EXCEPT ![r].at = "history", ![r].new = NoRow]
      /\ UNCHANGED <<rowLock, cache, cacheLock, client, proofs, accepted, dossier, vehicle, offered>>

-----------------------------------------------------------------------------
(* The cache of clients.                                                   *)

Expired      == {n \in 1..Len(cache) : cache[n].old}
Cached(cred) == {n \in 1..Len(cache) : cache[n].cred = cred}

\* Mutant: the limit of the cache is exceeded by one.
HasToRetireLate(r) ==
  \/ req[r].at = "clear" /\ cache # <<>>
  \/ /\ req[r].at = "lock"
     /\ Expired # {} \/ (Cached(req[r].loaded.cred) = {} /\ Len(cache) > CacheSize)

\* The request has clients to retire, and keeps the cache locked meanwhile.
HasToRetire(r) ==
  \/ req[r].at = "clear" /\ cache # <<>>
  \/ /\ req[r].at = "lock"
     /\ Expired # {} \/ (Cached(req[r].loaded.cred) = {} /\ Len(cache) >= CacheSize)

LockCache(r) ==
  /\ HasToRetire(r) /\ cacheLock = None
  /\ cacheLock' = r
  /\ UNCHANGED <<shared, cache, client, req, dossier, vehicle>>

\* The critical section of the cache.
Inside(r, step) == req[r].at = step /\ cacheLock \in {None, r} /\ ~HasToRetire(r)

\* Five minutes pass without a use of the entry.
Expire(n) ==
  /\ "expire" \in offered /\ ~cache[n].old
  /\ cache' = [cache EXCEPT ![n].old = TRUE]
  /\ UNCHANGED <<shared, cacheLock, client, req, dossier, vehicle>>

\* An entry leaves the cache: its client is retired, which waits for the call
\* the client may be in, and closed later.
Retires(r, n) ==
  LET c == cache[n].client
  IN  /\ Free(c, r)
      /\ client' = [client EXCEPT ![c].retired = TRUE]
      /\ cache' = RemoveAt(cache, n)
      /\ req' = [req EXCEPT ![r].closing = @ \cup {c}]
      /\ UNCHANGED <<shared, cacheLock, dossier, vehicle>>

\* client_from_config, in order: expired entries leave, then the entry of the
\* credential is taken, or a new one made in place of the oldest.
Sweep(r) ==
  /\ req[r].at = "lock" /\ cacheLock = r /\ Expired # {}
  /\ Retires(r, CHOOSE n \in Expired : TRUE)

Takes(r, c) ==
  /\ cacheLock' = None
  /\ req' = [req EXCEPT ![r].mine = c,
               ![r].at = IF req[r].closing = {} THEN "call" ELSE "close"]
  /\ UNCHANGED <<shared, dossier, vehicle>>

Hit(r) ==
  /\ Inside(r, "lock")
  /\ \E n \in Cached(req[r].loaded.cred) :
       /\ cache' = Append(RemoveAt(cache, n), cache[n])
       /\ Takes(r, cache[n].client)
  /\ UNCHANGED client

Evict(r) ==
  /\ req[r].at = "lock" /\ cacheLock = r /\ Expired = {} /\ HasToRetire(r)
  /\ Retires(r, 1)

Open(r) ==
  LET c == CHOOSE c \in Unused(r) \ req[r].closing : TRUE
  IN  /\ Inside(r, "lock") /\ Cached(req[r].loaded.cred) = {}
      /\ Unused(r) \ req[r].closing # {}
      /\ client' = [client EXCEPT ![c] = [Fresh EXCEPT !.open = TRUE]]
      /\ cache' = Append(cache, [client |-> c, cred |-> req[r].loaded.cred, old |-> FALSE])
      /\ Takes(r, c)

\* invalidar_client_cache: every client is retired, then the cache emptied.
Invalidate(r) ==
  \/ /\ req[r].at = "clear" /\ cacheLock = r /\ HasToRetire(r)
     /\ Retires(r, 1)
  \/ /\ Inside(r, "clear")
     /\ cacheLock' = None
     /\ Goes(r, IF req[r].closing = {} THEN "commit" ELSE "close")
     /\ UNCHANGED <<shared, cache, client, dossier, vehicle>>

\* The retired clients are closed outside the cache lock.
Close(r) ==
  /\ req[r].at = "close"
  /\ \E c \in req[r].closing :
       /\ Free(c, r)
       /\ client' = [client EXCEPT ![c] = IF c \in Unused(r) THEN Fresh
                                           ELSE [@ EXCEPT !.open = FALSE]]
       /\ req' = [req EXCEPT ![r].closing = @ \ {c},
                    ![r].at = IF req[r].closing # {c} THEN "close"
                              ELSE IF req[r].mine = None THEN "commit" ELSE "call"]
  /\ UNCHANGED <<shared, cache, cacheLock, dossier, vehicle>>

-----------------------------------------------------------------------------
(* Calls to the portal.                                                    *)

Call(r)    == Head(req[r].calls)
Unlocks(r) == client' = [client EXCEPT ![req[r].mine].lock = None]
Answered(r) == req[r].at = "http" /\ req[r].op # "test"

\* A failed operation: a poll counts it; the others record it, after the status
\* of the credential when that is what failed.
Fails(r, result) ==
  /\ req' = [req EXCEPT ![r].result = result,
       ![r].at = IF req[r].op = "poll" THEN "count"
                 ELSE IF result = "auth" THEN "read_row" ELSE "history"]
  /\ dossier' = IF req[r].op = "poll" /\ dossier.failures < TransientMax
                  THEN [dossier EXCEPT !.failures = @ + 1] ELSE dossier

\* Mutant: a retired client is opened again.
CallPortalReopens(r) ==
  /\ req[r].at = "call" /\ client[req[r].mine].lock = None
  /\ client' = [client EXCEPT ![req[r].mine].lock = r, ![req[r].mine].open = TRUE]
  /\ Goes(r, "http")
  /\ UNCHANGED <<shared, cache, cacheLock, dossier, vehicle>>

\* _request: the client's lock is held for the whole call.  A client retired
\* after the request took it from the cache refuses.
CallPortal(r) ==
  LET c == req[r].mine
  IN  /\ req[r].at = "call" /\ client[c].lock = None
      /\ IF client[c].retired
           THEN Fails(r, "retired") /\ UNCHANGED client
           ELSE /\ client' = [client EXCEPT ![c].lock = r, ![c].open = TRUE]
                /\ Goes(r, "http") /\ UNCHANGED dossier
      /\ UNCHANGED <<shared, cache, cacheLock, vehicle>>

\* A successful call goes on with the next one; what a poll does to the count
\* of failures is in counted.
Succeeds(r, counted) ==
  LET rest == Tail(req[r].calls)
      goal == IF rest # <<>> THEN "call"
              ELSE IF req[r].op = "update" THEN "read_vehicle" ELSE "history"
  IN  /\ Answered(r)
      /\ req' = [req EXCEPT ![r].result = "ok", ![r].calls = rest, ![r].at = goal,
                   ![r].left = Tries,
                   ![r].owner = IF Call(r) \in {"pull", "wait"} THEN vehicle.portal ELSE @]
      /\ dossier' = IF req[r].op = "poll" THEN counted ELSE dossier
      /\ Unlocks(r)
      /\ UNCHANGED <<shared, cache, cacheLock, vehicle>>

AnswerOk(r) == Succeeds(r, [dossier EXCEPT !.falhas = 0, !.failures = 0])

\* Idempotent calls are repeated when the portal's engine is down, the wait for
\* a dossier after every error.
Errs(r, result) ==
  IF req[r].left > 1 /\ (Call(r) = "wait" \/ (Call(r) \in {"pull", "start"} /\ result = "down"))
    THEN /\ req' = [req EXCEPT ![r].at = "call", ![r].left = @ - 1]
         /\ UNCHANGED dossier
    ELSE Fails(r, result)

\* Mutant: an error leaves the client locked.
AnswerErrorLocked(r) ==
  /\ Answered(r)
  /\ \E result \in {"down", "auth"} : Errs(r, result)
  /\ UNCHANGED <<shared, cache, cacheLock, client, vehicle>>

\* The engine is down, or the login is rejected.
AnswerError(r) ==
  /\ Answered(r)
  /\ \E result \in {"down", "auth"} : Errs(r, result)
  /\ Unlocks(r)
  /\ UNCHANGED <<shared, cache, cacheLock, vehicle>>

\* "Testar conexao", with a client of its own; "auth" stands for every failure.
TestAnswer(r) ==
  /\ req[r].at = "http" /\ req[r].op = "test"
  /\ \E result \in {"ok", "auth"} :
       /\ req' = [req EXCEPT ![r].result = result, ![r].at = "read_row"]
       /\ accepted' = IF result = "ok" THEN accepted \cup {req[r].loaded.cred} ELSE accepted
  /\ UNCHANGED <<config, rowLock, proofs, raced, cache, cacheLock, client, dossier, vehicle, offered>>

\* Ten minutes after the test.
ProofExpires(cred) ==
  /\ cred \in proofs /\ proofs' = proofs \ {cred}
  /\ UNCHANGED <<config, rowLock, accepted, raced, cache, cacheLock, client, req, dossier, vehicle, offered>>

\* ui_rsd_dossie_status after a failure: the counter is read, then written.
Count(r) ==
  /\ req[r].at = "count"
  /\ req' = [req EXCEPT ![r].at = "add", ![r].count = dossier.falhas + 1]
  /\ UNCHANGED <<shared, cache, cacheLock, client, dossier, vehicle>>

\* Below the limit the poll goes on; at the limit the failure is recorded.
Counted(r, falhas) ==
  /\ req[r].at = "add"
  /\ dossier' = [dossier EXCEPT !.falhas = falhas]
  /\ IF req[r].count >= TransientMax
       THEN Goes(r, IF req[r].result = "auth" THEN "read_row" ELSE "history") /\ UNCHANGED client
       ELSE Ends(r)
  /\ UNCHANGED <<shared, cache, cacheLock, vehicle>>

\* Mutant: the counter stays at the limit.
AddKeeps(r) == Counted(r, req[r].count)

\* At the limit the counter is dropped.
Add(r) == Counted(r, IF req[r].count >= TransientMax THEN 0 ELSE req[r].count)

-----------------------------------------------------------------------------
(* What the answers are for.                                               *)

\* _aplicar_campos_no_veiculo: a session of its own reads the vehicle and
\* writes it; the owner on record becomes the previous one when it changes.
ReadVehicle(r) ==
  /\ req[r].at = "read_vehicle"
  /\ req' = [req EXCEPT ![r].stored = vehicle.atual, ![r].at = "write_vehicle"]
  /\ UNCHANGED <<shared, cache, cacheLock, client, dossier, vehicle>>

\* _rotacionar_proprietario
Rotated(stored, owner, v) ==
  IF owner = stored THEN v ELSE [v EXCEPT !.atual = owner, !.anterior = stored]

\* A conflict with another vehicle changes nothing.
WriteVehicle(r) ==
  /\ req[r].at = "write_vehicle"
  /\ vehicle' \in {vehicle, Rotated(req[r].stored, req[r].owner, vehicle)}
  /\ Goes(r, "history")
  /\ UNCHANGED <<shared, cache, cacheLock, client, dossier>>

\* The vehicle is transferred, at the portal.
Transfer ==
  /\ vehicle.portal < MaxOwner
  /\ vehicle' = [vehicle EXCEPT !.portal = @ + 1]
  /\ UNCHANGED <<shared, cache, cacheLock, client, req, dossier>>

\* registrar_consulta and atualizar_consulta_dossie, in sessions of their own:
\* a failure to write is only logged.
Recorded(op, ok) ==
  CASE op = "start" /\ ok -> {[dossier EXCEPT !.known = TRUE, !.row = row] :
                                 row \in {"processing", "none"}}
    [] op = "poll" /\ dossier.row # "none" ->
         {dossier, [dossier EXCEPT !.row = IF ok THEN "done" ELSE "failed"]}
    [] OTHER -> {dossier}

\* The answer of a successful test carries its proof.
History(r) ==
  LET ok == req[r].result = "ok"
  IN  /\ req[r].at = "history"
      /\ dossier' \in Recorded(req[r].op, ok)
      /\ proofs' = IF req[r].op = "test" /\ ok THEN proofs \cup {req[r].loaded.cred} ELSE proofs
      /\ Ends(r)
      /\ UNCHANGED <<config, rowLock, accepted, raced, cache, cacheLock, vehicle, offered>>

-----------------------------------------------------------------------------
RequestStep(r) ==
  \/ Save(r) \/ Revoke(r) \/ Commit(r) \/ ReadRow(r) \/ WriteRow(r)
  \/ LockCache(r) \/ Sweep(r) \/ Hit(r) \/ Evict(r) \/ Open(r) \/ Invalidate(r) \/ Close(r)
  \/ CallPortal(r) \/ AnswerOk(r) \/ AnswerError(r) \/ TestAnswer(r) \/ Count(r) \/ Add(r)
  \/ ReadVehicle(r) \/ WriteVehicle(r) \/ History(r)

Next ==
  \/ \E r \in Threads : BeginSave(r) \/ BeginTest(r) \/ BeginCall(r) \/ RequestStep(r)
  \/ \E n \in 1..Len(cache) : Expire(n)
  \/ \E cred \in Creds : ProofExpires(cred)
  \/ Transfer

\* Threads and the loop are scheduled, locks are handed over, calls to the
\* portal time out.
Fairness == \A r \in Threads : SF_vars(RequestStep(r))

Spec == InitRsd /\ [][Next]_vars /\ Fairness
-----------------------------------------------------------------------------
\* Type invariant.
TypeRsd ==
  /\ config \in Configs /\ rowLock \in Threads \cup {None}
  /\ cacheLock \in Threads \cup {None}
  /\ client \in [Clients -> [open : BOOLEAN, retired : BOOLEAN, lock : Threads \cup {None}]]
  /\ cache \in Seq([client : Clients, cred : Creds, old : BOOLEAN])
  /\ req \in [Threads -> [at : Steps, op : Operations, calls : Seq({"pull", "start", "wait", "pdf", "status"}),
                          loaded : Configs, new : Configs, mine : Clients \cup {None},
                          closing : SUBSET Clients, left : 1..Tries,
                          result : {"none", "ok", "down", "auth", "retired"},
                          count : Nat, owner : Owners, stored : Owners]]
  /\ proofs \subseteq Creds /\ accepted \subseteq Creds /\ raced \in BOOLEAN
  /\ dossier \in [known : BOOLEAN, row : {"none", "processing", "done", "failed"},
                   falhas : 0..TransientMax, failures : 0..TransientMax, overlapped : BOOLEAN]
  /\ vehicle \in [atual : Owners, anterior : Owners \cup {None}, portal : Owners]
  /\ offered \in Mixes

\* What the cache hands out can be used, it holds one client per credential and
\* never more than its limit (client_from_config, invalidar_client_cache).
CacheIsUsable ==
  cacheLock = None =>
    /\ Len(cache) <= CacheSize
    /\ \A n \in 1..Len(cache) :
         /\ client[cache[n].client].open /\ ~client[cache[n].client].retired
         /\ \A m \in 1..Len(cache) \ {n} :
              cache[m].cred # cache[n].cred /\ cache[m].client # cache[n].client

\* No connection is forgotten: an open client is in the cache, or a request is
\* about to close it (RsdClient._http refuses to reopen a retired one).
NoClientLeaks ==
  \A c \in Clients : client[c].open =>
    (\E n \in 1..Len(cache) : cache[n].client = c) \/ \E r \in Threads : c \in req[r].closing

\* Expiry, eviction and invalidation never cut a call another request is in
\* (RsdClient._retire and close take the client's lock).
CallsAreNotCut ==
  \A c \in Clients : client[c].lock # None => client[c].open /\ ~client[c].retired

\* Status "verified" is only ever shown for a credential the portal accepted in
\* a test, as long as no two requests update the row at once (atualizar_config).
VerifiedUnlessRaced ==
  config.status = "verified" /\ config.cred # None => config.cred \in accepted \/ raced

\* The same, whatever overlaps: registrar_teste_config updates the last test
\* "somente quando ele corresponde a config ativa".
VerifiedWasProven ==
  config.status = "verified" /\ config.cred # None => config.cred \in accepted

\* A pull waits, on the loop, for a row whose holder needs the loop to commit:
\* no lock_timeout is set, and nothing of the process goes on.
LoopHangs ==
  \E r, s \in Threads :
    req[r].op = "pull" /\ req[r].at = "write_row" /\ rowLock = s /\ s # r

\* Every request ends, unless the loop hangs: the locks of the cache and of the
\* clients, held over calls to the portal and over an uncommitted update of the
\* row, never make two requests wait for each other (rsd/core.py, _request,
\* client_from_config, invalidar_client_cache).
RequestsEnd == \A r \in Threads : Running(r) ~> ~Running(r) \/ LoopHangs
=============================================================================
