# A TLA+ model of Xtreme Motors

This directory holds TLA+ models of the sales system in this repository and of
the scripts that hand development work to agents, the TLC configurations that
check them on small instances, and proofs for TLAPS of the properties that matter
most. Paths below are relative to the repository's `src/`; those without a
directory are in `components/xtreme_system` or `bases/xtreme_system/api`.

- [1. The system](#1-the-system): inventory of the components
- [2. The modules](#2-the-modules): how state and actions correspond to the code
- [3. What TLC checks](#3-what-tlc-checks): runs, bounds, fairness
- [4. What is proved](#4-what-is-proved)
- [5. Disagreements found](#5-disagreements-found)
- [6. Assumptions and limits](#6-assumptions-and-limits)
- [7. Not modelled, and what is left](#7-not-modelled-and-what-is-left)

## 1. The system

uvicorn worker processes serve a JSON API and an HTMX interface over one PostgreSQL
database (with an optional fallback) and a directory of uploads. There is no queue
and no cache service: what the requests share is the database, the upload directory, a
lock file, and a few objects in the memory of each process. Beside the server, two
Python scripts take work from an issue tracker or a job list and hand it to coding
agents, whose stop hook integrates and reports what they did.

### Components

| component | state it keeps | operations | what makes it correct |
|---|---|---|---|
| `venda` (sales), `workflow`, `venda/status_veiculo` | table of sales: vehicle, trade-in, status; the status column of the vehicles | create, update, delete; recomputation of vehicle statuses; manual edit; cancelling and reviving a purchase or consignment | a vehicle is sold once; only an available vehicle is sold; statuses follow the sales |
| `crud`, `crud_writes`, `route_factories`, `crud_ui` | none | order of hooks, flush, refresh, error answers | a refused write leaves nothing |
| `database/core` | one session per request, post-commit and post-rollback callbacks, restore lock | bind, commit, rollback, close; shared and exclusive use of the database | effects outside the database follow its outcome |
| `upload_file`, `imagem_*`, `documento_*`, the logo of `empresa` | attachment rows, files on disk | upload of a batch, delete of one, delete with the parent, contract job | a row has its file; a request that fails leaves no file |
| `api/setup`, `api/deps` | event loop, worker threads, request context | middlewares, dependencies, commit | every request is answered, as long as no handler on the loop waits for a row |
| `database/connection` | engines, connection pool, active target | choice of primary or fallback | limits of the pool; a restore is not beside guarded traffic |
| `exportacao` (backup and restore) | file lock, backups | dump, validate, back up, restore | a restore runs beside nothing that takes its lock; what it replaces is saved, but for jobs and the limiter |
| `database/rate_limit` | window counters | increment, reset, insert, clean up | never more than the limit in a window; no refusal without a reason |
| `compra`, `consignacao`, `veiculo`, nested creations | purchases and consignments with idempotency key; clients, vehicles and owners created on the way | create, edit, delete, by form and by JSON | one form is one entry; a refusal undoes the nested rows |
| `caixa` (cash book), `custo_veiculo` | entries, some mirroring other tables | entries that follow a purchase, a vehicle, a closing | the mirror equals its origin |
| `fechamento_venda` (closings) | closing rows, shares | calculation, eligibility, shares, cents, cash entries | one closing per sale, and final; cents add up |
| `rsd` (vehicle data portal) | stored credential, cache of logged-in clients, dossiers | log in, call, renew, evict, invalidate, test | no client closed in use; nothing unproven shown as verified |
| `usuario`, `auth`, `perfil` | users, token version, profiles | log in, log out, change of password, edits, deletion of a profile | an old token stops working; no account has a deleted profile |
| `linear-run/process_issue.py`, `.codex/hooks/verify-on-stop.py`, `scripts/agent-*.sh`, `devops/linear/send` | issues, worktrees and branches, agents, mailbox | run the queue, wait, merge, clean up, reset; check, commit, merge, report | work is not lost; merged work only is closed; a run ends |
| `skill-dispatcher/run_jobs.py`, `job-generator/generate_jobs.py` | job list, state file, workers, mailbox | generate, load, run, retry, resume | every job is run; a report is heard |
| `auditoria`, `telegram`, `whatsapp`, `cliente`, `investidor`, reports, templates | rows of their own | single-table writes, messages, reads | follows from the session |

`PROJECT.json` says of each whether it is modelled, in part, or not, and why.

### How they interact

- A request passes the middlewares in `setup.py`: the limiter, the restore guard
  (a shared lock on a file), and `_database_session`, which binds one session;
  `finish_request_session` (`database/core.py`) commits it, or rolls it back when the
  handler raised. Handlers flush and never commit.
- The handlers of sales call the hooks of `workflow/core.py` around the generic
  `crud` functions; the hooks lock vehicles with `SELECT ... FOR UPDATE` and write
  `veiculo.status`. The routes of vehicles, purchases and consignments write the
  same column, and the cash entry of the vehicle.
- Files are written inside the transaction, and removed by callbacks that the
  session runs after a rollback or after the commit. A sale's contract is written
  by a thread pool that a post-commit callback submits to, outside the restore guard.
- `def` handlers (JSON routes, the HTML `_excluir` routes) and `def` dependencies
  run in worker threads. `async def` handlers run on the event loop, and their
  database calls are synchronous: they hold the loop. So does the commit.
- The restore route skips the guard: it holds no shared lock while it reads its user and
  the file. It detaches its session, takes the lock exclusively while it checks the file, saves
  a backup and runs `pg_restore`, and takes it shared to read the page of its answer.
- The limiter comes before the guard, and commits its counters to the primary in
  transactions of its own, also beside a restore.
- The scripts start agents in worktrees and wait on the mailbox of their own
  terminal. An agent's stop hook checks, commits, merges into master and sends the
  verdict there.

### What is hard

Row locks taken in an order that depends on the request; rows read before the
lock and used after it; statuses and cash entries derived from tables several requests
are changing; files that must follow a transaction that has not ended; callbacks, and
a job in another thread, between the commit and the answer; failures of a flush,
a handler, a commit, a call or the process at any of these points; threads, connections,
locks and the event loop waiting for each other; statements of several processes on one
counter; databases that come and go; messages that are delivered again, and a verdict
that races a merge; money that has to be divided without losing a cent. The list,
line by line, is under "hazards" in `PROJECT.json`; each entry names the properties
that cover it.

## 2. The modules

```
SaleRules ------+--> SalesLedger (abstract)
                |        ^  ImplementsLedger
                +--> VehicleSales ------> MCVehicleSales
                         +-------------> VehicleSalesProofs
RequestSession ----+--> MCRequestSession
                   +--> RequestSessionProofs
WebServer ---------+--> MCWebServer
ProfitShares ------+--> SaleClosing ----> MCSaleClosing
                            +-----------> SaleClosingProofs
StockEntries ------+--> MCStockEntries
                   +--> StockEntriesProofs
DatabaseAccess ----+--> MCDatabaseAccess
                   +--> DatabaseProofs <-+
RateLimiter -------+---------------------+
                   +--> MCRateLimiter
Accounts ----------+--> MCAccounts
                   +--> AccountsProofs
RsdClients --------+--> MCRsdClients
                   +--> RsdClientsProofs
Mailbox --+--> IssueRuns --+
          +--> JobRuns ----+--> AgentRuns --> MCAgentRuns
               ^ JobFiles          +--------> AgentRunsProofs
```

### Sales

**SaleRules**: the queries of `venda/status_veiculo.py` over a sales table: the
status the sales give to a vehicle (`StatusPorVendas`), the override that is never
replaced (`Recomputado`), and the unique index (`Clash`). A sale row is its
vehicle, its trade-in and its status.

**SalesLedger**: what the operations promise. Each changes the sales table and
the statuses of all vehicles concerned in one step.

**VehicleSales**: the same operations as transactions.

| in the model | in the code |
|---|---|
| `venda`, `status` | committed sale rows and `veiculo.status` |
| `tx[r]` | the sale as loaded (`old`), the values asked for (`new`), position in the recomputations |
| `held[r]` | rows locked by `FOR UPDATE` or by a write |
| `cache[r]` | statuses in the identity map of the session |
| `dirty[r]`, `wrote[r]` | uncommitted statuses, uncommitted sale row |
| `BeginCreate`, `BeginUpdate`, `BeginDelete` | the route, up to the first lock |
| `LockOwn`, `CheckTarget` | `validate_venda_update`, `validate_veiculo_disponivel_para_venda` |
| `Write`, `Erase` | flush and refresh in `crud` |
| `Recompute` | one `recomputar_status_veiculo_por_vendas`, in the order of `sincronizar_apos_escrita` or `sincronizar_antes_exclusao` (`SyncPlan`) |
| `BeginEdit`, `EditVehicle` | edit of a vehicle; status of a purchase or consignment |
| `Commit`, `Refuse`, `Abort`, `DeadlockVictim` | the middleware; the 409 answers; any other failure; the database |

A step is what a request does between two points where it may wait, so requests
interleave where PostgreSQL (READ COMMITTED) lets them. The cache is kept because
it decides a result: `session.get(..., with_for_update=True)` locks the row and
keeps attributes that are already loaded, so a recomputation uses the status read
with the sale and not the one under the lock.

VehicleSales lets every request interleave with every other. That is exact for
handlers in worker threads, and a superset for those on the loop, so what holds
there holds for the deployed mix. WebServer says which of these waits can end. The
other modules of requests do the same.

### Purchases, consignments and vehicles

**StockEntries**: the transactions of purchases, consignments and vehicle forms over
the rows they share, with the cash entry that mirrors what a vehicle cost. A thing is
named by its unique key: a plate registered again is the same vehicle.

| in the model | in the code |
|---|---|
| `db` | committed clients, owners, vehicles, cash rows, purchases and consignments |
| `own[r]` | rows the request wrote, which it has locked |
| `tx[r].todo`, `.nested` | nested rows still to insert, in the order of `client_resolution.py` and `vehicle_resolution.py` |
| `tx[r].old`, `.row`, `.seen` | the entry as loaded and as asked for, the vehicle in the session |
| `BeginEntry`, `InsertNested`, `Insert`, `InsertFails`, `Refuse` | `_criar_compra`, `_criar_consignacao` with their look-up of the key, nested writes, the unique violation and `rollback_se_criou_aninhados` |
| `BeginUpdate`, `Update`, `SyncStatus`, `ReadCost`, `WriteCash` | update of a purchase, `sincronizar_lancamento_veiculo` |
| `BeginDelete`, `Erase`, `DropCash`, `DropVehicle` | delete, and the vehicle a purchase brought |
| `BeginVehicle`, `Register`, `EditVehicle`, `WriteDebits` | the vehicle forms |
| `KeyWaits`, `RowWaits`, `PinWaits` | waits for a unique entry, for a row, for a row a foreign key pins |
| `drift` | history: vehicles on which requests overlapped, or that a purchase was moved off |

### Sessions, files and threads

**RequestSession**: one session per request, with its callbacks, and the files.

| in the model | in the code |
|---|---|
| `parents`, `rows`, `disk`, `jobs` | rows that own attachments, attachment rows, `static/uploads`, contract jobs submitted |
| `ses[r].onCommit`, `.onRollback` | the callbacks in `session.info` |
| `ses[r].broken` | a failed flush left the transaction inactive |
| `WriteFile`, `InsertRow` | `escrever_upload_atomico` and `criar_anexo`, one file of a batch at a time |
| `ListAttachments`, `DeleteParent`, `AfterDelete` | before-delete hook and cascade load, flush with its `after_delete` listener, after-delete hook |
| `DropFile`, `DropLogo` | `excluir_anexo_entidade`, removal of the logo |
| `CreateParent`, `BeginContract`, `SkipContract` | the sale, and the contract job |
| `FlushFails`, `HandlerRaises` | IntegrityError and how each route answers it; other exceptions |
| `Commit`, `Callback`, `Answer`, `Rollback`, `Crash` | `finish_request_session`, `invoke_post_commit`, rollback with its callbacks, death of the process |

The eight attachment tables behave alike and are one table here. Three families
of delete differ in *when* they unlink, and are different operations:
`delete_json` (and the other routes that leave files to the callbacks),
`delete_purchase` (unlinks before the DELETE) and `delete_file` (unlinks in the
handler). The settings of the company are the parent `Company`, which is always there;
its logo is a file whose row is the url in the settings (`logo`, `no_logo`).

**WebServer**: where a request runs. `Workers` threads and `Connections`
connections are limits; a request holds its connection from its first query to
its commit, and a thread only while its dependencies or its `def` handler run. An
`async` handler that runs, or waits for a row, keeps the loop, and everything that
needs the loop (`LoopFree`) stops.

### Closings

**ProfitShares**: the pure part of a closing: the validation of the shares
(`ParticipacoesValidas`) and the distribution of the cents (`DistribuirLucro`, with
`Premiados` the shares that get one cent more), and next to them what a distribution
should be (`MaioresRestos`). Money is counted in cents. A percentage is counted in
units of which `Cem` make 100% and `Centesimo` make 0.01%, so that a cfg chooses how
many decimals are sent.

**SaleClosing**: `confirmar` as a transaction, among the requests that change what
it reads.

| in the model | in the code |
|---|---|
| `venda`, `custo` | value, debts, status and pending payment of a sale; what its vehicle cost |
| `fechamento`, `lancamentos` | the closing of each sale with its shares; its cash entries |
| `tx[r]` | the sale as loaded, the shares asked for, the closing and entries of the transaction |
| `Abrir`, `Calcular`, `Validar`, `Recusar` | the route, `_calcular`, `_validar_elegibilidade` with `_validar_participacoes`, the 400 |
| `Inserir` | the flush of the closing, which waits for another insertion for the sale |
| `Distribuir`, `Commit`, `Falhar` | the shares with their entries; the middleware; any failure |
| `GravarVenda`, `ExcluirVenda`, `GravarCusto` | commits of other requests |

The sale is read when it is loaded and never locked or read again, its costs and the
existence of a closing are read later; the model reads each where the code does.

### Access to the database

**DatabaseAccess**: the way of a request through limiter, restore guard, engine choice
and session, with exports, restores, probes and contract jobs, in several processes.

| in the model | in the code |
|---|---|
| `up`, `target`, `store` | the servers; `active_database_target` of each process; the engine its limiter was built with |
| `shared`, `owner` | who holds `flock` on the lock file, shared and exclusive |
| `data`, `counts`, `backup` | writes of each database since its last restore, and changes of `rate_limit_state`; what the last `pre_restore` backup holds of both |
| `jobs`, `since` | contract jobs in the executor; history: who committed to the primary outside of the lock since the backup, the limiter or a job |
| `Limited`, `Tallies`, `LimitFails` | `_rate_limit` and the commit of `allow`, before the guard |
| `Guard`, `Bind`, `Probe`, `Commit` | the other middlewares, `get_engine`, `/health`, `finish_request_session` |
| `Dump` | the export, which detaches its session first |
| `Authenticate`, `Detach` | the restore route up to its `detach_request_session`: its session is open and no lock is held |
| `RestoreLock`, `Validate`, `SaveBackup`, `Replace`, `RestoreUnlock` | the steps of a restore, each of which may fail; `pg_restore` waits for open transactions on its tables (`InTransaction`) until its timeout |
| `Answer`, `Page`, `Collect` | the page after a detach, under the shared lock; the transaction it opens stays open until the session is collected |
| `Outage` | a server comes or goes, between any two steps |

**RateLimiter**: `DatabaseRateLimiterStore.allow` for one bucket. Every statement is a
step; a call reads the clock once and is overtaken by others. `hits` is the history of
the calls let through in the window of the row, `call[c].full` and `.lost` are what a
refused call saw: a running window at its limit, or a row that changed under it.
`Emptied` is `reset`, which empties the table from outside.

**Accounts**: users, tokens and profiles as transactions. A request loads an account,
waits for the lock of its row and writes the columns its form changed (`Dirty`), with
`token_version` raised in the database (`Merged`). A token is the name, the version, and as history the
number of changes that had ended tokens before it (`era`). The deletion of a profile
takes it from its holders one at a time (`Clear`), in the order of their ids, and a
foreign key keeps the rest (`Given`, `PerfilWaits`).

### The portal of vehicle data

**RsdClients**: requests of one process that share a cache of logged-in clients. They run in
threads, but for the pull of a plate, an `async` handler that keeps the event loop from its form
to its answer (`LoopFree`): no other pull begins meanwhile, and no request commits.

| in the model | in the code |
|---|---|
| `config`, `rowLock` | the credential with the result of its last test, and who updates it |
| `cache`, `cacheLock` | `_client_cache` in order of use, `_client_cache_lock` |
| `client[c]` | `RsdClient`: connection open, retired, holder of its lock |
| `req[t]` | a request: calls to make, client in hand, old clients to close |
| `Sweep`, `Hit`, `Evict`, `Invalidate`, `Close` | `client_from_config`, `invalidar_client_cache`, `close` |
| `CallPortal`, `AnswerOk`, `AnswerError` | `_http`, `_request` with a lost session, and how the routes answer |
| `BeginSave`, `Save`, `Revoke`, `BeginTest`, `TestAnswer`, `ProofExpires` | settings, test of a credential, its signed proof |
| `dossier`, `vehicle`, `Count`, `Add`, `ReadVehicle`, `WriteVehicle`, `History` | the poll of a dossier with its failure counter, the update of the owners |

### Agents

**Mailbox**: messages of a terminal, of which a delivery is handed out again until it
is acknowledged; any call may fail (`Fault`).

**IssueRuns**: `process_issue.py run-queue`, call by call (`RunnerStep`), beside the
agents it started (`AgentActs`): their edits, reports and questions, the stop hook
with checks, commit and merge, the verdict it sends; a call that fails, a killed
runner or hook; the scripts that file and delete issues.

**JobFiles**, **JobRuns**: the names of a generated list, and `run_jobs.py run-jobs`
over it: retries, verdicts matched by task and dispatch, saved names, `--resume`.

**AgentRuns** composes the two: a terminal runs one of them, on one mailbox.

## 3. What TLC checks

| run | instance | shows |
|---|---|---|
| `sales_concurrent` | 2 requests, 2 vehicles, 2 sales; create, update, edit; one vehicle can be a trade-in | types, `UniqueConcluded` under full interleaving |
| `sales_market` | 3 requests, 2 vehicles, 3 sales; create and delete, no trade-in | concurrent requests implement the ledger; `OnlyAvailableIsSold` |
| `files_rows` | 2 requests, 2 parents and the company, 3 files; all operations, all faults, crash included | `RowKeepsFile`, `LeavesNoOrphan`, `ErrorPublishesNothing` |
| `web_workers` | 4 requests, 2 threads, 2 connections, 2 vehicles locked in both orders; handlers on the loop take no lock | every request ends, so every waiter for a lock goes on |
| `closings` | 2 requests, 1 sale, 3 investors; profits of 10, 6, 0 and -4 cents; 6 lists of shares, valid and not | `CaixaEspelhaFechamentos`, `FechamentoDefinitivo`, `RateioJusto` |
| `purchases` | 2 requests, 1 vehicle, 1 client, 2 entries, 2 forms, 2 values with 2 days; all form operations and the JSON delete | `OneEntryPerKey`, `NothingHalfCreated`, `CashMirrors`, `CreatesNeverDeadlock` |
| `database` | 2 requests in 2 processes, 4 requests in all, 2 changes of the network, all kinds of request | `RestoreIsAlone`, `ReplacedIsSaved` |
| `rate_limit` | 3 calls in 2 processes, limit 2, windows of one tick, 4 ticks, 1 reset | `LimitHolds`, `RefusedWhenSpent` |
| `accounts` | 2 requests, 2 accounts, 2 profiles, 5 requests and 2 tokens in all; all operations | `RevokedIsRefused`, `ProfilesExist` |
| `rsd` | 2 requests at a time, 2 credentials, a cache of one client, pairs of operations that meet | `CacheIsUsable`, `NoClientLeaks`, `CallsAreNotCut`, `VerifiedUnlessRaced`, `RequestsEnd` |
| `agents` | 2 issues, one filed on the way; 2 jobs with a retry and a resumed run; 1 failed call or kill | `VerdictAwaits`, `WorkIsKept`, `ClosedIsMerged`, `RunEnds`; `EveryJobIsRun`, `VerdictIsHeard` |
| `swap_with_trade_in` | smallest instance that shows it | see [5](#5-disagreements-found) |

**Why these bounds.** The state spaces of the sales, file, closing, purchase and web runs
are finite because ids are reused once nothing refers to them (`FreshSale`, `FreshFile`,
`FreshParent`); only the sets of the instance bound them, and `MaxUploads`, the files of
one upload. The others name their bounds.

- *Sales*: the properties relate two sales of one vehicle, or one sale and the two
  vehicles it leaves and enters; two requests give every overlap of two transactions,
  and the third of `sales_market` lets a delete free a vehicle while two creates race
  for it. A status is compared with the constants of the rule only, so the statuses left
  out of an instance are those its properties treat as another one in it.
- *Files*: two files make a batch that fails half way, a third belongs to a racing request.
- *Web*: four requests are the fewest that starve two threads and two connections of each
  other, and two vehicles make the smallest cycle of locks; a handler may end before any
  of its locks, so shorter plans are included.
- *Closings*: closings of different sales share nothing; three shares of a third leave
  one and two cents over, shares of 99.99% and 0.01% make a part of no cent, and small
  profits bring out every rounding, since only the rests matter.
- *Purchases*: one vehicle is where all requests meet; two keys and two entries are a form
  sent twice beside another. Two inputs let the dearer purchase be the older one.
- *Database*: a restore and its longest competitor, and two more requests before, between or
  after them (`MaxBegun`), of which one leaves a job, or a session open; two changes make a server go and return (`MaxOutages`); two
  writes tell a write in the backup from one after it (`MaxWrites`).
- *Limiter*: three calls of which two change the row under the third, twice; four ticks
  (`MaxTime`) end a window three times. A call is assumed to be shorter than a window.
- *Accounts*: two requests overlap in every pair of operations; five in all (`MaxAsked`)
  give two logins or edits before, between and after two changes (`MaxVersion`).
- *rsd*: a cache of one client evicts at the second credential; four client objects, since
  one can be cached, one in each thread's hands and one to be closed. `Mixes` lists the
  operations that share a lock or a row: others do not meet.
- *Agents*: an issue in progress and a stale one; one fault anywhere (`MaxFaults`), two
  runs of a list (`MaxJobRuns`), so that one is killed and the next resumes it.

**Fairness.**

- WebServer assumes strong fairness of each request's next step, `SF_vars(Advance(r))`.
  Each queue a request stands in is first-in first-out: the ready queue of asyncio, the
  thread limiter of anyio, the pool of SQLAlchemy, the lock queues of PostgreSQL. A step
  that is enabled again and again is therefore taken. The pool has a timeout, and
  PostgreSQL aborts one transaction of a cycle; both are actions of the model. Nothing is
  assumed of arrivals. `connection.py` sets no `lock_timeout`, so no action ends a wait
  for a row that an idle transaction holds. For that reason the run gives the handlers on
  the loop no lock: with `AsyncPlans <- OneLock`, `EveryRequestEnds` fails, since an
  `async` handler that waits for a row blocks the loop that has to run the commit of
  the request that holds it. The html routes of sales are such handlers.
- RsdClients assumes strong fairness of each request's step: calls to the portal have a
  timeout, the operating system passes over no waiter for ever, and the ready queue of asyncio is
  first-in first-out. A commit is a step only while the loop is free (`LoopFree`). A
  pull whose credentials are refused updates the credential row on the loop; when a save or a
  revocation has flushed that row, its commit needs the loop, and without a `lock_timeout` neither
  goes on. `RequestsEnd` names this state (`LoopHangs`) as the only one in which a
  request does not end; without the exception TLC finds it in ten steps.
- AgentRuns assumes weak fairness of the script that runs, and of the two hours after which it
  gives an issue up. Nothing is assumed of the agents, of the people, or of the time a job takes.

**Deadlock** checking is off: a system with no request is idle, and may stay so. That
requests do not wait for each other for ever is what `EveryRequestEnds`, `RequestsEnd` and
`CreatesNeverDeadlock` say.

**What is not asked, and why.** `ImplementsLedger` is not claimed for concurrent
*updates*: an update decides which vehicles to recompute from the row it loaded before its
first lock, and two updates of one sale can leave a vehicle `reservado` with no sale.
Nothing in the repository says otherwise, so it is a hazard and not a run. `LeavesNoOrphan`
is about the files of a request's own: an upload that commits between the listing of the
attachments of a parent and its DELETE is removed by the cascade in the database, and no
listener sees its file; two uploads of a logo that read the same old url leave one of the
new files. That a sale is closed in the state that made it eligible is not claimed: it may
be edited between its loading and the commit, and nothing locks it. `CashMirrors` leaves
out vehicles on which requests overlapped. No liveness is claimed of the sessions, purchases,
accounts or the restore: they wait for the database only, and how such a wait ends is WebServer's subject.

### Further instances

These configurations ask what the runs leave out. TLC passes the first and answers the
others with a counterexample.

| cfg, module | shows |
|---|---|
| `sales_serial`, MCVehicleSales | one request at a time, all operations, a trade-in and an override: each is exactly one step of the ledger, and `OverrideIsKept` |
| `stale_override`, MCVehicleSales | a delete replaces an override committed after it loaded the vehicle |
| `purchase_files`, MCRequestSession | a purchase whose delete is refused has lost its vouchers |
| `conflict_answer`, MCRequestSession | a conflict answered 409 by the handler reaches the client as 500 |
| `closing_shares`, MCSaleClosing | shares of 99.9975% pass, and their parts do not add up |
| `purchase_moves`, MCStockEntries | the cash row of the vehicle a purchase left is not brought up to date |
| `untested_verified`, MCRsdClients | a credential shown as verified that no test accepted |
| `healthy`, MCDatabaseAccess | `/health` answers 200 while every other request fails |
| `unfinished_done`, MCAgentRuns | an unfinished issue marked Done |
| `jobs_skipped`, MCAgentRuns | a job taken for another one of its name |
| `lost_question`, MCAgentRuns | a worker's question acknowledged unread |

## 4. What is proved

The proofs hold for any set of vehicles, sales, requests, files, accounts, calls and
processes, any choice of operations and faults, and without the bounds of the instances
where these are parameters. They use the named assumptions of the modules only.

**VehicleSalesProofs**

- `TypeCorrect`: `Spec => [](TypeOK /\ PhaseOK)`. `PhaseOK` says what a request
  carries in each phase; types alone are not inductive, since `Recompute` indexes
  the plan and `Write` needs a row.
- `Locking`: `Spec => []WritesAreLocked`: row locks are exclusive, and an uncommitted
  status belongs to a vehicle its writer holds.
- `OneConcluded`: `Spec => []UniqueConcluded`. Committed rows do not clash, but
  this is not inductive: a commit publishes a row checked earlier. `PendingUnique`
  adds that an uncommitted row clashes with no committed row of another sale and
  with no other uncommitted row. A write keeps it, because it waits for the writers
  its row clashes with and fails on a committed clash. A commit keeps it, because no
  two requests hold one sale (`WritesAreLocked`).
- `RefinesLedger`, `AvailableIsSold`: `Spec => ImplementsLedger` and
  `Spec => OnlyAvailableIsSold` for creates and deletes of sales without a trade-in
  (`MarketOnly`, which `sales_market` satisfies), any number of them at once. A commit is
  `Create` or `Delete` of the ledger, or nothing when a sale is deleted twice; every other
  step stutters. The invariant `Market` has three parts about the tables: `Agree`, each
  status is the one the rule gives; `OneBusy`, a vehicle has one pending or concluded sale;
  `NoTradeIn`. `Creating` and `Deleting` say of an open request what its commit will need: it
  touches one vehicle, which it holds, and the status that vehicle will have is the one the
  table with its row gives. Another commit keeps this, because the rule reads the rows of
  one vehicle (`RuleFrame`) and the other request holds a different one. A delete compares
  with a status loaded long before, which may be stale: `Deleting` says that it is never
  the status the delete has to write and does not (`MarketRecompute`). With updates or
  trade-ins `Agree` is not an invariant.

**RequestSessionProofs**

- `SessionTypes`: `Spec => [](TypeOK /\ Phases)`.
- `RowsKeepTheirFiles`: `Spec => RowKeepsFile`, whatever fails and whenever the process
  dies; `FilesAreKept` is its consequence where no operation unlinks before its commit:
  every committed attachment has its file. The invariant is `FilesOwned`: a file a
  rollback will remove has no row yet and belongs to one session; a file a commit will
  remove was listed for a parent whose delete is flushed, and has no row once the
  callbacks run; no file is in both.
- `FailuresLeaveNoOrphan`: `Spec => LeavesNoOrphan`: what a session is about to insert or has
  inserted is in its list of files to remove on a rollback.
- `ErrorsPublishNothing`: `Spec => ErrorPublishesNothing`.

**SaleClosingProofs**

- `ClosingTypes`, `CashMirrorsClosings`, `ClosingHasSale`, `ClosingIsFinal`, from one
  invariant. It adds `Fases`, what a request
  carries in each phase, and `InsercaoUnica`: the sale of an inserted and uncommitted
  closing is there, has no committed closing, and no other insertion. Without it a
  commit could append a second set of entries.
- `ClosingIsFair`: `DuasCasas` implies `Spec => []RateioJusto`, for any number of shares
  and of requests. `DuasCasas` says that every percentage asked for has two decimals, as
  percentages are kept; without it the property is false (`closing_shares`). The invariant
  `Contas` says that each committed closing is `ParticipacoesDe` of accepted shares and of the
  profit of its own revenue, cost and debts, and follows these from the request to the commit.
  The rest is arithmetic. `SharesAddUp`: the parts of accepted shares with two decimals add
  up to the profit. The percentages are 100% exactly (`PercentualExato`). So the rests add up to
  100% of the cents left over, which are therefore no fewer than none and no more than
  the shares (`RestantesContados`): a negative slice does not occur. The
  place of a share in the order by rest is a number of its own (an injection of the shares
  into as many places), so exactly that many shares get a cent (`PremiadosContados`).
  `SharesAreTheProfit` states it of every closing: `DuasCasas` implies
  `Spec => []PartesSomamLucro`.
- `LargestRests`: for any accepted or refused shares and any profit, each part is the exact
  one rounded to a cent next to it, and no share is rounded up before one with a larger rest.
- The sums are folds (`SumFunction`). A fold is a function on the subsets of its domain that a
  CHOOSE picks by an equation; `ExisteSoma` shows that there is one, level by level of their size, and
  `SubsetInduction` (from the least number, `Least`) takes the place of the library's
  induction. `SomaLinear`, `SomaLimitada`, `SomaConta` and `SomaDeSequencia` are what follows:
  a linear relation of the terms, a bound, a count, and the head of a sequence.

**DatabaseProofs**

- `LimiterTypes`, `WindowsAreBounded`, `OnlySpentRefuses`. The count of the row *is* the
  history of its window (`hits`), as long as no row is lost within a window: the clean-up
  removes only rows that no call that is still asking could count in (`Recent`: no call is
  older than a tick, and no row was last hit earlier than a tick before its window began).
  `Knows` says what a call has seen by the time it is refused.
- `AccessTypes`, `RestoresAlone`, `BackupIsCurrent`. `Holds` says which places of a request
  imply which hold on the lock file; the exclusive holder is then alone, except for what takes no
  lock (`Unguarded`): the limiter, jobs, another restore that reads its user, and a session
  left open. `Saved` says that between its backup and its replacement a restore finds the primary
  as it saved it, or a job wrote (`CommitKeeps`) or the limiter counted (`LimitedKeeps`), and
  `since` says which. That the exceptions are reached is checked with TLC: without any one of them
  the run fails.

**AccountsProofs**

- `AccountTypes`, `RevokedForGood`, `DroppedIsNobodys`, from one invariant. `Counted`: the
  version of a row counts the changes that ended tokens, an uncommitted row is ahead of it
  by what its request ends, and a token is from no later than the version it carries.
  `Holding`: a profile given by an uncommitted row exists, and its deletion waits for that
  row; nobody has, or is about to be given, a profile whose deletion is about to commit.

**StockEntriesProofs**

- `StockTypes`, `OneFormOneEntry`, `EntriesHaveVehicle`, `CreatedWhole`, from one invariant.
  `Carries` says what a request carries at each place, and `RowLocks` that no two hold
  one entry or vehicle. `OneKey`: no two entries have one key in any version, committed or only
  written; the wait for a unique entry keeps it, and an update never changes a key.
  `Pinned` and `Dropped` are the two sides of a foreign key: whoever wrote a
  reference still sees its vehicle, and a deleted vehicle is referred to by nobody,
  the uncommitted rows of others included. `Backed`: a client or vehicle that was
  written is a nested one of a creation, or was there, or comes with its cash row.
- `CreatesInOrder`: `Spec => []CreatesNeverDeadlock`. A request that only creates asks for
  its rows in the order investor, client, vehicle, entry, cash row (`Rung`), and `Ladder` says
  that it has written none of those it has yet to ask for. So whom it waits for is on a higher
  rung (`WaitsUpwards`), and a circle of them would have no highest one. That a consignment
  asks for the investor before the client, and both before the vehicle, is what it rests on.
- `CashIsMirror`: `Spec => []CashMirrors`, with the invariant `Cash` beside that of the types.
  The hard part is what a request knows when it writes the cash row from what it read
  before. `Known` says it for a request that has been alone on its vehicles (`lone`): the entry it changes is
  committed as it loaded it, the vehicle it computed with is the one a commit leaves, and
  the row it is about to write mirrors the committed rows with its own over them; what it
  wrote without computing changes no purchase. A
  step of another request keeps this, since two lone requests are on different
  vehicles (`LoneApart`) and any other one takes `lone` away. At the commit the vehicle of a
  lone request is then up to date, and those of any other are in `drift`. `Held` and `CashLocks`
  say which rows a request may have written at each place, and that one at a time writes a
  cash row. `Bounded`: ids and days of the committed entries are bounded, so there is a latest purchase.
- `CashHasItsVehicle`: `Spec => []CashHasVehicle`, a part of `Cash` that no run asks: the
  row a delete takes along is not written again by a request that waited for it.
- Assumed of the constants: vehicles, clients, cash rows and entries have different names.

**AgentRunsProofs**

- `IssueTypes`, `VerdictIsNotLost`, `WorkIsNotLost`, `ClosedHasWork`, from one invariant.
  `LettersTrue`: a letter is of an attempt that exists, and one that reports the last
  attempt at an issue says what its agent said. `TriesCount`: an issue the run has yet to take has
  no attempt of this run, so no older letter is taken for the new attempt's. `RunnerKnows`
  says what each place of the runner implies about the agent of its issue: from `merge`
  on the agent has ended with success, from `reset` on with failure; nothing an agent
  does in its worktree comes after that. `AgentsWork`: a success was sent off with nothing pending.
- `AgentTypes`, `NoJobIsSkipped`, for a list whose names differ (`ListIsGood`; the lists of
  the generator are such, merged ones need not be, see `jobs_skipped`).
  `JobsHadWorkers`: what was passed, and what the run or the state file takes for
  done, has had a worker.

**RsdClientsProofs**

- `RsdTypes`, `CacheHandsOut`, `ClientsAreClosed`, `CallsGoOn`, `VerifiedIsProven`, from one
  invariant, for any number of threads and client objects and any size of the cache. None of
  the four is inductive. `Carries` says what a request has at each place: a client from the
  cache on, clients to close only until they are closed. `CacheSound` is `CacheIsUsable` while the
  cache is locked too. `Referenced`: a client that a request works with is in the cache or
  retired, one it will close is retired and no longer there; so a client object that is made
  again is one nobody refers to. `Locked`: the lock of a client is held by a request that is in a call
  with that very client; since `_retire` and `close` take the lock, nobody else
  retires or closes it. `Entitled` follows the right to write "verified" from the answer of a test, through
  the proof and the row as loaded, to the commit: a flush merges columns into a row that may
  have changed since it was loaded, and only then (`raced`) may the status and the credential
  be from two requests (`UpdatesKeep`).

TLAPS does not reach liveness under fairness: `EveryRequestEnds`, `RequestsEnd`, `RunEnds`
and `VerdictIsHeard` are model-checked only. Every safety property of a passing run is a theorem,
of the types too.

## 5. Disagreements found

The run `swap_with_trade_in` and an entry under "findings" with the line it contradicts:

- An update that exchanges the sold vehicle and the trade-in
  recomputes the sold vehicle a second time, as the previous trade-in, without the
  sale itself (`venda/status_veiculo.py:88`). A pending sale is left on a `disponivel`
  vehicle, against "sold > reserved > available" (line 51).

The further instances show these, each with the place it contradicts or bears on:

- `stale_override`: a delete that loaded a sale and its vehicle before a manual
  override was committed recomputes from the old status, and replaces the override, which
  `venda/status_veiculo.py:53` says synchronization never does.
- `purchase_files`: the route of the purchases unlinks vouchers before the DELETE,
  and its after-delete hook may fail; the rows come back and the files do not
  (`tests/test_uploads.py:346` asks that they stay).
- `conflict_answer`: a JSON write that conflicts raises `HTTPException(409)` without
  a rollback. The middleware sees no exception, commits an inactive transaction and
  fails: the client gets 500. `docs/agents/transactions-rollbacks.md:19` says that a
  rollback in the handler is not needed.
- `closing_shares`: the total of the percentages is rounded to two decimals before it
  is compared with 100 (`fechamento_venda/core.py:441`). Percentages with more decimals
  pass, through the JSON route, although they make 99.9975% or 100.0025%; as one cent per
  share is all that is handed out, the parts do not add up to the profit.
- `purchase_moves`: a purchase moved to another vehicle leaves the cash row of the vehicle
  it left, and a vehicle created within a purchase form has none.
- `untested_verified`: of two updates of the credential that overlap, a test that passed
  and a save of another credential, the row keeps the credential of one and the status
  of the other; `rsd/core.py:662` says the last test is updated only when it is that of the
  active configuration.
- `healthy`: the limiter stays bound to the engine it was first given. While the primary is down
  every request but `/health` fails in it, and `/health` answers 200 from the fallback.
- `unfinished_done`: an attempt that ends with its worktree gone and its branch kept is
  taken for finished work by the next run, which marks the issue Done; the comment at
  `process_issue.py:448` says an unfinished issue never is.
- `jobs_skipped`: two workflow files with a job of one name are loaded as they are, although
  the docstring at `run_jobs.py:214` says names are made unique.
- `lost_question`: the harness says that a question typically has the task id only and may lack
  the dispatch id (`orchestration-harness.md:39`); `run_jobs.py` wants both, and acknowledges the rest unread.

Modelling also showed, without a run: a consignment deleted takes the cash row of its
vehicle with it, which no audit row records; the JSON routes of purchases and consignments
leave the status of the vehicle alone; two consignments that create the placeholder owner at
once fail with 500, as do two accounts created with one name; a double submit with a nested vehicle may be
answered 409 although the first succeeded; what is written while the fallback is active
stays there; a worker that asks and is given up, and later reports, is not heard; a merge
conflict left in the master worktree fails all later merges; a failed write of the dispatcher's state is silent;
a route that detaches and then renders a page (export, import, test of the portal) leaves a transaction
open until the session is collected, which `pg_restore` may wait for until its timeout; a pull that
is refused hangs the process when the credential was just saved.

## 6. Assumptions and limits

Of libraries and services, modelled from how the code uses them:

- SQLAlchemy: a failed flush rolls the transaction back and fires `after_rollback`
  (post-rollback callbacks run, post-commit ones are dropped); a later commit raises;
  a failed commit rolls back. A DELETE of a row already deleted is a warning. The
  sessions have `autoflush=False` and `expire_on_commit=False`. `refresh` reloads
  the vehicles of a sale. The engine keeps the default pool, which blocks and then times out.
- PostgreSQL: READ COMMITTED, exclusive row locks, `KEY SHARE` locks of foreign keys, unique
  index entries that make a conflicting writer wait, deadlock detection.
- `flock` is fair to nobody and released when its holder ends.
- orca: a delivery is the unread messages of a terminal, and is repeated until
  acknowledged. A worktree removed with `--force` takes a branch without commits with it.

Abstractions:

- *Sales*: the queries of one recomputation read one snapshot. `KEY SHARE` locks are left
  out; a vehicle a sale refers to is never deleted (`ON DELETE RESTRICT`). An update that
  changes no column is left out. A purchase's status edit locks the vehicle and reads
  its status in one step.
- *Files*: `salvar_arquivos` removes its files itself before the rollback does the same; the
  model has the one removal. The settings row exists (the first visit inserts it).
- *Closings*: one number for the cost of a vehicle and one owner of the vehicles; the edit
  of a sale that moves it to another vehicle is a change of the cost. Investors are not
  deleted. TLC computes with 32 bits: `Cem` times a profit stays below 2^31.
- *Web*: no fallback database, no contract threads, no restore.
- *Purchases*: the status column is in VehicleSales, vouchers in RequestSession. The nested client and
  trade-in of a sale use the same functions, and are left out here. Clients and investors are not deleted.
- *Database*: a process that dies in a restore leaves `pg_restore` running without the
  lock; that is not modelled. A job takes the slot of a request.
- *Limiter*: one bucket; buckets share nothing but the clean-up. No call lasts longer than a window.
- *Accounts*: a deletion of a profile takes it from the accounts in the order of their ids.
- *rsd*: every failed answer of the portal is one of four: down, credentials refused,
  session retired, or a lost session that is logged in again. The cache is per process.
- *Agents*: that two scripts start at once and both take the lock file is left out, and two
  scripts on one terminal. Lists that fail their validation do not start.
- Audit rows, and requests that only read, are left out.

## 7. Not modelled, and what is left

Not modelled, because they keep no state that others change: reports, listing, rendering,
formatting and parsing, permissions of pages and uploads, audit rows, best-effort
notifications, schema scripts, the income statement. Not modelled, because it is out of reach or
would add little: the limiter in memory, whose races are between single bytecodes; page
layout of the portal; PDF and dump formats; the prompts of the agents; worktree modes of jobs.

Left to do: a restore whose process dies; the edit of a profile.
