------------------------------ MODULE WebServer ------------------------------
(***************************************************************************)
(* Where the requests run: one event loop, a pool of worker threads, a     *)
(* pool of database connections and the row locks of the vehicles.         *)
(*                                                                         *)
(* A handler written with def runs in a worker thread; one written with    *)
(* async def runs on the event loop and, as every query is synchronous,    *)
(* keeps the loop until it returns.  The middleware that commits runs on   *)
(* the loop in both cases (bases/xtreme_system/api/setup.py).              *)
(***************************************************************************)
EXTENDS Naturals, Sequences, FiniteSets

CONSTANTS
  Requests,      \* requests that may be open at the same time
  Vehicles,      \* vehicles, each with one row lock
  Workers,       \* threads of the worker pool
  Connections,   \* connections of the database pool, overflow included
  WorkerPlans,   \* vehicles a def handler locks, in order
  AsyncPlans     \* vehicles an async def handler locks, in order

ASSUME ServerAssumption ==
  /\ Workers \in Nat \ {0} /\ Connections \in Nat \ {0}
  /\ WorkerPlans \subseteq Seq(Vehicles) /\ AsyncPlans \subseteq Seq(Vehicles)

VARIABLES
  pc,     \* where each request is
  kind,   \* how its handler is written
  todo,   \* vehicles it has still to lock
  held    \* vehicles it has locked

vars == <<pc, kind, todo, held>>

\* queued: the dependencies wait for a thread; auth: they run, and wait for a
\* connection; ready: the handler waits for its thread or for the loop; done:
\* it has returned, and its transaction is open; failed: it has no connection.
PCs == {"idle", "queued", "auth", "ready", "running", "done", "failed"}

Init ==
  /\ pc = [r \in Requests |-> "idle"]
  /\ kind = [r \in Requests |-> "worker"]
  /\ todo = [r \in Requests |-> <<>>]
  /\ held = [r \in Requests |-> {}]

-----------------------------------------------------------------------------
OnLoop(r) == kind[r] = "async" /\ pc[r] = "running"

LoopFree == \A r \in Requests : ~OnLoop(r)

InThread == {r \in Requests : pc[r] = "auth" \/ (pc[r] = "running" /\ kind[r] = "worker")}

Connected == {r \in Requests : pc[r] \in {"ready", "running", "done"}}

ThreadFree == Cardinality(InThread) < Workers

ConnectionFree == Cardinality(Connected) < Connections

Waiting(r) == pc[r] = "running" /\ todo[r] # <<>>

WaitsFor(r) == {q \in Requests \ {r} : Waiting(r) /\ Head(todo[r]) \in held[q]}

-----------------------------------------------------------------------------
\* The middlewares bind a session; nothing is asked of the database yet.
Arrive(r) ==
  /\ pc[r] = "idle" /\ LoopFree
  /\ \/ WorkerPlans # {} /\ kind' = [kind EXCEPT ![r] = "worker"]
     \/ AsyncPlans # {} /\ kind' = [kind EXCEPT ![r] = "async"]
  /\ pc' = [pc EXCEPT ![r] = "queued"]
  /\ UNCHANGED <<todo, held>>

\* The user is looked up by a def dependency, whatever the handler is.
StartAuth(r) ==
  /\ pc[r] = "queued" /\ LoopFree /\ ThreadFree
  /\ pc' = [pc EXCEPT ![r] = "auth"]
  /\ UNCHANGED <<kind, todo, held>>

\* Its query checks a connection out, which the session keeps until the end.
Connect(r) ==
  /\ pc[r] = "auth" /\ ConnectionFree
  /\ pc' = [pc EXCEPT ![r] = "ready"]
  /\ UNCHANGED <<kind, todo, held>>

\* No connection within pool_timeout: the dependency raises.
PoolTimeout(r) ==
  /\ pc[r] = "auth" /\ ~ConnectionFree
  /\ pc' = [pc EXCEPT ![r] = "failed"]
  /\ UNCHANGED <<kind, todo, held>>

\* Mutant: the handlers on the loop lock vehicles too.
StartLocksOnLoop(r) ==
  /\ pc[r] = "ready" /\ LoopFree
  /\ kind[r] = "worker" => ThreadFree
  /\ \E plan \in WorkerPlans : todo' = [todo EXCEPT ![r] = plan]
  /\ pc' = [pc EXCEPT ![r] = "running"]
  /\ UNCHANGED <<kind, held>>

\* The handler starts in a thread, or on the loop.
Start(r) ==
  /\ pc[r] = "ready" /\ LoopFree
  /\ kind[r] = "worker" => ThreadFree
  /\ \E plan \in IF kind[r] = "worker" THEN WorkerPlans ELSE AsyncPlans :
       todo' = [todo EXCEPT ![r] = plan]
  /\ pc' = [pc EXCEPT ![r] = "running"]
  /\ UNCHANGED <<kind, held>>

\* SELECT ... FOR UPDATE of the next vehicle.
Lock(r) ==
  /\ Waiting(r) /\ WaitsFor(r) = {}
  /\ held' = [held EXCEPT ![r] = @ \cup {Head(todo[r])}]
  /\ todo' = [todo EXCEPT ![r] = Tail(@)]
  /\ UNCHANGED <<pc, kind>>

\* The handler returns, or raises before its next lock.
HandlerEnds(r) ==
  /\ pc[r] = "running" /\ WaitsFor(r) = {}
  /\ pc' = [pc EXCEPT ![r] = "done"]
  /\ todo' = [todo EXCEPT ![r] = <<>>]
  /\ UNCHANGED <<kind, held>>

\* The database aborts one transaction of a cycle, and frees its locks.
DeadlockVictim(r) ==
  /\ \E cycle \in SUBSET Requests :
       r \in cycle /\ \A q \in cycle : WaitsFor(q) \cap cycle # {}
  /\ pc' = [pc EXCEPT ![r] = "done"]
  /\ todo' = [todo EXCEPT ![r] = <<>>]
  /\ held' = [held EXCEPT ![r] = {}]
  /\ UNCHANGED kind

\* finish_request_session, on the event loop.
Finish(r) ==
  /\ pc[r] \in {"done", "failed"} /\ LoopFree
  /\ pc' = [pc EXCEPT ![r] = "idle"]
  /\ held' = [held EXCEPT ![r] = {}]
  /\ kind' = [kind EXCEPT ![r] = "worker"]
  /\ UNCHANGED todo

-----------------------------------------------------------------------------
Advance(r) ==
  \/ StartAuth(r) \/ Connect(r) \/ PoolTimeout(r) \/ Start(r) \/ Lock(r)
  \/ HandlerEnds(r) \/ DeadlockVictim(r) \/ Finish(r)

Next == \E r \in Requests : Arrive(r) \/ Advance(r)

Spec == Init /\ [][Next]_vars

\* The ready queue of the loop, the limiter of the threads, the connection
\* pool and the lock queues of the database all serve their waiters in order,
\* so a request that can go on again and again does go on.
Fairness == \A r \in Requests : SF_vars(Advance(r))

FairSpec == Spec /\ Fairness

-----------------------------------------------------------------------------
(* Properties.                                                             *)

\* Types, and the limits of the two pools.
TypeOK ==
  /\ pc \in [Requests -> PCs]
  /\ kind \in [Requests -> {"worker", "async"}]
  /\ todo \in [Requests -> Seq(Vehicles)]
  /\ held \in [Requests -> SUBSET Vehicles]
  /\ Cardinality(InThread) <= Workers
  /\ Cardinality(Connected) <= Connections

\* Every request is answered: threads that wait for a connection, handlers
\* that wait for a thread and transactions that wait for each other's row
\* locks are always freed in the end.
EveryRequestEnds == \A r \in Requests : pc[r] # "idle" ~> pc[r] = "idle"

=============================================================================
