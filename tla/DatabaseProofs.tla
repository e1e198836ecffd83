----------------------------- MODULE DatabaseProofs -----------------------------
(***************************************************************************)
(* Theorems about the two things requests meet in database/ before their   *)
(* own session: the limiter (RateLimiter) and the choice of a database     *)
(* with its exports and restores (DatabaseAccess).  They share no state.   *)
(*                                                                         *)
(* For any number of calls and processes, any limit and any window:        *)
(*   LimiterTypes        the type invariant                                *)
(*   WindowsAreBounded   no window lets more than Limit calls through      *)
(*   OnlySpentRefuses    one lost race is no reason to refuse a call       *)
(* For any number of requests, processes and outages, any mix of kinds:    *)
(*   AccessTypes         the type invariant                                *)
(*   RestoresAlone       nothing that takes the lock runs beside a restore *)
(*   BackupIsCurrent     what a restore replaces is in its backup, but for *)
(*                       a contract job's writes and the limiter's counts  *)
(***************************************************************************)
EXTENDS RateLimiter, DatabaseAccess, TLAPS

(***************************************************************************)
(* The limiter.                                                            *)
(***************************************************************************)
Asking(c) == call[c].at \in Statements

\* No call is older than a tick, and so a row's last hit is at most a tick
\* older than its window.
Recent ==
  /\ \A c \in Calls : Asking(c) => Now(c) \in {clock - 1, clock}
  /\ row # Nothing => row.start <= clock /\ row.start <= row.updated + 1

\* The row counts what it let through.
Counts ==
  /\ row # Nothing => hits = row.count
  /\ row = Nothing => hits = 0

\* What a call that found no limit spent knows of the row, unless it has lost a
\* race since: why its next statement fails only after one more.
Knows(c) ==
  LET k == call[c] IN
  /\ At(c, "cleanup") => k.try = 1
  /\ At(c, "reset") /\ k.try = 1 => ~Current(Now(c)) \/ k.lost >= 1
  /\ At(c, "insert") /\ k.try = 1 => row = Nothing \/ k.lost >= 1
  /\ At(c, "increment") /\ k.try # 1 => k.lost >= 1 /\ (row # Nothing \/ k.lost = 2)
  /\ At(c, "reset") /\ k.try # 1 => k.lost >= 1 /\ (Over(Now(c)) \/ k.lost = 2)
  /\ At(c, "insert") /\ k.try # 1 => k.lost = 2
  /\ At(c, "select") => k.lost = 2
  /\ At(c, "refused") => k.lost = 2

Informed == \A c \in Calls : call[c].full \/ Knows(c)

LimiterInv == TypeLimiter /\ Recent /\ Counts

CallPlaces == Statements \cup {"out", "allowed", "refused"}
CallTypes == [at: CallPlaces, now: Times, try: 0..2, full: BOOLEAN, lost: 0..2]

LEMMA NothingIsNoRow == Nothing \notin Rows
<1>1. Rows \subseteq [start: Nat, count: Nat, updated: Nat]
  BY LimiterAssumption DEF Rows, Times
<1> QED BY <1>1, LimiterAssumption

LEMMA RowType ==
  ASSUME TypeLimiter, row # Nothing
  PROVE  /\ row.start \in Nat /\ row.updated \in Nat /\ row.count \in 1..Limit
         /\ row \in Rows
BY LimiterAssumption DEF TypeLimiter, Rows, Times

\* Raced only adds to the races lost.
LEMMA RacedType ==
  ASSUME NEW calls \in [Calls -> CallTypes], NEW c \in Calls \cup {Nothing}
  PROVE  /\ Raced(calls, c) \in [Calls -> CallTypes]
         /\ \A x \in Calls :
              /\ Raced(calls, c)[x].at = calls[x].at
              /\ Raced(calls, c)[x].now = calls[x].now
              /\ Raced(calls, c)[x].try = calls[x].try
              /\ Raced(calls, c)[x].full = calls[x].full
              /\ Raced(calls, c)[x].lost >= calls[x].lost
              /\ x # c /\ calls[x].at \in Statements =>
                   Raced(calls, c)[x].lost = 2 \/ Raced(calls, c)[x].lost = calls[x].lost + 1
<1>1. ASSUME NEW x \in Calls
      PROVE  LET k == Raced(calls, c)[x] IN
             /\ k \in CallTypes
             /\ k.at = calls[x].at /\ k.now = calls[x].now /\ k.try = calls[x].try
             /\ k.full = calls[x].full /\ k.lost >= calls[x].lost
             /\ x # c /\ calls[x].at \in Statements => k.lost = 2 \/ k.lost = calls[x].lost + 1
  BY DEF Raced, CallTypes
<1> QED BY <1>1 DEF Raced

-----------------------------------------------------------------------------
(* Types, and what the row counts. *)

\* A step of one call that leaves the row alone.
LEMMA CallStep ==
  ASSUME LimiterInv, NEW c \in Calls, NEW k \in CallTypes,
         k.at \in Statements => k.now \in {clock - 1, clock},
         call' = [call EXCEPT ![c] = k],
         last' \in [Processes -> Times \cup {Nothing}],
         UNCHANGED <<clock, row, hits, resets>>
  PROVE  LimiterInv'
<1>1. call \in [Calls -> CallTypes]
  BY DEF LimiterInv, TypeLimiter, CallTypes, CallPlaces
<1>2. call' \in [Calls -> CallTypes]
  BY <1>1
<1>3. TypeLimiter'
  BY <1>2 DEF LimiterInv, TypeLimiter, CallTypes, CallPlaces
<1>4. ASSUME NEW x \in Calls, Asking(x)' PROVE Now(x)' \in {clock - 1, clock}
  <2>1. CASE x = c
    BY <1>1, <1>4, <2>1 DEF Asking, Now
  <2>2. CASE x # c
    BY <1>1, <1>4, <2>2 DEF LimiterInv, Recent, Asking, Now
  <2> QED BY <2>1, <2>2
<1>5. Recent'
  BY <1>4 DEF LimiterInv, Recent
<1>6. Counts'
  BY DEF LimiterInv, Counts
<1> QED BY <1>3, <1>5, <1>6 DEF LimiterInv

\* A statement that lets its call through.
LEMMA AllowedStep ==
  ASSUME LimiterInv, NEW c \in Calls, Asking(c), Allowed(c),
         row' \in Rows, row'.start <= clock, row'.start <= row'.updated + 1,
         hits' = row'.count,
         last' \in [Processes -> Times \cup {Nothing}],
         UNCHANGED <<clock, resets>>
  PROVE  LimiterInv'
<1> DEFINE mine == [call EXCEPT ![c].at = "allowed"]
<1>1. call \in [Calls -> CallTypes]
  BY DEF LimiterInv, TypeLimiter, CallTypes, CallPlaces
<1>2. /\ mine \in [Calls -> CallTypes]
      /\ \A x \in Calls : mine[x].at \in Statements => mine[x] = call[x]
  <2>1. [call[c] EXCEPT !.at = "allowed"] \in CallTypes
    BY <1>1 DEF CallTypes, CallPlaces
  <2>2. [call[c] EXCEPT !.at = "allowed"].at \notin Statements
    BY <1>1 DEF CallTypes, Statements
  <2> QED BY <1>1, <2>1, <2>2
<1>3. call' = Raced(mine, c)
  BY DEF Allowed
<1>4. /\ call' \in [Calls -> CallTypes]
      /\ \A x \in Calls : call'[x].at = mine[x].at /\ call'[x].now = mine[x].now
  <2> HIDE DEF mine
  <2> QED BY <1>2, <1>3, RacedType
<1>5. row' # Nothing /\ row'.count \in 1..Limit /\ hits' \in Nat
  <2>1. row' # Nothing
    BY NothingIsNoRow
  <2>2. row'.count \in 1..Limit
    BY DEF Rows
  <2> QED BY <2>1, <2>2, LimiterAssumption
<1>6. TypeLimiter'
  BY <1>4, <1>5 DEF LimiterInv, TypeLimiter, CallTypes, CallPlaces
<1>7. ASSUME NEW x \in Calls, Asking(x)' PROVE Now(x)' \in {clock - 1, clock}
  <2>1. mine[x].at \in Statements /\ call'[x].now = mine[x].now
    BY <1>4, <1>7 DEF Asking
  <2>2. mine[x] = call[x]
    BY <1>2, <2>1
  <2> QED BY <2>1, <2>2 DEF LimiterInv, Recent, Asking, Now
<1>8. Recent' /\ Counts'
  BY <1>5, <1>7 DEF Recent, Counts
<1> QED BY <1>6, <1>8 DEF LimiterInv

\* The statements of one call, one after another.
LEMMA CleanupKeeps ==
  ASSUME LimiterInv, NEW c \in Calls, Cleanup(c)
  PROVE  LimiterInv'
<1>1. /\ call[c] \in CallTypes /\ Asking(c) /\ Now(c) \in Times
      /\ Now(c) \in {clock - 1, clock} /\ clock \in Nat
  BY LimiterAssumption
  DEF LimiterInv, TypeLimiter, Recent, Cleanup, At, Asking, Now, Statements, Times, CallTypes, CallPlaces
<1>2. last' \in [Processes -> Times \cup {Nothing}]
  BY <1>1, LimiterAssumption DEF LimiterInv, TypeLimiter, Cleanup
<1>3. CASE CleanupIsDue(c) /\ Stale(Now(c))
  <2>1. row' = Opened(Now(c)) /\ Counted(c) /\ Allowed(c) /\ UNCHANGED <<clock, resets>>
    BY <1>3 DEF Cleanup
  \* The row was old: its window cannot be the call's.
  <2>2. ~Current(Now(c))
    BY <1>1, <1>3, RowType, LimiterAssumption DEF LimiterInv, Recent, Stale, Current
  <2>3. hits' = 1
    BY <2>1, <2>2 DEF Counted
  <2>4. row' \in Rows /\ row'.start <= clock /\ row'.start <= row'.updated + 1
        /\ row'.count = 1
    BY <1>1, <2>1, LimiterAssumption DEF Opened, Rows, Times
  <2> QED BY <1>1, <1>2, <2>1, <2>3, <2>4, AllowedStep
<1>4. CASE ~(CleanupIsDue(c) /\ Stale(Now(c)))
  <2> DEFINE k == [call[c] EXCEPT !.at = "increment"]
  <2>1. call' = [call EXCEPT ![c] = k] /\ UNCHANGED <<clock, row, hits, resets>>
    BY <1>4 DEF Cleanup, Goto
  <2>2. k \in CallTypes /\ k.now = Now(c)
    BY <1>1 DEF CallTypes, CallPlaces, Statements, Now
  <2> QED BY <1>1, <1>2, <2>1, <2>2, CallStep
<1> QED BY <1>3, <1>4

LEMMA IncrementKeeps ==
  ASSUME LimiterInv, NEW c \in Calls, Increment(c)
  PROVE  LimiterInv'
<1>1. /\ call[c] \in CallTypes /\ Asking(c) /\ Now(c) \in Times
      /\ Now(c) \in {clock - 1, clock} /\ clock \in Nat
  BY LimiterAssumption
  DEF LimiterInv, TypeLimiter, Recent, Increment, At, Asking, Now, Statements, Times, CallTypes, CallPlaces
<1>2. last' \in [Processes -> Times \cup {Nothing}] /\ UNCHANGED <<clock, resets>>
  BY DEF LimiterInv, TypeLimiter, Increment
<1>3. CASE Current(Now(c)) /\ row.count < Limit
  <2>1. /\ row' = [row EXCEPT !.count = @ + 1, !.updated = Now(c)]
        /\ Counted(c) /\ Allowed(c) /\ row # Nothing
    BY <1>3 DEF Increment, Current
  <2>2. row \in Rows /\ row.start <= clock /\ hits = row.count
    BY <2>1, RowType DEF LimiterInv, Recent, Counts
  <2>3. hits' = hits + 1
    BY <1>3, <2>1 DEF Counted
  <2>4. /\ row'.start = row.start /\ row'.count = row.count + 1 /\ row'.updated = Now(c)
        /\ row' = [start |-> row.start, count |-> row.count + 1, updated |-> Now(c)]
    BY <2>1, <2>2 DEF Rows
  <2>5. row.count + 1 \in 1..Limit /\ row.start \in Times /\ row.start \in Nat
    BY <1>3, <2>2, LimiterAssumption DEF Rows, Times
  <2>6. row' \in Rows
    BY <1>1, <2>4, <2>5 DEF Rows
  <2>7. row'.start <= clock /\ row'.start <= row'.updated + 1 /\ hits' = row'.count
    BY <1>1, <2>2, <2>3, <2>4, <2>5
  <2> QED BY <1>1, <1>2, <2>1, <2>6, <2>7, AllowedStep
<1>4. CASE ~(Current(Now(c)) /\ row.count < Limit)
  <2> DEFINE k == [call[c] EXCEPT !.at = "reset", !.full = @ \/ Current(Now(c))]
  <2>1. call' = [call EXCEPT ![c] = k] /\ UNCHANGED <<row, hits>>
    BY <1>4 DEF Increment
  <2>2. k \in CallTypes /\ k.now = Now(c)
    <3>1. Current(Now(c)) \in BOOLEAN
      BY DEF Current
    <3> QED BY <1>1, <3>1 DEF CallTypes, CallPlaces, Statements, Now
  <2> QED BY <1>1, <1>2, <2>1, <2>2, CallStep
<1> QED BY <1>3, <1>4

\* A reset or an insert opens a window of its own: no hit of a running window
\* is forgotten.
LEMMA OpensKeeps ==
  ASSUME LimiterInv, NEW c \in Calls, Asking(c), ~Current(Now(c)),
         row' = Opened(Now(c)), Counted(c), Allowed(c),
         UNCHANGED <<clock, last, resets>>
  PROVE  LimiterInv'
<1>1. Now(c) \in Times /\ Now(c) \in {clock - 1, clock} /\ clock \in Nat
  BY LimiterAssumption
  DEF LimiterInv, TypeLimiter, Recent, Asking, Now, Statements, Times
<1>2. hits' = 1
  BY DEF Counted
<1>3. row' \in Rows /\ row'.start <= clock /\ row'.start <= row'.updated + 1
      /\ row'.count = 1
  BY <1>1, LimiterAssumption DEF Opened, Rows, Times
<1>4. last' \in [Processes -> Times \cup {Nothing}]
  BY DEF LimiterInv, TypeLimiter
<1> QED BY <1>2, <1>3, <1>4, AllowedStep

LEMMA ResetKeeps ==
  ASSUME LimiterInv, NEW c \in Calls, Reset(c)
  PROVE  LimiterInv'
<1>1. call[c] \in CallTypes /\ Asking(c) /\ Now(c) \in {clock - 1, clock} /\ Now(c) \in Times
  BY DEF LimiterInv, TypeLimiter, Recent, Reset, At, Asking, Statements, CallTypes, CallPlaces, Now
<1>2. CASE Over(Now(c))
  <2>1. ~Current(Now(c))
    BY <1>1, <1>2, RowType, LimiterAssumption DEF LimiterInv, Over, Current, Times
  <2> QED BY <1>1, <1>2, <2>1, OpensKeeps DEF Reset
<1>3. CASE ~Over(Now(c))
  <2> DEFINE k == [call[c] EXCEPT !.at = "insert"]
  <2>1. call' = [call EXCEPT ![c] = k] /\ UNCHANGED <<clock, row, hits, last, resets>>
    BY <1>3 DEF Reset, Goto
  <2>2. k \in CallTypes /\ k.now = Now(c)
    BY <1>1 DEF CallTypes, CallPlaces, Statements, Now
  <2>3. last' \in [Processes -> Times \cup {Nothing}]
    BY <2>1 DEF LimiterInv, TypeLimiter
  <2> QED BY <1>1, <2>1, <2>2, <2>3, CallStep
<1> QED BY <1>2, <1>3

LEMMA InsertKeeps ==
  ASSUME LimiterInv, NEW c \in Calls, Insert(c)
  PROVE  LimiterInv'
<1>1. call[c] \in CallTypes /\ Asking(c) /\ Now(c) \in {clock - 1, clock}
  BY DEF LimiterInv, TypeLimiter, Recent, Insert, At, Asking, Statements, CallTypes, CallPlaces
<1>2. CASE row = Nothing
  <2>1. ~Current(Now(c))
    BY <1>2 DEF Current
  <2> QED BY <1>1, <1>2, <2>1, OpensKeeps DEF Insert
<1>3. CASE row # Nothing
  <2>1. PICK k \in {[call[c] EXCEPT !.at = "increment", !.try = 2],
                    [call[c] EXCEPT !.at = "select"]} :
          call' = [call EXCEPT ![c] = k]
    BY <1>3 DEF Insert, Goto
  <2>2. UNCHANGED <<clock, row, hits, last, resets>>
    BY <1>3 DEF Insert
  <2>3. k \in CallTypes /\ k.now = Now(c)
    <3>1. CASE k = [call[c] EXCEPT !.at = "increment", !.try = 2]
      <4>1. PICK j \in CallTypes : j = [call[c] EXCEPT !.at = "increment"]
        BY <1>1 DEF CallTypes, CallPlaces, Statements
      <4>2. k = [j EXCEPT !.try = 2] /\ j.now = Now(c)
        BY <1>1, <3>1, <4>1 DEF Now, CallTypes
      <4> QED BY <4>2 DEF CallTypes
    <3>2. CASE k = [call[c] EXCEPT !.at = "select"]
      BY <1>1, <3>2 DEF CallTypes, CallPlaces, Statements, Now
    <3> QED BY <2>1, <3>1, <3>2
  <2>4. last' \in [Processes -> Times \cup {Nothing}]
    BY <2>2 DEF LimiterInv, TypeLimiter
  <2> QED BY <1>1, <2>1, <2>2, <2>3, <2>4, CallStep
<1> QED BY <1>2, <1>3

LEMMA OthersKeep ==
  ASSUME LimiterInv,
         \/ \E c \in Calls : Ask(c) \/ Select(c) \/ Return(c)
         \/ Tick \/ Emptied
  PROVE  LimiterInv'
<1>0. call \in [Calls -> CallTypes] /\ clock \in Times /\ clock \in Nat
      /\ last \in [Processes -> Times \cup {Nothing}]
  BY LimiterAssumption DEF LimiterInv, TypeLimiter, CallTypes, CallPlaces, Times
<1>1. ASSUME NEW c \in Calls, Ask(c) PROVE LimiterInv'
  <2> DEFINE k == [Outside EXCEPT !.at = "cleanup", !.now = clock, !.try = 1]
  <2>0. Outside \in CallTypes
    BY LimiterAssumption DEF CallTypes, CallPlaces, Statements, Outside, Times
  <2>1. k \in CallTypes /\ k.now = clock
    <3>1. PICK i \in CallTypes : i = [Outside EXCEPT !.at = "cleanup"]
      BY <2>0 DEF CallTypes, CallPlaces, Statements
    <3>2. PICK j \in CallTypes : j = [i EXCEPT !.now = clock]
      <4>1. [i EXCEPT !.now = clock] \in CallTypes
        BY <1>0 DEF CallTypes
      <4> QED BY <4>1
    <3>3. j.now = clock
      BY <3>2 DEF CallTypes
    <3>4. k = [j EXCEPT !.try = 1]
      BY <3>1, <3>2
    <3>5. [j EXCEPT !.try = 1] \in CallTypes
      BY DEF CallTypes
    <3>6. [j EXCEPT !.try = 1].now = j.now
      BY DEF CallTypes
    <3> QED BY <3>3, <3>4, <3>5, <3>6
  <2> QED BY <1>0, <1>1, <2>1, CallStep DEF Ask
<1>2. ASSUME NEW c \in Calls, Select(c) PROVE LimiterInv'
  <2> DEFINE k == [call[c] EXCEPT !.at = IF row = Nothing THEN "allowed" ELSE "refused"]
  <2>1. k \in CallTypes /\ k.at \notin Statements
    BY <1>0 DEF CallTypes, CallPlaces, Statements
  <2>2. call' = [call EXCEPT ![c] = k] /\ UNCHANGED <<clock, row, hits, last, resets>>
    BY <1>2 DEF Select, Goto
  <2> QED BY <1>0, <2>1, <2>2, CallStep
<1>3. ASSUME NEW c \in Calls, Return(c) PROVE LimiterInv'
  <2>1. Outside \in CallTypes /\ Outside.at \notin Statements
    BY LimiterAssumption DEF CallTypes, CallPlaces, Statements, Outside, Times
  <2> QED BY <1>0, <1>3, <2>1, CallStep DEF Return
<1>4. CASE Tick
  <2>1. clock' = clock + 1 /\ clock < MaxTime /\ UNCHANGED <<row, hits, last, call, resets>>
    BY <1>4 DEF Tick
  <2>2. ASSUME NEW c \in Calls, Asking(c)' PROVE Now(c)' = clock' - 1
    BY <1>0, <1>4, <2>1, <2>2 DEF Tick, Asking, Now
  <2>3. TypeLimiter'
    BY <1>0, <2>1, LimiterAssumption DEF LimiterInv, TypeLimiter, Times
  <2>4. row' # Nothing => row'.start <= clock' /\ row'.start <= row'.updated + 1
    BY <1>0, <2>1, RowType DEF LimiterInv, Recent
  <2> QED BY <2>1, <2>2, <2>3, <2>4 DEF LimiterInv, Recent, Counts
<1>5. CASE Emptied
  <2>1. /\ row' = Nothing /\ hits' = 0 /\ call' = Raced(call, Nothing)
        /\ resets' = resets + 1 /\ resets < MaxResets /\ UNCHANGED <<clock, last>>
    BY <1>5 DEF Emptied
  <2>2. /\ call' \in [Calls -> CallTypes]
        /\ \A x \in Calls : call'[x].at = call[x].at /\ call'[x].now = call[x].now
    BY <1>0, <2>1, RacedType
  <2>3. TypeLimiter'
    BY <2>1, <2>2, LimiterAssumption DEF LimiterInv, TypeLimiter, CallTypes, CallPlaces
  <2>4. Recent' /\ Counts'
    BY <2>1, <2>2 DEF LimiterInv, Recent, Counts, Asking, Now
  <2> QED BY <2>3, <2>4 DEF LimiterInv
<1> QED BY <1>1, <1>2, <1>3, <1>4, <1>5

LEMMA LimiterInvariance == LimiterSpec => []LimiterInv
<1>1. InitLimiter => LimiterInv
  <2> SUFFICES ASSUME InitLimiter PROVE LimiterInv
    OBVIOUS
  <2>1. 0 \in Times /\ 0 \in 0..MaxResets
    BY LimiterAssumption DEF Times
  <2>2. TypeLimiter
    BY <2>1 DEF InitLimiter, TypeLimiter, Outside
  <2>3. Recent /\ Counts
    BY DEF InitLimiter, Recent, Counts, Asking, Outside, Statements
  <2> QED BY <2>2, <2>3 DEF LimiterInv
<1>2. LimiterInv /\ [NextLimiter]_limiterVars => LimiterInv'
  <2> SUFFICES ASSUME LimiterInv, [NextLimiter]_limiterVars PROVE LimiterInv'
    OBVIOUS
  <2>1. CASE UNCHANGED limiterVars
    BY <2>1 DEF limiterVars, LimiterInv, TypeLimiter, Recent, Counts, Asking, Now
  <2>2. ASSUME NEW c \in Calls, Statement(c) PROVE LimiterInv'
    BY <2>2, CleanupKeeps, IncrementKeeps, ResetKeeps, InsertKeeps, OthersKeep DEF Statement
  <2> QED BY <2>1, <2>2, OthersKeep DEF NextLimiter
<1> QED BY <1>1, <1>2, PTL DEF LimiterSpec

\* Types, the range of the counter included, whatever the calls interleave.
THEOREM LimiterTypes == LimiterSpec => []TypeLimiter
<1>1. LimiterInv => TypeLimiter
  BY DEF LimiterInv
<1> QED BY <1>1, LimiterInvariance, PTL

\* However many calls and processes there are, and for any limit and window, no
\* window of the bucket lets more than Limit calls through (rate_limit.py:52-61).
THEOREM WindowsAreBounded == LimiterSpec => []LimitHolds
<1>1. LimiterInv => LimitHolds
  <2> SUFFICES ASSUME LimiterInv PROVE LimitHolds
    OBVIOUS
  <2>1. CASE row = Nothing
    BY <2>1, LimiterAssumption DEF LimiterInv, Counts, LimitHolds
  <2>2. CASE row # Nothing
    BY <2>2, RowType, LimiterAssumption DEF LimiterInv, Counts, LimitHolds
  <2> QED BY <2>1, <2>2
<1> QED BY <1>1, LimiterInvariance, PTL

-----------------------------------------------------------------------------
(* Refusals. *)

\* The types a call's knowledge is about.
LEMMA CallType ==
  ASSUME LimiterInv, NEW c \in Calls
  PROVE  /\ call \in [Calls -> CallTypes] /\ call[c] \in CallTypes
         /\ call[c].lost \in {0, 1, 2} /\ call[c].try \in {0, 1, 2}
         /\ Now(c) \in Nat
BY LimiterAssumption DEF LimiterInv, TypeLimiter, CallTypes, CallPlaces, Now, Times

\* A call that sees the row change has lost a race, which is all it has to know.
LEMMA RaceInforms ==
  ASSUME LimiterInv, Informed, NEW c \in Calls \cup {Nothing}, NEW x \in Calls, x # c,
         NEW calls \in [Calls -> CallTypes], calls[x] = call[x],
         call' = Raced(calls, c)
  PROVE  call'[x].full \/ Knows(x)'
<1>1. /\ call'[x].at = call[x].at /\ call'[x].try = call[x].try
      /\ call'[x].full = call[x].full /\ call'[x].lost >= call[x].lost
      /\ call[x].at \in Statements => call'[x].lost = 2 \/ call'[x].lost = call[x].lost + 1
      /\ call'[x].lost \in {0, 1, 2} /\ call[x].lost \in {0, 1, 2}
  <2>1. call' \in [Calls -> CallTypes]
    BY RacedType
  <2>2. call'[x].lost \in {0, 1, 2}
    BY <2>1 DEF CallTypes
  <2> QED BY <2>2, RacedType, CallType
<1>2. CASE call[x].full
  BY <1>1, <1>2
<1>3. CASE Knows(x)
  <2>1. At(x, "reset") \/ At(x, "insert") \/ At(x, "increment") \/ At(x, "select")
          => call'[x].lost >= 1 /\ (call[x].lost >= 1 => call'[x].lost = 2)
    BY <1>1 DEF At, Statements
  <2>2. \A s \in CallPlaces : At(x, s)' <=> At(x, s)
    BY <1>1 DEF At
  <2> QED BY <1>1, <1>3, <2>1, <2>2 DEF Knows, At, CallPlaces, Statements
<1> QED BY <1>2, <1>3 DEF Informed

\* A statement that leaves the row alone teaches its own call only.
LEMMA OwnInforms ==
  ASSUME LimiterInv, Informed, NEW c \in Calls, NEW k \in CallTypes,
         call' = [call EXCEPT ![c] = k], UNCHANGED row,
         k.full \/ Knows(c)'
  PROVE  Informed'
<1>1. ASSUME NEW x \in Calls PROVE call'[x].full \/ Knows(x)'
  <2>1. CASE x = c
    BY <2>1, CallType
  <2>2. CASE x # c
    <3>1. call'[x] = call[x]
      BY <2>2, CallType
    <3> QED BY <3>1 DEF Informed, Knows, At, Now, Current, Over
  <2> QED BY <2>1, <2>2
<1> QED BY <1>1 DEF Informed

\* A call that is let through is refused nothing.
LEMMA AllowedInforms ==
  ASSUME LimiterInv, Informed, NEW c \in Calls, Allowed(c)
  PROVE  Informed'
<1> DEFINE mine == [call EXCEPT ![c].at = "allowed"]
<1>1. mine \in [Calls -> CallTypes] /\ call' = Raced(mine, c) /\ mine[c].at = "allowed"
  <2>1. [call[c] EXCEPT !.at = "allowed"] \in CallTypes
        /\ [call[c] EXCEPT !.at = "allowed"].at = "allowed"
    BY CallType DEF CallTypes, CallPlaces
  <2> QED BY <2>1, CallType DEF Allowed
<1>2. \A x \in Calls : x # c => mine[x] = call[x]
  BY CallType
<1> HIDE DEF mine
<1>3. Knows(c)'
  <2>1. call'[c].at = "allowed"
    BY <1>1, RacedType
  <2> QED BY <2>1 DEF Knows, At
<1>4. ASSUME NEW x \in Calls, x # c PROVE call'[x].full \/ Knows(x)'
  BY <1>1, <1>2, <1>4, RaceInforms
<1> QED BY <1>3, <1>4 DEF Informed

\* What a step changes of a call, and what it leaves.
LEMMA SetsAt ==
  ASSUME NEW k \in CallTypes, NEW s \in CallPlaces
  PROVE  /\ [k EXCEPT !.at = s] \in CallTypes
         /\ [k EXCEPT !.at = s].at = s
         /\ [k EXCEPT !.at = s].now = k.now
         /\ [k EXCEPT !.at = s].try = k.try
         /\ [k EXCEPT !.at = s].full = k.full
         /\ [k EXCEPT !.at = s].lost = k.lost
BY DEF CallTypes

LEMMA SetsTry ==
  ASSUME NEW k \in CallTypes, NEW n \in 0..2
  PROVE  /\ [k EXCEPT !.try = n] \in CallTypes
         /\ [k EXCEPT !.try = n].at = k.at
         /\ [k EXCEPT !.try = n].now = k.now
         /\ [k EXCEPT !.try = n].try = n
         /\ [k EXCEPT !.try = n].full = k.full
         /\ [k EXCEPT !.try = n].lost = k.lost
BY DEF CallTypes

LEMMA StatementInforms ==
  ASSUME LimiterInv, Informed, NEW c \in Calls, Statement(c)
  PROVE  Informed'
<1>0. /\ call \in [Calls -> CallTypes] /\ call[c] \in CallTypes
      /\ call[c].lost \in {0, 1, 2} /\ call[c].try \in {0, 1, 2} /\ Now(c) \in Nat
  BY CallType
<1>1. CASE Allowed(c)
  BY <1>1, AllowedInforms
<1>2. CASE Cleanup(c) /\ ~Allowed(c)
  <2> DEFINE k == [call[c] EXCEPT !.at = "increment"]
  <2>1. call' = [call EXCEPT ![c] = k] /\ UNCHANGED row /\ call[c].at = "cleanup"
    BY <1>2 DEF Cleanup, Goto, At
  <2>2. k \in CallTypes
    BY <1>0 DEF CallTypes, CallPlaces, Statements
  <2>3. call'[c] = k /\ k.at = "increment" /\ k.try = call[c].try
        /\ k.full = call[c].full
    BY <1>0, <2>1 DEF CallTypes
  <2> HIDE DEF k
  <2>4. k.full \/ Knows(c)'
    BY <2>1, <2>3 DEF Informed, Knows, At
  <2> QED BY <2>1, <2>2, <2>4, OwnInforms
<1>3. CASE Increment(c) /\ ~Allowed(c)
  <2> DEFINE k == [call[c] EXCEPT !.at = "reset", !.full = @ \/ Current(Now(c))]
  <2>1. call' = [call EXCEPT ![c] = k] /\ UNCHANGED row /\ call[c].at = "increment"
    BY <1>3 DEF Increment, At
  <2>2. PICK j \in CallTypes : /\ j = [call[c] EXCEPT !.at = "reset"]
                               /\ j.now = Now(c) /\ j.try = call[c].try
                               /\ j.lost = call[c].lost /\ j.at = "reset"
                               /\ j.full = call[c].full
    <3>1. "reset" \in CallPlaces
      BY DEF CallPlaces, Statements
    <3> QED BY <1>0, <3>1, SetsAt DEF Now
  <2>3. /\ k = [j EXCEPT !.full = call[c].full \/ Current(Now(c))]
        /\ (call[c].full \/ Current(Now(c))) \in BOOLEAN
    <3>1. call[c].full \in BOOLEAN /\ Current(Now(c)) \in BOOLEAN
      BY <1>0 DEF CallTypes, Current
    <3> QED BY <2>2, <3>1
  <2>4. k \in CallTypes /\ k.at = "reset" /\ k.now = Now(c) /\ k.try = call[c].try
        /\ k.lost = call[c].lost
    BY <2>2, <2>3 DEF CallTypes
  <2>5. k.full = (call[c].full \/ Current(Now(c)))
    BY <2>2, <2>3 DEF CallTypes
  <2>6. call'[c] = k
    BY <1>0, <2>1
  <2>7. k.full \/ Knows(c)'
    <3>1. SUFFICES ASSUME ~k.full PROVE Knows(c)'
      OBVIOUS
    <3>2. ~call[c].full /\ ~Current(Now(c)) /\ Knows(c)
      BY <2>5, <3>1 DEF Informed
    <3>3. Now(c)' = Now(c)
      BY <2>4, <2>6 DEF Now
    <3>4. call[c].try # 1 => call[c].lost >= 1 /\ (row # Nothing \/ call[c].lost = 2)
      BY <2>1, <3>2 DEF Knows, At
    <3>5. row # Nothing => Over(Now(c))
      BY <1>0, <3>2, RowType, LimiterAssumption DEF LimiterInv, Over, Current
    <3> HIDE DEF k
    <3> QED BY <2>1, <2>4, <2>6, <3>2, <3>3, <3>4, <3>5 DEF Knows, At, Current, Over
  <2> HIDE DEF k
  <2> QED BY <2>1, <2>4, <2>7, OwnInforms
<1>4. CASE Reset(c) /\ ~Allowed(c)
  <2> DEFINE k == [call[c] EXCEPT !.at = "insert"]
  <2>1. call' = [call EXCEPT ![c] = k] /\ UNCHANGED row /\ call[c].at = "reset"
        /\ ~Over(Now(c))
    BY <1>4 DEF Reset, Goto, At
  <2>2. k \in CallTypes /\ k.at = "insert" /\ k.try = call[c].try
        /\ k.lost = call[c].lost /\ k.full = call[c].full
    BY <1>0 DEF CallTypes, CallPlaces, Statements
  <2>3. call'[c] = k
    BY <1>0, <2>1
  <2>4. Current(Now(c)) \/ row = Nothing
    BY <1>0, <2>1, RowType, LimiterAssumption DEF LimiterInv, Over, Current
  <2> HIDE DEF k
  <2>5. k.full \/ Knows(c)'
    BY <2>1, <2>2, <2>3, <2>4 DEF Informed, Knows, At
  <2> QED BY <2>1, <2>2, <2>5, OwnInforms
<1>5. CASE Insert(c) /\ ~Allowed(c)
  <2>1. row # Nothing /\ UNCHANGED row /\ call[c].at = "insert"
    BY <1>5 DEF Insert, At
  <2>2. CASE call[c].try = 1
    <3> DEFINE k == [call[c] EXCEPT !.at = "increment", !.try = 2]
    <3>1. call' = [call EXCEPT ![c] = k]
      BY <1>5, <2>1, <2>2 DEF Insert
    <3>2. PICK j \in CallTypes : /\ j = [call[c] EXCEPT !.at = "increment"]
                                 /\ j.at = "increment" /\ j.lost = call[c].lost
                                 /\ j.full = call[c].full
      <4>1. "increment" \in CallPlaces
        BY DEF CallPlaces, Statements
      <4> QED BY <1>0, <4>1, SetsAt
    <3>3. k = [j EXCEPT !.try = 2] /\ 2 \in 0..2
      BY <3>2
    <3> HIDE DEF k
    <3>4. k \in CallTypes /\ k.at = "increment" /\ k.try = 2
          /\ k.lost = call[c].lost /\ k.full = call[c].full
      BY <3>2, <3>3, SetsTry
    <3>5. call'[c] = k
      BY <1>0, <3>1
    <3>6. k.full \/ Knows(c)'
      BY <2>1, <2>2, <3>4, <3>5 DEF Informed, Knows, At
    <3> QED BY <2>1, <3>1, <3>4, <3>6, OwnInforms
  <2>3. CASE call[c].try # 1
    <3> DEFINE k == [call[c] EXCEPT !.at = "select"]
    <3>1. call' = [call EXCEPT ![c] = k]
      BY <1>5, <2>1, <2>3 DEF Insert, Goto
    <3>2. k \in CallTypes /\ k.at = "select" /\ k.lost = call[c].lost
          /\ k.full = call[c].full
      BY <1>0 DEF CallTypes, CallPlaces, Statements
    <3>3. call'[c] = k
      BY <1>0, <3>1
    <3> HIDE DEF k
    <3>4. k.full \/ Knows(c)'
      BY <2>1, <2>3, <3>2, <3>3 DEF Informed, Knows, At
    <3> QED BY <2>1, <3>1, <3>2, <3>4, OwnInforms
  <2> QED BY <2>2, <2>3
<1>6. CASE Select(c) /\ ~Allowed(c)
  <2> DEFINE k == [call[c] EXCEPT !.at = IF row = Nothing THEN "allowed" ELSE "refused"]
  <2>1. call' = [call EXCEPT ![c] = k] /\ UNCHANGED row /\ call[c].at = "select"
    BY <1>6 DEF Select, Goto, At
  <2>2. k \in CallTypes /\ k.at \in {"allowed", "refused"} /\ k.lost = call[c].lost
        /\ k.full = call[c].full
    BY <1>0 DEF CallTypes, CallPlaces, Statements
  <2>3. call'[c] = k
    BY <1>0, <2>1
  <2> HIDE DEF k
  <2>4. k.full \/ Knows(c)'
    BY <2>1, <2>2, <2>3 DEF Informed, Knows, At
  <2> QED BY <2>1, <2>2, <2>4, OwnInforms
<1> QED BY <1>1, <1>2, <1>3, <1>4, <1>5, <1>6 DEF Statement

LEMMA OtherInforms ==
  ASSUME LimiterInv, Informed,
         \/ \E c \in Calls : Ask(c) \/ Return(c)
         \/ Tick \/ Emptied
  PROVE  Informed'
<1>0. call \in [Calls -> CallTypes] /\ clock \in Times
  BY DEF LimiterInv, TypeLimiter, CallTypes, CallPlaces
<1>1. ASSUME NEW c \in Calls, Ask(c) PROVE Informed'
  <2>1. call'[c].at = "cleanup" /\ call'[c].try = 1 /\ UNCHANGED row
    BY <1>0, <1>1 DEF Ask, Outside
  <2>2. \A x \in Calls : x # c => call'[x] = call[x]
    BY <1>0, <1>1 DEF Ask
  <2>3. Knows(c)'
    BY <2>1 DEF Knows, At
  <2> QED BY <2>1, <2>2, <2>3 DEF Informed, Knows, At, Now, Current, Over
<1>2. ASSUME NEW c \in Calls, Return(c) PROVE Informed'
  <2>1. call'[c].at = "out" /\ UNCHANGED row
    BY <1>0, <1>2 DEF Return, Outside
  <2>2. \A x \in Calls : x # c => call'[x] = call[x]
    BY <1>0, <1>2 DEF Return
  <2>3. Knows(c)'
    BY <2>1 DEF Knows, At
  <2> QED BY <2>1, <2>2, <2>3 DEF Informed, Knows, At, Now, Current, Over
<1>3. CASE Tick
  BY <1>3 DEF Tick, Informed, Knows, At, Now, Current, Over
<1>4. CASE Emptied
  <2>1. ASSUME NEW x \in Calls, x # Nothing PROVE call'[x].full \/ Knows(x)'
    BY <1>0, <1>4, <2>1, RaceInforms DEF Emptied
  <2> QED BY <2>1, LimiterAssumption DEF Informed
<1> QED BY <1>1, <1>2, <1>3, <1>4

\* However the calls interleave, and whatever the number of them: a call is
\* refused only when a running window was spent or when it lost two races
\* (rate_limit.py:54-60).
THEOREM OnlySpentRefuses == LimiterSpec => []RefusedWhenSpent
<1>1. InitLimiter => Informed
  <2>0. Outside.at = "out"
    BY DEF Outside
  <2>1. InitLimiter => \A c \in Calls : call[c].at = "out"
    BY <2>0 DEF InitLimiter
  <2> QED BY <2>1 DEF Informed, Knows, At
<1>2. LimiterInv /\ Informed /\ [NextLimiter]_limiterVars => Informed'
  <2> SUFFICES ASSUME LimiterInv, Informed, [NextLimiter]_limiterVars PROVE Informed'
    OBVIOUS
  <2>1. CASE UNCHANGED limiterVars
    BY <2>1 DEF limiterVars, Informed, Knows, At, Now, Current, Over
  <2> QED BY <2>1, StatementInforms, OtherInforms DEF NextLimiter
<1>3. Informed => RefusedWhenSpent
  BY DEF Informed, Knows, RefusedWhenSpent
<1> QED BY <1>1, <1>2, <1>3, LimiterInvariance, PTL DEF LimiterSpec

(***************************************************************************)
(* Access to the databases.                                                *)
(***************************************************************************)
\* Who holds the lock file, by the place a request is at; and a request that
\* may commit has its database.
Holds ==
  /\ \A r \in Requests :
       /\ Restoring(r) \/ Is(r, "unlock") => owner = r
       /\ AtDatabase(r) /\ ~Unguarded(r) => r \in shared
       /\ Is(r, "bind") /\ req[r].kind # "restore" => r \in shared
       /\ Is(r, "dump") \/ Is(r, "page") => r \in shared
       /\ Is(r, "commit") => req[r].db \in Databases
  /\ owner # None => shared = {}

Saved ==
  \A r \in Requests : Is(r, "replace") =>
    /\ backup.data = data["primary"] \/ "job" \in since
    /\ backup.counts = counts["primary"] \/ "limiter" \in since

IInv == TypeOK /\ Holds /\ Saved

\* What the limiter may do to the databases.
Tallied ==
  /\ UNCHANGED <<data, backup>>
  /\ counts' \in [Databases -> Nat] /\ since' \subseteq {"limiter", "job"}
  /\ since \subseteq since'
  /\ counts'["primary"] = counts["primary"] \/ "limiter" \in since'

RequestTypes == [at: Places, kind: Kinds \cup {None}, db: Databases \cup {None}]

-----------------------------------------------------------------------------
LEMMA Alone ==
  ASSUME IInv
  PROVE  RestoreIsAlone
<1> SUFFICES ASSUME NEW r \in Requests, NEW s \in Requests, Restoring(r), s # r
             PROVE  ~Restoring(s) /\ (AtDatabase(s) => Unguarded(s))
  BY DEF RestoreIsAlone
<1>1. owner = r /\ owner # None /\ shared = {}
  BY AccessAssumption DEF IInv, Holds
<1> QED BY <1>1 DEF IInv, Holds

LEMMA NothingTallied ==
  ASSUME IInv, UNCHANGED contents
  PROVE  Tallied
BY DEF IInv, TypeOK, Tallied, contents

\* A step that changes one request, and neither the lock nor what requests wrote.
LEMMA Moves ==
  ASSUME IInv, NEW r \in Requests, NEW q \in RequestTypes,
         req' = [req EXCEPT ![r] = q],
         UNCHANGED <<up, outages, shared, owner>>, Tallied,
         begun' \in 0..MaxBegun, jobs' \subseteq Databases,
         target' \in [Workers -> Databases],
         store' \in [Workers -> Databases \cup {None}],
         reported' \in [Workers -> {"ok", "degradado", None}],
         q.at \in {"validate", "save", "replace", "unlock"} => owner = r,
         q.at \in {"probe", "commit", "dump", "page"} /\ q.kind # "job" => r \in shared,
         q.at = "bind" /\ q.kind # "restore" => r \in shared,
         q.at \in {"dump", "page"} => r \in shared,
         q.at = "commit" => q.db \in Databases,
         q.at # "replace"
  PROVE  IInv'
<1>1. req \in [Requests -> RequestTypes]
  BY DEF IInv, TypeOK, RequestTypes
<1>2. req' \in [Requests -> RequestTypes] /\ req'[r] = q
      /\ \A s \in Requests : s # r => req'[s] = req[s]
  BY <1>1
<1>3. TypeOK'
  BY <1>2 DEF IInv, TypeOK, RequestTypes, Tallied
<1>4. Holds'
  BY <1>2 DEF IInv, Holds, Restoring, AtDatabase, Unguarded, Is
<1>5. Saved'
  BY <1>2 DEF IInv, Saved, Is, Tallied
<1> QED BY <1>3, <1>4, <1>5 DEF IInv

\* The end of a request that is no restore under way: the shared lock is given
\* back, and no one else's.
LEMMA Ends ==
  ASSUME IInv, NEW r \in Requests, End(r),
         req[r].at \notin {"validate", "save", "replace", "unlock"},
         UNCHANGED <<up, outages, begun, store>>, Tallied,
         jobs' \subseteq Databases,
         target' \in [Workers -> Databases],
         reported' \in [Workers -> {"ok", "degradado", None}]
  PROVE  IInv'
<1>1. req \in [Requests -> RequestTypes] /\ Quiet \in RequestTypes
      /\ Quiet.at = "idle"
  BY DEF IInv, TypeOK, RequestTypes, Quiet, Places
<1>2. /\ req' \in [Requests -> RequestTypes] /\ req'[r].at = "idle"
      /\ \A s \in Requests : s # r => req'[s] = req[s]
      /\ shared' = shared \ {r} /\ owner' = owner
  BY <1>1 DEF End
<1>3. TypeOK'
  BY <1>2 DEF IInv, TypeOK, RequestTypes, Tallied
<1>4. Holds'
  BY <1>2 DEF IInv, Holds, Restoring, AtDatabase, Unguarded, Is
<1>5. Saved'
  BY <1>2 DEF IInv, Saved, Is, Tallied
<1> QED BY <1>3, <1>4, <1>5 DEF IInv

LEMMA Types ==
  ASSUME IInv, NEW r \in Requests
  PROVE  /\ req \in [Requests -> RequestTypes] /\ req[r] \in RequestTypes
         /\ begun \in 0..MaxBegun /\ jobs \subseteq Databases
         /\ target \in [Workers -> Databases]
         /\ store \in [Workers -> Databases \cup {None}]
         /\ reported \in [Workers -> {"ok", "degradado", None}]
BY DEF IInv, TypeOK, RequestTypes

\* A place, of one request.
LEMMA Placed ==
  ASSUME NEW q \in RequestTypes, NEW a \in Places
  PROVE  /\ [q EXCEPT !.at = a] \in RequestTypes
         /\ [q EXCEPT !.at = a].at = a
         /\ [q EXCEPT !.at = a].kind = q.kind
         /\ [q EXCEPT !.at = a].db = q.db
BY DEF RequestTypes

LEMMA EngineType ==
  ASSUME IInv, NEW w, NEW d \in Databases, GetEngine(w, d)
  PROVE  target' \in [Workers -> Databases]
BY DEF IInv, TypeOK, GetEngine

\* The way in: the limiter, the guard, the session.
LEMMA BeginKeeps ==
  ASSUME IInv, NEW r \in Requests, Begin(r)
  PROVE  IInv'
<1>0. /\ UNCHANGED <<up, outages, shared, owner, contents, reported, jobs>>
      /\ begun' = begun + 1 /\ begun < MaxBegun
      /\ Tallied
  BY NothingTallied DEF Begin, network
<1>1. begun' \in 0..MaxBegun
  BY <1>0, Types, AccessAssumption
<1>2. ASSUME NEW k \in Kinds, NEW a \in {"limit", "guard"},
             target' \in [Workers -> Databases],
             store' \in [Workers -> Databases \cup {None}],
             req' = [req EXCEPT ![r] = [at |-> a, kind |-> k, db |-> None]]
      PROVE  IInv'
  <2>1. [at |-> a, kind |-> k, db |-> None] \in RequestTypes
    BY DEF RequestTypes, Places
  <2> QED BY <1>0, <1>1, <1>2, <2>1, Types, Moves
<1>3. CASE /\ "health" \in Kinds
           /\ req' = [req EXCEPT ![r] = [at |-> "guard", kind |-> "health", db |-> None]]
           /\ UNCHANGED <<store, target>>
  BY <1>2, <1>3, Types
<1>4. ASSUME NEW k \in Kinds \ {"health", "job"},
             \/ store[Home[r]] # None /\ UNCHANGED <<store, target>>
             \/ \E d \in Databases :
                  GetEngine(Home[r], d) /\ store' = [store EXCEPT ![Home[r]] = d],
             req' = [req EXCEPT ![r] = [at |-> "limit", kind |-> k, db |-> None]]
      PROVE  IInv'
  <2>1. target' \in [Workers -> Databases] /\ store' \in [Workers -> Databases \cup {None}]
    BY <1>4, Types, EngineType
  <2> QED BY <1>2, <1>4, <2>1
<1>5. CASE UNCHANGED <<store, target, req>>
  BY <1>0, <1>1, <1>5
  DEF IInv, TypeOK, Holds, Saved, Restoring, AtDatabase, Unguarded, Is, contents
<1>6. \/ /\ "health" \in Kinds
         /\ req' = [req EXCEPT ![r] = [at |-> "guard", kind |-> "health", db |-> None]]
         /\ UNCHANGED <<store, target>>
      \/ \E k \in Kinds \ {"health", "job"} :
           /\ \/ store[Home[r]] # None /\ UNCHANGED <<store, target>>
              \/ \E d \in Databases :
                   GetEngine(Home[r], d) /\ store' = [store EXCEPT ![Home[r]] = d]
           /\ req' = [req EXCEPT ![r] = [at |-> "limit", kind |-> k, db |-> None]]
      \/ UNCHANGED <<store, target, req>>
  BY Zenon DEF Begin
<1> QED BY <1>3, <1>4, <1>5, <1>6

LEMMA BeginJobKeeps ==
  ASSUME IInv, NEW r \in Requests, BeginJob(r)
  PROVE  IInv'
<1>1. PICK d \in jobs :
        /\ jobs' = jobs \ {d}
        /\ req' = [req EXCEPT ![r] = [at |-> "commit", kind |-> "job", db |-> d]]
  BY DEF BeginJob
<1>2. [at |-> "commit", kind |-> "job", db |-> d] \in RequestTypes /\ d \in Databases
  <2>1. d \in Databases /\ "job" \in Kinds
    BY Types DEF BeginJob
  <2> QED BY <2>1 DEF RequestTypes, Places
<1>3. UNCHANGED <<up, outages, begun, target, store, shared, owner, reported>> /\ Tallied
  BY NothingTallied DEF BeginJob, network
<1> QED BY <1>1, <1>2, <1>3, Types, Moves

LEMMA CountsTally ==
  ASSUME IInv, NEW d \in Databases, Tallies(d), UNCHANGED <<data, backup>>
  PROVE  Tallied
<1>1. counts \in [Databases -> Nat] /\ since \subseteq {"limiter", "job"}
      /\ "primary" \in Databases
  BY AccessAssumption DEF IInv, TypeOK
<1>2. counts' = [counts EXCEPT ![d] = @ + 1]
      /\ since' = IF d = "primary" THEN since \cup {"limiter"} ELSE since
  BY DEF Tallies
<1> QED BY <1>1, <1>2 DEF Tallied

LEMMA LimitedKeeps ==
  ASSUME IInv, NEW r \in Requests, Limited(r)
  PROVE  IInv'
<1>0. /\ req[r].at = "limit"
      /\ UNCHANGED <<up, outages, begun, target, store, data, backup, reported, jobs>>
  BY DEF Limited, Is, network
<1>1. Tallied
  <2>1. CASE UNCHANGED <<counts, since>>
    BY <1>0, <2>1, NothingTallied DEF contents
  <2>2. CASE ~LimitFails(r) /\ Tallies(store[Home[r]])
    <3>1. store[Home[r]] \in Databases \cup {None}
      BY AccessAssumption, Types
    <3>2. CASE store[Home[r]] \in Databases
      BY <1>0, <2>2, <3>2, CountsTally
    <3>3. CASE store[Home[r]] \notin Databases
      <4>1. counts' = counts /\ since' = since
        BY <2>2, <3>3, AccessAssumption DEF Tallies, IInv, TypeOK
      <4> QED BY <1>0, <4>1, NothingTallied DEF contents
    <3> QED BY <3>2, <3>3
  <2> QED BY <2>1, <2>2 DEF Limited
<1>2. CASE End(r)
  BY <1>0, <1>1, <1>2, Types, Ends
<1>3. CASE ~End(r)
  <2> DEFINE a == IF req[r].kind = "restore" THEN "bind" ELSE "guard"
             q == [req[r] EXCEPT !.at = a]
  <2>1. req' = [req EXCEPT ![r] = q] /\ UNCHANGED <<shared, owner>>
    BY <1>3 DEF Limited, To
  <2>2. a \in Places /\ a \in {"bind", "guard"} /\ (a = "bind" => req[r].kind = "restore")
    BY DEF Places
  <2> HIDE DEF a
  <2>3. q \in RequestTypes /\ q.at = a /\ q.kind = req[r].kind
    BY <2>2, Types, Placed
  <2> HIDE DEF q
  <2> QED BY <1>0, <1>1, <2>1, <2>2, <2>3, Types, Moves
<1> QED BY <1>2, <1>3

LEMMA GuardKeeps ==
  ASSUME IInv, NEW r \in Requests, Guard(r)
  PROVE  IInv'
<1>0. /\ req[r].at = "guard" /\ Tallied
      /\ UNCHANGED <<up, outages, begun, target, store, contents, reported, jobs>>
  BY NothingTallied DEF Guard, Is, network
<1>1. CASE owner # None
  BY <1>0, <1>1, Types, Ends DEF Guard
<1>2. CASE owner = None
  <2> DEFINE a == IF req[r].kind = "health" THEN "probe" ELSE "bind"
             q == [req[r] EXCEPT !.at = a]
  <2>1. req' = [req EXCEPT ![r] = q] /\ shared' = shared \cup {r} /\ UNCHANGED owner
    BY <1>2 DEF Guard, To
  <2>2. a \in Places /\ a \in {"probe", "bind"}
    BY DEF Places
  <2> HIDE DEF a
  <2>3. q \in RequestTypes /\ q.at = a
    BY <2>2, Types, Placed
  <2> HIDE DEF q
  <2>4. /\ req' \in [Requests -> RequestTypes] /\ req'[r].at \in {"probe", "bind"}
        /\ \A s \in Requests : s # r => req'[s] = req[s]
    BY <2>1, <2>2, <2>3, Types
  <2>5. TypeOK'
    BY <1>0, <2>1, <2>4 DEF IInv, TypeOK, RequestTypes, contents
  <2>6. Holds'
    BY <1>2, <2>1, <2>4 DEF IInv, Holds, Restoring, AtDatabase, Unguarded, Is
  <2>7. Saved'
    BY <1>0, <2>4 DEF IInv, Saved, Is, contents
  <2> QED BY <2>5, <2>6, <2>7 DEF IInv
<1> QED BY <1>1, <1>2

LEMMA BindKeeps ==
  ASSUME IInv, NEW r \in Requests, Bind(r)
  PROVE  IInv'
<1>0. /\ req[r].at = "bind" /\ Tallied
      /\ UNCHANGED <<up, outages, begun, store, reported, jobs>>
  BY NothingTallied DEF Bind, Is, network
<1>1. CASE Reachable = {} /\ End(r) /\ UNCHANGED target
  BY <1>0, <1>1, Types, Ends
<1>2. ASSUME NEW d \in Databases, GetEngine(Home[r], d),
             req' = [req EXCEPT ![r].at = AfterBind(req[r].kind), ![r].db = d],
             UNCHANGED <<shared, owner>>
      PROVE  IInv'
  <2> DEFINE a == AfterBind(req[r].kind)
             p == [req[r] EXCEPT !.at = a]
             q == [p EXCEPT !.db = d]
  <2>1. req' = [req EXCEPT ![r] = q]
    BY <1>2
  <2>2. a \in {"dump", "auth", "commit"} /\ (req[r].kind = "restore" <=> a = "auth")
    BY DEF AfterBind
  <2>3. a \in Places
    BY <2>2 DEF Places
  <2> HIDE DEF a
  <2>4. p \in RequestTypes /\ p.at = a /\ p.kind = req[r].kind
    BY <2>3, Types, Placed
  <2> HIDE DEF p
  <2>5. q \in RequestTypes /\ q.at = a /\ q.kind = req[r].kind /\ q.db = d
    BY <2>4 DEF RequestTypes
  <2> HIDE DEF q
  <2>6. a # "auth" => r \in shared
    BY <1>0, <2>2 DEF IInv, Holds, Is
  <2>7. target' \in [Workers -> Databases]
    BY <1>2, EngineType
  <2> QED BY <1>0, <1>2, <2>1, <2>2, <2>5, <2>6, <2>7, Types, Moves
<1> QED BY <1>1, <1>2 DEF Bind

LEMMA ProbeKeeps ==
  ASSUME IInv, NEW r \in Requests, Probe(r)
  PROVE  IInv'
<1>0. /\ req[r].at = "probe" /\ End(r)
      /\ UNCHANGED <<up, outages, begun, store, jobs>> /\ Tallied
  BY NothingTallied DEF Probe, Is, network
<1>1. /\ target' \in [Workers -> Databases]
      /\ reported' \in [Workers -> {"ok", "degradado", None}]
  <2>1. CASE /\ \E d \in Databases : GetEngine(Home[r], d)
             /\ reported' = [reported EXCEPT ![Home[r]] = "ok"]
    BY <2>1, Types, EngineType
  <2>2. CASE /\ reported' = [reported EXCEPT ![Home[r]] = "degradado"]
             /\ UNCHANGED target
    BY <2>2, Types
  <2> QED BY <2>1, <2>2 DEF Probe
<1> QED BY <1>0, <1>1, Types, Ends

\* Beside a restore that has its backup, only a contract job commits, and it
\* is noted.
LEMMA CommitKeeps ==
  ASSUME IInv, NEW r \in Requests, Commit(r)
  PROVE  IInv'
<1> DEFINE d == req[r].db
           k == req[r].kind
<1>0. /\ req[r].at = "commit" /\ End(r)
      /\ UNCHANGED <<up, outages, begun, target, store, counts, backup, reported>>
  BY DEF Commit, Is, network
<1>1. /\ req \in [Requests -> RequestTypes] /\ Quiet \in RequestTypes
      /\ Quiet.at = "idle"
  BY DEF IInv, TypeOK, RequestTypes, Quiet, Places
<1>2. /\ req' \in [Requests -> RequestTypes] /\ req'[r].at = "idle"
      /\ \A s \in Requests : s # r => req'[s] = req[s]
      /\ shared' = shared \ {r} /\ owner' = owner
  BY <1>0, <1>1 DEF End
<1>3. /\ data \in [Databases -> 0..MaxWrites] /\ MaxWrites \in Nat
      /\ jobs \subseteq Databases /\ since \subseteq {"limiter", "job"}
      /\ "primary" \in Databases
  BY AccessAssumption DEF IInv, TypeOK
<1>4. CASE /\ k \in {"write", "job"} /\ data[d] < MaxWrites
           /\ data' = [data EXCEPT ![d] = @ + 1]
           /\ \/ UNCHANGED jobs
              \/ k = "write" /\ jobs' = jobs \cup {d}
           /\ since' = IF k = "job" /\ d = "primary" THEN since \cup {"job"} ELSE since
  <2>1. data' \in [Databases -> 0..MaxWrites] /\ since' \subseteq {"limiter", "job"}
        /\ since \subseteq since'
    <3>1. d \in Databases => data[d] + 1 \in 0..MaxWrites
      BY <1>3, <1>4
    <3> QED BY <1>3, <1>4, <3>1
  <2>2. jobs' \subseteq Databases
    BY <1>0, <1>3, <1>4 DEF IInv, Holds, Is
  <2>3. data'["primary"] # data["primary"] => d = "primary"
    BY <1>3, <1>4
  <2>4. ASSUME NEW s \in Requests, Is(s, "replace")
        PROVE  data'["primary"] # data["primary"] => "job" \in since'
    <3>1. k = "job"
      BY <1>0, <2>4, Alone DEF RestoreIsAlone, Restoring, AtDatabase, Unguarded, Is
    <3> QED BY <1>4, <2>3, <3>1
  <2>5. TypeOK'
    BY <1>0, <1>2, <2>1, <2>2 DEF IInv, TypeOK, RequestTypes
  <2>6. Holds'
    BY <1>2 DEF IInv, Holds, Restoring, AtDatabase, Unguarded, Is
  <2>7. Saved'
    BY <1>0, <1>2, <2>1, <2>4 DEF IInv, Saved, Is
  <2> QED BY <2>5, <2>6, <2>7 DEF IInv
<1>5. CASE UNCHANGED <<data, jobs, since>>
  BY <1>0, <1>5, NothingTallied, Types, Ends DEF contents
<1> QED BY <1>4, <1>5 DEF Commit

\* A step to a place that needs no lock, or the end.
LEMMA StepsOn ==
  ASSUME IInv, NEW r \in Requests,
         NEW a \in {"page", "upload", "lock", "garbage", "idle"},
         a = "page" => r \in shared,
         \/ End(r)
         \/ To(r, a) /\ UNCHANGED <<shared, owner>>,
         req[r].at \notin {"validate", "save", "replace", "unlock"},
         UNCHANGED <<network, begun, target, store, contents, reported, jobs>>
  PROVE  IInv'
<1>0. UNCHANGED <<up, outages, begun, target, store, reported, jobs>> /\ Tallied
  BY NothingTallied DEF network
<1>1. CASE End(r)
  BY <1>0, <1>1, Types, Ends
<1>2. CASE To(r, a) /\ UNCHANGED <<shared, owner>>
  <2> DEFINE q == [req[r] EXCEPT !.at = a]
  <2>1. req' = [req EXCEPT ![r] = q]
    BY <1>2 DEF To
  <2>2. q \in RequestTypes /\ q.at = a
    <3>1. a \in Places
      BY DEF Places
    <3> QED BY <3>1, Types, Placed
  <2> HIDE DEF q
  <2> QED BY <1>0, <1>2, <2>1, <2>2, Types, Moves
<1> QED BY <1>1, <1>2

\* The export, which holds the lock as it goes on to a page.
LEMMA DumpKeeps ==
  ASSUME IInv, NEW r \in Requests, Dump(r)
  PROVE  IInv'
<1>1. req[r].at = "dump" /\ r \in shared
  BY DEF Dump, IInv, Holds, Is
<1> QED BY <1>1, StepsOn DEF Dump

\* A restore before it has the lock.
LEMMA UploadKeeps ==
  ASSUME IInv, NEW r \in Requests, Authenticate(r) \/ Detach(r)
  PROVE  IInv'
<1>1. CASE Authenticate(r)
  BY <1>1, StepsOn DEF Authenticate, Is
<1>2. CASE Detach(r)
  BY <1>2, StepsOn DEF Detach, Is
<1> QED BY <1>1, <1>2

LEMMA RestoreLockKeeps ==
  ASSUME IInv, NEW r \in Requests, RestoreLock(r)
  PROVE  IInv'
<1>0. /\ req[r].at = "lock" /\ Tallied
      /\ UNCHANGED <<up, outages, begun, target, store, contents, reported, jobs>>
  BY NothingTallied DEF RestoreLock, Is, network
<1>1. CASE End(r)
  BY <1>0, <1>1, Types, Ends
<1>2. CASE ~End(r)
  <2> DEFINE q == [req[r] EXCEPT !.at = "validate"]
  <2>1. /\ req' = [req EXCEPT ![r] = q] /\ owner' = r /\ owner = None
        /\ shared = {} /\ UNCHANGED shared
    BY <1>2 DEF RestoreLock, To
  <2>2. q \in RequestTypes /\ q.at = "validate"
    <3>1. "validate" \in Places
      BY DEF Places
    <3> QED BY <3>1, Types, Placed
  <2> HIDE DEF q
  <2>3. /\ req' \in [Requests -> RequestTypes] /\ req'[r].at = "validate"
        /\ \A s \in Requests : s # r => req'[s] = req[s]
    BY <2>1, <2>2, Types
  <2>4. TypeOK'
    BY <1>0, <2>1, <2>3 DEF IInv, TypeOK, RequestTypes, contents
  <2>5. Holds'
    BY <2>1, <2>3, AccessAssumption
    DEF IInv, Holds, Restoring, AtDatabase, Unguarded, Is
  <2>6. Saved'
    BY <1>0, <2>3 DEF IInv, Saved, Is, contents
  <2> QED BY <2>4, <2>5, <2>6 DEF IInv
<1> QED BY <1>1, <1>2

LEMMA ValidateKeeps ==
  ASSUME IInv, NEW r \in Requests, Validate(r)
  PROVE  IInv'
<1>0. /\ req[r].at = "validate" /\ owner = r /\ Tallied
      /\ UNCHANGED <<up, outages, begun, target, store, shared, owner, reported, jobs>>
  BY NothingTallied DEF Validate, IInv, Holds, Restoring, Is, network
<1>1. PICK a \in {"save", "unlock"} : To(r, a)
  BY DEF Validate
<1>2. [req[r] EXCEPT !.at = a] \in RequestTypes /\ [req[r] EXCEPT !.at = a].at = a
  <2>1. a \in Places
    BY DEF Places
  <2> QED BY <2>1, Types, Placed
<1> DEFINE q == [req[r] EXCEPT !.at = a]
<1>3. req' = [req EXCEPT ![r] = q]
  BY <1>1 DEF To
<1>4. q \in RequestTypes /\ q.at = a
  BY <1>2
<1> HIDE DEF q
<1> QED BY <1>0, <1>3, <1>4, Types, Moves

\* No one commits between the backup and the replacement.
LEMMA SaveKeeps ==
  ASSUME IInv, NEW r \in Requests, SaveBackup(r) \/ Replace(r)
  PROVE  IInv'
<1>0. /\ req[r].at \in {"save", "replace"} /\ owner = r
      /\ UNCHANGED <<up, outages, begun, target, store, shared, owner, reported, jobs>>
  BY DEF SaveBackup, Replace, IInv, Holds, Restoring, Is, network
<1>1. PICK a \in {"replace", "unlock"} : To(r, a)
  BY DEF SaveBackup, Replace
<1>2. /\ req' \in [Requests -> RequestTypes] /\ req'[r].at = a
      /\ req'[r].kind = req[r].kind
      /\ \A s \in Requests : s # r => req'[s] = req[s]
  <2> DEFINE q == [req[r] EXCEPT !.at = a]
  <2>1. a \in Places
    BY DEF Places
  <2>2. q \in RequestTypes /\ q.at = a /\ q.kind = req[r].kind
    BY <2>1, Types, Placed
  <2>3. req' = [req EXCEPT ![r] = q]
    BY <1>1 DEF To
  <2> HIDE DEF q
  <2> QED BY <2>2, <2>3, Types
<1>3. /\ data' \in [Databases -> 0..MaxWrites] /\ counts' \in [Databases -> Nat]
      /\ backup' \in [data : 0..MaxWrites, counts : Nat] \cup {None}
      /\ since' \subseteq {"limiter", "job"}
  <2>1. /\ data \in [Databases -> 0..MaxWrites] /\ counts \in [Databases -> Nat]
        /\ backup \in [data : 0..MaxWrites, counts : Nat] \cup {None}
        /\ since \subseteq {"limiter", "job"} /\ "primary" \in Databases /\ 0 \in 0..MaxWrites
    BY AccessAssumption DEF IInv, TypeOK
  <2>2. CASE SaveBackup(r)
    <3>1. data' = data /\ counts' = counts
      BY <2>2 DEF SaveBackup
    <3>2. \/ /\ backup' = [data |-> data["primary"], counts |-> counts["primary"]]
             /\ since' = {}
          \/ backup' = backup /\ since' = since
      BY <2>2 DEF SaveBackup
    <3>3. data["primary"] \in 0..MaxWrites /\ counts["primary"] \in Nat
      BY <2>1
    <3>4. [data |-> data["primary"], counts |-> counts["primary"]]
            \in [data : 0..MaxWrites, counts : Nat]
      BY <3>3
    <3> QED BY <2>1, <3>1, <3>2, <3>4
  <2>3. CASE Replace(r)
    <3>1. backup' = backup /\ since' = since
      BY <2>3 DEF Replace
    <3>2. \/ data' = data /\ counts' = counts
          \/ /\ data' = [data EXCEPT !["primary"] = 0]
             /\ counts' = [counts EXCEPT !["primary"] = 0]
      BY <2>3 DEF Replace
    <3> QED BY <2>1, <3>1, <3>2
  <2> QED BY <2>2, <2>3
<1>4. TypeOK'
  BY <1>0, <1>2, <1>3 DEF IInv, TypeOK, RequestTypes
<1>5. Holds'
  BY <1>0, <1>2 DEF IInv, Holds, Restoring, AtDatabase, Unguarded, Is
<1>6. ASSUME NEW s \in Requests, s # r PROVE ~Is(s, "replace")'
  BY <1>0, <1>2, <1>6, AccessAssumption DEF IInv, Holds, Restoring, Is
<1>7. Is(r, "replace")' =>
        backup'.data = data'["primary"] /\ backup'.counts = counts'["primary"]
  <2>1. CASE SaveBackup(r)
    <3>1. CASE backup' = [data |-> data["primary"], counts |-> counts["primary"]]
      BY <2>1, <3>1 DEF SaveBackup
    <3>2. CASE To(r, "unlock")
      <4>1. req'[r].at = "unlock"
        BY <3>2, Types, Placed DEF To, Places
      <4> QED BY <4>1 DEF Is
    <3> QED BY <2>1, <3>1, <3>2 DEF SaveBackup
  <2>2. CASE Replace(r)
    <3>1. req'[r].at = "unlock"
      BY <2>2, Types, Placed DEF Replace, To, Places
    <3> QED BY <3>1 DEF Is
  <2> QED BY <2>1, <2>2
<1>8. Saved'
  BY <1>6, <1>7 DEF Saved
<1> QED BY <1>4, <1>5, <1>8 DEF IInv

LEMMA UnlockKeeps ==
  ASSUME IInv, NEW r \in Requests, RestoreUnlock(r)
  PROVE  IInv'
<1>0. /\ req[r].at = "unlock" /\ owner = r /\ owner' = None
      /\ UNCHANGED <<up, outages, begun, target, store, shared, contents, reported, jobs>>
  BY DEF RestoreUnlock, IInv, Holds, Is, network
<1>1. /\ req' \in [Requests -> RequestTypes] /\ req'[r].at = "answer"
      /\ \A s \in Requests : s # r => req'[s] = req[s]
  <2> DEFINE q == [req[r] EXCEPT !.at = "answer"]
  <2>1. q \in RequestTypes /\ q.at = "answer"
    BY Types, Placed DEF Places
  <2>2. req' = [req EXCEPT ![r] = q]
    BY DEF RestoreUnlock, To
  <2> HIDE DEF q
  <2> QED BY <2>1, <2>2, Types
<1>2. TypeOK'
  BY <1>0, <1>1 DEF IInv, TypeOK, RequestTypes, contents
<1>3. Holds'
  BY <1>0, <1>1, AccessAssumption
  DEF IInv, Holds, Restoring, AtDatabase, Unguarded, Is
<1>4. Saved'
  BY <1>0, <1>1 DEF IInv, Saved, Is, contents
<1> QED BY <1>2, <1>3, <1>4 DEF IInv

\* The page takes the lock again, and gives it back.
LEMMA AnswerKeeps ==
  ASSUME IInv, NEW r \in Requests, Answer(r)
  PROVE  IInv'
<1>0. /\ req[r].at = "answer" /\ Tallied
      /\ UNCHANGED <<up, outages, begun, target, store, contents, reported, jobs>>
  BY NothingTallied DEF Answer, Is, network
<1>1. CASE End(r)
  BY <1>0, <1>1, Types, Ends
<1>2. CASE owner = None /\ shared' = shared \cup {r} /\ To(r, "page") /\ UNCHANGED owner
  <2> DEFINE q == [req[r] EXCEPT !.at = "page"]
  <2>1. q \in RequestTypes /\ q.at = "page"
    BY Types, Placed DEF Places
  <2>2. req' = [req EXCEPT ![r] = q]
    BY <1>2 DEF To
  <2> HIDE DEF q
  <2>3. /\ req' \in [Requests -> RequestTypes] /\ req'[r].at = "page"
        /\ \A s \in Requests : s # r => req'[s] = req[s]
    BY <2>1, <2>2, Types
  <2>4. TypeOK'
    BY <1>0, <1>2, <2>3 DEF IInv, TypeOK, RequestTypes, contents
  <2>5. Holds'
    BY <1>2, <2>3 DEF IInv, Holds, Restoring, AtDatabase, Unguarded, Is
  <2>6. Saved'
    BY <1>0, <2>3 DEF IInv, Saved, Is, contents
  <2> QED BY <2>4, <2>5, <2>6 DEF IInv
<1> QED BY <1>1, <1>2 DEF Answer

LEMMA PageKeeps ==
  ASSUME IInv, NEW r \in Requests, Page(r) \/ Collect(r)
  PROVE  IInv'
<1>0. /\ req[r].at \in {"page", "garbage"} /\ owner' = owner
      /\ shared' = shared \/ shared' = shared \ {r}
      /\ UNCHANGED <<up, outages, begun, target, store, contents, reported, jobs>>
  BY DEF Page, Collect, Is, network
<1>1. /\ req' \in [Requests -> RequestTypes] /\ req'[r].at \in {"garbage", "idle"}
      /\ \A s \in Requests : s # r => req'[s] = req[s]
  <2>1. [req[r] EXCEPT !.at = "garbage"] \in RequestTypes
        /\ [req[r] EXCEPT !.at = "garbage"].at = "garbage"
    BY Types, Placed DEF Places
  <2>2. Quiet \in RequestTypes /\ Quiet.at = "idle"
    BY DEF RequestTypes, Quiet, Places
  <2>3. \/ req' = [req EXCEPT ![r] = [req[r] EXCEPT !.at = "garbage"]]
        \/ req' = [req EXCEPT ![r] = Quiet]
    BY DEF Page, Collect, To
  <2>4. PICK q \in RequestTypes : q.at \in {"garbage", "idle"} /\ req' = [req EXCEPT ![r] = q]
    BY <2>1, <2>2, <2>3
  <2> QED BY <2>4, Types
<1>2. TypeOK'
  BY <1>0, <1>1 DEF IInv, TypeOK, RequestTypes, contents
<1>3. Holds'
  BY <1>0, <1>1 DEF IInv, Holds, Restoring, AtDatabase, Unguarded, Is
<1>4. Saved'
  BY <1>0, <1>1 DEF IInv, Saved, Is, contents
<1> QED BY <1>2, <1>3, <1>4 DEF IInv

LEMMA OutageKeeps ==
  ASSUME IInv, NEW d \in Databases, Outage(d)
  PROVE  IInv'
<1>1. TypeOK'
  BY AccessAssumption DEF IInv, TypeOK, Outage, contents
<1>2. Holds' /\ Saved'
  BY DEF IInv, Holds, Saved, Restoring, AtDatabase, Unguarded, Is, Outage, contents
<1> QED BY <1>1, <1>2 DEF IInv

LEMMA Invariance == Spec => []IInv
<1>1. Init => IInv
  <2> SUFFICES ASSUME Init PROVE IInv
    OBVIOUS
  <2>1. /\ Quiet \in RequestTypes /\ Quiet.at = "idle"
        /\ 0 \in 0..MaxWrites /\ 0 \in 0..MaxBegun /\ 0 \in 0..MaxOutages
        /\ "primary" \in Databases
    BY AccessAssumption DEF Quiet, RequestTypes, Places
  <2>2. req \in [Requests -> RequestTypes] /\ \A r \in Requests : req[r].at = "idle"
    BY <2>1 DEF Init
  <2>3. TypeOK
    BY <2>1, <2>2 DEF Init, TypeOK, RequestTypes
  <2>4. Holds /\ Saved
    BY <2>2 DEF Init, Holds, Saved, Restoring, AtDatabase, Unguarded, Is
  <2> QED BY <2>3, <2>4 DEF IInv
<1>2. IInv /\ [Next]_vars => IInv'
  <2> SUFFICES ASSUME IInv, [Next]_vars PROVE IInv'
    OBVIOUS
  <2>1. CASE UNCHANGED vars
    BY <2>1 DEF vars, IInv, TypeOK, Holds, Saved, Restoring, AtDatabase, Unguarded, Is
  <2>2. ASSUME NEW r \in Requests, Step(r) PROVE IInv'
    BY <2>2, LimitedKeeps, GuardKeeps, BindKeeps, ProbeKeeps, CommitKeeps, DumpKeeps,
       UploadKeeps, RestoreLockKeeps, ValidateKeeps, SaveKeeps, UnlockKeeps, AnswerKeeps,
       PageKeeps DEF Step, RestoreStep
  <2> QED BY <2>1, <2>2, BeginKeeps, BeginJobKeeps, OutageKeeps DEF Next
<1> QED BY <1>1, <1>2, PTL DEF Spec

\* Types, for any number of requests, processes and outages.
THEOREM AccessTypes == Spec => []TypeOK
<1>1. IInv => TypeOK
  BY DEF IInv
<1> QED BY <1>1, Invariance, PTL

\* While a restore is at work no handler, export, probe, page or other restore
\* of any process is at a database: only the limiter, contract jobs, restores
\* that read their user and sessions that outlive their answer are
\* (database/core.py:33-62, setup.py:260-274).
THEOREM RestoresAlone == Spec => []RestoreIsAlone
BY Invariance, Alone, PTL

\* What pg_restore replaces is what the backup before it saved, but for what a
\* contract job wrote and the limiter counted in between
\* (exportacao/core.py:140-154, rate_limit.py:52).
THEOREM BackupIsCurrent == Spec => ReplacedIsSaved
<1>1. IInv /\ [Next]_vars =>
        [\A r \in Requests :
           Is(r, "replace") /\ <<data, counts>>' # <<data, counts>> =>
             /\ backup.data = data["primary"] \/ "job" \in since
             /\ backup.counts = counts["primary"] \/ "limiter" \in since]_vars
  BY DEF IInv, Saved
<1> QED BY <1>1, Invariance, PTL DEF Spec, ReplacedIsSaved
=============================================================================
