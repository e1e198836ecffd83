---------------------------- MODULE RateLimiter ----------------------------
(***************************************************************************)
(* DatabaseRateLimiterStore.allow (database/rate_limit.py): the fixed      *)
(* window of one bucket, kept in a row of the database and shared by every *)
(* process.  A call reads the clock once, then sends one statement after   *)
(* another; the other calls run between them, and the clock moves on.      *)
(* Every statement that writes is the last one of its transaction, so it   *)
(* is one step with the commit.                                            *)
(***************************************************************************)
EXTENDS Integers

CONSTANTS
  Calls,       \* the requests that may be asking
  Processes,   \* the worker processes, each with its own store object
  ProcessOf,   \* ProcessOf[c]: the process that runs call c
  MaxResets,   \* bound on the times the table is emptied from outside
  Limit,       \* hits a window allows
  Window,      \* length of a window, in ticks of the clock
  MaxTime,     \* bound: the clock stops here
  Nothing      \* no row, or no clean-up yet

ASSUME LimiterAssumption ==
  /\ Limit \in Nat \ {0}
  /\ Window \in Nat \ {0}
  /\ MaxTime \in Nat
  /\ Nothing \notin Nat \cup [start: Nat, count: Nat, updated: Nat]
  /\ Nothing \notin Calls
  /\ ProcessOf \in [Calls -> Processes]
  /\ MaxResets \in Nat

VARIABLES
  clock,   \* time.time()
  row,     \* the bucket's row, or Nothing
  hits,    \* the calls allowed in the row's window (history)
  last,    \* per process, its store's _last_cleanup
  call,    \* per call, the statement it is at
  resets   \* times the table was emptied

limiterVars == <<clock, row, hits, last, call, resets>>

Times == 0..MaxTime
Rows == [start: Times, count: 1..Limit, updated: Times]
Statements == {"cleanup", "increment", "reset", "insert", "select"}
Outside == [at |-> "out", now |-> 0, try |-> 0, full |-> FALSE, lost |-> 0]

InitLimiter ==
  /\ clock = 0
  /\ row = Nothing
  /\ hits = 0
  /\ last = [w \in Processes |-> Nothing]
  /\ call = [c \in Calls |-> Outside]
  /\ resets = 0

Now(c) == call[c].now
At(c, s) == call[c].at = s
Goto(c, s) == call' = [call EXCEPT ![c].at = s]

\* The row's window is over for a call that read the clock at t.
Over(t) == row # Nothing /\ row.start <= t - Window
Current(t) == row # Nothing /\ row.start > t - Window

\* A fresh row for a window that begins with the call's own hit.
Opened(t) == [start |-> t, count |-> 1, updated |-> t]

\* What an allowed hit is worth, whatever the statement that allowed it: the
\* first of a window when there is no window it can be counted in.
Counted(c) ==
  hits' = IF Current(Now(c)) THEN hits + 1 ELSE 1

\* Every call that is still asking sees the row change (history, up to two).
Raced(calls, c) ==
  [x \in Calls |-> IF x # c /\ calls[x].at \in Statements /\ calls[x].lost < 2
                   THEN [calls[x] EXCEPT !.lost = @ + 1] ELSE calls[x]]
Allowed(c) == call' = Raced([call EXCEPT ![c].at = "allowed"], c)

Ask(c) ==
  /\ At(c, "out")
  /\ call' = [call EXCEPT ![c] =
                [Outside EXCEPT !.at = "cleanup", !.now = clock, !.try = 1]]
  /\ UNCHANGED <<clock, row, hits, last, resets>>

\* The answer: the request goes on, or it is a 429.
Return(c) ==
  /\ At(c, "allowed") \/ At(c, "refused")
  /\ call' = [call EXCEPT ![c] = Outside]
  /\ UNCHANGED <<clock, row, hits, last, resets>>

CleanupIsDue(c) == last[ProcessOf[c]] # Nothing => Now(c) - last[ProcessOf[c]] >= Window
Stale(t) == row # Nothing /\ row.updated < t - 2 * Window

(***************************************************************************)
(* _cleanup_old_buckets.  The store of the worker cleans at most once in   *)
(* a window.  A row it deletes stays locked until the transaction ends,    *)
(* and nothing but the insert of the same call can follow: one step.       *)
(***************************************************************************)
Cleanup(c) ==
  /\ At(c, "cleanup")
  /\ last' = [last EXCEPT ![ProcessOf[c]] = IF CleanupIsDue(c) THEN Now(c) ELSE @]
  /\ \/ /\ CleanupIsDue(c) /\ Stale(Now(c))
        /\ row' = Opened(Now(c))
        /\ Counted(c)
        /\ Allowed(c)
     \/ /\ ~(CleanupIsDue(c) /\ Stale(Now(c)))
        /\ Goto(c, "increment")
        /\ UNCHANGED <<row, hits>>
  /\ UNCHANGED <<clock, resets>>

\* Not the code: the limit itself still counts.
IncrementPast(c) ==
  /\ At(c, "increment")
  /\ \/ /\ Current(Now(c)) /\ row.count <= Limit
        /\ row' = [row EXCEPT !.count = @ + 1, !.updated = Now(c)]
        /\ Counted(c) /\ Allowed(c)
     \/ /\ ~(Current(Now(c)) /\ row.count <= Limit)
        /\ call' = [call EXCEPT ![c].at = "reset", ![c].full = @ \/ Current(Now(c))]
        /\ UNCHANGED <<row, hits>>
  /\ UNCHANGED <<clock, last, resets>>

\* _increment_current_window: one UPDATE that counts only below the limit.
Increment(c) ==
  /\ At(c, "increment")
  /\ \/ /\ Current(Now(c)) /\ row.count < Limit
        /\ row' = [row EXCEPT !.count = @ + 1, !.updated = Now(c)]
        /\ Counted(c)
        /\ Allowed(c)
     \/ /\ ~(Current(Now(c)) /\ row.count < Limit)
        /\ call' = [call EXCEPT ![c].at = "reset",
                                ![c].full = @ \/ Current(Now(c))]
        /\ UNCHANGED <<row, hits>>
  /\ UNCHANGED <<clock, last, resets>>

\* Not the code: the window is judged by the call that found it spent, so two
\* calls open it one after the other.
ResetAnyway(c) ==
  /\ At(c, "reset")
  /\ \/ /\ row # Nothing /\ ~call[c].full
        /\ row' = Opened(Now(c)) /\ Counted(c) /\ Allowed(c)
     \/ /\ row = Nothing \/ call[c].full
        /\ Goto(c, "insert") /\ UNCHANGED <<row, hits>>
  /\ UNCHANGED <<clock, last, resets>>

\* _reset_expired_window: one UPDATE of a row whose window is over.
Reset(c) ==
  /\ At(c, "reset")
  /\ \/ /\ Over(Now(c))
        /\ row' = Opened(Now(c))
        /\ Counted(c)
        /\ Allowed(c)
     \/ /\ ~Over(Now(c))
        /\ Goto(c, "insert")
        /\ UNCHANGED <<row, hits>>
  /\ UNCHANGED <<clock, last, resets>>

\* Not the code: a conflict is a refusal.
InsertOnce(c) ==
  /\ At(c, "insert")
  /\ \/ row = Nothing /\ row' = Opened(Now(c)) /\ Counted(c) /\ Allowed(c)
     \/ row # Nothing /\ Goto(c, "select") /\ UNCHANGED <<row, hits>>
  /\ UNCHANGED <<clock, last, resets>>

\* _insert_bucket: ON CONFLICT DO NOTHING; after a conflict the call starts
\* over once, then looks at the row that refuses it.
Insert(c) ==
  /\ At(c, "insert")
  /\ \/ /\ row = Nothing
        /\ row' = Opened(Now(c))
        /\ Counted(c)
        /\ Allowed(c)
     \/ /\ row # Nothing
        /\ IF call[c].try = 1
           THEN call' = [call EXCEPT ![c].at = "increment", ![c].try = 2]
           ELSE Goto(c, "select")
        /\ UNCHANGED <<row, hits>>
  /\ UNCHANGED <<clock, last, resets>>

\* The row is gone: nothing refuses the call.  Otherwise it is refused.
Select(c) ==
  /\ At(c, "select")
  /\ Goto(c, IF row = Nothing THEN "allowed" ELSE "refused")
  /\ UNCHANGED <<clock, row, hits, last, resets>>

\* Bound: no call takes longer than a window, so the clock waits for a call
\* that began a tick before.
Tick ==
  /\ clock < MaxTime
  /\ \A c \in Calls : call[c].at \in Statements => Now(c) = clock
  /\ clock' = clock + 1
  /\ UNCHANGED <<row, hits, last, call, resets>>

\* The table is emptied: reset(), or a restore of the database, whose
\* pg_restore replaces this table with the others.
Emptied ==
  /\ resets < MaxResets
  /\ resets' = resets + 1
  /\ row' = Nothing /\ hits' = 0
  /\ call' = Raced(call, Nothing)
  /\ UNCHANGED <<clock, last>>

Statement(c) == Cleanup(c) \/ Increment(c) \/ Reset(c) \/ Insert(c) \/ Select(c)

NextLimiter ==
  \/ \E c \in Calls : Ask(c) \/ Statement(c) \/ Return(c)
  \/ Tick
  \/ Emptied

LimiterSpec == InitLimiter /\ [][NextLimiter]_limiterVars

----------------------------------------------------------------------------
TypeLimiter ==
  /\ clock \in Times
  /\ row \in Rows \cup {Nothing}
  /\ hits \in Nat
  /\ resets \in 0..MaxResets
  /\ last \in [Processes -> Times \cup {Nothing}]
  /\ call \in [Calls -> [at: Statements \cup {"out", "allowed", "refused"},
                         now: Times, try: 0..2, full: BOOLEAN, lost: 0..2]]

\* However the calls of the processes interleave, no window of the bucket
\* lets more than Limit of them through (rate_limit.py:52-61).
LimitHolds == hits <= Limit

\* A call is refused only when it found the limit of a running window spent,
\* or when two other calls changed the row under it: losing one race, for the
\* first row of a bucket or for the reset of a window, is no reason to answer
\* 429 (rate_limit.py:54-60).
RefusedWhenSpent ==
  \A c \in Calls : At(c, "refused") => call[c].full \/ call[c].lost = 2
=============================================================================
