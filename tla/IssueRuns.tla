------------------------------ MODULE IssueRuns ------------------------------
(***************************************************************************)
(* The queue runner that hands the issues of the tracker to agents, one at *)
(* a time (process_issue.py run-queue), the Stop hook that integrates what *)
(* an agent did (verify-on-stop.py, agent-finish.sh), and the script that  *)
(* files new issues and frees slots (send_issues.py).                      *)
(*                                                                         *)
(* A step of the runner is one call to a service, so an agent, its hook    *)
(* and a human act between any two of them.  A call may fail (faults), and *)
(* the runner may be killed while the agents it started go on.             *)
(***************************************************************************)
EXTENDS Mailbox, FiniteSets

CONSTANTS
  Issues,         \* issues of the tracker
  Rank,           \* place of every issue by priority, then identifier
  Filed,          \* issues already filed at the start
  LongNamed,      \* issues whose branch name is longer than the identifier
  None,
  Slots,          \* issues the tracker's plan has room for
  RelistEvery,    \* issues processed between two readings of the queue
  MaxRuns         \* bound: runs of run-queue

ASSUME IssueAssumption ==
  /\ None \notin Issues
  /\ Filed \subseteq Issues /\ LongNamed \subseteq Issues
  /\ Rank \in [Issues -> Nat]
  /\ {Slots, RelistEvery, MaxRuns} \subseteq Nat

VARIABLES
  linear,     \* workflow state of every issue
  repo,       \* worktree, branch and commits of every issue
  conflicted, \* the master worktree is left in the middle of a merge
  agent,      \* the agent of every issue, with the hook of its turn
  credited,   \* issues an attempt finished: success reported after the merge
  run         \* the queue runner

issueVars == <<linear, repo, conflicted, agent, credited, run>>

States == {"absent", "todo", "in_progress", "in_review", "done", "deleted"}

Repos == [tree : {"none", "clean", "dirty"}, branch : BOOLEAN, ahead : BOOLEAN]

\* report, armed: the files report.json and orchestration.json; blocked: the
\* hook has already sent the agent back once; phase: what the hook will send.
Agents ==
  [at : {"none", "idle", "working", "hook", "send", "silent", "ended"},
   report : {"none", "success", "failed"}, armed : BOOLEAN, blocked : BOOLEAN,
   phase : {"none", "success", "failed", "merge_failed"}, try : Nat]

RunSteps == {"off", "list", "preflight", "create", "progress", "open", "dispatch", "prompt",
             "wait", "merge", "review", "done", "clean", "drop",
             "reset", "reset_tree"}

NoRepo  == [tree |-> "none", branch |-> FALSE, ahead |-> FALSE]
NoAgent == [at |-> "none", report |-> "none", armed |-> FALSE, blocked |-> FALSE,
            phase |-> "none", try |-> 0]

InitIssues ==
  /\ linear = [i \in Issues |-> IF i \in Filed THEN "todo" ELSE "absent"]
  /\ repo = [i \in Issues |-> NoRepo]
  /\ conflicted = FALSE
  /\ agent = [i \in Issues |-> NoAgent]
  /\ credited = {}
  /\ run = [at |-> "off", issue |-> None, queue |-> {}, attempted |-> {}, since |-> 0, n |-> 0]

-----------------------------------------------------------------------------
(* The runner: listing and picking.                                        *)

Goes(step) == run' = [run EXCEPT !.at = step]
Ends == run' = [run EXCEPT !.at = "off", !.issue = None, !.queue = {}]

\* Mutant: the loop goes on with the issue still taken.
RecordsKeepsIssue == run' = [run EXCEPT !.at = "list", !.since = @ + 1]

\* The issue is recorded and the loop goes on.
Records == run' = [run EXCEPT !.at = "list", !.issue = None, !.since = @ + 1]

\* A runner starts only when none is alive (the lock file of a killed one is
\* taken over).
StartRun ==
  /\ run.at = "off" /\ run.n < MaxRuns
  /\ run' = [at |-> "list", issue |-> None, queue |-> {}, attempted |-> {},
             since |-> RelistEvery, n |-> run.n + 1]
  /\ UNCHANGED <<linear, repo, conflicted, agent, credited, faults, mailVars>>

\* Mutant: an issue already attempted in this run is listed again.
OpenIssuesAgain == {i \in Issues : linear[i] = "todo"}

OpenIssues == {i \in Issues : linear[i] = "todo" /\ i \notin run.attempted}

MustList == run.queue = {} \/ run.since >= RelistEvery

ListQueue ==
  /\ run.at = "list" /\ MustList
  /\ IF OpenIssues = {} THEN Ends
     ELSE run' = [run EXCEPT !.queue = OpenIssues, !.since = 0]
  /\ UNCHANGED <<linear, repo, conflicted, agent, credited, faults, mailVars>>

PickIssue ==
  /\ run.at = "list" /\ ~MustList
  /\ \E i \in run.queue :
       /\ \A j \in run.queue : Rank[i] <= Rank[j]
       /\ run' = [run EXCEPT !.at = "preflight", !.issue = i,
                             !.queue = @ \ {i}, !.attempted = @ \cup {i}]
  /\ UNCHANGED <<linear, repo, conflicted, agent, credited, faults, mailVars>>

\* An error ends the run where it is: nothing of the issue is undone.
StopsOnError ==
  /\ run.at \in {"list", "preflight", "create", "open", "dispatch", "prompt", "wait", "merge"}
  /\ Fault /\ Ends
  /\ UNCHANGED <<linear, repo, conflicted, agent, credited, mailVars>>

\* A harness timeout kills the runner; its agents stay.
KillRun ==
  /\ run.at # "off" /\ Fault /\ Ends
  /\ UNCHANGED <<linear, repo, conflicted, agent, credited, mailVars>>

-----------------------------------------------------------------------------
(* The runner: starting an agent on an issue.                              *)

SetStatus(i, state) ==
  BestEffort(linear' = [linear EXCEPT ![i] = state], UNCHANGED linear)

\* A worktree, or else a branch, that mentions the issue: it is skipped.  A
\* branch alone is taken for finished work.
Skip ==
  LET i == run.issue
  IN  /\ run.at = "preflight"
      /\ repo[i].tree # "none" \/ repo[i].branch
      /\ IF repo[i].tree = "none" THEN SetStatus(i, "done")
         ELSE UNCHANGED <<linear, faults>>
      /\ Records
      /\ UNCHANGED <<repo, conflicted, agent, credited, mailVars>>

Preflight ==
  /\ run.at = "preflight"
  /\ repo[run.issue].tree = "none" /\ ~repo[run.issue].branch
  /\ Goes("create")
  /\ UNCHANGED <<linear, repo, conflicted, agent, credited, faults, mailVars>>

CreateWorktree ==
  /\ run.at = "create"
  /\ repo' = [repo EXCEPT ![run.issue] = [tree |-> "clean", branch |-> TRUE, ahead |-> FALSE]]
  /\ Goes("progress")
  /\ UNCHANGED <<linear, conflicted, agent, credited, faults, mailVars>>

SetInProgress ==
  /\ run.at = "progress"
  /\ SetStatus(run.issue, "in_progress")
  /\ Goes("open")
  /\ UNCHANGED <<repo, conflicted, agent, credited, mailVars>>

\* Task and terminal; the agent is up, with the model and effort asked for.
OpenAgent ==
  /\ run.at = "open"
  /\ agent' = [agent EXCEPT ![run.issue] = [NoAgent EXCEPT !.at = "idle", !.try = run.n]]
  /\ Goes("dispatch")
  /\ UNCHANGED <<linear, repo, conflicted, credited, faults, mailVars>>

\* Dispatch, then the file that tells the hook whom to report to.
Dispatch ==
  /\ run.at = "dispatch"
  /\ agent' = [agent EXCEPT ![run.issue].armed = TRUE]
  /\ Goes("prompt")
  /\ UNCHANGED <<linear, repo, conflicted, credited, faults, mailVars>>

SendPrompt ==
  /\ run.at = "prompt"
  /\ agent' = [agent EXCEPT ![run.issue].at = "working"]
  /\ Goes("wait")
  /\ UNCHANGED <<linear, repo, conflicted, credited, faults, mailVars>>

-----------------------------------------------------------------------------
(* The runner: waiting for the verdict, and what follows it.               *)

\* Mutant: the ids of a message are not compared.
AwaitedAny(m) == m.type \in {"worker_done", "escalation"}

Awaited(m) == m.task = run.issue /\ m.try = agent[run.issue].try

\* Mutant: work that could not be merged is thrown away.
HeedsUnmerged(m) ==
  IF m.type = "escalation" THEN Records
  ELSE IF m.phase = "success" THEN Goes("merge")
  ELSE Goes("reset")

\* What a verdict makes the run do.  After merge_failed it stops.
Heeds(m) ==
  IF m.type = "escalation" THEN Records
  ELSE IF m.phase = "success" THEN Goes("merge")
  ELSE IF m.phase = "merge_failed" THEN Ends
  ELSE Goes("reset")

\* Mutant: only the oldest message of a delivery is looked at.
PollFirstOnly ==
  /\ run.at = "wait" /\ Batch # <<>>
  /\ \/ Acknowledge /\ NoFault
     \/ LeaveOut /\ Fault
  /\ IF Awaited(Head(Batch)) THEN Heeds(Head(Batch)) ELSE UNCHANGED run
  /\ UNCHANGED <<linear, repo, conflicted, agent, credited>>

\* One delivery: the first message of the awaited issue decides, the whole
\* delivery is acknowledged.
Poll ==
  /\ run.at = "wait" /\ Batch # <<>>
  /\ \/ Acknowledge /\ NoFault
     \/ LeaveOut /\ Fault
  /\ IF ~Has(Batch, Awaited) THEN UNCHANGED run
     ELSE \E m \in FirstOf(Batch, Awaited) : Heeds(m)
  /\ UNCHANGED <<linear, repo, conflicted, agent, credited>>

\* The wait cap: the agent is left alone and the run goes on.
GiveUp ==
  /\ run.at = "wait" /\ Records
  /\ UNCHANGED <<linear, repo, conflicted, agent, credited, faults, mailVars>>

\* Nothing uncommitted, and every commit of the branch is in master.
Merged(i) == repo[i].branch /\ repo[i].tree # "dirty" /\ ~repo[i].ahead

SeesMerge ==
  /\ run.at = "merge" /\ Merged(run.issue)
  /\ Goes("review")
  /\ UNCHANGED <<linear, repo, conflicted, agent, credited, faults, mailVars>>

SetReview ==
  /\ run.at = "review" /\ SetStatus(run.issue, "in_review") /\ Goes("done")
  /\ UNCHANGED <<repo, conflicted, agent, credited, mailVars>>

SetDone ==
  /\ run.at = "done" /\ SetStatus(run.issue, "done") /\ Goes("clean")
  /\ UNCHANGED <<repo, conflicted, agent, credited, mailVars>>

\* worktree rm --force: the branch goes too unless it has commits of its own.
WithoutTree(r) ==
  [r EXCEPT !.tree = "none", !.branch = @ /\ r.ahead]

RemoveTree(i) ==
  BestEffort(repo' = [repo EXCEPT ![i] = WithoutTree(@)], UNCHANGED repo)

\* The agent has sent its verdict: closed or left open, it does nothing more.
CloseTerminal(i) == agent' = [agent EXCEPT ![i].at = "none"]

CleanUp ==
  /\ run.at = "clean"
  /\ CloseTerminal(run.issue)
  /\ RemoveTree(run.issue)
  /\ Goes("drop")
  /\ UNCHANGED <<linear, conflicted, credited, mailVars>>

\* git branch -D <identifier>: refused for a branch that is checked out, and
\* no branch has that name when the slug is longer.
DropBranch ==
  LET i == run.issue
  IN  /\ run.at = "drop"
      /\ repo' = IF i \notin LongNamed /\ repo[i].tree = "none"
                   THEN [repo EXCEPT ![i] = NoRepo] ELSE repo
      /\ Records
      /\ UNCHANGED <<linear, conflicted, agent, credited, faults, mailVars>>

\* A failed attempt: the terminal closed, the issue back in Todo, then the
\* worktree and (DropBranch) the branch removed.
ResetStatus ==
  /\ run.at = "reset"
  /\ CloseTerminal(run.issue)
  /\ SetStatus(run.issue, "todo")
  /\ Goes("reset_tree")
  /\ UNCHANGED <<repo, conflicted, credited, mailVars>>

ResetTree ==
  /\ run.at = "reset_tree" /\ RemoveTree(run.issue) /\ Goes("drop")
  /\ UNCHANGED <<linear, conflicted, agent, credited, mailVars>>

-----------------------------------------------------------------------------
(* The agent, its Stop hook, and the human who answers it.                 *)

AgentStep == UNCHANGED <<linear, credited, run>>
Turns(i, a) == agent' = [agent EXCEPT ![i] = a]

Edit(i) ==
  /\ agent[i].at = "working" /\ repo[i].tree = "clean"
  /\ repo' = [repo EXCEPT ![i].tree = "dirty"]
  /\ AgentStep /\ UNCHANGED <<agent, conflicted, faults, mailVars>>

\* agent-report.sh, the last command of a turn that finishes the issue.  Bound:
\* a success that was sent back may still become a failure, not the reverse.
Report(i) ==
  /\ agent[i].at = "working" /\ agent[i].report # "failed"
  /\ \E verdict \in {"success", "failed"} \ {agent[i].report} :
       Turns(i, [agent[i] EXCEPT !.report = verdict])
  /\ AgentStep /\ UNCHANGED <<repo, conflicted, faults, mailVars>>

\* Bound: only the agent that the run waits for asks, one question at a time.
Escalate(i) ==
  /\ agent[i].at = "working" /\ run.at = "wait" /\ run.issue = i
  /\ ~\E n \in 1..Len(mailbox) : mailbox[n].task = i
  /\ Post(Message(i, agent[i].try, "escalation", "none"))
  /\ AgentStep /\ UNCHANGED <<agent, repo, conflicted, faults>>

Stopped(a) == [a EXCEPT !.at = "silent", !.blocked = FALSE]

\* The turn ends.  The hook has nothing to do for a clean tree and no report.
EndTurn(i) ==
  /\ agent[i].at = "working"
  /\ Turns(i, IF repo[i].tree = "clean" /\ agent[i].report = "none" THEN Stopped(agent[i])
              ELSE [agent[i] EXCEPT !.at = "hook"])
  /\ AgentStep /\ UNCHANGED <<repo, conflicted, faults, mailVars>>

\* Sent back to fix something; the next stop may not send it back again.
SentBack(i) == [agent[i] EXCEPT !.at = "working", !.blocked = TRUE]

\* The post-edit checks come first; the Integrate steps are after they passed.
ChecksFail(i) ==
  /\ agent[i].at = "hook"
  /\ Turns(i, IF ~agent[i].blocked THEN SentBack(i)
              ELSE IF agent[i].report = "none" THEN Stopped(agent[i])
              ELSE [agent[i] EXCEPT !.at = "send", !.phase = "failed"])
  /\ AgentStep /\ UNCHANGED <<repo, conflicted, faults, mailVars>>

\* agent-finish.sh: commit, then merge into master.  It stops before the
\* commit (master not clean, checks) or at a merge conflict.
Finishes(i) ==
  /\ ~conflicted
  /\ repo' = [repo EXCEPT ![i].tree = "clean", ![i].ahead = FALSE]
  /\ UNCHANGED conflicted

Committed(i) == repo' = [repo EXCEPT ![i].tree = "clean", ![i].ahead = TRUE]
Pending(i) == repo[i].tree = "dirty" \/ repo[i].ahead

FinishFails(i) ==
  \/ UNCHANGED <<repo, conflicted>>
  \/ Pending(i) /\ ~conflicted /\ Committed(i) /\ conflicted' = TRUE

\* No report: whatever is pending is integrated and nobody is told.
IntegrateUnreported(i) ==
  /\ agent[i].at = "hook" /\ agent[i].report = "none" /\ repo[i].tree = "dirty"
  /\ \/ Finishes(i) /\ Turns(i, Stopped(agent[i]))
     \/ /\ FinishFails(i)
        /\ Turns(i, IF agent[i].blocked THEN Stopped(agent[i]) ELSE SentBack(i))
  /\ AgentStep /\ UNCHANGED <<faults, mailVars>>

IntegrateReported(i) ==
  LET Sends(phase) == Turns(i, [agent[i] EXCEPT !.at = "send", !.phase = phase])
  IN  /\ agent[i].at = "hook" /\ agent[i].report # "none"
      /\ \/ agent[i].report = "failed" /\ Sends("failed") /\ UNCHANGED <<repo, conflicted>>
         \/ agent[i].report = "success" /\ Finishes(i) /\ Sends("success")
         \/ /\ agent[i].report = "success" /\ FinishFails(i)
            /\ IF agent[i].blocked THEN Sends("merge_failed") ELSE Turns(i, SentBack(i))
      /\ AgentStep /\ UNCHANGED <<faults, mailVars>>

\* worker_done to the coordinator; the report is consumed once it is sent.
SendVerdict(i) ==
  /\ agent[i].at = "send"
  /\ \/ /\ agent[i].armed /\ NoFault
        /\ Post(Message(i, agent[i].try, "worker_done", agent[i].phase))
        /\ Turns(i, [agent[i] EXCEPT !.at = "ended", !.report = "none", !.blocked = FALSE])
        /\ credited' = IF agent[i].phase = "success" THEN credited \cup {i} ELSE credited
     \/ /\ Fault
        /\ Turns(i, IF agent[i].blocked THEN [Stopped(agent[i]) EXCEPT !.report = "none"]
                    ELSE SentBack(i))
        /\ UNCHANGED <<credited, mailVars>>
  /\ UNCHANGED <<linear, repo, conflicted, run>>

\* The hook runs into its own timeout of 600 s, perhaps between the commit and
\* the merge; the report stays on disk.
HookKilled(i) ==
  /\ agent[i].at \in {"hook", "send"} /\ Fault
  /\ Turns(i, Stopped(agent[i]))
  /\ \/ UNCHANGED repo
     \/ agent[i].at = "hook" /\ repo[i].tree = "dirty" /\ Committed(i)
  /\ AgentStep /\ UNCHANGED <<conflicted, mailVars>>

HumanAnswers(i) ==
  /\ agent[i].at = "silent"
  /\ Turns(i, [agent[i] EXCEPT !.at = "working"])
  /\ AgentStep /\ UNCHANGED <<repo, conflicted, faults, mailVars>>

-----------------------------------------------------------------------------
(* send_issues.py.                                                         *)

Held == {i \in Issues : linear[i] \notin {"absent", "deleted"}}

FileIssue(i) ==
  /\ linear[i] = "absent" /\ Cardinality(Held) < Slots
  /\ linear' = [linear EXCEPT ![i] = "todo"]
  /\ UNCHANGED <<repo, conflicted, agent, credited, run, faults, mailVars>>

\* delete_done_issues.py, on its own or when the tracker refuses an issue for
\* lack of room: every finished issue is deleted for good.
DeleteDone ==
  /\ \E i \in Issues : linear[i] = "done"
  /\ linear' = [i \in Issues |-> IF linear[i] = "done" THEN "deleted" ELSE linear[i]]
  /\ UNCHANGED <<repo, conflicted, agent, credited, run, faults, mailVars>>

-----------------------------------------------------------------------------
RunnerStep ==
  \/ ListQueue \/ PickIssue \/ Skip \/ Preflight \/ CreateWorktree \/ SetInProgress
  \/ OpenAgent \/ Dispatch \/ SendPrompt \/ Poll \/ GiveUp \/ SeesMerge
  \/ SetReview \/ SetDone \/ CleanUp \/ DropBranch \/ ResetStatus \/ ResetTree

AgentActs(i) ==
  \/ Edit(i) \/ Report(i) \/ Escalate(i) \/ EndTurn(i) \/ ChecksFail(i)
  \/ IntegrateUnreported(i) \/ IntegrateReported(i) \/ SendVerdict(i)
  \/ HookKilled(i) \/ HumanAnswers(i)

NextIssues ==
  \/ StartRun \/ RunnerStep \/ StopsOnError \/ KillRun \/ DeleteDone
  \/ \E i \in Issues : AgentActs(i) \/ FileIssue(i)

-----------------------------------------------------------------------------
(* Properties.                                                             *)

TypeIssues ==
  /\ linear \in [Issues -> States]
  /\ repo \in [Issues -> Repos]
  /\ conflicted \in BOOLEAN
  /\ agent \in [Issues -> Agents]
  /\ credited \subseteq Issues
  /\ run.at \in RunSteps /\ run.issue \in Issues \cup {None}
  /\ run.at \in {"off", "list"} <=> run.issue = None
  /\ run.attempted \subseteq Issues /\ run.n \in 0..MaxRuns

\* Nothing an agent wrote is thrown away, uncommitted or committed, unless its
\* hook reported a failed attempt (reset_to_todo, cleanup_after_success).
WorkIsLost(i) ==
  \/ repo[i].tree = "dirty" /\ repo'[i].tree = "none"
  \/ repo[i].ahead /\ ~repo'[i].branch

WorkIsKept ==
  [][\A i \in Issues : WorkIsLost(i) => agent[i].phase = "failed"]_<<issueVars, mailVars, faults>>

\* The runner closes an issue after an attempt only if that attempt reported
\* success and all of its work is in master, whatever other agents report.
ClosedIsMerged ==
  [][\A i \in Issues :
       run.at = "done" /\ linear'[i] = "done" /\ linear[i] # "done"
         => i \in credited /\ ~Pending(i)]_<<issueVars, mailVars, faults>>

\* The verdict of the agent a run waits for is still to be read: no delivery
\* of older messages takes it away (poll_orchestration).
VerdictAwaits ==
  run.at = "wait" /\ agent[run.issue].at = "ended"
    => \E n \in 1..Len(mailbox) : Awaited(mailbox[n])

\* Every run ends: the queue is finite and nothing is attempted twice in it.
RunEnds == (run.at # "off") ~> (run.at = "off")

\* An issue is closed only when an attempt at it succeeded.
UnfinishedNeverDone == \A i \in Issues : linear[i] = "done" => i \in credited
=============================================================================
