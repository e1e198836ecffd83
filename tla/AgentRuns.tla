------------------------------ MODULE AgentRuns ------------------------------
(***************************************************************************)
(* The two scripts that hand work to agents share one protocol, the        *)
(* mailbox of the terminal they are started in.  The initial state says    *)
(* which of them the terminal runs.                                        *)
(***************************************************************************)
EXTENDS IssueRuns, JobRuns

VARIABLE script

vars == <<script, issueVars, jobVars, mailVars, faults>>

Init ==
  /\ script \in {"run-queue", "run-jobs"}
  /\ InitIssues /\ InitJobs /\ InitMail

Queue(step) == script = "run-queue" /\ step /\ UNCHANGED <<script, jobVars>>
Jobs(step) == script = "run-jobs" /\ step /\ UNCHANGED <<script, issueVars>>

Next == Queue(NextIssues) \/ Jobs(NextJobs)

\* The scripts go on while they are alive.  A wait ends with its time: two
\* hours for an issue; of a job nothing is assumed about its time.
Fairness ==
  /\ WF_vars(Queue(RunnerStep)) /\ WF_vars(Queue(GiveUp))
  /\ WF_vars(Jobs(DispatcherStep))

Spec == Init /\ [][Next]_vars /\ Fairness

TypeOK == TypeIssues /\ TypeJobs
=============================================================================
