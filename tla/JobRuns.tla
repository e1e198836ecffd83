------------------------------- MODULE JobRuns -------------------------------
(***************************************************************************)
(* The job dispatcher (run_jobs.py run-jobs): a list of jobs handed to     *)
(* workers one at a time, with retries, a state file for --resume, and the *)
(* mailbox of the coordinator.  A step is one call to a service or one     *)
(* write of the state file.                                                *)
(***************************************************************************)
EXTENDS Mailbox, JobFiles, FiniteSets

CONSTANTS
  Workflows,    \* the job files of a run, in order
  MergedList,   \* they are given as workflows and merged into a new file
  MaxJobRuns,   \* bound: runs of run-jobs
  MaxQuestions  \* bound: escalations

ASSUME JobAssumption ==
  /\ {MaxJobRuns, MaxQuestions} \subseteq Nat
  /\ MergedList \in BOOLEAN

VARIABLES
  saved,      \* names the state file records as done
  jobRun,     \* the dispatcher
  workers,    \* every worker started
  heard,      \* jobs whose worker_done a run has read
  questions   \* escalations so far

jobVars == <<saved, jobRun, workers, heard, questions>>

Listed == LoadJobs(Workflows)
JobsList == 1..Len(Listed)
JobNames == [p \in JobsList |-> Listed[p].name]

WorkerSet == [job : JobsList, try : Nat, at : {"idle", "working", "reported", "closed"}]

InitJobs ==
  /\ saved = {}
  /\ jobRun = [at |-> "off", pos |-> 0, done |-> {}, tries |-> 0, n |-> 0]
  /\ workers = {} /\ heard = {} /\ questions = 0

-----------------------------------------------------------------------------
(* The loop over the jobs.                                                 *)

JobGoes(step) == jobRun' = [jobRun EXCEPT !.at = step]
NextJob == jobRun' = [jobRun EXCEPT !.at = "next", !.pos = @ + 1, !.tries = 0]

JobsEnd == jobRun' = [jobRun EXCEPT !.at = "off", !.pos = 0, !.done = {}, !.tries = 0]

\* A merged list is a temporary file with a random name: no state file is
\* found next to it.
LoadState(resume) == IF resume /\ ~MergedList THEN saved ELSE {}

StartJobs ==
  /\ jobRun.at = "off" /\ jobRun.n < MaxJobRuns
  /\ ValidateSkillsExist(Listed)
  /\ \E resume \in BOOLEAN :
       jobRun' = [at |-> "next", pos |-> 1, done |-> LoadState(resume), tries |-> 0,
                  n |-> jobRun.n + 1]
  /\ UNCHANGED <<saved, workers, heard, questions, faults, mailVars>>

Pos == jobRun.pos
AtJob == jobRun.at = "next" /\ Pos \in JobsList

SkipJob ==
  /\ AtJob /\ JobNames[Pos] \in jobRun.done
  /\ NextJob
  /\ UNCHANGED <<saved, workers, heard, questions, faults, mailVars>>

TakeJob ==
  /\ AtJob /\ JobNames[Pos] \notin jobRun.done
  /\ JobGoes("create")
  /\ UNCHANGED <<saved, workers, heard, questions, faults, mailVars>>

EndJobs ==
  /\ jobRun.at = "next" /\ Pos \notin JobsList
  /\ JobsEnd
  /\ UNCHANGED <<saved, workers, heard, questions, faults, mailVars>>

-----------------------------------------------------------------------------
(* One attempt: worker, dispatch, wait.                                    *)

Try == Cardinality({w \in workers : w.job = Pos})   \* attempts at this job so far
Current(w) == w.job = Pos /\ w.try = Try

\* Terminal (and worktree) created, the agent is idle at its prompt.
CreateWorker ==
  /\ jobRun.at = "create"
  /\ workers' = workers \cup {[job |-> Pos, try |-> Try + 1, at |-> "idle"]}
  /\ JobGoes("dispatch")
  /\ UNCHANGED <<saved, heard, questions, faults, mailVars>>

Moves(w, state) == workers' = (workers \ {w}) \cup {[w EXCEPT !.at = state]}

DispatchJob ==
  /\ jobRun.at = "dispatch"
  /\ \E w \in workers : Current(w) /\ Moves(w, "working")
  /\ JobGoes("wait")
  /\ UNCHANGED <<saved, heard, questions, faults, mailVars>>

\* Any call up to the dispatch, or a later check, fails: the job is tried
\* again or the run ends.  Nothing the attempt created is removed.
AttemptFails ==
  /\ jobRun.at \in {"create", "dispatch", "wait"} /\ Fault
  /\ IF jobRun.tries < Listed[Pos].retries
       THEN jobRun' = [jobRun EXCEPT !.at = "create", !.tries = @ + 1]
       ELSE JobsEnd
  /\ UNCHANGED <<saved, workers, heard, questions, mailVars>>

JobAwaited(m) == m.task = Pos /\ m.try = Try /\ HasDispatchId(m)

\* The first awaited message decides: a report closes the worker, a question
\* ends the job and leaves the worker open.
Decides ==
  \E m \in FirstOf(Batch, JobAwaited) :
    \/ m.type = "worker_done" /\ JobGoes("close") /\ heard' = heard \cup {Pos}
    \/ m.type = "named_escalation" /\ NextJob /\ UNCHANGED heard

\* Mutant: a delivery without the awaited message stays out.
PollJobNoAck ==
  /\ jobRun.at = "wait" /\ Batch # <<>>
  /\ IF ~Has(Batch, JobAwaited) THEN LeaveOut /\ UNCHANGED <<jobRun, heard>>
     ELSE LeaveOut /\ Decides
  /\ UNCHANGED <<saved, workers, questions, faults>>

\* One delivery.  It is acknowledged only when the awaited message is not in
\* it; a delivery with that message is seen again by the next job.
PollJob ==
  /\ jobRun.at = "wait" /\ Batch # <<>>
  /\ IF ~Has(Batch, JobAwaited)
       THEN /\ \/ Acknowledge /\ NoFault
               \/ LeaveOut /\ Fault
            /\ UNCHANGED <<jobRun, heard>>
       ELSE LeaveOut /\ NoFault /\ Decides
  /\ UNCHANGED <<saved, workers, questions>>

\* The job's time is up: recorded as stuck, its worker left alone.
JobStuck ==
  /\ jobRun.at = "wait"
  /\ NextJob
  /\ UNCHANGED <<saved, workers, heard, questions, faults, mailVars>>

\* The terminal is closed, unless the job keeps it open.
CloseWorker ==
  /\ jobRun.at = "close"
  /\ \E w \in workers :
       /\ Current(w)
       /\ \/ ~Listed[Pos].keepOpen /\ BestEffort(Moves(w, "closed"), UNCHANGED workers)
          \/ Listed[Pos].keepOpen /\ UNCHANGED workers /\ NoFault
  /\ JobGoes("record")
  /\ UNCHANGED <<saved, heard, questions, mailVars>>

\* The whole of this run's set replaces the state file, in one rename; a
\* failure to write it is ignored.
RecordJob ==
  LET done == jobRun.done \cup {JobNames[Pos]}
  IN  /\ jobRun.at = "record"
      /\ jobRun' = [jobRun EXCEPT !.at = "next", !.pos = @ + 1, !.tries = 0, !.done = done]
      /\ BestEffort(saved' = IF MergedList THEN saved ELSE done, UNCHANGED saved)
      /\ UNCHANGED <<workers, heard, questions, mailVars>>

KillJobs ==
  /\ jobRun.at # "off" /\ Fault /\ JobsEnd
  /\ UNCHANGED <<saved, workers, heard, questions, mailVars>>

-----------------------------------------------------------------------------
(* The workers.                                                            *)

WorkerReports ==
  /\ \E w \in workers :
       /\ w.at = "working"
       /\ Moves(w, "reported")
       /\ Post(Message(w.job, w.try, "worker_done", "none"))
  /\ UNCHANGED <<saved, jobRun, heard, questions, faults>>

\* A question may lack the dispatch id (orchestration-harness.md:39).
\* Bound: only the worker that a run waits for asks something.
WorkerAsks ==
  /\ questions < MaxQuestions /\ questions' = questions + 1
  /\ jobRun.at = "wait"
  /\ \E w \in workers :
       /\ w.at = "working" /\ Current(w)
       /\ \E type \in {"escalation", "named_escalation"} :
            Post(Message(w.job, w.try, type, "none"))
  /\ UNCHANGED <<saved, jobRun, workers, heard, faults>>

DispatcherStep ==
  \/ SkipJob \/ TakeJob \/ EndJobs \/ CreateWorker \/ DispatchJob \/ PollJob
  \/ CloseWorker \/ RecordJob

NextJobs ==
  \/ StartJobs \/ DispatcherStep \/ JobStuck \/ AttemptFails \/ KillJobs
  \/ WorkerReports \/ WorkerAsks

-----------------------------------------------------------------------------
(* Properties.                                                             *)

TypeJobs ==
  /\ saved \subseteq {JobNames[p] : p \in JobsList}
  /\ jobRun.at \in {"off", "next", "create", "dispatch", "wait", "close", "record"}
  /\ jobRun.pos \in 0..(Len(Listed) + 1) /\ jobRun.tries \in Nat
  /\ jobRun.at = "off" <=> jobRun.pos = 0
  /\ jobRun.done \subseteq {JobNames[p] : p \in JobsList}
  /\ jobRun.n \in 0..MaxJobRuns
  /\ workers \subseteq WorkerSet /\ heard \subseteq JobsList
  /\ questions \in 0..MaxQuestions

\* A run that waits for a worker that has reported stops waiting: deliveries
\* meant for others that are handed out again do not hide the report for ever.
VerdictIsHeard ==
  (jobRun.at = "wait" /\ \E w \in workers : Current(w) /\ w.at = "reported")
    ~> (jobRun.at # "wait")

\* No job of a list is passed over without a worker of its own, in this run or
\* in the one it resumes, and --resume takes for done what was reported done:
\* a job is not taken for another
\* (run_jobs.py:949, generate_jobs.py:184-193).
EveryJobIsRun ==
  /\ \A p \in JobsList : p < Pos => \E w \in workers : w.job = p
  /\ \A p \in JobsList : JobNames[p] \in saved => p \in heard

\* The question of a worker reaches the run that waits for it, also when it
\* names no dispatch: it is not acknowledged unread.
QuestionIsHeard ==
  [][\A w \in workers :
       jobRun.at = "wait" /\ jobRun'.at = "wait" /\ Current(w)
         => Len(mailbox') >= Len(mailbox)
            \/ Message(w.job, w.try, "escalation", "none") \notin
                 {mailbox[n] : n \in 1..(Len(mailbox) - Len(mailbox'))}]_<<jobVars, mailVars, faults>>
=============================================================================
