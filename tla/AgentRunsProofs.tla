---------------------------- MODULE AgentRunsProofs ----------------------------
(***************************************************************************)
(* Theorems about the queue runner, for any number of issues, failures and *)
(* runs, and about the dispatcher of jobs, which is the other script the   *)
(* terminal may run, for any list of jobs with names of their own.         *)
(*                                                                         *)
(*   IssueTypes        the type invariant of IssueRuns                     *)
(*   VerdictIsNotLost  a verdict that was sent is still there to be read   *)
(*   WorkIsNotLost     nothing an agent wrote is thrown away               *)
(*   ClosedHasWork     an issue is closed after an attempt that is merged  *)
(*   AgentTypes        the type invariant of AgentRuns                     *)
(*   NoJobIsSkipped    every job of a list has a worker of its own         *)
(***************************************************************************)
EXTENDS AgentRuns, SequenceTheorems, FiniteSetTheorems, TLAPS

Letters == [task : Issues, try : Nat \ {0}, type : {"worker_done", "escalation"},
            phase : {"none", "success", "failed", "merge_failed"}]

RunTypes == [at : RunSteps, issue : Issues \cup {None}, queue : SUBSET Issues,
             attempted : SUBSET Issues, since : Nat, n : Nat]

Typed ==
  /\ TypeIssues
  /\ run \in RunTypes
  /\ script \in {"run-queue", "run-jobs"}
  /\ script = "run-queue" => mailbox \in Seq(Letters) /\ delivered \in 0..Len(mailbox)
  /\ script = "run-jobs" => run.at = "off"

\* A branch is there for the commits on it and for its worktree.
RepoSound ==
  \A i \in Issues : repo[i].ahead \/ repo[i].tree # "none" => repo[i].branch

\* An issue that this run has yet to take has no attempt of this run.
TriesCount ==
  /\ run.queue \cap run.attempted = {}
  /\ run.issue # None => run.issue \in run.attempted
  /\ \A i \in Issues :
       /\ agent[i].try <= run.n
       /\ i \notin run.attempted /\ run.n > 0 => agent[i].try < run.n
  /\ run.at # "off" => run.n > 0
  /\ run.at \in {"preflight", "create", "progress", "open"} => agent[run.issue].try < run.n

Active == {"idle", "working", "hook", "send", "silent"}
Verdicts == {"success", "failed", "merge_failed"}

\* An agent works in its worktree; a success was sent off with its work in
\* master and stays so.
AgentsWork ==
  \A i \in Issues :
    /\ agent[i].at \in Active => repo[i].tree # "none"
    /\ agent[i].at # "none" => agent[i].try > 0
    /\ agent[i].at \in {"send", "ended"} => agent[i].phase \in Verdicts
    /\ agent[i].phase = "success" /\ agent[i].at \in {"send", "ended", "none"} =>
         ~Pending(i)
    /\ agent[i].phase = "success" /\ agent[i].at \in {"ended", "none"} => i \in credited

\* What the runner knows of the agent it is at.
RunnerKnows ==
  LET i == run.issue
      a == agent[i]
  IN  /\ run.at \in {"progress", "open"} => repo[i].tree # "none"
      /\ run.at \in {"dispatch", "prompt"} => a.at = "idle"
      /\ run.at = "wait" => a.at # "none"
      /\ run.at \in {"merge", "review", "done", "clean"} =>
           a.at = "ended" /\ a.phase = "success"
      /\ run.at = "reset" => a.at = "ended" /\ a.phase = "failed"
      /\ run.at = "reset_tree" => a.at = "none" /\ a.phase = "failed"
      /\ run.at = "drop" => a.at = "none" /\ a.phase \in {"success", "failed"}

\* A verdict in the mailbox is of an attempt that is over, and of the last one
\* says what its agent does.
LettersTrue ==
  script = "run-queue" => \A n \in 1..Len(mailbox) :
    LET m == mailbox[n]
        a == agent[m.task]
    IN  /\ m.try <= a.try
        /\ m.type = "worker_done" /\ m.try = a.try =>
             a.at \in {"ended", "none"} /\ m.phase = a.phase

IInv == Typed /\ RepoSound /\ TriesCount /\ AgentsWork /\ RunnerKnows /\ LettersTrue /\ VerdictAwaits

-----------------------------------------------------------------------------
(* The mailbox.                                                            *)

LEMMA LettersNonempty == \A m \in Letters : /\ m.task \in Issues /\ m.try \in Nat \ {0}
                                            /\ m.type \in {"worker_done", "escalation"}
  BY DEF Letters

LEMMA BatchIs ==
  ASSUME mailbox \in Seq(Letters), delivered \in 0..Len(mailbox)
  PROVE  /\ Batch \in Seq(Letters) /\ Len(Batch) \in 0..Len(mailbox)
         /\ \A n \in 1..Len(Batch) : Batch[n] = mailbox[n]
<1>1. CASE delivered > 0
  <2>1. \A n \in 1..delivered : mailbox[n] \in Letters
    OBVIOUS
  <2>2. Batch = SubSeq(mailbox, 1, delivered)
    BY <1>1 DEF Batch
  <2>3. /\ SubSeq(mailbox, 1, delivered) \in Seq(Letters)
        /\ Len(SubSeq(mailbox, 1, delivered)) = delivered
        /\ \A n \in 1..delivered : SubSeq(mailbox, 1, delivered)[n] = mailbox[n]
    BY <1>1, <2>1, SubSeqProperties
  <2> QED BY <2>2, <2>3
<1>2. CASE ~(delivered > 0)
  BY <1>2 DEF Batch
<1> QED BY <1>1, <1>2

\* What is acknowledged is the oldest part of the mailbox.
LEMMA Acknowledged ==
  ASSUME mailbox \in Seq(Letters), delivered \in 0..Len(mailbox), Acknowledge
  PROVE  /\ mailbox' \in Seq(Letters) /\ delivered' = 0
         /\ Len(mailbox') = Len(mailbox) - Len(Batch)
         /\ \A n \in 1..Len(mailbox') : mailbox'[n] = mailbox[n + Len(Batch)]
<1> DEFINE k == Len(Batch) + 1
           l == Len(mailbox)
<1>1. Len(Batch) \in Nat /\ Len(Batch) <= l /\ l \in Nat
  BY BatchIs
<1>2. k \in Int /\ l \in Int /\ \A n \in k..l : mailbox[n] \in Letters
  BY <1>1
<1>3. /\ SubSeq(mailbox, k, l) \in Seq(Letters)
      /\ Len(SubSeq(mailbox, k, l)) = IF k <= l THEN l - k + 1 ELSE 0
      /\ \A n \in 1..(l - k + 1) : SubSeq(mailbox, k, l)[n] = mailbox[k + n - 1]
  <2> HIDE DEF k, l
  <2> QED BY <1>2, SubSeqProperties
<1>4. mailbox' = SubSeq(mailbox, k, l) /\ delivered' = 0
  BY DEF Acknowledge
<1> QED BY <1>1, <1>3, <1>4

LEMMA Posted ==
  ASSUME mailbox \in Seq(Letters), NEW m \in Letters, Post(m)
  PROVE  /\ mailbox' \in Seq(Letters) /\ Len(mailbox') = Len(mailbox) + 1
         /\ \A n \in 1..Len(mailbox) : mailbox'[n] = mailbox[n]
         /\ mailbox'[Len(mailbox) + 1] = m
         /\ delivered' = delivered
  BY AppendProperties DEF Post

-----------------------------------------------------------------------------
(* The runner.                                                             *)

LEMMA RunFields ==
  ASSUME Typed
  PROVE  /\ run.at \in RunSteps /\ run.issue \in Issues \cup {None}
         /\ run.queue \subseteq Issues /\ run.attempted \subseteq Issues
         /\ run.since \in Nat /\ run.n \in Nat /\ run.n <= MaxRuns
         /\ run.at \notin {"off", "list"} => run.issue \in Issues
         /\ run.at \in {"off", "list"} <=> run.issue = None
  BY DEF Typed, TypeIssues, RunTypes

\* A step of the runner that is only its own.
LEMMA RunnerAlone ==
  ASSUME IInv, script = "run-queue",
         UNCHANGED <<repo, conflicted, agent, credited, mailVars, script>>,
         linear' \in [Issues -> States],
         run' \in RunTypes, run'.n <= MaxRuns,
         run'.at \in {"off", "list"} <=> run'.issue = None,
         TriesCount', RunnerKnows',
         run'.at = "wait" => run.at = "wait" /\ run'.issue = run.issue
  PROVE  IInv'
<1>1. Typed'
  <2>1. run'.at \in RunSteps /\ run'.issue \in Issues \cup {None}
        /\ run'.attempted \subseteq Issues /\ run'.n \in 0..MaxRuns
    BY DEF RunTypes
  <2>2. TypeIssues'
    BY <2>1 DEF IInv, Typed, TypeIssues
  <2> QED BY <2>2 DEF IInv, Typed, mailVars
<1>2. RepoSound' /\ AgentsWork' /\ LettersTrue'
  BY DEF IInv, RepoSound, AgentsWork, Pending, LettersTrue, mailVars
<1>3. VerdictAwaits'
  BY DEF IInv, VerdictAwaits, Awaited, mailVars
<1> QED BY <1>1, <1>2, <1>3 DEF IInv

\* A step that goes on with the same issue.
LEMMA GoesOn ==
  ASSUME IInv, NEW step \in RunSteps, step \notin {"off", "list"},
         run.at \notin {"off", "list"}, Goes(step)
  PROVE  /\ run' \in RunTypes /\ run'.n = run.n /\ run'.at = step
         /\ run'.issue = run.issue /\ run'.queue = run.queue
         /\ run'.attempted = run.attempted /\ run.issue \in Issues
<1>1. run \in RunTypes /\ run.issue \in Issues
  BY RunFields DEF IInv, Typed
<1>2. run' = [run EXCEPT !.at = step]
  BY DEF Goes
<1> QED BY <1>1, <1>2 DEF RunTypes

LEMMA RecordsIs ==
  ASSUME IInv, Records
  PROVE  /\ run' \in RunTypes /\ run'.n = run.n /\ run'.at = "list" /\ run'.issue = None
         /\ run'.queue = run.queue /\ run'.attempted = run.attempted
<1>1. run \in RunTypes /\ run.since + 1 \in Nat
  BY RunFields DEF IInv, Typed
<1>2. run' = [[[run EXCEPT !.at = "list"] EXCEPT !.issue = None] EXCEPT !.since = run.since + 1]
  BY <1>1 DEF Records, RunTypes
<1> QED BY <1>1, <1>2 DEF RunTypes, RunSteps

LEMMA EndsIs ==
  ASSUME IInv, Ends
  PROVE  /\ run' \in RunTypes /\ run'.n = run.n /\ run'.at = "off" /\ run'.issue = None
         /\ run'.queue = {} /\ run'.attempted = run.attempted
<1>1. run \in RunTypes
  BY DEF IInv, Typed
<1>2. run' = [[[run EXCEPT !.at = "off"] EXCEPT !.issue = None] EXCEPT !.queue = {}]
  BY <1>1 DEF Ends, RunTypes
<1> QED BY <1>1, <1>2 DEF RunTypes, RunSteps

\* At the list and at the end nothing is known of any agent.
LEMMA StopsKeeps ==
  ASSUME IInv, script = "run-queue",
         UNCHANGED <<repo, conflicted, agent, credited, mailVars, script>>,
         linear' \in [Issues -> States], run.at # "off", Records \/ Ends
  PROVE  IInv'
<1>1. /\ run' \in RunTypes /\ run'.n = run.n /\ run'.at \in {"off", "list"}
      /\ run'.issue = None /\ run'.queue \subseteq run.queue
      /\ run'.attempted = run.attempted
  BY RecordsIs, EndsIs
<1>2. run'.n <= MaxRuns
  BY <1>1, RunFields DEF IInv
<1>3. TriesCount'
  BY <1>1 DEF IInv, TriesCount
<1>4. RunnerKnows'
  BY <1>1 DEF RunnerKnows
<1> QED BY <1>1, <1>2, <1>3, <1>4, RunnerAlone

LEMMA SetStatusTyped ==
  ASSUME IInv, NEW i \in Issues, NEW s \in States, SetStatus(i, s)
  PROVE  linear' \in [Issues -> States]
  BY DEF IInv, Typed, TypeIssues, SetStatus, BestEffort

LEMMA StartRunKeeps ==
  ASSUME IInv, script = "run-queue", UNCHANGED script, StartRun
  PROVE  IInv'
<1>1. /\ run.at = "off" /\ run.n < MaxRuns
      /\ run' = [at |-> "list", issue |-> None, queue |-> {}, attempted |-> {},
                 since |-> RelistEvery, n |-> run.n + 1]
      /\ UNCHANGED <<linear, repo, conflicted, agent, credited, mailVars>>
  BY DEF StartRun
<1>2. /\ run'.at = "list" /\ run'.issue = None /\ run'.queue = {} /\ run'.attempted = {}
      /\ run'.n = run.n + 1
  BY <1>1
<1>3. run' \in RunTypes
  BY <1>1, IssueAssumption, RunFields DEF IInv, RunTypes, RunSteps
<1>4. run'.n <= MaxRuns /\ run.n \in Nat /\ MaxRuns \in Nat
  BY <1>1, <1>2, IssueAssumption, RunFields DEF IInv
<1>5. \A i \in Issues : agent[i].try \in Nat
  BY DEF IInv, Typed, TypeIssues, Agents
<1>6. TriesCount'
  BY <1>1, <1>2, <1>4, <1>5 DEF IInv, TriesCount
<1>7. RunnerKnows'
  BY <1>2 DEF RunnerKnows
<1>8. linear' \in [Issues -> States]
  BY <1>1 DEF IInv, Typed, TypeIssues
<1> QED BY <1>1, <1>2, <1>3, <1>4, <1>6, <1>7, <1>8, RunnerAlone

LEMMA ListQueueKeeps ==
  ASSUME IInv, script = "run-queue", UNCHANGED script, ListQueue
  PROVE  IInv'
<1>1. /\ run.at = "list"
      /\ UNCHANGED <<linear, repo, conflicted, agent, credited, mailVars>>
      /\ Ends \/ run' = [run EXCEPT !.queue = OpenIssues, !.since = 0]
  BY DEF ListQueue
<1>2. linear' \in [Issues -> States]
  BY <1>1 DEF IInv, Typed, TypeIssues
<1>3. CASE Ends
  BY <1>1, <1>2, <1>3, StopsKeeps
<1>4. CASE run' = [run EXCEPT !.queue = OpenIssues, !.since = 0]
  <2>1. OpenIssues \subseteq Issues /\ OpenIssues \cap run.attempted = {}
    BY DEF OpenIssues
  <2>2. /\ run' \in RunTypes /\ run'.n = run.n /\ run'.at = "list"
        /\ run'.issue = run.issue /\ run'.queue = OpenIssues
        /\ run'.attempted = run.attempted
    <3> DEFINE q == OpenIssues
    <3>1. run \in RunTypes
      BY DEF IInv, Typed
    <3>2. run' = [[run EXCEPT !.queue = q] EXCEPT !.since = 0]
      BY <1>4
    <3>3. q \subseteq Issues
      BY <2>1
    <3> HIDE DEF q
    <3> QED BY <1>1, <3>1, <3>2, <3>3 DEF RunTypes, q
  <2>3. run.issue = None
    BY <1>1, RunFields DEF IInv
  <2>4. run'.n <= MaxRuns
    BY <2>2, RunFields DEF IInv
  <2>5. TriesCount'
    BY <1>1, <2>1, <2>2, <2>3 DEF IInv, TriesCount
  <2>6. RunnerKnows'
    BY <2>2 DEF RunnerKnows
  <2> QED BY <1>1, <1>2, <2>2, <2>3, <2>4, <2>5, <2>6, RunnerAlone
<1> QED BY <1>1, <1>3, <1>4

LEMMA PickIssueKeeps ==
  ASSUME IInv, script = "run-queue", UNCHANGED script, PickIssue
  PROVE  IInv'
<1>1. PICK i \in run.queue :
        run' = [run EXCEPT !.at = "preflight", !.issue = i,
                           !.queue = @ \ {i}, !.attempted = @ \cup {i}]
  BY DEF PickIssue
<1>2. /\ run.at = "list"
      /\ UNCHANGED <<linear, repo, conflicted, agent, credited, mailVars>>
  BY DEF PickIssue
<1>3. i \in Issues /\ i # None /\ i \notin run.attempted
  BY IssueAssumption, RunFields DEF IInv, TriesCount
<1>4. /\ run' \in RunTypes /\ run'.n = run.n /\ run'.at = "preflight"
      /\ run'.issue = i /\ run'.queue = run.queue \ {i}
      /\ run'.attempted = run.attempted \cup {i}
  <2> DEFINE q == run.queue \ {i}
             d == run.attempted \cup {i}
  <2>1. run \in RunTypes
    BY DEF IInv, Typed
  <2>2. run' = [[[[run EXCEPT !.at = "preflight"] EXCEPT !.issue = i] EXCEPT !.queue = q]
                  EXCEPT !.attempted = d]
    BY <1>1, <2>1 DEF RunTypes
  <2>3. q \subseteq Issues /\ d \subseteq Issues
    BY <1>3, RunFields DEF IInv
  <2> HIDE DEF q, d
  <2>4. run' \in RunTypes /\ run'.n = run.n /\ run'.at = "preflight" /\ run'.issue = i
        /\ run'.queue = q /\ run'.attempted = d
    BY <1>3, <2>1, <2>2, <2>3 DEF RunTypes, RunSteps
  <2> QED BY <2>4 DEF q, d
<1>5. run'.n <= MaxRuns
  BY <1>4, RunFields DEF IInv
<1>6. TriesCount'
  BY <1>2, <1>3, <1>4 DEF IInv, TriesCount
<1>7. RunnerKnows'
  BY <1>4 DEF RunnerKnows
<1>8. linear' \in [Issues -> States]
  BY <1>2 DEF IInv, Typed, TypeIssues
<1> QED BY <1>2, <1>3, <1>4, <1>5, <1>6, <1>7, <1>8, RunnerAlone

\* The runner goes on with its issue; the agent is as the next step expects.
LEMMA AdvanceKeeps ==
  ASSUME IInv, script = "run-queue", NEW step \in RunSteps,
         UNCHANGED <<repo, conflicted, agent, credited, mailVars, script>>,
         linear' \in [Issues -> States],
         Goes(step), step \notin {"off", "list", "wait"}, run.at \notin {"off", "list"},
         step \in {"create", "progress", "open"} =>
           run.at \in {"preflight", "create", "progress", "open"},
         \/ step = "create"
         \/ step = "open" /\ run.at = "progress"
         \/ step \in {"review", "done", "clean"} /\ run.at \in {"merge", "review", "done"}
  PROVE  IInv'
<1>1. /\ run' \in RunTypes /\ run'.n = run.n /\ run'.at = step
      /\ run'.issue = run.issue /\ run'.queue = run.queue
      /\ run'.attempted = run.attempted /\ run.issue \in Issues /\ run.issue # None
  BY GoesOn, IssueAssumption
<1>2. run'.n <= MaxRuns
  BY <1>1, RunFields DEF IInv
<1>3. TriesCount'
  BY <1>1 DEF IInv, TriesCount
<1>4. RunnerKnows'
  BY <1>1 DEF IInv, RunnerKnows
<1> QED BY <1>1, <1>2, <1>3, <1>4, RunnerAlone

LEMMA RunnerOnlyKeeps ==
  ASSUME IInv, script = "run-queue", UNCHANGED script,
         \/ StopsOnError \/ KillRun \/ Skip \/ Preflight \/ SetInProgress \/ GiveUp
         \/ SeesMerge \/ SetReview \/ SetDone
  PROVE  IInv'
<1>1. UNCHANGED linear => linear' \in [Issues -> States]
  BY DEF IInv, Typed, TypeIssues
<1>2. run.at \notin {"off", "list"} => run.issue \in Issues
  BY RunFields DEF IInv
<1>3. CASE StopsOnError
  BY <1>1, <1>3, StopsKeeps DEF StopsOnError
<1>4. CASE KillRun
  BY <1>1, <1>4, StopsKeeps DEF KillRun
<1>5. CASE Skip
  <2>1. linear' \in [Issues -> States]
    BY <1>1, <1>2, <1>5, SetStatusTyped DEF Skip, States
  <2> QED BY <1>5, <2>1, StopsKeeps DEF Skip
<1>6. CASE Preflight
  BY <1>1, <1>6, AdvanceKeeps DEF Preflight, RunSteps
<1>7. CASE SetInProgress
  <2>1. linear' \in [Issues -> States]
    BY <1>2, <1>7, SetStatusTyped DEF SetInProgress, States
  <2> QED BY <1>7, <2>1, AdvanceKeeps DEF SetInProgress, RunSteps
<1>8. CASE GiveUp
  BY <1>1, <1>8, StopsKeeps DEF GiveUp
<1>9. CASE SeesMerge
  BY <1>1, <1>9, AdvanceKeeps DEF SeesMerge, RunSteps
<1>10. CASE SetReview
  <2>1. linear' \in [Issues -> States]
    BY <1>2, <1>10, SetStatusTyped DEF SetReview, States
  <2> QED BY <1>10, <2>1, AdvanceKeeps DEF SetReview, RunSteps
<1>11. CASE SetDone
  <2>1. linear' \in [Issues -> States]
    BY <1>2, <1>11, SetStatusTyped DEF SetDone, States
  <2> QED BY <1>11, <2>1, AdvanceKeeps DEF SetDone, RunSteps
<1> QED BY <1>3, <1>4, <1>5, <1>6, <1>7, <1>8, <1>9, <1>10, <1>11

-----------------------------------------------------------------------------
(* The verdict.                                                            *)

\* A delivery handled: its messages are gone, or all are still there.
LEMMA MailMoves ==
  ASSUME mailbox \in Seq(Letters), delivered \in 0..Len(mailbox), Acknowledge \/ LeaveOut
  PROVE  /\ mailbox' \in Seq(Letters) /\ delivered' \in 0..Len(mailbox')
         /\ \E k \in {0, Len(Batch)} :
              /\ Len(mailbox') = Len(mailbox) - k
              /\ \A n \in 1..Len(mailbox') : mailbox'[n] = mailbox[n + k]
<1>0. Len(mailbox) \in Nat /\ Len(Batch) \in 0..Len(mailbox)
  BY BatchIs
<1>1. CASE Acknowledge
  <2>1. /\ mailbox' \in Seq(Letters) /\ delivered' = 0
        /\ Len(mailbox') = Len(mailbox) - Len(Batch)
        /\ \A n \in 1..Len(mailbox') : mailbox'[n] = mailbox[n + Len(Batch)]
    BY <1>1, Acknowledged
  <2>2. Len(mailbox') \in Nat
    BY <2>1
  <2> QED BY <2>1, <2>2
<1>2. CASE LeaveOut
  <2>1. mailbox' = mailbox /\ delivered' = Len(Batch)
    BY <1>2 DEF LeaveOut
  <2>2. \A n \in 1..Len(mailbox) : n + 0 = n
    BY <1>0
  <2> QED BY <1>0, <2>1, <2>2
<1> QED BY <1>1, <1>2

\* A step of the runner that takes the oldest k messages.
LEMMA TakesMail ==
  ASSUME IInv, script = "run-queue",
         UNCHANGED <<linear, repo, conflicted, agent, credited, script>>,
         mailbox' \in Seq(Letters), delivered' \in 0..Len(mailbox'),
         NEW k \in Nat, Len(mailbox') = Len(mailbox) - k,
         \A n \in 1..Len(mailbox') : mailbox'[n] = mailbox[n + k],
         run' \in RunTypes, run'.n <= MaxRuns,
         run'.at \in {"off", "list"} <=> run'.issue = None,
         TriesCount', RunnerKnows', VerdictAwaits'
  PROVE  IInv'
<1>1. Typed'
  <2>1. run'.at \in RunSteps /\ run'.issue \in Issues \cup {None}
        /\ run'.attempted \subseteq Issues /\ run'.n \in 0..MaxRuns
    BY DEF RunTypes
  <2>2. TypeIssues'
    BY <2>1 DEF IInv, Typed, TypeIssues
  <2> QED BY <2>2 DEF IInv, Typed
<1>2. RepoSound' /\ AgentsWork'
  BY DEF IInv, RepoSound, AgentsWork, Pending
<1>3. LettersTrue'
  <2>1. mailbox \in Seq(Letters) /\ Len(mailbox) \in Nat /\ Len(mailbox') \in Nat
    BY DEF IInv, Typed
  <2>2. \A n \in 1..Len(mailbox') : n + k \in 1..Len(mailbox)
    BY <2>1
  <2>3. SUFFICES ASSUME NEW n \in 1..Len(mailbox')
                 PROVE  LET m == mailbox'[n]
                            a == agent[m.task]
                        IN  /\ m.try <= a.try
                            /\ m.type = "worker_done" /\ m.try = a.try =>
                                 a.at \in {"ended", "none"} /\ m.phase = a.phase
    BY DEF LettersTrue
  <2>4. mailbox'[n] = mailbox[n + k] /\ n + k \in 1..Len(mailbox)
    BY <2>2
  <2> QED BY <2>4 DEF IInv, LettersTrue
<1> QED BY <1>1, <1>2, <1>3 DEF IInv

LEMMA PollKeeps ==
  ASSUME IInv, script = "run-queue", UNCHANGED script, Poll
  PROVE  IInv'
<1>1. /\ run.at = "wait" /\ (Acknowledge \/ LeaveOut)
      /\ UNCHANGED <<linear, repo, conflicted, agent, credited>>
  BY DEF Poll
<1>2. mailbox \in Seq(Letters) /\ delivered \in 0..Len(mailbox) /\ Len(mailbox) \in Nat
  BY DEF IInv, Typed
<1>3. PICK k \in {0, Len(Batch)} :
        /\ Len(mailbox') = Len(mailbox) - k
        /\ \A n \in 1..Len(mailbox') : mailbox'[n] = mailbox[n + k]
  BY <1>1, <1>2, MailMoves
<1>4. mailbox' \in Seq(Letters) /\ delivered' \in 0..Len(mailbox')
  BY <1>1, <1>2, MailMoves
<1>5. /\ k \in Nat /\ Batch \in Seq(Letters) /\ Len(Batch) \in 0..Len(mailbox)
      /\ \A n \in 1..Len(Batch) : Batch[n] = mailbox[n]
  BY <1>2, BatchIs
<1>6. /\ run \in RunTypes /\ run.n <= MaxRuns /\ run.issue \in Issues
      /\ run.issue # None
  BY <1>1, RunFields, IssueAssumption DEF IInv, Typed
<1>7. CASE ~Has(Batch, Awaited)
  <2>1. run' = run
    BY <1>7 DEF Poll
  <2>2. TriesCount' /\ RunnerKnows'
    BY <1>1, <2>1 DEF IInv, TriesCount, RunnerKnows
  <2>3. VerdictAwaits'
    <3>1. SUFFICES ASSUME agent[run.issue].at = "ended"
                   PROVE  \E n \in 1..Len(mailbox') :
                            /\ mailbox'[n].task = run.issue
                            /\ mailbox'[n].try = agent[run.issue].try
      BY <1>1, <2>1 DEF VerdictAwaits, Awaited
    <3>2. PICK n \in 1..Len(mailbox) : Awaited(mailbox[n])
      BY <1>1, <3>1 DEF IInv, VerdictAwaits
    <3>3. n \notin 1..Len(Batch)
      BY <1>5, <1>7, <3>2 DEF Has
    <3>4. n - k \in 1..Len(mailbox') /\ (n - k) + k = n
      BY <1>2, <1>3, <1>5, <3>3
    <3>5. mailbox'[n - k] = mailbox[n]
      BY <1>3, <3>4
    <3> QED BY <3>2, <3>4, <3>5 DEF Awaited
  <2> QED BY <1>1, <1>3, <1>4, <1>5, <1>6, <2>1, <2>2, <2>3, TakesMail
<1>8. CASE Has(Batch, Awaited)
  <2>1. PICK m \in FirstOf(Batch, Awaited) : Heeds(m)
    BY <1>8 DEF Poll
  <2>2. PICK n \in 1..Len(Batch) : m = Batch[n] /\ Awaited(m)
    BY <2>1 DEF FirstOf
  <2>3. n \in 1..Len(mailbox) /\ m = mailbox[n] /\ m \in Letters
    BY <1>2, <1>5, <2>2
  <2>4. m.task = run.issue /\ m.try = agent[run.issue].try
    BY <2>2 DEF Awaited
  <2>5. m.type # "escalation" =>
          /\ agent[run.issue].at = "ended" /\ agent[run.issue].phase = m.phase
          /\ m.phase \in Verdicts
    <3>1. m.type # "escalation" => m.type = "worker_done"
      BY <2>3 DEF Letters
    <3>2. m.type = "worker_done" =>
            agent[m.task].at \in {"ended", "none"} /\ m.phase = agent[m.task].phase
      BY <2>3, <2>4 DEF IInv, LettersTrue
    <3>3. agent[run.issue].at # "none"
      BY <1>1 DEF IInv, RunnerKnows
    <3> QED BY <1>6, <2>4, <3>1, <3>2, <3>3 DEF IInv, AgentsWork
  <2>6. \/ Records \/ Ends
        \/ Goes("merge") /\ m.type # "escalation" /\ m.phase = "success"
        \/ Goes("reset") /\ m.type # "escalation" /\ m.phase = "failed"
    BY <2>1, <2>5 DEF Heeds, Verdicts
  <2>7. /\ run' \in RunTypes /\ run'.n = run.n /\ run'.queue \subseteq run.queue
        /\ run'.attempted = run.attempted
        /\ \/ run'.at \in {"off", "list"} /\ run'.issue = None
           \/ /\ run'.issue = run.issue /\ agent[run.issue].at = "ended"
              /\ \/ run'.at = "merge" /\ agent[run.issue].phase = "success"
                 \/ run'.at = "reset" /\ agent[run.issue].phase = "failed"
    <3>1. CASE Records
      BY <3>1, RecordsIs
    <3>2. CASE Ends
      BY <3>2, EndsIs
    <3>3. CASE Goes("merge") /\ m.type # "escalation" /\ m.phase = "success"
      <4>1. /\ run' \in RunTypes /\ run'.n = run.n /\ run'.at = "merge"
            /\ run'.issue = run.issue /\ run'.queue = run.queue
            /\ run'.attempted = run.attempted
        BY <1>1, <3>3, GoesOn DEF RunSteps
      <4> QED BY <2>5, <3>3, <4>1
    <3>4. CASE Goes("reset") /\ m.type # "escalation" /\ m.phase = "failed"
      <4>1. /\ run' \in RunTypes /\ run'.n = run.n /\ run'.at = "reset"
            /\ run'.issue = run.issue /\ run'.queue = run.queue
            /\ run'.attempted = run.attempted
        BY <1>1, <3>4, GoesOn DEF RunSteps
      <4> QED BY <2>5, <3>4, <4>1
    <3> QED BY <2>6, <3>1, <3>2, <3>3, <3>4
  <2>8. run'.n <= MaxRuns /\ (run'.at \in {"off", "list"} <=> run'.issue = None)
    BY <1>6, <2>7
  <2>9. TriesCount'
    BY <1>1, <1>6, <2>7 DEF IInv, TriesCount
  <2>10. RunnerKnows'
    BY <1>1, <2>7 DEF RunnerKnows
  <2>11. VerdictAwaits'
    BY <2>7 DEF VerdictAwaits
  <2> QED BY <1>1, <1>3, <1>4, <1>5, <2>7, <2>8, <2>9, <2>10, <2>11, TakesMail
<1> QED BY <1>7, <1>8

-----------------------------------------------------------------------------
(* Worktrees and agents.                                                   *)

LEMMA IssueFields ==
  ASSUME IInv, NEW i \in Issues
  PROVE  /\ agent[i] \in Agents /\ repo[i] \in Repos /\ agent[i].try \in Nat
         /\ repo[i].ahead \/ repo[i].tree # "none" => repo[i].branch
         /\ agent = [agent EXCEPT ![i] = agent[i]] /\ repo = [repo EXCEPT ![i] = repo[i]]
<1>1. agent \in [Issues -> Agents] /\ repo \in [Issues -> Repos]
  BY DEF IInv, Typed, TypeIssues
<1>2. agent = [agent EXCEPT ![i] = agent[i]] /\ repo = [repo EXCEPT ![i] = repo[i]]
  BY <1>1
<1>3. repo[i].ahead \/ repo[i].tree # "none" => repo[i].branch
  BY DEF IInv, RepoSound
<1> QED BY <1>1, <1>2, <1>3 DEF Agents

\* What a step does to the worktree and the agent of one issue.
LEMMA WorkSound ==
  ASSUME IInv, NEW i \in Issues, NEW a \in Agents, NEW r \in Repos,
         agent' = [agent EXCEPT ![i] = a], repo' = [repo EXCEPT ![i] = r],
         credited \subseteq credited',
         r.ahead \/ r.tree # "none" => r.branch,
         a.at \in Active => r.tree # "none",
         a.at # "none" => a.try > 0,
         a.at \in {"send", "ended"} => a.phase \in Verdicts,
         a.phase = "success" /\ a.at \in {"send", "ended", "none"} =>
           r.tree # "dirty" /\ ~r.ahead,
         a.phase = "success" /\ a.at \in {"ended", "none"} => i \in credited'
  PROVE  /\ agent' \in [Issues -> Agents] /\ repo' \in [Issues -> Repos]
         /\ agent'[i] = a /\ repo'[i] = r
         /\ \A j \in Issues \ {i} : agent'[j] = agent[j] /\ repo'[j] = repo[j]
         /\ RepoSound' /\ AgentsWork'
<1>1. /\ agent' \in [Issues -> Agents] /\ repo' \in [Issues -> Repos]
      /\ agent'[i] = a /\ repo'[i] = r
      /\ \A j \in Issues \ {i} : agent'[j] = agent[j] /\ repo'[j] = repo[j]
  BY DEF IInv, Typed, TypeIssues
<1>2. RepoSound'
  BY <1>1 DEF IInv, RepoSound
<1>3. AgentsWork'
  <2>1. SUFFICES ASSUME NEW j \in Issues
                 PROVE  /\ agent'[j].at \in Active => repo'[j].tree # "none"
                        /\ agent'[j].at # "none" => agent'[j].try > 0
                        /\ agent'[j].at \in {"send", "ended"} => agent'[j].phase \in Verdicts
                        /\ agent'[j].phase = "success"
                             /\ agent'[j].at \in {"send", "ended", "none"} =>
                             repo'[j].tree # "dirty" /\ ~repo'[j].ahead
                        /\ agent'[j].phase = "success" /\ agent'[j].at \in {"ended", "none"} =>
                             j \in credited'
    BY DEF AgentsWork, Pending
  <2>2. CASE j = i
    BY <1>1, <2>2
  <2>3. CASE j # i
    BY <1>1, <2>3 DEF IInv, AgentsWork, Pending
  <2> QED BY <2>2, <2>3
<1> QED BY <1>1, <1>2, <1>3

\* A step of the runner on its issue that leaves the attempt and the mail alone.
LEMMA TouchKeeps ==
  ASSUME IInv, script = "run-queue", UNCHANGED <<script, conflicted, credited, mailVars>>,
         linear' \in [Issues -> States],
         run.at \in RunSteps \ {"off", "list", "wait"},
         NEW a \in Agents, NEW r \in Repos,
         agent' = [agent EXCEPT ![run.issue] = a], repo' = [repo EXCEPT ![run.issue] = r],
         a.try = agent[run.issue].try,
         r.ahead \/ r.tree # "none" => r.branch,
         a.at \in Active => r.tree # "none",
         a.at # "none" => a.try > 0,
         a.at \in {"send", "ended"} => a.phase \in Verdicts,
         a.phase = "success" /\ a.at \in {"send", "ended", "none"} =>
           r.tree # "dirty" /\ ~r.ahead,
         a.phase = "success" /\ a.at \in {"ended", "none"} => run.issue \in credited,
         agent[run.issue].at \in {"ended", "none"} =>
           a.at \in {"ended", "none"} /\ a.phase = agent[run.issue].phase,
         run' \in RunTypes, run'.n = run.n, run'.queue = run.queue,
         run'.attempted = run.attempted,
         \/ run'.at = "list" /\ run'.issue = None
         \/ run'.at \notin {"off", "list"} /\ run'.issue = run.issue,
         run'.at \in {"preflight", "create", "progress", "open"} =>
           run.at \in {"preflight", "create", "progress", "open"},
         run'.at = "wait" => a.at # "ended",
         RunnerKnows'
  PROVE  IInv'
<1> DEFINE i == run.issue
<1>1. /\ i \in Issues /\ run.n <= MaxRuns /\ i # None
      /\ credited \subseteq Issues /\ conflicted \in BOOLEAN
  BY RunFields, IssueAssumption DEF IInv, Typed, TypeIssues
<1>2. /\ agent' \in [Issues -> Agents] /\ repo' \in [Issues -> Repos]
      /\ agent'[i] = a /\ repo'[i] = r
      /\ \A j \in Issues \ {i} : agent'[j] = agent[j] /\ repo'[j] = repo[j]
      /\ RepoSound' /\ AgentsWork'
  BY <1>1, WorkSound
<1>3. Typed'
  <2>1. /\ run'.at \in RunSteps /\ run'.issue \in Issues \cup {None}
        /\ run'.attempted \subseteq Issues /\ run'.n \in 0..MaxRuns
    BY <1>1 DEF RunTypes
  <2>2. run'.at \in {"off", "list"} <=> run'.issue = None
    BY <1>1
  <2>3. TypeIssues'
    BY <1>1, <1>2, <2>1, <2>2 DEF TypeIssues
  <2> QED BY <2>3 DEF IInv, Typed, mailVars
<1>4. \A j \in Issues : agent'[j].try = agent[j].try
  BY <1>2
<1>5. TriesCount'
  BY <1>1, <1>4 DEF IInv, TriesCount
<1>6. LettersTrue'
  <2>1. mailbox \in Seq(Letters)
    BY DEF IInv, Typed
  <2>2. SUFFICES ASSUME NEW n \in 1..Len(mailbox)
                 PROVE  LET m == mailbox[n]
                            b == agent'[m.task]
                        IN  /\ m.try <= b.try
                            /\ m.type = "worker_done" /\ m.try = b.try =>
                                 b.at \in {"ended", "none"} /\ m.phase = b.phase
    BY DEF LettersTrue, mailVars
  <2>3. mailbox[n].task \in Issues
    <3>1. mailbox[n] \in Letters
      BY <2>1
    <3> QED BY <3>1, LettersNonempty
  <2>4. LET m == mailbox[n]
            b == agent[m.task]
        IN  /\ m.try <= b.try
            /\ m.type = "worker_done" /\ m.try = b.try =>
                 b.at \in {"ended", "none"} /\ m.phase = b.phase
    BY DEF IInv, LettersTrue
  <2>5. CASE mailbox[n].task = i
    BY <1>2, <2>4, <2>5
  <2>6. CASE mailbox[n].task # i
    BY <1>2, <2>3, <2>4, <2>6
  <2> QED BY <2>5, <2>6
<1>7. VerdictAwaits'
  BY <1>2 DEF VerdictAwaits
<1> QED BY <1>2, <1>3, <1>5, <1>6, <1>7 DEF IInv

LEMMA CreateWorktreeKeeps ==
  ASSUME IInv, script = "run-queue", UNCHANGED script, CreateWorktree
  PROVE  IInv'
<1> DEFINE i == run.issue
           r == [tree |-> "clean", branch |-> TRUE, ahead |-> FALSE]
<1>1. /\ run.at = "create" /\ Goes("progress")
      /\ UNCHANGED <<linear, conflicted, agent, credited, mailVars>>
      /\ repo' = [repo EXCEPT ![i] = r]
  BY DEF CreateWorktree
<1>2. i \in Issues
  BY <1>1, RunFields DEF IInv
<1>3. /\ agent[i] \in Agents /\ agent' = [agent EXCEPT ![i] = agent[i]]
      /\ linear' \in [Issues -> States]
  BY <1>1, <1>2, IssueFields DEF IInv, Typed, TypeIssues
<1>4. /\ run' \in RunTypes /\ run'.n = run.n /\ run'.at = "progress"
      /\ run'.issue = i /\ run'.queue = run.queue /\ run'.attempted = run.attempted
  BY <1>1, GoesOn DEF RunSteps
<1>5. r \in Repos /\ r.tree = "clean" /\ r.branch /\ ~r.ahead
  BY DEF Repos
<1>6. /\ agent[i].at # "none" => agent[i].try > 0
      /\ agent[i].at \in {"send", "ended"} => agent[i].phase \in Verdicts
      /\ agent[i].phase = "success" /\ agent[i].at \in {"ended", "none"} => i \in credited
  BY <1>2 DEF IInv, AgentsWork
<1>7. repo'[i] = r
  BY <1>1, <1>2 DEF IInv, Typed, TypeIssues
<1> HIDE DEF r
<1>8. RunnerKnows'
  BY <1>4, <1>5, <1>7 DEF RunnerKnows
<1> QED BY <1>1, <1>3, <1>4, <1>5, <1>6, <1>8, TouchKeeps DEF RunSteps

LEMMA DispatchKeeps ==
  ASSUME IInv, script = "run-queue", UNCHANGED script, Dispatch \/ SendPrompt
  PROVE  IInv'
<1> DEFINE i == run.issue
           b == agent[i]
<1>1. /\ run.at \in {"dispatch", "prompt"}
      /\ UNCHANGED <<linear, repo, conflicted, credited, mailVars>>
  BY DEF Dispatch, SendPrompt
<1>2. i \in Issues
  BY <1>1, RunFields DEF IInv
<1>3. /\ b \in Agents /\ repo[i] \in Repos /\ repo' = [repo EXCEPT ![i] = repo[i]]
      /\ repo[i].ahead \/ repo[i].tree # "none" => repo[i].branch
      /\ linear' \in [Issues -> States] /\ agent \in [Issues -> Agents]
  BY <1>1, <1>2, IssueFields DEF IInv, Typed, TypeIssues
<1>4. b.at = "idle" /\ repo[i].tree # "none" /\ b.try > 0
  BY <1>1, <1>2 DEF IInv, RunnerKnows, AgentsWork, Active
<1>5. CASE Dispatch
  <2> DEFINE a == [b EXCEPT !.armed = TRUE]
  <2>1. a \in Agents /\ a.at = "idle" /\ a.try = b.try
    BY <1>3, <1>4 DEF Agents
  <2>2. agent' = [agent EXCEPT ![i] = a]
    BY <1>2, <1>3, <1>5 DEF Dispatch
  <2> HIDE DEF a
  <2>3. /\ run' \in RunTypes /\ run'.n = run.n /\ run'.at = "prompt"
        /\ run'.issue = i /\ run'.queue = run.queue /\ run'.attempted = run.attempted
    BY <1>5, GoesOn DEF Dispatch, RunSteps
  <2>4. agent'[i] = a
    BY <1>2, <1>3, <2>2
  <2>5. RunnerKnows'
    BY <2>1, <2>3, <2>4 DEF RunnerKnows
  <2> QED BY <1>1, <1>3, <1>4, <2>1, <2>2, <2>3, <2>5, TouchKeeps DEF RunSteps
<1>6. CASE SendPrompt
  <2> DEFINE a == [b EXCEPT !.at = "working"]
  <2>1. a \in Agents /\ a.at = "working" /\ a.try = b.try
    BY <1>3, <1>4 DEF Agents
  <2>2. agent' = [agent EXCEPT ![i] = a]
    BY <1>2, <1>3, <1>6 DEF SendPrompt
  <2> HIDE DEF a
  <2>3. /\ run' \in RunTypes /\ run'.n = run.n /\ run'.at = "wait"
        /\ run'.issue = i /\ run'.queue = run.queue /\ run'.attempted = run.attempted
    BY <1>6, GoesOn DEF SendPrompt, RunSteps
  <2>4. agent'[i] = a
    BY <1>2, <1>3, <2>2
  <2>5. RunnerKnows'
    BY <2>1, <2>3, <2>4 DEF RunnerKnows
  <2> QED BY <1>1, <1>3, <1>4, <2>1, <2>2, <2>3, <2>5, TouchKeeps DEF RunSteps
<1> QED BY <1>5, <1>6

LEMMA Removed ==
  ASSUME IInv, NEW i \in Issues, RemoveTree(i)
  PROVE  \E r \in Repos :
           /\ repo' = [repo EXCEPT ![i] = r]
           /\ r.ahead = repo[i].ahead
           /\ r.tree \in {repo[i].tree, "none"}
           /\ r.ahead \/ r.tree # "none" => r.branch
<1>1. /\ repo[i] \in Repos /\ repo = [repo EXCEPT ![i] = repo[i]]
      /\ repo[i].ahead \/ repo[i].tree # "none" => repo[i].branch
  BY IssueFields
<1>2. CASE UNCHANGED repo
  BY <1>1, <1>2
<1>3. CASE repo' = [repo EXCEPT ![i] = WithoutTree(repo[i])]
  <2> DEFINE r == WithoutTree(repo[i])
  <2>1. r \in Repos /\ r.tree = "none" /\ r.ahead = repo[i].ahead /\ (r.ahead => r.branch)
    <3>1. (repo[i].branch /\ repo[i].ahead) \in BOOLEAN
      OBVIOUS
    <3>2. r = [[repo[i] EXCEPT !.tree = "none"] EXCEPT !.branch = repo[i].branch /\ repo[i].ahead]
      BY <1>1 DEF WithoutTree, Repos
    <3> QED BY <1>1, <3>1, <3>2 DEF Repos
  <2> QED BY <1>3, <2>1
<1> QED BY <1>2, <1>3 DEF RemoveTree, BestEffort

\* The agent of a verdict has its terminal closed.
LEMMA ClosedTerminal ==
  ASSUME IInv, NEW i \in Issues, CloseTerminal(i)
  PROVE  \E a \in Agents :
           /\ agent' = [agent EXCEPT ![i] = a]
           /\ a.at = "none" /\ a.phase = agent[i].phase /\ a.try = agent[i].try
<1> DEFINE a == [agent[i] EXCEPT !.at = "none"]
<1>1. agent[i] \in Agents /\ agent \in [Issues -> Agents]
  BY IssueFields DEF IInv, Typed, TypeIssues
<1>2. a \in Agents /\ a.at = "none" /\ a.phase = agent[i].phase /\ a.try = agent[i].try
  BY <1>1 DEF Agents
<1>3. agent' = [agent EXCEPT ![i] = a]
  BY <1>1 DEF CloseTerminal
<1> QED BY <1>2, <1>3

LEMMA CleanUpKeeps ==
  ASSUME IInv, script = "run-queue", UNCHANGED script, CleanUp
  PROVE  IInv'
<1> DEFINE i == run.issue
<1>1. /\ run.at = "clean" /\ Goes("drop") /\ CloseTerminal(i) /\ RemoveTree(i)
      /\ UNCHANGED <<linear, conflicted, credited, mailVars>>
  BY DEF CleanUp
<1>2. i \in Issues /\ linear' \in [Issues -> States] /\ agent \in [Issues -> Agents]
  BY <1>1, RunFields DEF IInv, Typed, TypeIssues
<1>3. PICK a \in Agents : /\ agent' = [agent EXCEPT ![i] = a] /\ a.at = "none"
                          /\ a.phase = agent[i].phase /\ a.try = agent[i].try
  BY <1>1, <1>2, ClosedTerminal
<1>4. PICK r \in Repos : /\ repo' = [repo EXCEPT ![i] = r] /\ r.ahead = repo[i].ahead
                         /\ r.tree \in {repo[i].tree, "none"}
                         /\ r.ahead \/ r.tree # "none" => r.branch
  BY <1>1, <1>2, Removed
<1>5. agent[i].at = "ended" /\ agent[i].phase = "success"
  BY <1>1 DEF IInv, RunnerKnows
<1>6. repo[i].tree # "dirty" /\ ~repo[i].ahead /\ i \in credited
  BY <1>2, <1>5 DEF IInv, AgentsWork, Pending
<1>7. /\ run' \in RunTypes /\ run'.n = run.n /\ run'.at = "drop"
      /\ run'.issue = i /\ run'.queue = run.queue /\ run'.attempted = run.attempted
  BY <1>1, GoesOn DEF RunSteps
<1>8. agent'[i] = a
  BY <1>2, <1>3
<1>9. RunnerKnows'
  BY <1>3, <1>5, <1>7, <1>8 DEF RunnerKnows
<1> QED BY <1>1, <1>2, <1>3, <1>4, <1>5, <1>6, <1>7, <1>9, TouchKeeps DEF RunSteps, Active

LEMMA ResetKeeps ==
  ASSUME IInv, script = "run-queue", UNCHANGED script, ResetStatus
  PROVE  IInv'
<1> DEFINE i == run.issue
<1>1. /\ run.at = "reset" /\ Goes("reset_tree") /\ CloseTerminal(i) /\ SetStatus(i, "todo")
      /\ UNCHANGED <<repo, conflicted, credited, mailVars>>
  BY DEF ResetStatus
<1>2. i \in Issues /\ agent \in [Issues -> Agents]
  BY <1>1, RunFields DEF IInv, Typed, TypeIssues
<1>3. linear' \in [Issues -> States]
  BY <1>1, <1>2, SetStatusTyped DEF States
<1>4. PICK a \in Agents : /\ agent' = [agent EXCEPT ![i] = a] /\ a.at = "none"
                          /\ a.phase = agent[i].phase /\ a.try = agent[i].try
  BY <1>1, <1>2, ClosedTerminal
<1>5. /\ repo[i] \in Repos /\ repo' = [repo EXCEPT ![i] = repo[i]]
      /\ repo[i].ahead \/ repo[i].tree # "none" => repo[i].branch
  BY <1>1, <1>2, IssueFields
<1>6. agent[i].at = "ended" /\ agent[i].phase = "failed"
  BY <1>1 DEF IInv, RunnerKnows
<1>7. /\ run' \in RunTypes /\ run'.n = run.n /\ run'.at = "reset_tree"
      /\ run'.issue = i /\ run'.queue = run.queue /\ run'.attempted = run.attempted
  BY <1>1, GoesOn DEF RunSteps
<1>8. agent'[i] = a
  BY <1>2, <1>4
<1>9. RunnerKnows'
  BY <1>4, <1>6, <1>7, <1>8 DEF RunnerKnows
<1> QED BY <1>1, <1>3, <1>4, <1>5, <1>6, <1>7, <1>9, TouchKeeps DEF RunSteps, Active

LEMMA ResetTreeKeeps ==
  ASSUME IInv, script = "run-queue", UNCHANGED script, ResetTree
  PROVE  IInv'
<1> DEFINE i == run.issue
<1>1. /\ run.at = "reset_tree" /\ Goes("drop") /\ RemoveTree(i)
      /\ UNCHANGED <<linear, conflicted, agent, credited, mailVars>>
  BY DEF ResetTree
<1>2. i \in Issues /\ linear' \in [Issues -> States]
  BY <1>1, RunFields DEF IInv, Typed, TypeIssues
<1>3. agent[i] \in Agents /\ agent' = [agent EXCEPT ![i] = agent[i]]
  BY <1>1, <1>2, IssueFields
<1>4. PICK r \in Repos : /\ repo' = [repo EXCEPT ![i] = r] /\ r.ahead = repo[i].ahead
                         /\ r.tree \in {repo[i].tree, "none"}
                         /\ r.ahead \/ r.tree # "none" => r.branch
  BY <1>1, <1>2, Removed
<1>5. agent[i].at = "none" /\ agent[i].phase = "failed"
  BY <1>1 DEF IInv, RunnerKnows
<1>6. /\ run' \in RunTypes /\ run'.n = run.n /\ run'.at = "drop"
      /\ run'.issue = i /\ run'.queue = run.queue /\ run'.attempted = run.attempted
  BY <1>1, GoesOn DEF RunSteps
<1>7. RunnerKnows'
  BY <1>1, <1>5, <1>6 DEF RunnerKnows
<1> QED BY <1>1, <1>2, <1>3, <1>4, <1>5, <1>6, <1>7, TouchKeeps DEF RunSteps, Active

LEMMA DropBranchKeeps ==
  ASSUME IInv, script = "run-queue", UNCHANGED script, DropBranch
  PROVE  IInv'
<1> DEFINE i == run.issue
<1>1. /\ run.at = "drop" /\ Records
      /\ repo' = [repo EXCEPT ![i] = NoRepo] \/ repo' = repo
      /\ UNCHANGED <<linear, conflicted, agent, credited, mailVars>>
  BY DEF DropBranch
<1>2. i \in Issues /\ linear' \in [Issues -> States]
  BY <1>1, RunFields DEF IInv, Typed, TypeIssues
<1>3. /\ agent[i] \in Agents /\ agent' = [agent EXCEPT ![i] = agent[i]]
      /\ repo[i] \in Repos /\ repo = [repo EXCEPT ![i] = repo[i]]
      /\ repo[i].ahead \/ repo[i].tree # "none" => repo[i].branch
  BY <1>1, <1>2, IssueFields
<1>4. /\ agent[i].at = "none"
      /\ agent[i].phase = "success" => repo[i].tree # "dirty" /\ ~repo[i].ahead /\ i \in credited
  BY <1>1, <1>2 DEF IInv, RunnerKnows, AgentsWork, Pending
<1>5. PICK r \in {repo[i], NoRepo} : repo' = [repo EXCEPT ![i] = r]
  BY <1>1, <1>3
<1>6. /\ r \in Repos /\ (r.ahead \/ r.tree # "none" => r.branch)
      /\ agent[i].phase = "success" => r.tree # "dirty" /\ ~r.ahead
  <2>1. NoRepo \in Repos /\ NoRepo.tree = "none" /\ ~NoRepo.ahead
    BY DEF NoRepo, Repos
  <2> QED BY <1>3, <1>4, <2>1
<1>7. /\ run' \in RunTypes /\ run'.n = run.n /\ run'.at = "list" /\ run'.issue = None
      /\ run'.queue = run.queue /\ run'.attempted = run.attempted
  BY <1>1, RecordsIs
<1>8. RunnerKnows'
  BY <1>7 DEF RunnerKnows
<1> QED BY <1>1, <1>2, <1>3, <1>4, <1>5, <1>6, <1>7, <1>8, TouchKeeps DEF RunSteps, Active

\* The new attempt is later than every letter about its issue.
LEMMA OpenAgentKeeps ==
  ASSUME IInv, script = "run-queue", UNCHANGED script, OpenAgent
  PROVE  IInv'
<1> DEFINE i == run.issue
           a == [NoAgent EXCEPT !.at = "idle", !.try = run.n]
<1>1. /\ run.at = "open" /\ Goes("dispatch") /\ agent' = [agent EXCEPT ![i] = a]
      /\ UNCHANGED <<linear, repo, conflicted, credited, mailVars>>
  BY DEF OpenAgent
<1>2. i \in Issues /\ i # None /\ run.n \in Nat /\ run.n <= MaxRuns
  BY <1>1, RunFields, IssueAssumption DEF IInv
<1>3. /\ repo[i] \in Repos /\ repo' = [repo EXCEPT ![i] = repo[i]]
      /\ repo[i].ahead \/ repo[i].tree # "none" => repo[i].branch
      /\ agent[i].try \in Nat
  BY <1>1, <1>2, IssueFields
<1>4. /\ repo[i].tree # "none" /\ agent[i].try < run.n /\ run.n > 0
      /\ i \in run.attempted
  BY <1>1, <1>2 DEF IInv, RunnerKnows, TriesCount
<1>5. /\ a \in Agents /\ a.at = "idle" /\ a.try = run.n
  BY <1>2 DEF NoAgent, Agents
<1> HIDE DEF a
<1>6. /\ agent' \in [Issues -> Agents] /\ repo' \in [Issues -> Repos]
      /\ agent'[i] = a /\ repo'[i] = repo[i]
      /\ \A j \in Issues \ {i} : agent'[j] = agent[j] /\ repo'[j] = repo[j]
      /\ RepoSound' /\ AgentsWork'
  BY <1>1, <1>2, <1>3, <1>4, <1>5, WorkSound
<1>7. /\ run' \in RunTypes /\ run'.n = run.n /\ run'.at = "dispatch"
      /\ run'.issue = i /\ run'.queue = run.queue /\ run'.attempted = run.attempted
  BY <1>1, GoesOn DEF RunSteps
<1>8. Typed'
  <2>1. TypeIssues'
    BY <1>1, <1>2, <1>6, <1>7 DEF IInv, Typed, TypeIssues, RunTypes
  <2> QED BY <1>1, <1>7, <2>1 DEF IInv, Typed, mailVars
<1>9. TriesCount'
  <2>1. \A j \in Issues : j # i => agent'[j].try = agent[j].try
    BY <1>6
  <2>2. agent'[i].try = run.n
    BY <1>5, <1>6
  <2> QED BY <1>2, <1>4, <1>7, <2>1, <2>2 DEF IInv, TriesCount
<1>10. RunnerKnows'
  BY <1>5, <1>6, <1>7 DEF RunnerKnows
<1>11. LettersTrue'
  <2>1. mailbox \in Seq(Letters) /\ mailbox' = mailbox
    BY <1>1 DEF IInv, Typed, mailVars
  <2>2. SUFFICES ASSUME NEW n \in 1..Len(mailbox)
                 PROVE  LET m == mailbox[n]
                            b == agent'[m.task]
                        IN  /\ m.try <= b.try
                            /\ m.type = "worker_done" /\ m.try = b.try =>
                                 b.at \in {"ended", "none"} /\ m.phase = b.phase
    BY <2>1 DEF LettersTrue
  <2>3. mailbox[n].task \in Issues /\ mailbox[n].try \in Nat
    <3>1. mailbox[n] \in Letters
      BY <2>1
    <3> QED BY <3>1, LettersNonempty
  <2>4. LET m == mailbox[n]
            b == agent[m.task]
        IN  /\ m.try <= b.try
            /\ m.type = "worker_done" /\ m.try = b.try =>
                 b.at \in {"ended", "none"} /\ m.phase = b.phase
    BY DEF IInv, LettersTrue
  <2>5. CASE mailbox[n].task = i
    BY <1>2, <1>3, <1>4, <1>5, <1>6, <2>3, <2>4, <2>5
  <2>6. CASE mailbox[n].task # i
    BY <1>6, <2>3, <2>4, <2>6
  <2> QED BY <2>5, <2>6
<1>12. VerdictAwaits'
  BY <1>7 DEF VerdictAwaits
<1> QED BY <1>6, <1>8, <1>9, <1>10, <1>11, <1>12 DEF IInv

-----------------------------------------------------------------------------
(* The agents and their hooks.                                             *)

\* A step of an agent at work: the runner is not past the wait for it.
LEMMA AgentKeeps ==
  ASSUME IInv, script = "run-queue", UNCHANGED <<script, linear, run>>,
         NEW i \in Issues, agent[i].at \in Active \ {"idle"},
         NEW a \in Agents, NEW r \in Repos,
         agent' = [agent EXCEPT ![i] = a], repo' = [repo EXCEPT ![i] = r],
         conflicted' \in BOOLEAN, credited \subseteq credited', credited' \subseteq Issues,
         a.try = agent[i].try, a.at \in Active \cup {"ended"},
         r.tree # "none", r.branch,
         a.at \in {"send", "ended"} => a.phase \in Verdicts,
         a.phase = "success" /\ a.at \in {"send", "ended"} => r.tree # "dirty" /\ ~r.ahead,
         a.phase = "success" /\ a.at = "ended" => i \in credited',
         mailbox' \in Seq(Letters), delivered' \in 0..Len(mailbox'),
         LettersTrue', VerdictAwaits'
  PROVE  IInv'
<1>1. /\ a.try > 0 /\ a.at # "none" /\ agent[i].at # "idle"
      /\ agent[i].at \notin {"none", "ended"}
  BY DEF IInv, AgentsWork, Active
<1>2. /\ agent' \in [Issues -> Agents] /\ repo' \in [Issues -> Repos]
      /\ agent'[i] = a /\ repo'[i] = r
      /\ \A j \in Issues \ {i} : agent'[j] = agent[j] /\ repo'[j] = repo[j]
      /\ RepoSound' /\ AgentsWork'
  BY <1>1, WorkSound
<1>3. Typed'
  <2>1. TypeIssues'
    BY <1>2 DEF IInv, Typed, TypeIssues
  <2> QED BY <2>1 DEF IInv, Typed
<1>4. TriesCount'
  <2>1. \A j \in Issues : agent'[j].try = agent[j].try
    BY <1>2
  <2>2. run.issue # None => run.issue \in Issues
    BY RunFields DEF IInv
  <2>3. run.at \in {"preflight", "create", "progress", "open"} => run.issue \in Issues
    BY RunFields DEF IInv
  <2> QED BY <2>1, <2>2, <2>3 DEF IInv, TriesCount
<1>5. RunnerKnows'
  <2>1. run.at \notin {"off", "list"} => run.issue \in Issues
    BY RunFields DEF IInv
  <2>2. CASE run.issue = i
    <3>1. /\ run.at \notin {"dispatch", "prompt", "merge", "review", "done", "clean",
                             "reset", "reset_tree", "drop"}
      BY <1>1, <2>2 DEF IInv, RunnerKnows
    <3> QED BY <1>1, <1>2, <2>2, <3>1 DEF RunnerKnows
  <2>3. CASE run.issue # i
    <3>1. run.at \notin {"off", "list"} =>
            agent'[run.issue] = agent[run.issue] /\ repo'[run.issue] = repo[run.issue]
      BY <1>2, <2>1, <2>3
    <3> QED BY <3>1 DEF IInv, RunnerKnows
  <2> QED BY <2>2, <2>3
<1> QED BY <1>2, <1>3, <1>4, <1>5 DEF IInv

\* The mail is left alone, and the agent is not done.
LEMMA ActsKeep ==
  ASSUME IInv, script = "run-queue", AgentStep, UNCHANGED <<script, mailVars>>,
         NEW i \in Issues, agent[i].at \in Active \ {"idle"},
         NEW a \in Agents, NEW r \in Repos,
         agent' = [agent EXCEPT ![i] = a], repo' = [repo EXCEPT ![i] = r],
         conflicted' \in BOOLEAN,
         a.try = agent[i].try, a.at \in Active,
         r.tree # "none", r.branch,
         a.at = "send" => a.phase \in Verdicts,
         a.phase = "success" /\ a.at = "send" => r.tree # "dirty" /\ ~r.ahead
  PROVE  IInv'
<1>1. /\ mailbox' = mailbox /\ delivered' = delivered /\ mailbox \in Seq(Letters)
      /\ UNCHANGED <<linear, credited, run>> /\ delivered \in 0..Len(mailbox)
      /\ credited \subseteq Issues /\ agent \in [Issues -> Agents]
  BY DEF IInv, Typed, TypeIssues, AgentStep, mailVars
<1>2. a.at # "ended" /\ agent[i].at \notin {"none", "ended"}
  BY DEF Active
<1>3. agent'[i] = a /\ \A j \in Issues : j # i => agent'[j] = agent[j]
  BY <1>1
<1>4. LettersTrue'
  <2>1. SUFFICES ASSUME NEW n \in 1..Len(mailbox)
                 PROVE  LET m == mailbox[n]
                            b == agent'[m.task]
                        IN  /\ m.try <= b.try
                            /\ m.type = "worker_done" /\ m.try = b.try =>
                                 b.at \in {"ended", "none"} /\ m.phase = b.phase
    BY <1>1 DEF LettersTrue
  <2>2. mailbox[n].task \in Issues
    <3>1. mailbox[n] \in Letters
      BY <1>1
    <3> QED BY <3>1, LettersNonempty
  <2>3. LET m == mailbox[n]
            b == agent[m.task]
        IN  /\ m.try <= b.try
            /\ m.type = "worker_done" /\ m.try = b.try =>
                 b.at \in {"ended", "none"} /\ m.phase = b.phase
    BY DEF IInv, LettersTrue
  <2>4. CASE mailbox[n].task = i
    BY <1>2, <1>3, <2>3, <2>4
  <2>5. CASE mailbox[n].task # i
    BY <1>3, <2>2, <2>3, <2>5
  <2> QED BY <2>4, <2>5
<1>5. VerdictAwaits'
  <2>1. run.at = "wait" => run.issue \in Issues
    BY RunFields DEF IInv
  <2>2. CASE run.issue = i
    BY <1>1, <1>2, <1>3, <2>2 DEF VerdictAwaits
  <2>3. CASE run.issue # i
    BY <1>1, <1>3, <2>1, <2>3 DEF IInv, VerdictAwaits, Awaited
  <2> QED BY <2>2, <2>3
<1>6. a.at \in Active \cup {"ended"} /\ (a.at \in {"send", "ended"} => a.at = "send")
  BY <1>2
<1> QED BY <1>1, <1>2, <1>4, <1>5, <1>6, AgentKeeps

\* What an agent at work has.
LEMMA AtWork ==
  ASSUME IInv, NEW i \in Issues, agent[i].at \in Active \ {"idle"}
  PROVE  /\ repo[i] \in Repos /\ repo[i].tree # "none" /\ repo[i].branch
         /\ agent[i] \in Agents
         /\ agent[i].at = "send" =>
              /\ agent[i].phase \in Verdicts
              /\ agent[i].phase = "success" => repo[i].tree # "dirty" /\ ~repo[i].ahead
  BY IssueFields DEF IInv, AgentsWork, Pending

LEMMA StoppedIs ==
  ASSUME NEW a \in Agents
  PROVE  /\ Stopped(a) \in Agents /\ Stopped(a).at = "silent" /\ Stopped(a).try = a.try
         /\ [Stopped(a) EXCEPT !.report = "none"] \in Agents
         /\ [Stopped(a) EXCEPT !.report = "none"].at = "silent"
         /\ [Stopped(a) EXCEPT !.report = "none"].try = a.try
  BY DEF Stopped, Agents

LEMMA SentBackIs ==
  ASSUME NEW i \in Issues, agent[i] \in Agents
  PROVE  /\ SentBack(i) \in Agents /\ SentBack(i).at = "working"
         /\ SentBack(i).try = agent[i].try
  BY DEF SentBack, Agents

LEMMA TurnKeeps ==
  ASSUME IInv, script = "run-queue", UNCHANGED script, NEW i \in Issues,
         \/ Report(i) \/ EndTurn(i) \/ ChecksFail(i) \/ HumanAnswers(i)
  PROVE  IInv'
<1>1. /\ agent[i].at \in {"working", "hook", "silent"}
      /\ AgentStep /\ UNCHANGED <<repo, conflicted, mailVars>>
  BY DEF Report, EndTurn, ChecksFail, HumanAnswers
<1>2. agent[i].at \in Active \ {"idle"}
  BY <1>1 DEF Active
<1>3. /\ repo[i] \in Repos /\ repo[i].tree # "none" /\ repo[i].branch
      /\ agent[i] \in Agents /\ repo' = [repo EXCEPT ![i] = repo[i]]
      /\ conflicted' \in BOOLEAN
  BY <1>1, <1>2, AtWork, IssueFields DEF IInv, Typed, TypeIssues
<1>4. \E a \in Agents :
        /\ Turns(i, a) /\ a.try = agent[i].try
        /\ \/ a.at \in Active /\ a.at # "send"
           \/ a.at = "send" /\ a.phase = "failed"
  <2>1. CASE Report(i)
    <3>1. PICK v \in {"success", "failed"} : Turns(i, [agent[i] EXCEPT !.report = v])
      BY <2>1 DEF Report
    <3>2. /\ [agent[i] EXCEPT !.report = v] \in Agents
          /\ [agent[i] EXCEPT !.report = v].at = "working"
          /\ [agent[i] EXCEPT !.report = v].try = agent[i].try
      BY <1>3, <2>1 DEF Report, Agents
    <3> QED BY <3>1, <3>2 DEF Active
  <2>2. CASE EndTurn(i)
    <3>1. Turns(i, Stopped(agent[i])) \/ Turns(i, [agent[i] EXCEPT !.at = "hook"])
      BY <2>2 DEF EndTurn
    <3>2. /\ [agent[i] EXCEPT !.at = "hook"] \in Agents
          /\ [agent[i] EXCEPT !.at = "hook"].at = "hook"
          /\ [agent[i] EXCEPT !.at = "hook"].try = agent[i].try
      BY <1>3 DEF Agents
    <3> QED BY <1>3, <3>1, <3>2, StoppedIs DEF Active
  <2>3. CASE ChecksFail(i)
    <3>1. \/ Turns(i, SentBack(i)) \/ Turns(i, Stopped(agent[i]))
          \/ Turns(i, [agent[i] EXCEPT !.at = "send", !.phase = "failed"])
      BY <2>3 DEF ChecksFail
    <3>2. /\ [agent[i] EXCEPT !.at = "send", !.phase = "failed"] \in Agents
          /\ [agent[i] EXCEPT !.at = "send", !.phase = "failed"].at = "send"
          /\ [agent[i] EXCEPT !.at = "send", !.phase = "failed"].phase = "failed"
          /\ [agent[i] EXCEPT !.at = "send", !.phase = "failed"].try = agent[i].try
      BY <1>3 DEF Agents
    <3> QED BY <1>3, <3>1, <3>2, StoppedIs, SentBackIs DEF Active
  <2>4. CASE HumanAnswers(i)
    <3>1. /\ [agent[i] EXCEPT !.at = "working"] \in Agents
          /\ [agent[i] EXCEPT !.at = "working"].at = "working"
          /\ [agent[i] EXCEPT !.at = "working"].try = agent[i].try
      BY <1>3 DEF Agents
    <3> QED BY <2>4, <3>1 DEF HumanAnswers, Active
  <2> QED BY <2>1, <2>2, <2>3, <2>4
<1>5. PICK a \in Agents :
        /\ Turns(i, a) /\ a.try = agent[i].try
        /\ \/ a.at \in Active /\ a.at # "send"
           \/ a.at = "send" /\ a.phase = "failed"
  BY <1>4
<1>6. a.at \in Active /\ (a.at = "send" => a.phase \in Verdicts /\ a.phase # "success")
  BY <1>5 DEF Active, Verdicts
<1>7. agent' = [agent EXCEPT ![i] = a]
  BY <1>5 DEF Turns
<1> QED BY <1>1, <1>2, <1>3, <1>5, <1>6, <1>7, ActsKeep

LEMMA EditKeeps ==
  ASSUME IInv, script = "run-queue", UNCHANGED script, NEW i \in Issues, Edit(i)
  PROVE  IInv'
<1> DEFINE r == [repo[i] EXCEPT !.tree = "dirty"]
<1>1. /\ agent[i].at = "working" /\ repo' = [repo EXCEPT ![i].tree = "dirty"]
      /\ AgentStep /\ UNCHANGED <<agent, conflicted, mailVars>>
  BY DEF Edit
<1>2. agent[i].at \in Active \ {"idle"}
  BY <1>1 DEF Active
<1>3. /\ repo[i] \in Repos /\ repo[i].branch /\ agent[i] \in Agents
      /\ agent' = [agent EXCEPT ![i] = agent[i]]
      /\ conflicted' \in BOOLEAN /\ repo \in [Issues -> Repos]
  BY <1>1, <1>2, AtWork, IssueFields DEF IInv, Typed, TypeIssues
<1>4. r \in Repos /\ r.tree = "dirty" /\ r.branch
  BY <1>3 DEF Repos
<1>5. repo' = [repo EXCEPT ![i] = r]
  BY <1>1, <1>3
<1> HIDE DEF r
<1> QED BY <1>1, <1>2, <1>3, <1>4, <1>5, ActsKeep DEF Active

\* What the hook's integration leaves of the worktree.
LEMMA Integrated ==
  ASSUME IInv, NEW i \in Issues, agent[i].at \in Active \ {"idle"},
         Finishes(i) \/ FinishFails(i) \/ (Committed(i) /\ UNCHANGED conflicted)
  PROVE  \E r \in Repos :
           /\ repo' = [repo EXCEPT ![i] = r] /\ conflicted' \in BOOLEAN
           /\ r.tree # "none" /\ r.branch
           /\ Finishes(i) => r.tree = "clean" /\ ~r.ahead
<1> DEFINE clean == [[repo[i] EXCEPT !.tree = "clean"] EXCEPT !.ahead = FALSE]
           kept == [[repo[i] EXCEPT !.tree = "clean"] EXCEPT !.ahead = TRUE]
<1>1. /\ repo[i] \in Repos /\ repo[i].tree # "none" /\ repo[i].branch
      /\ repo = [repo EXCEPT ![i] = repo[i]] /\ repo \in [Issues -> Repos]
      /\ conflicted \in BOOLEAN
  BY AtWork, IssueFields DEF IInv, Typed, TypeIssues
<1>2. /\ clean \in Repos /\ clean.tree = "clean" /\ clean.branch /\ ~clean.ahead
      /\ kept \in Repos /\ kept.tree = "clean" /\ kept.branch
  BY <1>1 DEF Repos
<1>3. CASE Finishes(i)
  <2>1. repo' = [repo EXCEPT ![i] = clean] /\ conflicted' = conflicted
    BY <1>1, <1>3 DEF Finishes
  <2> HIDE DEF clean
  <2> QED BY <1>1, <1>2, <2>1
<1>4. CASE ~Finishes(i) /\ UNCHANGED <<repo, conflicted>>
  BY <1>1, <1>4
<1>5. CASE ~Finishes(i) /\ Committed(i) /\ (conflicted' = TRUE \/ UNCHANGED conflicted)
  <2>1. repo' = [repo EXCEPT ![i] = kept] /\ conflicted' \in BOOLEAN
    BY <1>1, <1>5 DEF Committed
  <2> HIDE DEF kept
  <2> QED BY <1>2, <1>5, <2>1
<1>6. ~Finishes(i) => \/ UNCHANGED <<repo, conflicted>>
                      \/ Committed(i) /\ (conflicted' = TRUE \/ UNCHANGED conflicted)
  BY DEF FinishFails
<1> QED BY <1>3, <1>4, <1>5, <1>6

\* The verdict the hook is about to send.
LEMMA SendsIs ==
  ASSUME NEW i \in Issues, agent[i] \in Agents, NEW phase \in Verdicts
  PROVE  /\ [agent[i] EXCEPT !.at = "send", !.phase = phase] \in Agents
         /\ [agent[i] EXCEPT !.at = "send", !.phase = phase].at = "send"
         /\ [agent[i] EXCEPT !.at = "send", !.phase = phase].phase = phase
         /\ [agent[i] EXCEPT !.at = "send", !.phase = phase].try = agent[i].try
  BY DEF Agents, Verdicts

LEMMA IntegrateKeeps ==
  ASSUME IInv, script = "run-queue", UNCHANGED script, NEW i \in Issues,
         IntegrateUnreported(i) \/ IntegrateReported(i)
  PROVE  IInv'
<1>1. agent[i].at = "hook" /\ AgentStep /\ UNCHANGED mailVars
  BY DEF IntegrateUnreported, IntegrateReported
<1>2. agent[i].at \in Active \ {"idle"}
  BY <1>1 DEF Active
<1>3. agent[i] \in Agents
  BY <1>2, AtWork
<1>4. /\ Finishes(i) \/ FinishFails(i)
      /\ \E a \in Agents :
           /\ Turns(i, a) /\ a.try = agent[i].try
           /\ \/ a.at \in Active /\ a.at # "send"
              \/ a.at = "send" /\ a.phase \in Verdicts
           /\ a.at = "send" /\ a.phase = "success" => Finishes(i)
  <2>1. CASE IntegrateUnreported(i)
    <3>1. /\ Finishes(i) \/ FinishFails(i)
          /\ Turns(i, Stopped(agent[i])) \/ Turns(i, SentBack(i))
      BY <2>1 DEF IntegrateUnreported
    <3> QED BY <1>3, <3>1, StoppedIs, SentBackIs DEF Active
  <2>2. CASE IntegrateReported(i)
    <3>1. /\ Finishes(i) \/ FinishFails(i)
          /\ \/ Turns(i, SentBack(i))
             \/ \E phase \in Verdicts :
                  /\ Turns(i, [agent[i] EXCEPT !.at = "send", !.phase = phase])
                  /\ phase = "success" => Finishes(i)
      BY <2>2 DEF IntegrateReported, FinishFails, Verdicts
    <3>2. CASE Turns(i, SentBack(i))
      BY <1>3, <3>1, <3>2, SentBackIs DEF Active
    <3>3. ASSUME NEW phase \in Verdicts,
                 Turns(i, [agent[i] EXCEPT !.at = "send", !.phase = phase]),
                 phase = "success" => Finishes(i)
          PROVE  \E a \in Agents :
                   /\ Turns(i, a) /\ a.try = agent[i].try
                   /\ a.at = "send" /\ a.phase \in Verdicts
                   /\ a.phase = "success" => Finishes(i)
      <4> DEFINE b == [agent[i] EXCEPT !.at = "send", !.phase = phase]
      <4>1. /\ b \in Agents /\ b.at = "send" /\ b.phase = phase /\ b.try = agent[i].try
            /\ Turns(i, b)
        BY <1>3, <3>3, SendsIs
      <4> HIDE DEF b
      <4> QED BY <3>3, <4>1
    <3> QED BY <3>1, <3>2, <3>3
  <2> QED BY <2>1, <2>2
<1>5. PICK a \in Agents :
        /\ Turns(i, a) /\ a.try = agent[i].try
        /\ \/ a.at \in Active /\ a.at # "send"
           \/ a.at = "send" /\ a.phase \in Verdicts
        /\ a.at = "send" /\ a.phase = "success" => Finishes(i)
  BY <1>4
<1>6. Finishes(i) \/ FinishFails(i)
  BY <1>4
<1>7. PICK r \in Repos : /\ repo' = [repo EXCEPT ![i] = r] /\ conflicted' \in BOOLEAN
                         /\ r.tree # "none" /\ r.branch
                         /\ Finishes(i) => r.tree = "clean" /\ ~r.ahead
  BY <1>2, <1>6, Integrated
<1>8. agent' = [agent EXCEPT ![i] = a] /\ a.at \in Active
  BY <1>5 DEF Turns, Active
<1> QED BY <1>1, <1>2, <1>5, <1>7, <1>8, ActsKeep

LEMMA HookKilledKeeps ==
  ASSUME IInv, script = "run-queue", UNCHANGED script, NEW i \in Issues, HookKilled(i)
  PROVE  IInv'
<1>1. /\ agent[i].at \in {"hook", "send"} /\ AgentStep /\ UNCHANGED <<conflicted, mailVars>>
      /\ Turns(i, Stopped(agent[i])) /\ (UNCHANGED repo \/ Committed(i))
  BY DEF HookKilled
<1>2. agent[i].at \in Active \ {"idle"}
  BY <1>1 DEF Active
<1>3. FinishFails(i) \/ (Committed(i) /\ UNCHANGED conflicted)
  BY <1>1 DEF FinishFails
<1>4. PICK r \in Repos : /\ repo' = [repo EXCEPT ![i] = r] /\ conflicted' \in BOOLEAN
                         /\ r.tree # "none" /\ r.branch
  BY <1>2, <1>3, Integrated
<1>5. agent' = [agent EXCEPT ![i] = Stopped(agent[i])]
  BY <1>1 DEF Turns
<1>6. /\ Stopped(agent[i]) \in Agents /\ Stopped(agent[i]).at = "silent"
      /\ Stopped(agent[i]).try = agent[i].try
  BY <1>2, AtWork, StoppedIs
<1> QED BY <1>1, <1>2, <1>4, <1>5, <1>6, ActsKeep DEF Active

\* A letter put at the end.
LEMMA PostKeepsLetters ==
  ASSUME IInv, script = "run-queue", NEW m \in Letters, Post(m)
  PROVE  /\ mailbox' \in Seq(Letters) /\ delivered' \in 0..Len(mailbox')
         /\ \A n \in 1..Len(mailbox') :
              \/ n \in 1..Len(mailbox) /\ mailbox'[n] = mailbox[n]
              \/ mailbox'[n] = m
         /\ \E n \in 1..Len(mailbox') : mailbox'[n] = m
         /\ \A n \in 1..Len(mailbox) : n \in 1..Len(mailbox') /\ mailbox'[n] = mailbox[n]
<1>1. mailbox \in Seq(Letters) /\ delivered \in 0..Len(mailbox) /\ Len(mailbox) \in Nat
  BY DEF IInv, Typed
<1>2. /\ mailbox' \in Seq(Letters) /\ Len(mailbox') = Len(mailbox) + 1
      /\ \A n \in 1..Len(mailbox) : mailbox'[n] = mailbox[n]
      /\ mailbox'[Len(mailbox) + 1] = m
      /\ delivered' = delivered
  BY <1>1, Posted
<1>3. \A n \in 1..Len(mailbox') : n \in 1..Len(mailbox) \/ n = Len(mailbox) + 1
  BY <1>1, <1>2
<1>4. Len(mailbox) + 1 \in 1..Len(mailbox')
  BY <1>1, <1>2
<1>5. delivered' \in 0..Len(mailbox')
  BY <1>1, <1>2
<1>6. \A n \in 1..Len(mailbox) : n \in 1..Len(mailbox')
  BY <1>1, <1>2
<1> QED BY <1>2, <1>3, <1>4, <1>5, <1>6

LEMMA EscalateKeeps ==
  ASSUME IInv, script = "run-queue", UNCHANGED script, NEW i \in Issues, Escalate(i)
  PROVE  IInv'
<1> DEFINE m == Message(i, agent[i].try, "escalation", "none")
<1>1. /\ agent[i].at = "working" /\ Post(m) /\ UNCHANGED <<linear, credited, run>>
      /\ UNCHANGED <<agent, repo, conflicted>>
  BY DEF Escalate, AgentStep
<1>2. agent[i].at \in Active \ {"idle"} /\ agent[i].at \in Active /\ agent[i].at \notin {"send", "ended"}
  BY <1>1 DEF Active
<1>3. /\ agent[i] \in Agents /\ agent[i].try \in Nat /\ agent' = [agent EXCEPT ![i] = agent[i]]
      /\ repo[i] \in Repos /\ repo[i].tree # "none" /\ repo[i].branch
      /\ repo' = [repo EXCEPT ![i] = repo[i]]
      /\ credited \subseteq Issues /\ conflicted' \in BOOLEAN
  BY <1>1, <1>2, AtWork, IssueFields DEF IInv, Typed, TypeIssues
<1>4. agent[i].try > 0
  BY <1>1 DEF IInv, AgentsWork
<1>5. m \in Letters /\ m.task = i /\ m.try = agent[i].try /\ m.type = "escalation"
  BY <1>3, <1>4 DEF Message, Letters
<1> HIDE DEF m
<1>6. /\ mailbox' \in Seq(Letters) /\ delivered' \in 0..Len(mailbox')
      /\ \A n \in 1..Len(mailbox') : \/ n \in 1..Len(mailbox) /\ mailbox'[n] = mailbox[n]
                                     \/ mailbox'[n] = m
      /\ \A n \in 1..Len(mailbox) : n \in 1..Len(mailbox') /\ mailbox'[n] = mailbox[n]
  BY <1>1, <1>5, PostKeepsLetters
<1>7. LettersTrue'
  <2>1. SUFFICES ASSUME NEW n \in 1..Len(mailbox')
                 PROVE  LET l == mailbox'[n]
                            b == agent[l.task]
                        IN  /\ l.try <= b.try
                            /\ l.type = "worker_done" /\ l.try = b.try =>
                                 b.at \in {"ended", "none"} /\ l.phase = b.phase
    BY <1>1 DEF LettersTrue
  <2>2. CASE n \in 1..Len(mailbox) /\ mailbox'[n] = mailbox[n]
    BY <2>2 DEF IInv, LettersTrue
  <2>3. CASE mailbox'[n] = m
    BY <1>3, <1>5, <2>3
  <2> QED BY <1>6, <2>2, <2>3
<1>8. VerdictAwaits'
  BY <1>1, <1>6 DEF IInv, VerdictAwaits, Awaited
<1> QED BY <1>1, <1>2, <1>3, <1>6, <1>7, <1>8, AgentKeeps

LEMMA SendVerdictKeeps ==
  ASSUME IInv, script = "run-queue", UNCHANGED script, NEW i \in Issues, SendVerdict(i)
  PROVE  IInv'
<1>1. /\ agent[i].at = "send" /\ UNCHANGED <<linear, run, repo, conflicted>>
  BY DEF SendVerdict
<1>2. agent[i].at \in Active \ {"idle"}
  BY <1>1 DEF Active
<1>3. /\ agent[i] \in Agents /\ agent[i].try \in Nat /\ agent \in [Issues -> Agents]
      /\ repo[i] \in Repos /\ repo[i].tree # "none" /\ repo[i].branch
      /\ repo' = [repo EXCEPT ![i] = repo[i]]
      /\ credited \subseteq Issues /\ conflicted' \in BOOLEAN
      /\ agent[i].phase \in Verdicts
      /\ agent[i].phase = "success" => repo[i].tree # "dirty" /\ ~repo[i].ahead
  BY <1>1, <1>2, AtWork, IssueFields DEF IInv, Typed, TypeIssues
<1>4. CASE /\ UNCHANGED <<credited, mailVars>>
           /\ Turns(i, [Stopped(agent[i]) EXCEPT !.report = "none"]) \/ Turns(i, SentBack(i))
  <2>1. PICK a \in Agents : agent' = [agent EXCEPT ![i] = a] /\ a.try = agent[i].try
                            /\ a.at \in {"silent", "working"}
    BY <1>3, <1>4, StoppedIs, SentBackIs DEF Turns
  <2> QED BY <1>1, <1>2, <1>3, <1>4, <2>1, ActsKeep DEF AgentStep, Active
<1>5. CASE /\ Post(Message(i, agent[i].try, "worker_done", agent[i].phase))
           /\ Turns(i, [agent[i] EXCEPT !.at = "ended", !.report = "none", !.blocked = FALSE])
           /\ credited' = IF agent[i].phase = "success" THEN credited \cup {i} ELSE credited
  <2> DEFINE m == Message(i, agent[i].try, "worker_done", agent[i].phase)
             a == [agent[i] EXCEPT !.at = "ended", !.report = "none", !.blocked = FALSE]
  <2>1. agent[i].try > 0
    BY <1>1 DEF IInv, AgentsWork
  <2>2. /\ m \in Letters /\ m.task = i /\ m.try = agent[i].try /\ m.type = "worker_done"
        /\ m.phase = agent[i].phase
    BY <1>3, <2>1 DEF Message, Letters, Verdicts
  <2>3. /\ a \in Agents /\ a.at = "ended" /\ a.phase = agent[i].phase /\ a.try = agent[i].try
    BY <1>3 DEF Agents
  <2>4. Post(m) /\ agent' = [agent EXCEPT ![i] = a]
    BY <1>5 DEF Turns
  <2> HIDE DEF m, a
  <2>5. agent'[i] = a /\ \A j \in Issues : j # i => agent'[j] = agent[j]
    BY <1>3, <2>4
  <2>6. /\ mailbox' \in Seq(Letters) /\ delivered' \in 0..Len(mailbox')
        /\ \A n \in 1..Len(mailbox') : \/ n \in 1..Len(mailbox) /\ mailbox'[n] = mailbox[n]
                                       \/ mailbox'[n] = m
        /\ \E n \in 1..Len(mailbox') : mailbox'[n] = m
        /\ \A n \in 1..Len(mailbox) : n \in 1..Len(mailbox') /\ mailbox'[n] = mailbox[n]
    BY <2>2, <2>4, PostKeepsLetters
  <2>7. LettersTrue'
    <3>1. SUFFICES ASSUME NEW n \in 1..Len(mailbox')
                   PROVE  LET l == mailbox'[n]
                              b == agent'[l.task]
                          IN  /\ l.try <= b.try
                              /\ l.type = "worker_done" /\ l.try = b.try =>
                                   b.at \in {"ended", "none"} /\ l.phase = b.phase
      BY DEF LettersTrue
    <3>2. CASE n \in 1..Len(mailbox) /\ mailbox'[n] = mailbox[n]
      <4>1. mailbox[n].task \in Issues
        <5>1. mailbox[n] \in Letters
          BY <3>2 DEF IInv, Typed
        <5> QED BY <5>1, LettersNonempty
      <4>2. LET l == mailbox[n]
                b == agent[l.task]
            IN  /\ l.try <= b.try
                /\ l.type = "worker_done" /\ l.try = b.try =>
                     b.at \in {"ended", "none"} /\ l.phase = b.phase
        BY <3>2 DEF IInv, LettersTrue
      <4>3. CASE mailbox[n].task = i
        BY <1>1, <2>3, <2>5, <3>2, <4>2, <4>3
      <4>4. CASE mailbox[n].task # i
        BY <2>5, <3>2, <4>1, <4>2, <4>4
      <4> QED BY <4>3, <4>4
    <3>3. CASE mailbox'[n] = m
      BY <1>3, <2>2, <2>3, <2>5, <3>3
    <3> QED BY <2>6, <3>2, <3>3
  <2>8. VerdictAwaits'
    <3>1. run.at = "wait" => run.issue \in Issues
      BY RunFields DEF IInv
    <3>2. CASE run.issue = i
      BY <1>1, <2>2, <2>3, <2>5, <2>6, <3>2 DEF VerdictAwaits, Awaited
    <3>3. CASE run.issue # i
      BY <1>1, <2>5, <2>6, <3>1, <3>3 DEF IInv, VerdictAwaits, Awaited
    <3> QED BY <3>2, <3>3
  <2>9. /\ credited \subseteq credited' /\ credited' \subseteq Issues
        /\ a.phase = "success" => i \in credited'
    BY <1>3, <1>5, <2>3
  <2> QED BY <1>1, <1>2, <1>3, <2>3, <2>4, <2>6, <2>7, <2>8, <2>9, AgentKeeps
<1> QED BY <1>4, <1>5 DEF SendVerdict

-----------------------------------------------------------------------------
(* Every step.                                                             *)

LEMMA TrackerKeeps ==
  ASSUME IInv, script = "run-queue", UNCHANGED script,
         DeleteDone \/ \E i \in Issues : FileIssue(i)
  PROVE  IInv'
<1>1. UNCHANGED <<repo, conflicted, agent, credited, run, mailVars>>
  BY DEF DeleteDone, FileIssue
<1>2. linear \in [Issues -> States]
  BY DEF IInv, Typed, TypeIssues
<1>3. linear' \in [Issues -> States]
  <2>1. CASE DeleteDone
    BY <1>2, <2>1 DEF DeleteDone, States
  <2>2. ASSUME NEW i \in Issues, FileIssue(i)
        PROVE  linear' \in [Issues -> States]
    BY <1>2, <2>2 DEF FileIssue, States
  <2> QED BY <2>1, <2>2
<1>4. Typed' /\ RepoSound' /\ AgentsWork'
  BY <1>1, <1>3 DEF IInv, Typed, TypeIssues, RepoSound, AgentsWork, Pending, mailVars
<1>5. TriesCount' /\ RunnerKnows'
  BY <1>1 DEF IInv, TriesCount, RunnerKnows
<1>6. LettersTrue' /\ VerdictAwaits'
  BY <1>1 DEF IInv, LettersTrue, VerdictAwaits, Awaited, mailVars
<1> QED BY <1>4, <1>5, <1>6 DEF IInv

\* With run-jobs in the terminal nothing of the queue runner moves.
LEMMA JobsKeep ==
  ASSUME IInv, script = "run-jobs", UNCHANGED <<script, issueVars>>
  PROVE  IInv'
<1>1. UNCHANGED <<linear, repo, conflicted, agent, credited, run>>
  BY DEF issueVars
<1>2. run.at = "off"
  BY DEF IInv, Typed
<1>3. Typed' /\ RepoSound' /\ AgentsWork'
  BY <1>1 DEF IInv, Typed, TypeIssues, RepoSound, AgentsWork, Pending
<1>4. TriesCount' /\ RunnerKnows'
  BY <1>1 DEF IInv, TriesCount, RunnerKnows
<1>5. LettersTrue' /\ VerdictAwaits'
  BY <1>1, <1>2 DEF LettersTrue, VerdictAwaits
<1> QED BY <1>3, <1>4, <1>5 DEF IInv

LEMMA InitHolds == Init => IInv
<1> SUFFICES ASSUME Init PROVE IInv
  OBVIOUS
<1>1. /\ linear = [i \in Issues |-> IF i \in Filed THEN "todo" ELSE "absent"]
      /\ repo = [i \in Issues |-> NoRepo] /\ conflicted = FALSE
      /\ agent = [i \in Issues |-> NoAgent] /\ credited = {}
      /\ run = [at |-> "off", issue |-> None, queue |-> {}, attempted |-> {},
                since |-> 0, n |-> 0]
      /\ mailbox = <<>> /\ delivered = 0
      /\ script \in {"run-queue", "run-jobs"}
  BY DEF Init, InitIssues, InitMail
<1>2. /\ run \in RunTypes /\ run.at = "off" /\ run.issue = None /\ run.queue = {}
      /\ run.attempted = {} /\ run.n = 0
  BY <1>1 DEF RunTypes, RunSteps
<1>3. /\ NoRepo \in Repos /\ NoRepo.tree = "none" /\ ~NoRepo.ahead
      /\ NoAgent \in Agents /\ NoAgent.at = "none" /\ NoAgent.try = 0
      /\ NoAgent.phase = "none"
  BY DEF NoRepo, Repos, NoAgent, Agents
<1>4. \A i \in Issues : repo[i] = NoRepo /\ agent[i] = NoAgent
  BY <1>1
<1>5. Typed
  <2>1. linear \in [Issues -> States]
    BY <1>1 DEF States
  <2>2. repo \in [Issues -> Repos] /\ agent \in [Issues -> Agents]
    BY <1>1, <1>3
  <2>3. MaxRuns \in Nat
    BY IssueAssumption
  <2>4. TypeIssues
    <3>1. conflicted \in BOOLEAN /\ credited \subseteq Issues
      BY <1>1
    <3>2. /\ run.at \in RunSteps /\ run.issue \in Issues \cup {None}
          /\ run.at \in {"off", "list"} <=> run.issue = None
          /\ run.attempted \subseteq Issues /\ run.n \in 0..MaxRuns
      BY <1>2, <2>3 DEF RunSteps
    <3> QED BY <2>1, <2>2, <3>1, <3>2 DEF TypeIssues
  <2>5. mailbox \in Seq(Letters) /\ delivered \in 0..Len(mailbox)
    BY <1>1
  <2> QED BY <1>1, <1>2, <2>4, <2>5 DEF Typed
<1>6. RepoSound /\ AgentsWork
  BY <1>3, <1>4 DEF RepoSound, AgentsWork, Active
<1>7. TriesCount
  BY <1>2, <1>3, <1>4 DEF TriesCount
<1>8. RunnerKnows /\ VerdictAwaits
  BY <1>2 DEF RunnerKnows, VerdictAwaits
<1>9. LettersTrue
  BY <1>1 DEF LettersTrue
<1> QED BY <1>5, <1>6, <1>7, <1>8, <1>9 DEF IInv

LEMMA NextKeeps == IInv /\ [Next]_vars => IInv'
<1> SUFFICES ASSUME IInv, [Next]_vars PROVE IInv'
  OBVIOUS
<1>1. CASE UNCHANGED vars
  <2>1. /\ UNCHANGED <<linear, repo, conflicted, agent, credited, run>>
        /\ UNCHANGED <<mailbox, delivered, script>>
    BY <1>1 DEF vars, issueVars, mailVars
  <2>2. Typed' /\ RepoSound' /\ AgentsWork'
    BY <2>1 DEF IInv, Typed, TypeIssues, RepoSound, AgentsWork, Pending
  <2>3. TriesCount' /\ RunnerKnows'
    BY <2>1 DEF IInv, TriesCount, RunnerKnows
  <2>4. LettersTrue' /\ VerdictAwaits'
    BY <2>1 DEF IInv, LettersTrue, VerdictAwaits, Awaited
  <2> QED BY <2>2, <2>3, <2>4 DEF IInv
<1>2. CASE Jobs(NextJobs)
  BY <1>2, JobsKeep DEF Jobs
<1>3. CASE Queue(NextIssues)
  <2>1. script = "run-queue" /\ UNCHANGED script /\ NextIssues
    BY <1>3 DEF Queue
  <2>2. CASE StartRun
    BY <2>1, <2>2, StartRunKeeps
  <2>3. CASE RunnerStep
    <3>1. CASE ListQueue \/ PickIssue
      BY <2>1, <3>1, ListQueueKeeps, PickIssueKeeps
    <3>2. CASE Skip \/ Preflight \/ SetInProgress \/ GiveUp \/ SeesMerge \/ SetReview \/ SetDone
      BY <2>1, <3>2, RunnerOnlyKeeps
    <3>3. CASE CreateWorktree \/ OpenAgent \/ Dispatch \/ SendPrompt
      BY <2>1, <3>3, CreateWorktreeKeeps, OpenAgentKeeps, DispatchKeeps
    <3>4. CASE Poll
      BY <2>1, <3>4, PollKeeps
    <3>5. CASE CleanUp \/ DropBranch \/ ResetStatus \/ ResetTree
      BY <2>1, <3>5, CleanUpKeeps, DropBranchKeeps, ResetKeeps, ResetTreeKeeps
    <3> QED BY <2>3, <3>1, <3>2, <3>3, <3>4, <3>5 DEF RunnerStep
  <2>4. CASE StopsOnError \/ KillRun
    BY <2>1, <2>4, RunnerOnlyKeeps
  <2>5. CASE DeleteDone
    BY <2>1, <2>5, TrackerKeeps
  <2>6. ASSUME NEW i \in Issues, AgentActs(i)
        PROVE  IInv'
    <3>1. CASE Edit(i) \/ Escalate(i) \/ SendVerdict(i) \/ HookKilled(i)
      BY <2>1, <3>1, EditKeeps, EscalateKeeps, SendVerdictKeeps, HookKilledKeeps
    <3>2. CASE Report(i) \/ EndTurn(i) \/ ChecksFail(i) \/ HumanAnswers(i)
      BY <2>1, <3>2, TurnKeeps
    <3>3. CASE IntegrateUnreported(i) \/ IntegrateReported(i)
      BY <2>1, <3>3, IntegrateKeeps
    <3> QED BY <2>6, <3>1, <3>2, <3>3 DEF AgentActs
  <2>7. ASSUME NEW i \in Issues, FileIssue(i)
        PROVE  IInv'
    BY <2>1, <2>7, TrackerKeeps
  <2> QED BY <2>1, <2>2, <2>3, <2>4, <2>5, <2>6, <2>7 DEF NextIssues
<1> QED BY <1>1, <1>2, <1>3 DEF Next

LEMMA AlwaysIInv == Spec => []IInv
  BY InitHolds, NextKeeps, PTL DEF Spec

-----------------------------------------------------------------------------
(* The theorems.                                                           *)

\* Types of process_issue.py's view of the tracker, the worktrees, the agents and
\* the run; an issue is at hand exactly between its picking and its recording.
THEOREM IssueTypes == Spec => []TypeIssues
<1>1. IInv => TypeIssues
  BY DEF IInv, Typed
<1> QED BY <1>1, AlwaysIInv, PTL

\* While the run waits for an agent that has sent its verdict, the verdict is in
\* the mailbox: _poll_and_finish acknowledges whole deliveries, but none with it
\* in, and a later attempt's letters are told from an earlier one's.
THEOREM VerdictIsNotLost == Spec => []VerdictAwaits
<1>1. IInv => VerdictAwaits
  BY DEF IInv
<1> QED BY <1>1, AlwaysIInv, PTL

LEMMA WorkStep ==
  ASSUME IInv, [Next]_vars, NEW i \in Issues, WorkIsLost(i)
  PROVE  agent[i].phase = "failed"
<1>1. repo[i] \in Repos /\ repo \in [Issues -> Repos] /\ (repo[i].ahead => repo[i].branch)
  BY IssueFields DEF IInv, Typed, TypeIssues
<1>2. repo'[i] # repo[i]
  BY <1>1 DEF WorkIsLost
<1>3. repo' # repo
  BY <1>2
<1>4. Queue(NextIssues)
  BY <1>3 DEF Next, vars, Jobs, issueVars
<1>5. NextIssues
  BY <1>4 DEF Queue
<1>6. CASE RunnerStep
  <2>1. CreateWorktree \/ CleanUp \/ DropBranch \/ ResetTree
    BY <1>3, <1>6 DEF RunnerStep, ListQueue, PickIssue, Skip, Preflight, SetInProgress,
       OpenAgent, Dispatch, SendPrompt, Poll, GiveUp, SeesMerge, SetReview, SetDone,
       ResetStatus
  <2>2. run.issue \in Issues
    BY <2>1, RunFields DEF IInv, CreateWorktree, CleanUp, DropBranch, ResetTree
  <2>3. i = run.issue
    <3>1. \E r \in Repos : repo' = [repo EXCEPT ![run.issue] = r]
      <4>1. CASE CreateWorktree
        BY <4>1 DEF CreateWorktree, Repos
      <4>2. CASE CleanUp \/ ResetTree
        BY <2>2, <4>2, Removed DEF CleanUp, ResetTree
      <4>3. CASE DropBranch
        BY <1>3, <4>3 DEF DropBranch, NoRepo, Repos
      <4> QED BY <2>1, <4>1, <4>2, <4>3
    <3> QED BY <1>1, <1>2, <3>1
  <2>4. CASE CreateWorktree
    <3>1. repo'[i].tree = "clean" /\ repo'[i].branch = TRUE
      BY <1>1, <2>2, <2>3, <2>4 DEF CreateWorktree
    <3> QED BY <3>1 DEF WorkIsLost
  <2>5. CASE CleanUp
    BY <2>2, <2>3, <2>5 DEF IInv, CleanUp, RunnerKnows, AgentsWork, Pending, WorkIsLost
  <2>6. CASE DropBranch
    BY <2>2, <2>3, <2>6 DEF IInv, DropBranch, RunnerKnows, AgentsWork, Pending, WorkIsLost
  <2>7. CASE ResetTree
    BY <2>3, <2>7 DEF IInv, ResetTree, RunnerKnows
  <2> QED BY <2>1, <2>4, <2>5, <2>6, <2>7
<1>7. CASE ~RunnerStep
  <2>1. PICK j \in Issues : AgentActs(j)
    BY <1>3, <1>5, <1>7 DEF NextIssues, StartRun, StopsOnError, KillRun, DeleteDone, FileIssue
  <2>2. Edit(j) \/ IntegrateUnreported(j) \/ IntegrateReported(j) \/ HookKilled(j)
    BY <1>3, <2>1 DEF AgentActs, Report, Escalate, EndTurn, ChecksFail, SendVerdict,
       HumanAnswers
  <2>3. agent[j].at \in Active \ {"idle"}
    BY <2>2 DEF Edit, IntegrateUnreported, IntegrateReported, HookKilled, Active
  <2>4. repo[j].tree # "none" /\ repo[j].branch /\ repo[j] \in Repos
    BY <2>3, AtWork
  <2>5. repo'[j].tree # "none" /\ repo'[j].branch /\ \A k \in Issues \ {j} : repo'[k] = repo[k]
    <3>1. CASE Edit(j)
      BY <1>1, <2>4, <3>1 DEF Edit, Repos
    <3>2. CASE ~Edit(j)
      <4>1. Finishes(j) \/ FinishFails(j) \/ (Committed(j) /\ UNCHANGED conflicted)
        BY <1>3, <2>2, <3>2 DEF IntegrateUnreported, IntegrateReported, HookKilled
      <4>2. PICK r \in Repos : /\ repo' = [repo EXCEPT ![j] = r]
                               /\ r.tree # "none" /\ r.branch
        BY <2>3, <4>1, Integrated
      <4> QED BY <1>1, <4>2
    <3> QED BY <3>1, <3>2
  <2> QED BY <1>2, <2>5 DEF WorkIsLost
<1> QED BY <1>6, <1>7

\* No step throws uncommitted or committed work away, whichever worktree or branch
\* cleanup_after_success and reset_to_todo remove, unless the hook of that issue
\* said that the attempt failed.
THEOREM WorkIsNotLost == Spec => WorkIsKept
<1>1. IInv /\ [Next]_vars =>
        [\A i \in Issues : WorkIsLost(i) => agent[i].phase = "failed"]_<<issueVars, mailVars, faults>>
  BY WorkStep
<1> QED BY <1>1, AlwaysIInv, PTL DEF Spec, WorkIsKept

LEMMA ClosingStep ==
  ASSUME IInv, [Next]_vars, NEW i \in Issues,
         run.at = "done", linear'[i] = "done", linear[i] # "done"
  PROVE  i \in credited /\ ~Pending(i)
<1>1. linear' # linear /\ linear \in [Issues -> States] /\ run.issue \in Issues
  BY RunFields DEF IInv, Typed, TypeIssues
<1>2. NextIssues
  BY <1>1 DEF Next, Queue, vars, Jobs, issueVars
<1>3. SetDone
  <2>1. ~DeleteDone
    BY DEF DeleteDone
  <2>2. ASSUME NEW j \in Issues, FileIssue(j)
        PROVE  FALSE
    <3>1. linear' = [linear EXCEPT ![j] = "todo"]
      BY <2>2 DEF FileIssue
    <3> QED BY <1>1, <3>1
  <2>3. ~\E j \in Issues : AgentActs(j)
    BY <1>1 DEF AgentActs, AgentStep, Edit, Report, Escalate, EndTurn, ChecksFail,
       IntegrateUnreported, IntegrateReported, SendVerdict, HookKilled, HumanAnswers
  <2>4. RunnerStep
    BY <1>1, <1>2, <2>1, <2>2, <2>3 DEF NextIssues, StartRun, StopsOnError, KillRun
  <2> QED BY <2>4 DEF RunnerStep, ListQueue, PickIssue, Skip, Preflight, CreateWorktree,
             SetInProgress, OpenAgent, Dispatch, SendPrompt, Poll, GiveUp, SeesMerge,
             SetReview, CleanUp, DropBranch, ResetStatus, ResetTree
<1>4. linear' = [linear EXCEPT ![run.issue] = "done"]
  BY <1>1, <1>3 DEF SetDone, SetStatus, BestEffort
<1>5. i = run.issue
  BY <1>1, <1>4
<1> QED BY <1>5 DEF IInv, RunnerKnows, AgentsWork

\* _finish_success sets Done only for an issue whose hook reported success after it
\* merged the branch, and nothing was committed or left uncommitted since.
THEOREM ClosedHasWork == Spec => ClosedIsMerged
<1>1. IInv /\ [Next]_vars =>
        [\A i \in Issues :
           run.at = "done" /\ linear'[i] = "done" /\ linear[i] # "done"
             => i \in credited /\ ~Pending(i)]_<<issueVars, mailVars, faults>>
  BY ClosingStep
<1> QED BY <1>1, AlwaysIInv, PTL DEF Spec, ClosedIsMerged

-----------------------------------------------------------------------------
(* The dispatcher of jobs, with the names of its list told apart.          *)

ListIsGood ==
  /\ Len(Listed) \in Nat
  /\ \A p \in JobsList : \A q \in JobsList : JobNames[p] = JobNames[q] => p = q

Names == {JobNames[p] : p \in JobsList}

JobRunTypes ==
  [at : {"off", "next", "create", "dispatch", "wait", "close", "record"}, pos : Nat,
   done : SUBSET Names, tries : Nat, n : Nat]

\* The jobs a worker was started for.
Worked == {w.job : w \in workers}

JobsTyped == jobRun \in JobRunTypes /\ IsFiniteSet(workers) /\ TypeJobs

\* What was passed, and what counts as done, has had a worker of its own.
JobsHadWorkers ==
  /\ jobRun.at \in {"create", "dispatch", "wait", "close", "record"} => Pos \in JobsList
  /\ jobRun.at \in {"dispatch", "wait", "close", "record"} => Pos \in Worked
  /\ jobRun.at \in {"close", "record"} => Pos \in heard
  /\ \A p \in JobsList : p < Pos => p \in Worked
  /\ \A p \in heard : p \in Worked
  /\ \A p \in JobsList : JobNames[p] \in jobRun.done \cup saved => p \in heard

JInv == ListIsGood /\ JobsTyped /\ JobsHadWorkers

LEMMA JobFields ==
  ASSUME JInv
  PROVE  /\ Len(Listed) \in Nat /\ JobsList = 1..Len(Listed)
         /\ jobRun \in JobRunTypes /\ Pos \in Nat /\ Pos <= Len(Listed) + 1
         /\ jobRun.at = "off" <=> Pos = 0
         /\ jobRun.n \in Nat /\ jobRun.n <= MaxJobRuns /\ MaxJobRuns \in Nat
         /\ jobRun.tries \in Nat /\ jobRun.done \subseteq Names /\ saved \subseteq Names
         /\ workers \subseteq WorkerSet /\ IsFiniteSet(workers) /\ heard \subseteq JobsList
         /\ questions \in 0..MaxQuestions
  BY JobAssumption DEF JInv, ListIsGood, JobsTyped, TypeJobs, JobRunTypes, JobsList, Pos, Names

LEMMA JobGoesIs ==
  ASSUME JInv, NEW step \in {"create", "dispatch", "wait", "close", "record"},
         JobGoes(step)
  PROVE  /\ jobRun' \in JobRunTypes /\ jobRun'.at = step /\ jobRun'.pos = jobRun.pos
         /\ jobRun'.done = jobRun.done /\ jobRun'.n = jobRun.n
  BY JobFields DEF JobGoes, JobRunTypes

LEMMA NextJobIs ==
  ASSUME JInv, NextJob, jobRun.at # "off"
  PROVE  /\ jobRun' \in JobRunTypes /\ jobRun'.at = "next" /\ jobRun'.pos = Pos + 1
         /\ jobRun'.done = jobRun.done /\ jobRun'.n = jobRun.n
<1>1. jobRun \in JobRunTypes /\ Pos + 1 \in Nat /\ Pos = jobRun.pos
  BY JobFields DEF Pos
<1>2. jobRun' = [[[jobRun EXCEPT !.at = "next"] EXCEPT !.pos = Pos + 1] EXCEPT !.tries = 0]
  BY <1>1 DEF NextJob, JobRunTypes
<1> QED BY <1>1, <1>2 DEF JobRunTypes

LEMMA JobsEndIs ==
  ASSUME JInv, JobsEnd
  PROVE  /\ jobRun' \in JobRunTypes /\ jobRun'.at = "off" /\ jobRun'.pos = 0
         /\ jobRun'.done = {} /\ jobRun'.n = jobRun.n
<1>1. jobRun \in JobRunTypes
  BY JobFields
<1>2. jobRun' = [[[[jobRun EXCEPT !.at = "off"] EXCEPT !.pos = 0] EXCEPT !.done = {}]
                  EXCEPT !.tries = 0]
  BY <1>1 DEF JobsEnd, JobRunTypes
<1> QED BY <1>1, <1>2 DEF JobRunTypes

\* A worker goes on: the same jobs have workers.
LEMMA MovesIs ==
  ASSUME JInv, NEW w \in workers, NEW state \in {"working", "reported", "closed"},
         Moves(w, state)
  PROVE  /\ workers' \subseteq WorkerSet /\ IsFiniteSet(workers')
         /\ Worked \subseteq Worked'
<1> DEFINE new == [w EXCEPT !.at = state]
<1>1. w \in WorkerSet /\ workers \subseteq WorkerSet /\ IsFiniteSet(workers)
  BY JobFields
<1>2. new \in WorkerSet /\ new.job = w.job
  BY <1>1 DEF WorkerSet
<1>3. workers' = (workers \ {w}) \cup {new}
  BY DEF Moves
<1> HIDE DEF new
<1>4. IsFiniteSet(workers')
  BY <1>1, <1>3, FS_RemoveElement, FS_AddElement
<1>5. ASSUME NEW p \in Worked
      PROVE  p \in Worked'
  <2>1. PICK v \in workers : v.job = p
    BY DEF Worked
  <2>2. CASE v = w
    BY <1>2, <1>3, <2>1, <2>2 DEF Worked
  <2>3. CASE v # w
    BY <1>3, <2>1, <2>3 DEF Worked
  <2> QED BY <2>2, <2>3
<1> QED BY <1>1, <1>2, <1>3, <1>4, <1>5

\* The part of a step that is the same for all: the workers of jobs stay.
LEMMA JobStepKeeps ==
  ASSUME JInv,
         jobRun' \in JobRunTypes, jobRun'.n <= MaxJobRuns,
         jobRun'.pos <= Len(Listed) + 1, jobRun'.at = "off" <=> jobRun'.pos = 0,
         workers' \subseteq WorkerSet, IsFiniteSet(workers'),
         Worked \subseteq Worked',
         heard \subseteq heard', heard' \subseteq JobsList, saved' \subseteq Names,
         questions' \in 0..MaxQuestions,
         jobRun'.at \in {"create", "dispatch", "wait", "close", "record"} =>
           jobRun'.pos \in JobsList,
         jobRun'.at \in {"dispatch", "wait", "close", "record"} => jobRun'.pos \in Worked',
         jobRun'.at \in {"close", "record"} => jobRun'.pos \in heard',
         \A p \in JobsList : p < jobRun'.pos => p \in Worked',
         \A p \in heard' : p \in Worked',
         \A p \in JobsList : JobNames[p] \in jobRun'.done \cup saved' => p \in heard'
  PROVE  JInv'
<1>1. ListIsGood'
  BY DEF JInv, ListIsGood, JobsList, JobNames, Listed
<1>2. JobsTyped'
  <2>1. jobRun'.pos \in 0..(Len(Listed) + 1) /\ jobRun'.tries \in Nat
        /\ jobRun'.done \subseteq Names /\ jobRun'.n \in 0..MaxJobRuns
        /\ jobRun'.at \in {"off", "next", "create", "dispatch", "wait", "close", "record"}
    BY JobFields DEF JobRunTypes
  <2>2. TypeJobs'
    BY <2>1 DEF TypeJobs, Names
  <2> QED BY <2>2 DEF JobsTyped
<1>3. JobsHadWorkers'
  BY DEF JobsHadWorkers, Pos
<1> QED BY <1>1, <1>2, <1>3 DEF JInv

\* A step that starts no job: only the dispatcher, and what it has heard, change.
LEMMA JobAloneKeeps ==
  ASSUME JInv, workers' \subseteq WorkerSet, IsFiniteSet(workers'), Worked \subseteq Worked',
         questions' \in 0..MaxQuestions, UNCHANGED saved,
         jobRun.at \notin {"off"},
         \/ UNCHANGED <<jobRun, heard>>
         \/ /\ UNCHANGED heard
            /\ \/ JobsEnd
               \/ NextJob /\ Pos \in JobsList /\ Pos \in Worked'
               \/ JobGoes("wait") /\ jobRun.at = "dispatch"
               \/ JobGoes("record") /\ jobRun.at = "close"
               \/ JobGoes("create") /\ Pos \in JobsList
               \/ JobGoes("dispatch") /\ jobRun.at = "create" /\ Pos \in Worked'
         \/ JobGoes("close") /\ jobRun.at = "wait" /\ heard' = heard \cup {Pos}
  PROVE  JInv'
<1>1. /\ Len(Listed) \in Nat /\ JobsList = 1..Len(Listed) /\ Pos \in Nat /\ jobRun.pos = Pos
      /\ Pos <= Len(Listed) + 1 /\ jobRun.n <= MaxJobRuns /\ jobRun \in JobRunTypes
      /\ heard \subseteq JobsList /\ saved \subseteq Names
      /\ jobRun.at = "off" <=> Pos = 0
  BY JobFields DEF Pos
<1>2. /\ \A p \in JobsList : p < Pos => p \in Worked
      /\ \A p \in heard : p \in Worked
      /\ \A p \in JobsList : JobNames[p] \in jobRun.done \cup saved => p \in heard
      /\ jobRun.at \in {"create", "dispatch", "wait", "close", "record"} => Pos \in JobsList
      /\ jobRun.at \in {"dispatch", "wait", "close", "record"} => Pos \in Worked
      /\ jobRun.at \in {"close", "record"} => Pos \in heard
  BY DEF JInv, JobsHadWorkers
<1>3. CASE UNCHANGED <<jobRun, heard>>
  BY <1>1, <1>2, <1>3, JobStepKeeps
<1>4. CASE UNCHANGED heard /\ JobsEnd
  <2>1. /\ jobRun' \in JobRunTypes /\ jobRun'.at = "off" /\ jobRun'.pos = 0
        /\ jobRun'.done = {} /\ jobRun'.n = jobRun.n
    BY <1>4, JobsEndIs
  <2>2. \A p \in JobsList : ~(p < 0)
    BY <1>1
  <2> QED BY <1>1, <1>2, <1>4, <2>1, <2>2, JobStepKeeps
<1>5. CASE UNCHANGED heard /\ NextJob /\ Pos \in JobsList /\ Pos \in Worked'
  <2>1. /\ jobRun' \in JobRunTypes /\ jobRun'.at = "next" /\ jobRun'.pos = Pos + 1
        /\ jobRun'.done = jobRun.done /\ jobRun'.n = jobRun.n
    BY <1>5, NextJobIs
  <2>2. \A p \in JobsList : p < Pos + 1 => p \in Worked'
    BY <1>1, <1>2, <1>5
  <2>3. jobRun'.pos <= Len(Listed) + 1 /\ jobRun'.pos # 0
    BY <1>1, <1>5, <2>1
  <2> QED BY <1>1, <1>2, <1>5, <2>1, <2>2, <2>3, JobStepKeeps
<1>6. ASSUME NEW step \in {"create", "dispatch", "wait", "close", "record"}, JobGoes(step),
             Pos \in JobsList,
             step # "create" => Pos \in Worked',
             \/ UNCHANGED heard /\ (step = "record" => Pos \in heard) /\ step # "close"
             \/ heard' = heard \cup {Pos} /\ Pos \in Worked
      PROVE  JInv'
  <2>1. /\ jobRun' \in JobRunTypes /\ jobRun'.at = step /\ jobRun'.pos = Pos
        /\ jobRun'.done = jobRun.done /\ jobRun'.n = jobRun.n
    BY <1>1, <1>6, JobGoesIs
  <2>2. /\ heard \subseteq heard' /\ heard' \subseteq JobsList
        /\ \A p \in heard' : p \in Worked'
        /\ step \in {"close", "record"} => Pos \in heard'
    BY <1>1, <1>2, <1>6
  <2>3. Pos # 0
    BY <1>1, <1>6
  <2> QED BY <1>1, <1>2, <1>6, <2>1, <2>2, <2>3, JobStepKeeps
<1>7. CASE JobGoes("close") /\ jobRun.at = "wait" /\ heard' = heard \cup {Pos}
  BY <1>2, <1>6, <1>7
<1>8. CASE UNCHANGED heard /\ JobGoes("wait") /\ jobRun.at = "dispatch"
  BY <1>2, <1>6, <1>8
<1>9. CASE UNCHANGED heard /\ JobGoes("record") /\ jobRun.at = "close"
  BY <1>2, <1>6, <1>9
<1>10. CASE UNCHANGED heard /\ JobGoes("create") /\ Pos \in JobsList
  BY <1>6, <1>10
<1>11. CASE UNCHANGED heard /\ JobGoes("dispatch") /\ jobRun.at = "create" /\ Pos \in Worked'
  BY <1>2, <1>6, <1>11
<1> QED BY <1>3, <1>4, <1>5, <1>7, <1>8, <1>9, <1>10, <1>11

LEMMA StartJobsKeeps ==
  ASSUME JInv, StartJobs
  PROVE  JInv'
<1>1. PICK resume \in BOOLEAN :
        jobRun' = [at |-> "next", pos |-> 1, done |-> LoadState(resume), tries |-> 0,
                   n |-> jobRun.n + 1]
  BY DEF StartJobs
<1>2. jobRun.n < MaxJobRuns /\ UNCHANGED <<saved, workers, heard, questions>>
  BY DEF StartJobs
<1>3. LoadState(resume) \subseteq saved /\ LoadState(resume) \subseteq Names
  BY JobFields DEF LoadState
<1>4. jobRun' \in JobRunTypes
  BY <1>1, <1>3, JobFields DEF JobRunTypes
<1>5. /\ jobRun'.at = "next" /\ jobRun'.pos = 1 /\ jobRun'.done \subseteq saved
      /\ jobRun'.n <= MaxJobRuns /\ jobRun'.pos <= Len(Listed) + 1
  BY <1>1, <1>2, <1>3, JobFields
<1>6. \A p \in JobsList : ~(p < 1)
  BY JobFields
<1>7. Worked' = Worked
  BY <1>2 DEF Worked
<1>8. /\ \A p \in heard : p \in Worked
      /\ \A p \in JobsList : JobNames[p] \in jobRun.done \cup saved => p \in heard
  BY DEF JInv, JobsHadWorkers
<1> QED BY <1>2, <1>4, <1>5, <1>6, <1>7, <1>8, JobFields, JobStepKeeps

LEMMA CreateWorkerKeeps ==
  ASSUME JInv, CreateWorker
  PROVE  JInv'
<1> DEFINE new == [job |-> Pos, try |-> Try + 1, at |-> "idle"]
<1>1. /\ jobRun.at = "create" /\ workers' = workers \cup {new} /\ JobGoes("dispatch")
      /\ UNCHANGED <<saved, heard, questions>>
  BY DEF CreateWorker
<1>2. Pos \in JobsList
  BY <1>1 DEF JInv, JobsHadWorkers
<1>3. workers \subseteq WorkerSet /\ IsFiniteSet(workers)
  BY JobFields
<1>4. Try \in Nat
  <2>1. IsFiniteSet({w \in workers : w.job = Pos})
    BY <1>3, FS_Subset
  <2> QED BY <2>1, FS_CardinalityType DEF Try
<1>5. new \in WorkerSet /\ new.job = Pos
  BY <1>2, <1>4 DEF WorkerSet
<1> HIDE DEF new
<1>6. workers' \subseteq WorkerSet /\ IsFiniteSet(workers')
  BY <1>1, <1>3, <1>5, FS_AddElement
<1>7. Worked \subseteq Worked' /\ Pos \in Worked'
  BY <1>1, <1>5 DEF Worked
<1> QED BY <1>1, <1>6, <1>7, JobFields, JobAloneKeeps

LEMMA RecordJobKeeps ==
  ASSUME JInv, RecordJob
  PROVE  JInv'
<1> DEFINE done == jobRun.done \cup {JobNames[Pos]}
<1>1. /\ jobRun.at = "record" /\ UNCHANGED <<workers, heard, questions>>
      /\ jobRun' = [jobRun EXCEPT !.at = "next", !.pos = @ + 1, !.tries = 0, !.done = done]
      /\ saved' \in {saved, done}
  BY DEF RecordJob, BestEffort
<1>2. /\ \A p \in JobsList : p < Pos => p \in Worked
      /\ \A p \in heard : p \in Worked
      /\ \A p \in JobsList : JobNames[p] \in jobRun.done \cup saved => p \in heard
      /\ Pos \in JobsList /\ Pos \in Worked /\ Pos \in heard
  BY <1>1 DEF JInv, JobsHadWorkers
<1>3. done \subseteq Names
  BY <1>2, JobFields DEF Names
<1>4. \A p \in JobsList : JobNames[p] \in done \cup saved => p \in heard
  BY <1>2 DEF JInv, ListIsGood
<1> HIDE DEF done
<1>5. /\ jobRun' \in JobRunTypes /\ jobRun'.at = "next" /\ jobRun'.pos = Pos + 1
      /\ jobRun'.done = done /\ jobRun'.n = jobRun.n
  <2>1. jobRun \in JobRunTypes /\ Pos + 1 \in Nat /\ Pos = jobRun.pos
    BY JobFields DEF Pos
  <2>2. jobRun' = [[[[jobRun EXCEPT !.at = "next"] EXCEPT !.pos = Pos + 1] EXCEPT !.tries = 0]
                    EXCEPT !.done = done]
    BY <1>1, <2>1 DEF JobRunTypes
  <2> QED BY <1>3, <2>1, <2>2 DEF JobRunTypes
<1>6. Worked' = Worked
  BY <1>1 DEF Worked
<1>7. /\ \A p \in JobsList : p < Pos + 1 => p \in Worked
      /\ Pos + 1 <= Len(Listed) + 1 /\ Pos + 1 # 0
  BY <1>2, JobFields
<1>8. saved' \subseteq Names
  BY <1>1, <1>3, JobFields
<1> QED BY <1>1, <1>2, <1>4, <1>5, <1>6, <1>7, <1>8, JobFields, JobStepKeeps

LEMMA JobsStepKeeps ==
  ASSUME JInv, NextJobs
  PROVE  JInv'
<1>1. workers' = workers => /\ workers' \subseteq WorkerSet /\ IsFiniteSet(workers')
                            /\ Worked \subseteq Worked'
  BY JobFields DEF Worked
<1>2. /\ jobRun.at \in {"create", "dispatch", "wait", "close", "record"} => Pos \in JobsList
      /\ jobRun.at \in {"dispatch", "wait", "close", "record"} => Pos \in Worked
      /\ \A p \in heard : p \in Worked
      /\ \A p \in JobsList : JobNames[p] \in jobRun.done \cup saved => p \in heard
  BY DEF JInv, JobsHadWorkers
<1>3. CASE StartJobs \/ CreateWorker \/ RecordJob
  BY <1>3, StartJobsKeeps, CreateWorkerKeeps, RecordJobKeeps
<1>4. CASE SkipJob
  <2>1. /\ NextJob /\ Pos \in JobsList /\ JobNames[Pos] \in jobRun.done /\ jobRun.at = "next"
        /\ UNCHANGED <<saved, workers, heard, questions>>
    BY <1>4 DEF SkipJob, AtJob
  <2>2. Pos \in Worked'
    BY <1>1, <1>2, <2>1
  <2> QED BY <1>1, <2>1, <2>2, JobFields, JobAloneKeeps
<1>5. CASE TakeJob
  <2>1. /\ JobGoes("create") /\ Pos \in JobsList /\ jobRun.at = "next"
        /\ UNCHANGED <<saved, workers, heard, questions>>
    BY <1>5 DEF TakeJob, AtJob
  <2> QED BY <1>1, <2>1, JobFields, JobAloneKeeps
<1>6. CASE EndJobs \/ KillJobs
  <2>1. JobsEnd /\ jobRun.at # "off" /\ UNCHANGED <<saved, workers, heard, questions>>
    BY <1>6 DEF EndJobs, KillJobs
  <2> QED BY <1>1, <2>1, JobFields, JobAloneKeeps
<1>7. CASE JobStuck
  <2>1. NextJob /\ jobRun.at = "wait" /\ UNCHANGED <<saved, workers, heard, questions>>
    BY <1>7 DEF JobStuck
  <2> QED BY <1>1, <1>2, <2>1, JobFields, JobAloneKeeps
<1>8. CASE DispatchJob
  <2>1. /\ JobGoes("wait") /\ jobRun.at = "dispatch" /\ UNCHANGED <<saved, heard, questions>>
        /\ \E w \in workers : Moves(w, "working")
    BY <1>8 DEF DispatchJob
  <2>2. workers' \subseteq WorkerSet /\ IsFiniteSet(workers') /\ Worked \subseteq Worked'
    BY <2>1, MovesIs
  <2> QED BY <2>1, <2>2, JobFields, JobAloneKeeps
<1>9. CASE AttemptFails
  <2>1. /\ jobRun.at \in {"create", "dispatch", "wait"}
        /\ UNCHANGED <<saved, workers, heard, questions>>
    BY <1>9 DEF AttemptFails
  <2>2. CASE JobsEnd
    BY <1>1, <2>1, <2>2, JobFields, JobAloneKeeps
  <2>3. CASE jobRun' = [jobRun EXCEPT !.at = "create", !.tries = @ + 1]
    <3>1. /\ jobRun' \in JobRunTypes /\ jobRun'.at = "create" /\ jobRun'.pos = jobRun.pos
          /\ jobRun'.done = jobRun.done /\ jobRun'.n = jobRun.n
      <4>1. jobRun \in JobRunTypes /\ jobRun.tries + 1 \in Nat
        BY JobFields
      <4>2. jobRun' = [[jobRun EXCEPT !.at = "create"] EXCEPT !.tries = jobRun.tries + 1]
        BY <2>3, <4>1 DEF JobRunTypes
      <4> QED BY <4>1, <4>2 DEF JobRunTypes
    <3>2. /\ Pos \in JobsList /\ Pos = jobRun.pos /\ jobRun.pos # 0
          /\ jobRun.pos <= Len(Listed) + 1 /\ jobRun'.n <= MaxJobRuns
          /\ \A p \in JobsList : p < jobRun.pos => p \in Worked
      BY <1>2, <2>1, <3>1, JobFields DEF JInv, JobsHadWorkers, Pos
    <3> QED BY <1>1, <1>2, <2>1, <3>1, <3>2, JobFields, JobStepKeeps
  <2> QED BY <1>9, <2>2, <2>3 DEF AttemptFails
<1>10. CASE PollJob
  <2>1. /\ jobRun.at = "wait" /\ UNCHANGED <<saved, workers, questions>>
        /\ \/ UNCHANGED <<jobRun, heard>>
           \/ JobGoes("close") /\ heard' = heard \cup {Pos}
           \/ NextJob /\ UNCHANGED heard
    BY <1>10 DEF PollJob, Decides
  <2> QED BY <1>1, <1>2, <2>1, JobFields, JobAloneKeeps
<1>11. CASE CloseWorker
  <2>1. /\ JobGoes("record") /\ jobRun.at = "close" /\ UNCHANGED <<saved, heard, questions>>
        /\ UNCHANGED workers \/ \E w \in workers : Moves(w, "closed")
    BY <1>11 DEF CloseWorker, BestEffort
  <2>2. workers' \subseteq WorkerSet /\ IsFiniteSet(workers') /\ Worked \subseteq Worked'
    BY <1>1, <2>1, MovesIs
  <2> QED BY <2>1, <2>2, JobFields, JobAloneKeeps
<1>12. CASE WorkerReports \/ WorkerAsks
  <2>1. /\ UNCHANGED <<saved, jobRun, heard>>
        /\ UNCHANGED workers \/ \E w \in workers : Moves(w, "reported")
    BY <1>12 DEF WorkerReports, WorkerAsks
  <2>2. workers' \subseteq WorkerSet /\ IsFiniteSet(workers') /\ Worked \subseteq Worked'
    BY <1>1, <2>1, MovesIs
  <2>3. questions' \in 0..MaxQuestions
    BY <1>12, JobFields, JobAssumption DEF WorkerReports, WorkerAsks
  <2>4. \A p \in JobsList : p < jobRun.pos => p \in Worked'
    BY <2>2 DEF JInv, JobsHadWorkers, Pos
  <2>5. /\ jobRun \in JobRunTypes /\ jobRun.n <= MaxJobRuns /\ jobRun.pos <= Len(Listed) + 1
        /\ jobRun.at = "off" <=> jobRun.pos = 0
        /\ heard \subseteq JobsList /\ saved \subseteq Names
    BY JobFields DEF Pos
  <2>6. /\ jobRun.at \in {"create", "dispatch", "wait", "close", "record"} =>
             jobRun.pos \in JobsList
        /\ jobRun.at \in {"dispatch", "wait", "close", "record"} => jobRun.pos \in Worked'
        /\ jobRun.at \in {"close", "record"} => jobRun.pos \in heard
        /\ \A p \in heard : p \in Worked'
    BY <2>2 DEF JInv, JobsHadWorkers, Pos
  <2> QED BY <1>2, <2>1, <2>2, <2>3, <2>4, <2>5, <2>6, JobStepKeeps
<1> QED BY <1>3, <1>4, <1>5, <1>6, <1>7, <1>8, <1>9, <1>10, <1>11, <1>12
        DEF NextJobs, DispatcherStep

LEMMA JobsInit == Init /\ ListIsGood => JInv
<1> SUFFICES ASSUME Init, ListIsGood PROVE JInv
  OBVIOUS
<1>1. /\ saved = {} /\ workers = {} /\ heard = {} /\ questions = 0
      /\ jobRun = [at |-> "off", pos |-> 0, done |-> {}, tries |-> 0, n |-> 0]
  BY DEF Init, InitJobs
<1>2. /\ jobRun \in JobRunTypes /\ jobRun.at = "off" /\ jobRun.pos = 0
      /\ jobRun.done = {} /\ jobRun.tries = 0 /\ jobRun.n = 0
  BY <1>1 DEF JobRunTypes
<1>3. IsFiniteSet(workers)
  BY <1>1, FS_EmptySet
<1>4. TypeJobs
  BY <1>1, <1>2, JobAssumption DEF TypeJobs, ListIsGood
<1>5. JobsHadWorkers
  <2>1. \A p \in JobsList : ~(p < 0)
    BY DEF JobsList, ListIsGood
  <2> QED BY <1>1, <1>2, <2>1 DEF JobsHadWorkers, Pos
<1> QED BY <1>2, <1>3, <1>4, <1>5 DEF JInv, JobsTyped

LEMMA JobsNext == JInv /\ [Next]_vars => JInv'
<1> SUFFICES ASSUME JInv, [Next]_vars PROVE JInv'
  OBVIOUS
<1>1. CASE Jobs(NextJobs)
  BY <1>1, JobsStepKeeps DEF Jobs
<1>2. CASE UNCHANGED jobVars
  BY <1>2 DEF jobVars, JInv, ListIsGood, JobsTyped, TypeJobs, JobsHadWorkers, Pos, Worked,
     JobsList, JobNames, Listed
<1> QED BY <1>1, <1>2 DEF Next, Queue, vars

LEMMA AlwaysJInv == ListIsGood /\ Spec => []JInv
  BY JobsInit, JobsNext, PTL DEF Spec

\* Types of run_jobs.py and of its workers, and of the terminal as a whole.
THEOREM AgentTypes == ListIsGood /\ Spec => []TypeOK
<1>1. IInv /\ JInv => TypeOK
  BY DEF IInv, Typed, JInv, JobsTyped, TypeOK
<1> QED BY <1>1, AlwaysIInv, AlwaysJInv, PTL

\* A list whose names differ is run whole: no job is passed over without a worker
\* of its own, and --resume takes for done only what was reported done.
THEOREM NoJobIsSkipped == ListIsGood /\ Spec => []EveryJobIsRun
<1>1. JInv => EveryJobIsRun
  BY DEF JInv, JobsHadWorkers, EveryJobIsRun, Worked
<1> QED BY <1>1, AlwaysJInv, PTL
=============================================================================
