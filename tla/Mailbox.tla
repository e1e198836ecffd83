------------------------------- MODULE Mailbox -------------------------------
(***************************************************************************)
(* The mailbox of a coordinator terminal, as the scripts use it through    *)
(* "orca orchestration check --wait" and "--ack" (an external service).    *)
(* A delivery is handed out again, unchanged, until it is acknowledged.    *)
(* Any call to the service may fail.                                       *)
(***************************************************************************)
EXTENDS Naturals, Sequences

CONSTANT MaxFaults   \* bound: failed calls and kills

ASSUME FaultAssumption == MaxFaults \in Nat

VARIABLES
  mailbox,    \* messages not yet acknowledged, oldest first
  delivered,  \* length of the delivery that is out and not acknowledged
  faults      \* failures so far

mailVars == <<mailbox, delivered>>

InitMail == mailbox = <<>> /\ delivered = 0 /\ faults = 0

Fault == faults < MaxFaults /\ faults' = faults + 1
NoFault == UNCHANGED faults

\* A call that only warns when it fails.
BestEffort(done, kept) == \/ done /\ NoFault
                          \/ kept /\ Fault

\* task: the unit of work; try: which attempt at it.
Message(task, try, type, phase) ==
  [task |-> task, try |-> try, type |-> type, phase |-> phase]

\* An "escalation" has the id of the task but not of the dispatch, a
\* "named_escalation" has both.
HasDispatchId(m) == m.type # "escalation"

Batch == IF delivered > 0 THEN SubSeq(mailbox, 1, delivered) ELSE mailbox

Post(m) == mailbox' = Append(mailbox, m) /\ UNCHANGED delivered

Acknowledge ==
  /\ mailbox' = SubSeq(mailbox, Len(Batch) + 1, Len(mailbox))
  /\ delivered' = 0

LeaveOut == delivered' = Len(Batch) /\ UNCHANGED mailbox

\* The messages of a delivery that a test accepts; the first of them.
Has(seq, Accepts(_)) == \E n \in 1..Len(seq) : Accepts(seq[n])

FirstOf(seq, Accepts(_)) ==
  {seq[n] : n \in {k \in 1..Len(seq) :
                     Accepts(seq[k]) /\ \A j \in 1..(k - 1) : ~Accepts(seq[j])}}
=============================================================================
