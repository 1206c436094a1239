---------------------------- MODULE AttemptLedger ----------------------------
(***************************************************************************)
(* What the job queue promises about the work done for its jobs.  A job is *)
(* idle, held by one attempt, or settled; the attempts made for it form a  *)
(* ledger that only grows: attempts are numbered without gaps, only the    *)
(* last one may be running, only a held job has a running one, and the     *)
(* outcome of an attempt is written once.                                  *)
(*                                                                         *)
(* InstanceJobs implements this with two tables, leases that run out,      *)
(* fencing tokens and workers that may crash at any point.                 *)
(***************************************************************************)
EXTENDS Naturals, Sequences

CONSTANTS Jobs, AttemptLimit

VARIABLES
  phase,   \* "idle", "held" or "settled", by job
  ledger   \* sequence of the outcomes of its attempts, by job

ledgerVars == <<phase, ledger>>

Verdicts == {"succeeded", "retryable_error", "permanent_error", "cancelled", "lease_lost"}

Running(log) == log # <<>> /\ log[Len(log)] = "running"

\* The log with its running attempt, if there is one, given an outcome.
Judge(log, verdict) ==
  IF Running(log) THEN [log EXCEPT ![Len(log)] = verdict] ELSE log

LedgerInit ==
  /\ phase = [j \in Jobs |-> "idle"]
  /\ ledger = [j \in Jobs |-> <<>>]

Stay(j) == phase'[j] = phase[j] /\ ledger'[j] = ledger[j]

\* A new attempt; the one it replaces, if still running, has lost the job.
Grant(j) ==
  /\ phase[j] \in {"idle", "held"}
  /\ Len(ledger[j]) < AttemptLimit
  /\ phase'[j] = "held"
  /\ ledger'[j] = Append(Judge(ledger[j], "lease_lost"), "running")

\* The holder reports: its attempt must be the running one.
Report(j, verdict, next) ==
  /\ phase[j] = "held"
  /\ Running(ledger[j])
  /\ phase'[j] = next
  /\ ledger'[j] = Judge(ledger[j], verdict)

\* An attempt that ran out of time is written off; the job stays held until it
\* is granted again or given up.
WriteOff(j) ==
  /\ phase[j] = "held"
  /\ Running(ledger[j])
  /\ phase'[j] = "held"
  /\ ledger'[j] = Judge(ledger[j], "lease_lost")

\* The job is given up: replaced by a newer generation or out of attempts.
GiveUp(j, verdict) ==
  /\ phase[j] \in {"idle", "held"}
  /\ phase'[j] = "settled"
  /\ ledger'[j] = Judge(ledger[j], verdict)

\* An operator puts a settled job back.
Reopen(j) ==
  /\ phase[j] = "settled"
  /\ phase'[j] = "idle"
  /\ ledger'[j] = ledger[j]

JobStep(j) ==
  \/ Stay(j)
  \/ Grant(j)
  \/ \E verdict \in Verdicts, next \in {"idle", "settled"} : Report(j, verdict, next)
  \/ WriteOff(j)
  \/ \E verdict \in {"cancelled", "lease_lost"} : GiveUp(j, verdict)
  \/ Reopen(j)

\* A claim grants a batch and gives up others in one transaction.
LedgerNext ==
  /\ \A j \in Jobs : JobStep(j)
  /\ phase' = [j \in Jobs |-> phase'[j]]
  /\ ledger' = [j \in Jobs |-> ledger'[j]]

LedgerSpec == LedgerInit /\ [][LedgerNext]_ledgerVars

=============================================================================
