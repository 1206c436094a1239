---------------------------- MODULE InstanceJobs ----------------------------
(***************************************************************************)
(* The persistent queue between the control plane and the instance         *)
(* workers: the rows of instances, instance_jobs and instance_job_attempts,*)
(* the control-plane commands that write intent, the leased job runner of  *)
(* apps/worker with its lease renewal, fencing and finalisation, and the   *)
(* two writers of observations (a job and the periodic reconciler).        *)
(*                                                                         *)
(* One action is one PostgreSQL transaction or one step of the runner      *)
(* between two of them.  Providers are external here: a provider call      *)
(* returns any observation its contract allows.  InstanceLifecycle adds    *)
(* the provider's inventory and the reconciler's cycle to this module.     *)
(***************************************************************************)
EXTENDS Naturals, FiniteSets

CONSTANTS
  Instances,        \* rows of instances: one per (participation, challenge)
  Workers,          \* WORKER_ID of every worker process
  NoWorker,         \* lease_owner IS NULL
  ResourceIds,      \* values of provider_resource_id
  NoResource,       \* provider_resource_id IS NULL
  TeamActiveLimit,  \* running, unexpired instances one team may have
  MaxAttempts,      \* default of instance_jobs.max_attempts
  Concurrency,      \* goroutines of one worker
  BatchSize,        \* rows one claim may take
  LeaseTicks,       \* lease duration, in ticks of the lease clock
  MaxGeneration,    \* bound: generations explored per instance
  OperatorGenerations, \* bound: generations an operator queues a reconcile for
  AttemptBound      \* bound: attempts explored per job, replays included

ASSUME ParameterAssumption ==
  /\ NoWorker \notin Workers
  /\ NoResource \notin ResourceIds
  /\ TeamActiveLimit \in Nat \ {0}
  /\ MaxAttempts \in Nat \ {0}
  /\ Concurrency \in Nat \ {0}
  /\ BatchSize \in Nat \ {0}
  /\ LeaseTicks \in Nat \ {0}
  /\ MaxGeneration \in Nat
  /\ OperatorGenerations \subseteq 1..MaxGeneration
  /\ AttemptBound \in Nat /\ MaxAttempts <= AttemptBound

VARIABLES
  instances,  \* the rows of instances; generation 0 stands for no row yet
  jobs,       \* the rows of instance_jobs, by (instance, generation, operation)
  attempts,   \* the rows of instance_job_attempts, by job and attempt number
  runs        \* the goroutines of Runner.process, in the workers' memory

vars == <<instances, jobs, attempts, runs>>

-----------------------------------------------------------------------------
(* Rows and in-memory records *)

Generations == 1..MaxGeneration
Operations == {"ensure", "destroy", "reconcile"}
JobKeys == [instance : Instances, generation : Generations, operation : Operations]

\* "unready" stands for starting, failed and unknown, which nothing tells apart.
ObservedStates == {"pending", "running", "stopping", "stopped", "unready"}
DesiredStates == {"running", "stopped"}
Lifetimes == {"none", "fresh", "renewable", "expired"}
Statuses == {"absent", "ready", "leased", "retry_wait",
             "succeeded", "dead", "cancelled", "superseded"}
Outcomes == {"none", "running", "succeeded", "retryable_error",
             "permanent_error", "cancelled", "lease_lost"}
Finalising == {"completing", "failing", "interrupting"}
Phases == {"operating", "recording"} \cup Finalising
FailureKinds == {"retryable", "permanent"}

InstanceRow ==
  [desired : DesiredStates, generation : 0..MaxGeneration,
   observed : ObservedStates, observedGeneration : 0..MaxGeneration,
   lifetime : Lifetimes,            \* expires_at, seen from the clock
   resource : ResourceIds \cup {NoResource},
   entrypoints : 0..MaxGeneration]  \* generation that published them, 0 for []

JobFields ==
  [status : Statuses, owner : Workers \cup {NoWorker},
   lease : 0..LeaseTicks,           \* ticks until lease_until
   token : 0..AttemptBound, attempts : 0..AttemptBound,
   maxAttempts : MaxAttempts..AttemptBound,
   desired : DesiredStates]         \* the intent its payload carries

\* No job is claimed more often than its own limit, which replays may raise.
JobRow == {row \in JobFields : row.attempts <= row.maxAttempts}

AttemptRow == [outcome : Outcomes, token : 0..AttemptBound]

Observations == [state : ObservedStates, resource : ResourceIds \cup {NoResource}]

Runs ==
  [job : JobKeys, worker : Workers, token : 1..AttemptBound,
   attempt : 1..AttemptBound, phase : Phases,
   observation : Observations, failure : FailureKinds]

NoRow == [desired |-> "stopped", generation |-> 0, observed |-> "pending",
          observedGeneration |-> 0, lifetime |-> "none",
          resource |-> NoResource, entrypoints |-> 0]

AbsentJob == [status |-> "absent", owner |-> NoWorker, lease |-> 0,
              token |-> 0, attempts |-> 0, maxAttempts |-> MaxAttempts,
              desired |-> "stopped"]

NoObservation == [state |-> "pending", resource |-> NoResource]

Init ==
  /\ instances = [i \in Instances |-> NoRow]
  /\ jobs = [k \in JobKeys |-> AbsentJob]
  /\ attempts = [k \in JobKeys |->
                   [n \in 1..AttemptBound |-> [outcome |-> "none", token |-> 0]]]
  /\ runs = {}

-----------------------------------------------------------------------------
(* Predicates of the queries *)

Exists(i) == instances[i].generation > 0
Unexpired(i) == instances[i].lifetime \in {"fresh", "renewable"}
Active == {i \in Instances : instances[i].desired = "running" /\ Unexpired(i)}

Current(k) == k.generation = instances[k.instance].generation
Waiting(k) == jobs[k].status \in {"ready", "retry_wait"}
LeaseExpired(k) == jobs[k].status = "leased" /\ jobs[k].lease = 0
\* Mutant of Reapable: an expired lease is not taken over.
ReapableWaiting(k) == Waiting(k)
Reapable(k) == Waiting(k) \/ LeaseExpired(k)
Terminal(k) == jobs[k].status \in {"succeeded", "dead", "cancelled", "superseded"}

Superseded == {k \in JobKeys : ~Current(k) /\ Reapable(k)}
Exhausted == {k \in JobKeys \ Superseded :
                jobs[k].attempts >= jobs[k].maxAttempts /\ Reapable(k)}
\* Mutant of Claimable: the attempt limit is not looked at.
ClaimableUnlimited == {k \in JobKeys : Current(k) /\ Reapable(k)}
Claimable == {k \in JobKeys :
                /\ jobs[k].attempts < jobs[k].maxAttempts
                /\ Current(k)
                /\ Reapable(k)}

\* The lease a run was given still is the row's lease; Complete, Fail and
\* Renew also require it unexpired, Interrupt does not.
Holds(r) ==
  /\ jobs[r.job].status = "leased"
  /\ jobs[r.job].owner = r.worker
  /\ jobs[r.job].token = r.token
HoldsUnexpired(r) == Holds(r) /\ jobs[r.job].lease > 0

AttemptOpen(r) ==
  /\ attempts[r.job][r.attempt].outcome = "running"
  /\ attempts[r.job][r.attempt].token = r.token

\* Mutant of CloseAttempt: AND outcome = 'running' is forgotten.
CloseAnyAttempt(k, n, outcome) ==
  [attempts[k] EXCEPT ![n].outcome = outcome]
\* UPDATE instance_job_attempts ... WHERE attempt_number = n AND outcome = 'running'
CloseAttempt(k, n, outcome) ==
  [m \in 1..AttemptBound |->
     IF m = n /\ attempts[k][m].outcome = "running"
     THEN [attempts[k][m] EXCEPT !.outcome = outcome]
     ELSE attempts[k][m]]

Closed(k, status) ==
  [jobs[k] EXCEPT !.status = status, !.owner = NoWorker, !.lease = 0]

-----------------------------------------------------------------------------
(* Control plane: each command is one transaction that locks the instance *)

Enqueue(i, generation, operation) ==
  jobs' = [jobs EXCEPT ![[instance |-> i, generation |-> generation,
                          operation |-> operation]] =
              [AbsentJob EXCEPT !.status = "ready",
                                !.desired = IF operation = "ensure" THEN "running"
                                            ELSE "stopped"]]

\* Observed state, addresses and resource of the previous generation are
\* forgotten with the generation they belong to.
EnsureGeneration(i) ==
  LET next == instances[i].generation + 1 IN
  /\ instances' = [instances EXCEPT ![i] =
       [@ EXCEPT !.desired = "running", !.generation = next,
                 !.observed = "pending", !.lifetime = "fresh",
                 !.resource = NoResource, !.entrypoints = 0]]
  /\ Enqueue(i, next, "ensure")

Start(i) ==
  /\ instances[i].generation < MaxGeneration
  /\ i \notin Active
  /\ Cardinality(Active) < TeamActiveLimit
  /\ EnsureGeneration(i)
  /\ UNCHANGED <<attempts, runs>>

Renew(i) ==
  /\ instances[i].generation < MaxGeneration
  /\ instances[i].desired = "running"
  /\ instances[i].lifetime = "renewable"
  /\ EnsureGeneration(i)
  /\ UNCHANGED <<attempts, runs>>

Destroy(i) ==
  /\ instances[i].generation < MaxGeneration
  /\ instances[i].desired = "running"
  /\ LET next == instances[i].generation + 1 IN
     /\ instances' = [instances EXCEPT ![i] =
          [@ EXCEPT !.desired = "stopped", !.generation = next,
                    !.observed = "stopping", !.lifetime = "none",
                    !.entrypoints = 0]]
     /\ Enqueue(i, next, "destroy")
  /\ UNCHANGED <<attempts, runs>>

\* instance_reconcile: an operator queues, or queues again, the reconcile job
\* of the current generation unless it is leased.
EnqueueReconcile(i) ==
  LET k == [instance |-> i, generation |-> instances[i].generation,
            operation |-> "reconcile"]
      raised == IF jobs[k].maxAttempts > jobs[k].attempts
                THEN jobs[k].maxAttempts ELSE jobs[k].attempts + 1
  IN /\ Exists(i)
     /\ k.generation \in OperatorGenerations
     /\ jobs[k].status # "leased"
     /\ raised <= AttemptBound
     /\ jobs' = [jobs EXCEPT ![k] =
          [@ EXCEPT !.status = "ready", !.owner = NoWorker, !.lease = 0,
                    !.maxAttempts = raised, !.desired = instances[i].desired]]
     /\ UNCHANGED <<instances, attempts, runs>>

\* Mutant of ReplayDeadLetter: the generation of the job is not compared.
ReplayAnyDeadLetter(k) ==
  /\ jobs[k].status = "dead"
  /\ jobs[k].attempts < AttemptBound
  /\ jobs' = [jobs EXCEPT ![k] =
       [@ EXCEPT !.status = "ready", !.maxAttempts = jobs[k].attempts + 1]]
  /\ UNCHANGED <<instances, attempts, runs>>

\* dead_letter_replay: an operator gives a dead job of the current generation
\* one more attempt.
ReplayDeadLetter(k) ==
  LET raised == IF jobs[k].maxAttempts > jobs[k].attempts
                THEN jobs[k].maxAttempts ELSE jobs[k].attempts + 1
  IN /\ jobs[k].status = "dead"
     /\ Current(k)
     /\ raised <= AttemptBound
     /\ jobs' = [jobs EXCEPT ![k] =
          [@ EXCEPT !.status = "ready", !.owner = NoWorker, !.lease = 0,
                    !.maxAttempts = raised]]
     /\ UNCHANGED <<instances, attempts, runs>>

-----------------------------------------------------------------------------
(* Claiming: housekeeping and the claim itself, one transaction *)

RunsOf(w) == {r \in runs : r.worker = w}

NewRun(k, w) ==
  [job |-> k, worker |-> w, token |-> jobs[k].token + 1,
   attempt |-> jobs[k].attempts + 1, phase |-> "operating",
   observation |-> NoObservation,
   failure |-> "retryable"]

ClaimedJob(k, w) ==
  [jobs[k] EXCEPT !.status = "leased", !.owner = w, !.lease = LeaseTicks,
                  !.token = @ + 1, !.attempts = @ + 1]

\* Mutant of ClaimedAttempts: the lost attempt is left open.
ClaimedAttemptsOnly(k) ==
  [attempts[k] EXCEPT ![jobs[k].attempts + 1] =
     [outcome |-> "running", token |-> jobs[k].token + 1]]
\* Every running attempt of a claimed job is closed, whatever its number, and
\* the new attempt is opened.
ClaimedAttempts(k) ==
  [n \in 1..AttemptBound |->
     IF n = jobs[k].attempts + 1
     THEN [outcome |-> "running", token |-> jobs[k].token + 1]
     ELSE IF attempts[k][n].outcome = "running"
          THEN [attempts[k][n] EXCEPT !.outcome = "lease_lost"]
          ELSE attempts[k][n]]

\* Jobs whose row a finalisation may be locking: FOR UPDATE SKIP LOCKED passes
\* over them.
Lockable == {r.job : r \in {q \in runs : q.phase \in Finalising}}

ClaimBatch(w, batch, locked) ==
  LET superseded == Superseded \ locked
      exhausted == Exhausted \ locked
  IN
  /\ Cardinality(RunsOf(w)) < Concurrency
  /\ batch \subseteq Claimable \ locked
  /\ Cardinality(batch) <= BatchSize
  /\ Cardinality(batch) <= Concurrency - Cardinality(RunsOf(w))
  /\ jobs' = [k \in JobKeys |->
       IF k \in superseded THEN Closed(k, "superseded")
       ELSE IF k \in exhausted THEN Closed(k, "dead")
       ELSE IF k \in batch THEN ClaimedJob(k, w)
       ELSE jobs[k]]
  /\ attempts' = [k \in JobKeys |->
       IF k \in superseded THEN CloseAttempt(k, jobs[k].attempts, "cancelled")
       ELSE IF k \in exhausted THEN CloseAttempt(k, jobs[k].attempts, "lease_lost")
       ELSE IF k \in batch THEN ClaimedAttempts(k)
       ELSE attempts[k]]
  /\ runs' = runs \cup {NewRun(k, w) : k \in batch}
  /\ UNCHANGED instances

-----------------------------------------------------------------------------
(* Runner.process: the provider call, the observation, the renewal loop *)

Advance(r, next) == runs' = (runs \ {r}) \cup {next}

\* The answers Observation.Validate accepts, by the state they report.
Answers(states) ==
  {o \in Observations :
     /\ o.state \in states
     /\ o.state = "running" => o.resource # NoResource
     /\ o.state = "stopped" => o.resource = NoResource}

\* Ensure reports a live resource, Destroy must report that it is gone; a
\* reconcile job is one or the other, by the intent in its payload.
ObservationsFor(k) ==
  Answers(IF jobs[k].desired = "running" THEN {"running", "unready"} ELSE {"stopped"})

ProviderAnswers(r, o) ==
  /\ r.phase = "operating"
  /\ Advance(r, [r EXCEPT !.phase = "recording", !.observation = o])
  /\ UNCHANGED <<instances, jobs, attempts>>

ProviderFails(r, kind) ==
  /\ r.phase = "operating"
  /\ Advance(r, [r EXCEPT !.phase = "failing", !.failure = kind])
  /\ UNCHANGED <<instances, jobs, attempts>>

Observed(row, o, generation) ==
  [row EXCEPT !.observed = o.state, !.observedGeneration = generation,
              !.resource = o.resource,
              !.entrypoints = IF o.state = "running" THEN generation ELSE 0]

\* Mutant of MayObserve: the lease is checked, the generation is not.
MayObserveLeased(r) ==
  HoldsUnexpired(r) /\ instances[r.job.instance].observedGeneration <= r.job.generation
MayObserve(r) ==
  /\ HoldsUnexpired(r)
  /\ Current(r.job)
  /\ instances[r.job.instance].observedGeneration <= r.job.generation

Recorded(r, next) ==
  Advance(r, [r EXCEPT !.phase = next, !.failure = "retryable",
                       !.observation = NoObservation])

\* An error fails the attempt: a write refused or never made, and also one that was
\* committed and whose answer was lost.
RecordObservation(r) ==
  /\ r.phase = "recording"
  /\ \/ /\ MayObserve(r)
        /\ instances' = [instances EXCEPT ![r.job.instance] =
                           Observed(@, r.observation, r.job.generation)]
        /\ \E next \in {"completing", "failing"} : Recorded(r, next)
     \/ /\ Recorded(r, "failing")
        /\ UNCHANGED instances
  /\ UNCHANGED <<jobs, attempts>>

RenewLease(r) ==
  /\ r.phase \notin Finalising
  /\ HoldsUnexpired(r)
  /\ Current(r.job)
  /\ jobs' = [jobs EXCEPT ![r.job].lease = LeaseTicks]
  /\ UNCHANGED <<instances, attempts, runs>>

\* The renewal loop got an error (the lease is lost, or the database did not
\* answer), or the worker is shutting down: the provider call is cancelled and
\* its result, if any, is ignored.
BeginInterrupt(r) ==
  /\ r.phase # "interrupting"
  /\ Advance(r, [r EXCEPT !.phase = "interrupting", !.observation = NoObservation])
  /\ UNCHANGED <<instances, jobs, attempts>>

-----------------------------------------------------------------------------
(* Finalisation: PostgresRepository.finish and recordLeaseLost *)

SettleAs(r, status, outcome) ==
  /\ jobs' = [jobs EXCEPT ![r.job] = Closed(r.job, status)]
  /\ attempts' = [attempts EXCEPT ![r.job] = CloseAttempt(r.job, r.attempt, outcome)]

\* Mutant of RecordLeaseLost: every running attempt of the job is closed.
RecordLeaseLostOfJob(r) ==
  /\ attempts' = [attempts EXCEPT ![r.job] =
       [n \in 1..AttemptBound |-> IF @[n].outcome = "running"
                                  THEN [@[n] EXCEPT !.outcome = "lease_lost"] ELSE @[n]]]
  /\ UNCHANGED jobs

RecordLeaseLost(r) ==
  /\ \/ /\ AttemptOpen(r)
        /\ attempts' = [attempts EXCEPT ![r.job] =
                          CloseAttempt(r.job, r.attempt, "lease_lost")]
     \/ ~AttemptOpen(r) /\ UNCHANGED attempts
  /\ UNCHANGED jobs

\* held is the condition of the row-locking SELECT; a generation that moved on
\* overrides the plan.
Finish(r, held, status, outcome) ==
  /\ runs' = runs \ {r}
  /\ \/ ~held /\ RecordLeaseLost(r)
     \/ /\ held
        /\ AttemptOpen(r)
        /\ jobs[r.job].attempts = r.attempt
        /\ IF Current(r.job) THEN SettleAs(r, status, outcome)
           ELSE SettleAs(r, "superseded", "cancelled")
  /\ UNCHANGED instances

Complete(r) ==
  /\ r.phase = "completing"
  /\ Finish(r, HoldsUnexpired(r), "succeeded", "succeeded")

LastAttempt(r) == jobs[r.job].attempts >= jobs[r.job].maxAttempts

Fail(r) ==
  /\ r.phase = "failing"
  /\ \/ /\ r.failure = "permanent"
        /\ Finish(r, HoldsUnexpired(r), "dead", "permanent_error")
     \/ /\ r.failure = "retryable"
        /\ Finish(r, HoldsUnexpired(r),
                  IF LastAttempt(r) THEN "dead" ELSE "retry_wait", "retryable_error")

Interrupt(r) ==
  /\ r.phase = "interrupting"
  /\ Finish(r, Holds(r), "ready", "cancelled")

\* The finalisation transaction fails: the error is logged, the row keeps its
\* lease until it expires.
FinalizationLost(r) ==
  /\ r.phase \in Finalising
  /\ runs' = runs \ {r}
  /\ UNCHANGED <<instances, jobs, attempts>>

\* The worker process dies with everything it was running.
Crash(w) ==
  /\ RunsOf(w) # {}
  /\ runs' = runs \ RunsOf(w)
  /\ UNCHANGED <<instances, jobs, attempts>>

-----------------------------------------------------------------------------
(* The reconciler's write and the clocks *)

\* Mutant of ReconcilerMayObserve: the generation of the snapshot is not compared.
ReconcilerObservesAny(i, generation, expected) ==
  Exists(i) /\ instances[i].resource \in {NoResource, expected}
\* Mutant of ReconcilerMayObserve: a row without a resource is not written.
ReconcilerObservesExpected(i, generation, expected) ==
  Exists(i) /\ instances[i].generation = generation /\ instances[i].resource = expected
\* PostgresStore.RecordObservation, with the generation and the resource id of
\* the snapshot: a row whose resource id is known must still carry it.
ReconcilerMayObserve(i, generation, expected) ==
  /\ Exists(i)
  /\ instances[i].generation = generation
  /\ instances[i].resource \in {NoResource, expected}

\* The answer was obtained for a snapshot, which may be of an earlier generation
\* or taken before the expiry.  A stopped observation of a running intent means
\* that the expiry had passed.
ReconcilerObservations(i, generation) ==
  Answers(IF generation # instances[i].generation
          THEN {"running", "unready", "stopped"}
          ELSE (IF instances[i].desired = "running" THEN {"running", "unready"} ELSE {})
               \cup (IF Unexpired(i) THEN {} ELSE {"stopped"}))

ReconcilerObserves(i, generation, expected, o) ==
  /\ ReconcilerMayObserve(i, generation, expected)
  /\ instances' = [instances EXCEPT ![i] = Observed(@, o, generation)]
  /\ UNCHANGED <<jobs, attempts, runs>>

LeaseClock(k) ==
  /\ jobs[k].status = "leased"
  /\ jobs[k].lease > 0
  /\ jobs' = [jobs EXCEPT ![k].lease = @ - 1]
  /\ UNCHANGED <<instances, attempts, runs>>

\* expires_at comes nearer: the renewal window opens, then the instance expires.
LifetimeClock(i) ==
  /\ Unexpired(i)
  /\ instances' = [instances EXCEPT ![i].lifetime =
                     IF @ = "fresh" THEN "renewable" ELSE "expired"]
  /\ UNCHANGED <<jobs, attempts, runs>>

-----------------------------------------------------------------------------

Command(i) == Start(i) \/ Renew(i) \/ Destroy(i) \/ EnqueueReconcile(i)

Process(r) ==
  \/ \E o \in ObservationsFor(r.job) : ProviderAnswers(r, o)
  \/ \E kind \in FailureKinds : ProviderFails(r, kind)
  \/ RecordObservation(r)
  \/ Complete(r)
  \/ Fail(r)
  \/ Interrupt(r)

Next ==
  \/ \E i \in Instances : Command(i) \/ LifetimeClock(i)
  \/ \E k \in JobKeys : ReplayDeadLetter(k) \/ LeaseClock(k)
  \/ \E w \in Workers : \/ Crash(w)
                       \/ \E batch \in SUBSET Claimable, locked \in SUBSET Lockable :
                            ClaimBatch(w, batch, locked)
  \/ \E r \in runs : Process(r) \/ RenewLease(r) \/ BeginInterrupt(r) \/ FinalizationLost(r)
  \/ \E i \in Instances : \E g \in 1..instances[i].generation :
       \E e \in ResourceIds \cup {NoResource}, o \in ReconcilerObservations(i, g) :
         ReconcilerObserves(i, g, e, o)

Spec == Init /\ [][Next]_vars

\* The claim of job k, or the housekeeping that closes it, by any worker.
ServeJob(k) ==
  \E w \in Workers, batch \in SUBSET Claimable, locked \in SUBSET Lockable :
    /\ k \in (batch \cup Superseded \cup Exhausted) \ locked
    /\ ClaimBatch(w, batch, locked)

\* Provider calls and finalisations have timeouts, leases run out, every worker
\* polls for ever and takes the jobs in the order of available_at: a job that
\* can be served again and again is served.
Fairness ==
  /\ \A w \in Workers, k \in JobKeys :
       WF_vars(\E r \in runs : r.worker = w /\ r.job = k /\ Process(r))
  /\ \A k \in JobKeys : WF_vars(LeaseClock(k)) /\ SF_vars(ServeJob(k))

FairSpec == Spec /\ Fairness

-----------------------------------------------------------------------------
(* Properties *)

\* Every row and every run is well formed; in particular (JobRow) no job was ever
\* claimed more often than its own limit allows.
TypeOK ==
  /\ instances \in [Instances -> InstanceRow]
  /\ jobs \in [JobKeys -> JobRow]
  /\ attempts \in [JobKeys -> [1..AttemptBound -> AttemptRow]]
  /\ runs \subseteq Runs

\* A running row of instance_job_attempts is the attempt of a job that is leased
\* now: it carries the job's last attempt number and its fencing token, so a job
\* has at most one open attempt and a settled job has none, whichever of claim,
\* housekeeping, finish and recordLeaseLost came in between.
OpenAttemptIsHeld ==
  \A k \in JobKeys, n \in 1..AttemptBound :
    attempts[k][n].outcome = "running" =>
      /\ jobs[k].status = "leased"
      /\ jobs[k].attempts = n
      /\ jobs[k].token = attempts[k][n].token

\* A run whose lease still is the row's finds its own attempt open: the error
\* exits of finish (attempt mismatch, no attempt row updated) are unreachable,
\* so no finalisation leaves a job leased by mistake.
HolderHasOpenAttempt ==
  \A r \in runs : Holds(r) => AttemptOpen(r) /\ jobs[r.job].attempts = r.attempt

\* Addresses are shown only for the generation they were observed for, while
\* that generation is wanted and is the last one observed running: no write of
\* an earlier generation, by a late worker or a stale reconciler snapshot,
\* brings back the addresses of a replaced or destroyed instance.
NoStaleEntrypoints ==
  \A i \in Instances :
    LET row == instances[i] IN
    row.entrypoints # 0 =>
      /\ row.desired = "running" /\ row.observed = "running"
      /\ row.entrypoints = row.generation
      /\ row.observedGeneration = row.generation

\* The current generation is observed stopped only when it was meant to stop: a
\* destroy of an earlier generation that answers late never marks the instance
\* that replaced it as stopped.
StoppedOnlyWhenIntended ==
  \A i \in Instances :
    LET row == instances[i] IN
    row.observed = "stopped" => row.desired = "stopped" \/ row.lifetime = "expired"

\* A job of the current generation that succeeded is still on record: the row was
\* observed at that generation, and after a job that was to remove the instance it
\* shows it stopped and without a resource.  Between the write back and the
\* completion the lease may pass to another worker, and afterwards late workers
\* and stale reconciler snapshots write to the same row.
SucceededMeansObserved ==
  \A k \in JobKeys :
    jobs[k].status = "succeeded" /\ Current(k) =>
      LET row == instances[k.instance] IN
      /\ row.observedGeneration = k.generation
      /\ jobs[k].desired = "stopped" =>
           row.observed = "stopped" /\ row.resource = NoResource

\* A settled job of a generation that was replaced is never touched again: no
\* replay, late finalisation or interrupted worker reopens it.
SettledStaysSettled ==
  [][\A k \in JobKeys : Terminal(k) /\ ~Current(k) => jobs'[k] = jobs[k]]_vars

\* The queue as its promise sees it: leases, tokens, runs and generations hidden.
Ledger == INSTANCE AttemptLedger WITH
  Jobs <- JobKeys,
  AttemptLimit <- AttemptBound,
  phase <- [k \in JobKeys |-> IF jobs[k].status = "leased" THEN "held"
                              ELSE IF Terminal(k) THEN "settled" ELSE "idle"],
  ledger <- [k \in JobKeys |-> [n \in 1..jobs[k].attempts |-> attempts[k][n].outcome]]

\* The two tables together are an append-only record of the work done for each
\* job: outcomes are written once, attempts are numbered without gaps, and only
\* the running attempt of a held job can settle it.
ImplementsLedger == Ledger!LedgerSpec

\* Every job that is queued is settled in the end, whatever workers crash,
\* renew, lose leases or fail to finalise.
JobsSettle ==
  \A k \in JobKeys : jobs[k].status # "absent" ~> Terminal(k)

=============================================================================
