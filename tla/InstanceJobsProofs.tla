------------------------- MODULE InstanceJobsProofs -------------------------
(***************************************************************************)
(* Theorems about InstanceJobs for every value of its constants.           *)
(***************************************************************************)
EXTENDS InstanceJobs, SequenceTheorems, TLAPS

-----------------------------------------------------------------------------
(* Rows: what an update of a well-formed row yields *)

LEMMA KeyMade ==
  ASSUME NEW i \in Instances, NEW g \in Generations, NEW op \in Operations
  PROVE  [instance |-> i, generation |-> g, operation |-> op] \in JobKeys
  BY DEF JobKeys

LEMMA JobRowClosed ==
  ASSUME NEW row \in JobRow, NEW status \in Statuses, NEW lease \in 0..LeaseTicks,
         NEW owner \in Workers \cup {NoWorker}
  PROVE  [row EXCEPT !.status = status, !.owner = owner, !.lease = lease] \in JobRow
  BY DEF JobRow, JobFields

LEMMA ReadyFields ==
  /\ "ready" \in Statuses
  /\ NoWorker \in Workers \cup {NoWorker}
  /\ 0 \in 0..LeaseTicks
  BY ParameterAssumption DEF Statuses

LEMMA JobRowRaised ==
  ASSUME NEW row \in JobRow, NEW max \in MaxAttempts..AttemptBound,
         NEW intent \in DesiredStates, row.attempts <= max
  PROVE  [row EXCEPT !.status = "ready", !.owner = NoWorker, !.lease = 0,
                     !.maxAttempts = max, !.desired = intent] \in JobRow
  BY ReadyFields DEF JobRow, JobFields

LEMMA JobRowReplayed ==
  ASSUME NEW row \in JobRow, NEW max \in MaxAttempts..AttemptBound, row.attempts <= max
  PROVE  [row EXCEPT !.status = "ready", !.owner = NoWorker, !.lease = 0,
                     !.maxAttempts = max] \in JobRow
  BY ReadyFields DEF JobRow, JobFields

LEMMA JobRowClaimed ==
  ASSUME NEW row \in JobRow, NEW w \in Workers, row.attempts < row.maxAttempts,
         row.token = row.attempts
  PROVE  /\ [row EXCEPT !.status = "leased", !.owner = w, !.lease = LeaseTicks,
                        !.token = @ + 1, !.attempts = @ + 1] \in JobRow
         /\ row.attempts + 1 \in 1..AttemptBound
         /\ row.token + 1 \in 1..AttemptBound
  <1>1. row.attempts + 1 \in 1..AttemptBound /\ row.token + 1 \in 1..AttemptBound
    BY ParameterAssumption DEF JobRow, JobFields
  <1>2. row.attempts + 1 \in 0..AttemptBound /\ row.token + 1 \in 0..AttemptBound
    BY <1>1, ParameterAssumption
  <1>3. LeaseTicks \in 0..LeaseTicks /\ "leased" \in Statuses
    BY ParameterAssumption DEF Statuses
  <1> DEFINE next == [row EXCEPT !.status = "leased", !.owner = w, !.lease = LeaseTicks,
                                 !.token = @ + 1, !.attempts = @ + 1]
  <1>4. next \in JobFields
    BY <1>2, <1>3 DEF JobRow, JobFields
  <1>5. next.attempts = row.attempts + 1 /\ next.maxAttempts = row.maxAttempts
    BY DEF JobRow, JobFields
  <1>6. next.attempts <= next.maxAttempts
    BY <1>5, ParameterAssumption DEF JobRow, JobFields
  <1> QED
    BY <1>1, <1>4, <1>6 DEF JobRow

LEMMA JobRowLeased ==
  ASSUME NEW row \in JobRow, NEW lease \in 0..LeaseTicks
  PROVE  [row EXCEPT !.lease = lease] \in JobRow
  BY DEF JobRow, JobFields

LEMMA ReadyRow ==
  ASSUME NEW intent \in DesiredStates
  PROVE  [AbsentJob EXCEPT !.status = "ready", !.desired = intent] \in JobRow
  <1>1. 0 \in 0..AttemptBound /\ MaxAttempts \in MaxAttempts..AttemptBound
    BY ParameterAssumption
  <1> DEFINE row == [AbsentJob EXCEPT !.status = "ready", !.desired = intent]
  <1>2. row \in JobFields
    BY <1>1, ReadyFields DEF AbsentJob, JobFields
  <1>3. row.attempts = 0 /\ row.maxAttempts = MaxAttempts
    BY DEF AbsentJob
  <1>4. row.attempts <= row.maxAttempts
    BY <1>3, ParameterAssumption
  <1> QED
    BY <1>2, <1>4 DEF JobRow

LEMMA InstanceFields ==
  /\ Generations \subseteq 0..MaxGeneration
  /\ 0 \in 0..MaxGeneration
  /\ {"running", "stopped"} \subseteq DesiredStates
  /\ {"pending", "stopping"} \subseteq ObservedStates
  /\ {"fresh", "none"} \subseteq Lifetimes
  /\ NoResource \in ResourceIds \cup {NoResource}
  BY ParameterAssumption DEF Generations, DesiredStates, ObservedStates, Lifetimes

LEMMA InstanceRowEnsured ==
  ASSUME NEW row \in InstanceRow, NEW g \in Generations
  PROVE  [row EXCEPT !.desired = "running", !.generation = g, !.observed = "pending",
                     !.lifetime = "fresh", !.resource = NoResource,
                     !.entrypoints = 0] \in InstanceRow
  BY InstanceFields DEF InstanceRow

LEMMA InstanceRowDestroyed ==
  ASSUME NEW row \in InstanceRow, NEW g \in Generations
  PROVE  [row EXCEPT !.desired = "stopped", !.generation = g, !.observed = "stopping",
                     !.lifetime = "none", !.entrypoints = 0] \in InstanceRow
  BY InstanceFields DEF InstanceRow

LEMMA InstanceRowObserved ==
  ASSUME NEW row \in InstanceRow, NEW g \in Generations, NEW o \in Observations
  PROVE  Observed(row, o, g) \in InstanceRow
  <1>1. (IF o.state = "running" THEN g ELSE 0) \in 0..MaxGeneration
    BY ParameterAssumption DEF Generations
  <1>2. g \in 0..MaxGeneration
    BY ParameterAssumption DEF Generations
  <1> QED
    BY <1>1, <1>2 DEF Observed, InstanceRow, Observations

LEMMA InstanceRowAged ==
  ASSUME NEW row \in InstanceRow, NEW lifetime \in Lifetimes
  PROVE  [row EXCEPT !.lifetime = lifetime] \in InstanceRow
  BY DEF InstanceRow

LEMMA RunAdvanced ==
  ASSUME NEW r \in Runs, NEW phase \in Phases, NEW o \in Observations, NEW kind \in FailureKinds
  PROVE  /\ [r EXCEPT !.phase = phase, !.observation = o] \in Runs
         /\ [r EXCEPT !.phase = phase, !.failure = kind] \in Runs
         /\ [r EXCEPT !.phase = phase, !.failure = kind, !.observation = o] \in Runs
  BY DEF Runs

LEMMA NoObservationTyped == NoObservation \in Observations
  BY DEF NoObservation, Observations, ObservedStates

-----------------------------------------------------------------------------
(* Type correctness *)

\* The fencing token of a job counts its claims, as attempt_count does.
TokenCountsAttempts == \A k \in JobKeys : jobs[k].token = jobs[k].attempts

TypeInv == TypeOK /\ TokenCountsAttempts

LEMMA TypedRows ==
  ASSUME TypeOK
  PROVE  /\ \A i \in Instances : instances[i] \in InstanceRow
         /\ \A k \in JobKeys : jobs[k] \in JobRow
         /\ \A k \in JobKeys : attempts[k] \in [1..AttemptBound -> AttemptRow]
         /\ \A r \in runs : r \in Runs /\ r.job \in JobKeys
  BY DEF TypeOK, Runs

LEMMA ClosedTyped ==
  ASSUME TypeOK, NEW k \in JobKeys, NEW status \in Statuses
  PROVE  /\ Closed(k, status) \in JobRow
         /\ Closed(k, status).token = jobs[k].token
         /\ Closed(k, status).attempts = jobs[k].attempts
  <1>1. jobs[k] \in JobRow
    BY DEF TypeOK
  <1>2. 0 \in 0..LeaseTicks
    BY ParameterAssumption
  <1>3. Closed(k, status) \in JobRow
    BY <1>1, <1>2, JobRowClosed DEF Closed
  <1> QED
    BY <1>1, <1>3 DEF Closed, JobRow, JobFields

LEMMA CloseAttemptTyped ==
  ASSUME TypeOK, NEW k \in JobKeys, NEW n, NEW outcome \in Outcomes
  PROVE  CloseAttempt(k, n, outcome) \in [1..AttemptBound -> AttemptRow]
  <1>1. attempts[k] \in [1..AttemptBound -> AttemptRow]
    BY DEF TypeOK
  <1>2. \A m \in 1..AttemptBound : [attempts[k][m] EXCEPT !.outcome = outcome] \in AttemptRow
    BY <1>1 DEF AttemptRow
  <1> QED
    BY <1>1, <1>2 DEF CloseAttempt

LEMMA InitTyped == Init => TypeInv
  <1> SUFFICES ASSUME Init PROVE TypeInv
    OBVIOUS
  <1>1. NoRow \in InstanceRow
    BY ParameterAssumption DEF NoRow, InstanceRow, DesiredStates, ObservedStates, Lifetimes
  <1>2. AbsentJob \in JobRow
    BY ParameterAssumption DEF AbsentJob, JobRow, JobFields, DesiredStates, Statuses
  <1>3. [outcome |-> "none", token |-> 0] \in AttemptRow
    BY ParameterAssumption DEF AttemptRow, Outcomes
  <1>4. TypeOK
    BY <1>1, <1>2, <1>3 DEF Init, TypeOK
  <1>5. TokenCountsAttempts
    BY DEF Init, TokenCountsAttempts, AbsentJob
  <1> QED
    BY <1>4, <1>5 DEF TypeInv

LEMMA EnqueueTyped ==
  ASSUME TypeInv, NEW i \in Instances, NEW g \in Generations, NEW op \in Operations,
         Enqueue(i, g, op)
  PROVE  jobs' \in [JobKeys -> JobRow] /\ TokenCountsAttempts'
  <1> DEFINE k == [instance |-> i, generation |-> g, operation |-> op]
             row == [AbsentJob EXCEPT !.status = "ready",
                       !.desired = IF op = "ensure" THEN "running" ELSE "stopped"]
  <1>1. k \in JobKeys
    BY KeyMade
  <1>2. row \in JobRow /\ row.token = row.attempts
    <2>1. (IF op = "ensure" THEN "running" ELSE "stopped") \in DesiredStates
      BY DEF DesiredStates
    <2>2. row \in JobRow
      BY <2>1, ReadyRow
    <2> QED
      BY <2>2 DEF AbsentJob
  <1>3. jobs' = [jobs EXCEPT ![k] = row]
    BY DEF Enqueue
  <1> HIDE DEF k, row
  <1> QED
    BY <1>1, <1>2, <1>3 DEF TypeInv, TypeOK, TokenCountsAttempts

LEMMA EnsureGenerationTyped ==
  ASSUME TypeInv, NEW i \in Instances, instances[i].generation < MaxGeneration,
         EnsureGeneration(i)
  PROVE  /\ instances' \in [Instances -> InstanceRow]
         /\ jobs' \in [JobKeys -> JobRow] /\ TokenCountsAttempts'
  <1> DEFINE next == instances[i].generation + 1
  <1>1. instances[i] \in InstanceRow
    BY DEF TypeInv, TypeOK
  <1>2. next \in Generations
    BY <1>1, ParameterAssumption DEF InstanceRow, Generations
  <1>3. instances' \in [Instances -> InstanceRow]
    BY <1>1, <1>2, InstanceRowEnsured DEF EnsureGeneration, TypeInv, TypeOK
  <1>4. jobs' \in [JobKeys -> JobRow] /\ TokenCountsAttempts'
    BY <1>2, EnqueueTyped DEF EnsureGeneration, Operations
  <1> QED
    BY <1>3, <1>4

LEMMA CommandTyped ==
  ASSUME TypeInv, NEW i \in Instances, Command(i)
  PROVE  TypeInv'
  <1>1. CASE Start(i)
    BY <1>1, EnsureGenerationTyped DEF Start, TypeInv, TypeOK
  <1>2. CASE Renew(i)
    BY <1>2, EnsureGenerationTyped DEF Renew, TypeInv, TypeOK
  <1>3. CASE Destroy(i)
    <2>1. instances[i] \in InstanceRow
      BY DEF TypeInv, TypeOK
    <2>2. instances[i].generation + 1 \in Generations
      BY <1>3, <2>1, ParameterAssumption DEF Destroy, InstanceRow, Generations
    <2>3. instances' \in [Instances -> InstanceRow]
      BY <1>3, <2>1, <2>2, InstanceRowDestroyed DEF Destroy, TypeInv, TypeOK
    <2>4. jobs' \in [JobKeys -> JobRow] /\ TokenCountsAttempts'
      BY <1>3, <2>2, EnqueueTyped DEF Destroy, Operations
    <2> QED
      BY <1>3, <2>3, <2>4 DEF Destroy, TypeInv, TypeOK
  <1>4. CASE EnqueueReconcile(i)
    <2> DEFINE k == [instance |-> i, generation |-> instances[i].generation,
                     operation |-> "reconcile"]
               raised == IF jobs[k].maxAttempts > jobs[k].attempts
                         THEN jobs[k].maxAttempts ELSE jobs[k].attempts + 1
    <2>1. instances[i] \in InstanceRow
      BY DEF TypeInv, TypeOK
    <2>2. k \in JobKeys
      BY <1>4, <2>1, KeyMade, ParameterAssumption
      DEF EnqueueReconcile, Exists, InstanceRow, Generations, Operations
    <2>3. jobs[k] \in JobRow /\ jobs[k].token = jobs[k].attempts
      BY <2>2 DEF TypeInv, TypeOK, TokenCountsAttempts
    <2>4. raised <= AttemptBound /\ UNCHANGED <<instances, attempts, runs>>
      BY <1>4 DEF EnqueueReconcile
    <2>5. raised \in MaxAttempts..AttemptBound /\ jobs[k].attempts <= raised
      BY <2>3, <2>4, ParameterAssumption DEF JobRow, JobFields
    <2>6. instances[i].desired \in DesiredStates
      BY <2>1 DEF InstanceRow
    <2> DEFINE row == [jobs[k] EXCEPT !.status = "ready", !.owner = NoWorker, !.lease = 0,
                         !.maxAttempts = raised, !.desired = instances[i].desired]
    <2>7. jobs' = [jobs EXCEPT ![k] = row]
      BY <1>4 DEF EnqueueReconcile
    <2> HIDE DEF raised, k
    <2>8. row \in JobRow
      BY <2>3, <2>5, <2>6, JobRowRaised
    <2>9. row.token = row.attempts
      BY <2>3 DEF JobRow, JobFields
    <2> HIDE DEF row
    <2> QED
      BY <2>2, <2>4, <2>7, <2>8, <2>9 DEF TypeInv, TypeOK, TokenCountsAttempts
  <1> QED
    BY <1>1, <1>2, <1>3, <1>4 DEF Command

LEMMA ReplayTyped ==
  ASSUME TypeInv, NEW k \in JobKeys, ReplayDeadLetter(k)
  PROVE  TypeInv'
  <1> DEFINE raised == IF jobs[k].maxAttempts > jobs[k].attempts
                       THEN jobs[k].maxAttempts ELSE jobs[k].attempts + 1
             row == [jobs[k] EXCEPT !.status = "ready", !.owner = NoWorker, !.lease = 0,
                       !.maxAttempts = raised]
  <1>1. jobs[k] \in JobRow /\ jobs[k].token = jobs[k].attempts
    BY DEF TypeInv, TypeOK, TokenCountsAttempts
  <1>2. raised <= AttemptBound /\ UNCHANGED <<instances, attempts, runs>>
    BY DEF ReplayDeadLetter
  <1>3. raised \in MaxAttempts..AttemptBound /\ jobs[k].attempts <= raised
    BY <1>1, <1>2, ParameterAssumption DEF JobRow, JobFields
  <1>4. jobs' = [jobs EXCEPT ![k] = row]
    BY DEF ReplayDeadLetter
  <1> HIDE DEF raised
  <1>5. row \in JobRow
    BY <1>1, <1>3, JobRowReplayed
  <1>6. row.token = row.attempts
    BY <1>1 DEF JobRow, JobFields
  <1> HIDE DEF row
  <1> QED
    BY <1>2, <1>4, <1>5, <1>6 DEF TypeInv, TypeOK, TokenCountsAttempts

LEMMA ClaimBatchTyped ==
  ASSUME TypeInv, NEW w \in Workers, NEW batch \in SUBSET Claimable, NEW locked,
         ClaimBatch(w, batch, locked)
  PROVE  TypeInv'
  <1>1. \A k \in JobKeys : jobs[k] \in JobRow /\ jobs[k].token = jobs[k].attempts
    BY DEF TypeInv, TypeOK, TokenCountsAttempts
  <1>2. \A k \in batch : k \in JobKeys /\ jobs[k].attempts < jobs[k].maxAttempts
    BY DEF Claimable
  <1>3. \A k \in batch : /\ ClaimedJob(k, w) \in JobRow
                         /\ ClaimedJob(k, w).token = ClaimedJob(k, w).attempts
                         /\ jobs[k].attempts + 1 \in 1..AttemptBound
                         /\ jobs[k].token + 1 \in 1..AttemptBound
    <2> SUFFICES ASSUME NEW k \in batch
                 PROVE  /\ ClaimedJob(k, w) \in JobRow
                        /\ ClaimedJob(k, w).token = ClaimedJob(k, w).attempts
                        /\ jobs[k].attempts + 1 \in 1..AttemptBound
                        /\ jobs[k].token + 1 \in 1..AttemptBound
      OBVIOUS
    <2>1. jobs[k] \in JobRow /\ jobs[k].token = jobs[k].attempts
      BY <1>1, <1>2
    <2>2. ClaimedJob(k, w) \in JobRow
      BY <2>1, <1>2, JobRowClaimed DEF ClaimedJob
    <2>3. ClaimedJob(k, w).token = ClaimedJob(k, w).attempts
      BY <2>1 DEF ClaimedJob, JobRow, JobFields
    <2> QED
      BY <2>1, <2>2, <2>3, <1>2, JobRowClaimed
  <1>4. \A k \in JobKeys : jobs'[k] \in JobRow /\ jobs'[k].token = jobs'[k].attempts
    <2> SUFFICES ASSUME NEW k \in JobKeys
                 PROVE  jobs'[k] \in JobRow /\ jobs'[k].token = jobs'[k].attempts
      OBVIOUS
    <2>1. "superseded" \in Statuses /\ "dead" \in Statuses
      BY DEF Statuses
    <2>2. jobs'[k] \in {Closed(k, "superseded"), Closed(k, "dead"), jobs[k]}
             \cup (IF k \in batch THEN {ClaimedJob(k, w)} ELSE {})
      BY DEF ClaimBatch
    <2> QED
      BY <2>1, <2>2, <1>1, <1>3, ClosedTyped DEF TypeInv
  <1>5. jobs' \in [JobKeys -> JobRow]
    BY <1>4 DEF ClaimBatch
  <1>6. \A k \in JobKeys : attempts'[k] \in [1..AttemptBound -> AttemptRow]
    <2> SUFFICES ASSUME NEW k \in JobKeys
                 PROVE  attempts'[k] \in [1..AttemptBound -> AttemptRow]
      OBVIOUS
    <2>1. "cancelled" \in Outcomes /\ "lease_lost" \in Outcomes /\ "running" \in Outcomes
      BY DEF Outcomes
    <2>2. k \in batch => ClaimedAttempts(k) \in [1..AttemptBound -> AttemptRow]
      <3> SUFFICES ASSUME k \in batch
                   PROVE  ClaimedAttempts(k) \in [1..AttemptBound -> AttemptRow]
        OBVIOUS
      <3>1. attempts[k] \in [1..AttemptBound -> AttemptRow]
        BY DEF TypeInv, TypeOK
      <3>2. \A n \in 1..AttemptBound :
              [attempts[k][n] EXCEPT !.outcome = "lease_lost"] \in AttemptRow
        BY <2>1, <3>1 DEF AttemptRow
      <3>3. [outcome |-> "running", token |-> jobs[k].token + 1] \in AttemptRow
        BY <2>1, <1>3 DEF AttemptRow
      <3> QED
        BY <3>1, <3>2, <3>3 DEF ClaimedAttempts
    <2>3. attempts[k] \in [1..AttemptBound -> AttemptRow]
      BY DEF TypeInv, TypeOK
    <2> QED
      BY <2>1, <2>2, <2>3, CloseAttemptTyped DEF ClaimBatch, TypeInv
  <1>7. attempts' \in [JobKeys -> [1..AttemptBound -> AttemptRow]]
    BY <1>6 DEF ClaimBatch
  <1>8. \A k \in batch : NewRun(k, w) \in Runs
    <2>1. "operating" \in Phases /\ "retryable" \in FailureKinds
      BY DEF Phases, FailureKinds
    <2> QED
      BY <1>2, <1>3, <2>1, NoObservationTyped DEF NewRun, Runs
  <1>9. runs' \subseteq Runs
    BY <1>8 DEF ClaimBatch, TypeInv, TypeOK
  <1> QED
    BY <1>4, <1>5, <1>7, <1>9 DEF ClaimBatch, TypeInv, TypeOK, TokenCountsAttempts

LEMMA SettleTyped ==
  ASSUME TypeInv, NEW r \in runs, NEW status \in Statuses, NEW outcome \in Outcomes,
         SettleAs(r, status, outcome)
  PROVE  /\ jobs' \in [JobKeys -> JobRow] /\ TokenCountsAttempts'
         /\ attempts' \in [JobKeys -> [1..AttemptBound -> AttemptRow]]
  <1>1. r.job \in JobKeys
    BY TypedRows DEF TypeInv
  <1>2. /\ Closed(r.job, status) \in JobRow
        /\ Closed(r.job, status).token = Closed(r.job, status).attempts
    BY <1>1, ClosedTyped DEF TypeInv, TokenCountsAttempts
  <1>3. CloseAttempt(r.job, r.attempt, outcome) \in [1..AttemptBound -> AttemptRow]
    BY <1>1, CloseAttemptTyped DEF TypeInv
  <1> QED
    BY <1>1, <1>2, <1>3 DEF SettleAs, TypeInv, TypeOK, TokenCountsAttempts

LEMMA FinishTyped ==
  ASSUME TypeInv, NEW r \in runs, NEW held \in BOOLEAN, NEW status \in Statuses,
         NEW outcome \in Outcomes, Finish(r, held, status, outcome)
  PROVE  TypeInv'
  <1>1. runs' \subseteq Runs /\ UNCHANGED instances
    BY DEF Finish, TypeInv, TypeOK
  <1>2. "superseded" \in Statuses /\ "cancelled" \in Outcomes /\ "lease_lost" \in Outcomes
    BY DEF Statuses, Outcomes
  <1>3. CASE RecordLeaseLost(r)
    <2>1. r.job \in JobKeys
      BY TypedRows DEF TypeInv
    <2>2. CloseAttempt(r.job, r.attempt, "lease_lost") \in [1..AttemptBound -> AttemptRow]
      BY <1>2, <2>1, CloseAttemptTyped DEF TypeInv
    <2> QED
      BY <1>1, <1>3, <2>1, <2>2 DEF RecordLeaseLost, TypeInv, TypeOK, TokenCountsAttempts
  <1>4. CASE SettleAs(r, status, outcome) \/ SettleAs(r, "superseded", "cancelled")
    BY <1>1, <1>2, <1>4, SettleTyped DEF TypeInv, TypeOK
  <1> QED
    BY <1>3, <1>4 DEF Finish

LEMMA ProcessTyped ==
  ASSUME TypeInv, NEW r \in runs, Process(r)
  PROVE  TypeInv'
  <1>1. r \in Runs /\ r.job \in JobKeys
    BY TypedRows DEF TypeInv
  <1>2. /\ {"recording", "failing", "completing", "interrupting"} \subseteq Phases
        /\ "retryable" \in FailureKinds
    BY DEF Phases, Finalising, FailureKinds
  <1>3. ASSUME NEW o \in ObservationsFor(r.job), ProviderAnswers(r, o)
        PROVE  TypeInv'
    <2>1. o \in Observations
      BY <1>3 DEF ObservationsFor, Answers
    <2>2. [r EXCEPT !.phase = "recording", !.observation = o] \in Runs
      BY <1>1, <1>2, <2>1, RunAdvanced
    <2> QED
      BY <1>3, <2>2 DEF ProviderAnswers, Advance, TypeInv, TypeOK, TokenCountsAttempts
  <1>4. ASSUME NEW kind \in FailureKinds, ProviderFails(r, kind)
        PROVE  TypeInv'
    <2>1. [r EXCEPT !.phase = "failing", !.failure = kind] \in Runs
      BY <1>1, <1>2, RunAdvanced, NoObservationTyped
    <2> QED
      BY <1>4, <2>1 DEF ProviderFails, Advance, TypeInv, TypeOK, TokenCountsAttempts
  <1>5. CASE RecordObservation(r)
    <2>1. \A next \in {"completing", "failing"} :
            [r EXCEPT !.phase = next, !.failure = "retryable",
                      !.observation = NoObservation] \in Runs
      BY <1>1, <1>2, RunAdvanced, NoObservationTyped
    <2>2. runs' \subseteq Runs
      BY <1>5, <2>1 DEF RecordObservation, Recorded, Advance, TypeInv, TypeOK
    <2>3. r.job.instance \in Instances /\ r.job.generation \in Generations
      BY <1>1 DEF JobKeys
    <2>4. Observed(instances[r.job.instance], r.observation, r.job.generation) \in InstanceRow
      BY <1>1, <2>3, InstanceRowObserved DEF TypeInv, TypeOK, Runs
    <2>5. instances' \in [Instances -> InstanceRow]
      BY <1>5, <2>3, <2>4 DEF RecordObservation, TypeInv, TypeOK
    <2> QED
      BY <1>5, <2>2, <2>5 DEF RecordObservation, TypeInv, TypeOK, TokenCountsAttempts
  <1>6. /\ {"succeeded", "dead", "retry_wait", "ready"} \subseteq Statuses
        /\ {"succeeded", "permanent_error", "retryable_error", "cancelled"} \subseteq Outcomes
    BY DEF Statuses, Outcomes
  <1>7. HoldsUnexpired(r) \in BOOLEAN /\ Holds(r) \in BOOLEAN
    BY DEF HoldsUnexpired, Holds
  <1>8. CASE Complete(r)
    BY <1>6, <1>7, <1>8, FinishTyped DEF Complete
  <1>9. CASE Fail(r)
    <2>1. (IF LastAttempt(r) THEN "dead" ELSE "retry_wait") \in Statuses
      BY <1>6
    <2> QED
      BY <1>6, <1>7, <1>9, <2>1, FinishTyped DEF Fail
  <1>10. CASE Interrupt(r)
    BY <1>6, <1>7, <1>10, FinishTyped DEF Interrupt
  <1> QED
    BY <1>3, <1>4, <1>5, <1>8, <1>9, <1>10 DEF Process

LEMMA StepTyped == TypeInv /\ [Next]_vars => TypeInv'
  <1> SUFFICES ASSUME TypeInv, [Next]_vars
               PROVE  TypeInv'
    OBVIOUS
  <1>1. ASSUME NEW i \in Instances, LifetimeClock(i)
        PROVE  TypeInv'
    <2>1. instances[i] \in InstanceRow
      BY DEF TypeInv, TypeOK
    <2>2. (IF instances[i].lifetime = "fresh" THEN "renewable" ELSE "expired") \in Lifetimes
      BY DEF Lifetimes
    <2>3. instances' = [instances EXCEPT ![i] = [instances[i] EXCEPT !.lifetime =
                          IF instances[i].lifetime = "fresh" THEN "renewable" ELSE "expired"]]
      BY <1>1 DEF LifetimeClock
    <2>4. instances' \in [Instances -> InstanceRow]
      BY <2>1, <2>2, <2>3, InstanceRowAged DEF TypeInv, TypeOK
    <2> QED
      BY <1>1, <2>4 DEF LifetimeClock, TypeInv, TypeOK, TokenCountsAttempts
  <1>2. ASSUME NEW k \in JobKeys, LeaseClock(k)
        PROVE  TypeInv'
    <2>1. jobs[k] \in JobRow
      BY DEF TypeInv, TypeOK
    <2>2. jobs[k].lease - 1 \in 0..LeaseTicks
      BY <1>2, <2>1, ParameterAssumption DEF LeaseClock, JobRow, JobFields
    <2> DEFINE row == [jobs[k] EXCEPT !.lease = jobs[k].lease - 1]
    <2>3. row \in JobRow
      BY <2>1, <2>2, JobRowLeased
    <2>4. row.token = row.attempts
      BY <2>1 DEF TypeInv, TokenCountsAttempts, JobRow, JobFields
    <2>5. jobs' = [jobs EXCEPT ![k] = row]
      BY <1>2 DEF LeaseClock
    <2> HIDE DEF row
    <2> QED
      BY <1>2, <2>3, <2>4, <2>5 DEF LeaseClock, TypeInv, TypeOK, TokenCountsAttempts
  <1>3. ASSUME NEW r \in runs, RenewLease(r)
        PROVE  TypeInv'
    <2>1. r.job \in JobKeys /\ jobs[r.job] \in JobRow
      BY TypedRows DEF TypeInv
    <2> DEFINE row == [jobs[r.job] EXCEPT !.lease = LeaseTicks]
    <2>2. row \in JobRow
      BY <2>1, JobRowLeased, ParameterAssumption
    <2>3. row.token = row.attempts
      BY <2>1 DEF TypeInv, TokenCountsAttempts, JobRow, JobFields
    <2>4. jobs' = [jobs EXCEPT ![r.job] = row]
      BY <1>3 DEF RenewLease
    <2> HIDE DEF row
    <2> QED
      BY <1>3, <2>1, <2>2, <2>3, <2>4 DEF RenewLease, TypeInv, TypeOK, TokenCountsAttempts
  <1>4. ASSUME NEW r \in runs, BeginInterrupt(r)
        PROVE  TypeInv'
    <2>1. [r EXCEPT !.phase = "interrupting", !.observation = NoObservation] \in Runs
      BY TypedRows, RunAdvanced, NoObservationTyped DEF TypeInv, Phases, Finalising, FailureKinds
    <2> QED
      BY <1>4, <2>1 DEF BeginInterrupt, Advance, TypeInv, TypeOK, TokenCountsAttempts
  <1>5. ASSUME NEW i \in Instances, NEW g \in 1..instances[i].generation,
               NEW e \in ResourceIds \cup {NoResource}, NEW o \in ReconcilerObservations(i, g),
               ReconcilerObserves(i, g, e, o)
        PROVE  TypeInv'
    <2>1. instances[i] \in InstanceRow
      BY DEF TypeInv, TypeOK
    <2>2. g \in Generations /\ o \in Observations
      BY <2>1, ParameterAssumption DEF InstanceRow, Generations, ReconcilerObservations, Answers
    <2>3. Observed(instances[i], o, g) \in InstanceRow
      BY <2>1, <2>2, InstanceRowObserved
    <2> QED
      BY <1>5, <2>3 DEF ReconcilerObserves, TypeInv, TypeOK, TokenCountsAttempts
  <1>6. ASSUME NEW w \in Workers, Crash(w)
        PROVE  TypeInv'
    BY <1>6 DEF Crash, TypeInv, TypeOK, TokenCountsAttempts
  <1>7. ASSUME NEW r \in runs, FinalizationLost(r)
        PROVE  TypeInv'
    BY <1>7 DEF FinalizationLost, TypeInv, TypeOK, TokenCountsAttempts
  <1>8. CASE UNCHANGED vars
    BY <1>8 DEF vars, TypeInv, TypeOK, TokenCountsAttempts
  <1> QED
    BY <1>1, <1>2, <1>3, <1>4, <1>5, <1>6, <1>7, <1>8, CommandTyped, ReplayTyped,
       ClaimBatchTyped, ProcessTyped DEF Next

\* Every row of the three tables and every run of a worker stays well formed: in
\* particular no job is ever claimed more often than its own max_attempts, however
\* often it is lost, interrupted, replayed or queued again.
THEOREM TypeCorrect == Spec => []TypeOK
  <1>1. Spec => []TypeInv
    BY InitTyped, StepTyped, PTL DEF Spec
  <1>2. TypeInv => TypeOK
    BY DEF TypeInv
  <1> QED
    BY <1>1, <1>2, PTL

-----------------------------------------------------------------------------
(* Generations: jobs are born with their generation and carry its intent *)

AbsentUntouched == \A k \in JobKeys : jobs[k].status = "absent" => jobs[k].token = 0

FutureAbsent ==
  \A k \in JobKeys :
    k.generation > instances[k.instance].generation => jobs[k].status = "absent"

JobCarriesIntent ==
  \A k \in JobKeys :
    Current(k) /\ jobs[k].status # "absent" => jobs[k].desired = instances[k.instance].desired

IntentInv == TypeInv /\ AbsentUntouched /\ FutureAbsent /\ JobCarriesIntent

\* No step but a command changes a generation or its intent, or queues a job.
IntentKept ==
  /\ \A i \in Instances : /\ instances'[i].generation = instances[i].generation
                          /\ instances'[i].desired = instances[i].desired
  /\ \A k \in JobKeys : /\ jobs'[k].desired = jobs[k].desired
                        /\ \/ /\ jobs'[k].status = jobs[k].status
                              /\ jobs'[k].token = jobs[k].token
                           \/ jobs[k].status # "absent" /\ jobs'[k].status # "absent"

LEMMA KeptIntent ==
  ASSUME IntentInv, IntentKept
  PROVE  AbsentUntouched' /\ FutureAbsent' /\ JobCarriesIntent'
  <1>1. \A k \in JobKeys : k.instance \in Instances
    BY DEF JobKeys
  <1> QED
    BY <1>1 DEF IntentInv, IntentKept, AbsentUntouched, FutureAbsent, JobCarriesIntent, Current

LEMMA InitIntent == Init => IntentInv
  <1> SUFFICES ASSUME Init PROVE IntentInv
    OBVIOUS
  <1>1. \A k \in JobKeys : jobs[k].status = "absent" /\ jobs[k].token = 0
    BY DEF Init, AbsentJob
  <1> QED
    BY <1>1, InitTyped DEF IntentInv, AbsentUntouched, FutureAbsent, JobCarriesIntent

\* A command that moves an instance to its next generation queues the one job of
\* that generation.
LEMMA NextGenerationIntent ==
  ASSUME IntentInv, NEW i \in Instances, NEW op \in Operations,
         instances[i].generation + 1 \in Generations,
         NEW row \in InstanceRow, instances' = [instances EXCEPT ![i] = row],
         row.generation = instances[i].generation + 1,
         row.desired = (IF op = "ensure" THEN "running" ELSE "stopped"),
         Enqueue(i, instances[i].generation + 1, op)
  PROVE  AbsentUntouched' /\ FutureAbsent' /\ JobCarriesIntent'
  <1> DEFINE g == instances[i].generation + 1
             new == [instance |-> i, generation |-> g, operation |-> op]
             job == [AbsentJob EXCEPT !.status = "ready",
                       !.desired = IF op = "ensure" THEN "running" ELSE "stopped"]
  <1>1. new \in JobKeys /\ new.instance = i /\ new.generation = g
    BY KeyMade
  <1>2. /\ job.status = "ready" /\ job.token = 0
        /\ job.desired = (IF op = "ensure" THEN "running" ELSE "stopped")
    BY DEF AbsentJob
  <1>3. jobs' = [jobs EXCEPT ![new] = job]
    BY DEF Enqueue
  <1>4. \A k \in JobKeys : k.instance \in Instances /\ k.generation \in Nat
    BY ParameterAssumption DEF JobKeys, Generations
  <1>5. instances[i].generation \in Nat
    BY ParameterAssumption DEF IntentInv, TypeInv, TypeOK, InstanceRow
  <1>6. jobs \in [JobKeys -> JobRow] /\ instances \in [Instances -> InstanceRow]
    BY DEF IntentInv, TypeInv, TypeOK
  <1> HIDE DEF new, job
  <1>7. AbsentUntouched'
    BY <1>1, <1>2, <1>3, <1>6 DEF IntentInv, AbsentUntouched
  <1>8. FutureAbsent'
    BY <1>1, <1>2, <1>3, <1>4, <1>5, <1>6 DEF IntentInv, FutureAbsent
  <1>9. JobCarriesIntent'
    <2> SUFFICES ASSUME NEW k \in JobKeys, k.generation = instances'[k.instance].generation,
                        jobs'[k].status # "absent"
                 PROVE  jobs'[k].desired = instances'[k.instance].desired
      BY DEF JobCarriesIntent, Current
    <2>1. CASE k = new
      BY <2>1, <1>1, <1>2, <1>3, <1>6
    <2>2. CASE k # new
      <3>1. jobs'[k] = jobs[k]
        BY <2>2, <1>3, <1>6
      <3>2. k.instance # i
        <4> SUFFICES ASSUME k.instance = i PROVE FALSE
          OBVIOUS
        <4>1. k.generation > instances[k.instance].generation
          BY <1>5, <1>6
        <4> QED
          BY <3>1, <4>1 DEF IntentInv, FutureAbsent
      <3> QED
        BY <3>1, <3>2, <1>4, <1>6 DEF IntentInv, JobCarriesIntent, Current
    <2> QED
      BY <2>1, <2>2
  <1> QED
    BY <1>7, <1>8, <1>9

LEMMA CommandIntent ==
  ASSUME IntentInv, NEW i \in Instances, Command(i)
  PROVE  AbsentUntouched' /\ FutureAbsent' /\ JobCarriesIntent'
  <1>1. instances[i] \in InstanceRow
    BY DEF IntentInv, TypeInv, TypeOK
  <1>2. instances[i].generation < MaxGeneration => instances[i].generation + 1 \in Generations
    BY <1>1, ParameterAssumption DEF InstanceRow, Generations
  <1>3. CASE Start(i) \/ Renew(i)
    <2>1. instances[i].generation + 1 \in Generations /\ EnsureGeneration(i)
      BY <1>2, <1>3 DEF Start, Renew
    <2> DEFINE row == [instances[i] EXCEPT !.desired = "running",
                         !.generation = instances[i].generation + 1,
                         !.observed = "pending", !.lifetime = "fresh",
                         !.resource = NoResource, !.entrypoints = 0]
    <2>2. row \in InstanceRow
      BY <1>1, <2>1, InstanceRowEnsured
    <2>3. row.generation = instances[i].generation + 1 /\ row.desired = "running"
      BY <1>1 DEF InstanceRow
    <2>4. instances' = [instances EXCEPT ![i] = row]
      BY <2>1 DEF EnsureGeneration
    <2>5. Enqueue(i, instances[i].generation + 1, "ensure") /\ "ensure" \in Operations
      BY <2>1 DEF EnsureGeneration, Operations
    <2> HIDE DEF row
    <2> QED
      BY <2>1, <2>2, <2>3, <2>4, <2>5, NextGenerationIntent
  <1>4. CASE Destroy(i)
    <2>1. instances[i].generation + 1 \in Generations
      BY <1>2, <1>4 DEF Destroy
    <2> DEFINE row == [instances[i] EXCEPT !.desired = "stopped",
                         !.generation = instances[i].generation + 1,
                         !.observed = "stopping", !.lifetime = "none", !.entrypoints = 0]
    <2>2. row \in InstanceRow
      BY <1>1, <2>1, InstanceRowDestroyed
    <2>3. row.generation = instances[i].generation + 1 /\ row.desired = "stopped"
      BY <1>1 DEF InstanceRow
    <2>4. instances' = [instances EXCEPT ![i] = row]
      BY <1>4 DEF Destroy
    <2>5. Enqueue(i, instances[i].generation + 1, "destroy") /\ "destroy" \in Operations
      BY <1>4 DEF Destroy, Operations
    <2> HIDE DEF row
    <2> QED
      BY <2>1, <2>2, <2>3, <2>4, <2>5, NextGenerationIntent
  <1>5. CASE EnqueueReconcile(i)
    <2> DEFINE k == [instance |-> i, generation |-> instances[i].generation,
                     operation |-> "reconcile"]
               raised == IF jobs[k].maxAttempts > jobs[k].attempts
                         THEN jobs[k].maxAttempts ELSE jobs[k].attempts + 1
               row == [jobs[k] EXCEPT !.status = "ready", !.owner = NoWorker, !.lease = 0,
                         !.maxAttempts = raised, !.desired = instances[i].desired]
    <2>1. k \in JobKeys /\ k.instance = i /\ k.generation = instances[i].generation
      BY <1>1, <1>5, KeyMade, ParameterAssumption
      DEF EnqueueReconcile, Exists, InstanceRow, Generations, Operations
    <2>2. jobs[k] \in JobRow
      BY <2>1 DEF IntentInv, TypeInv, TypeOK
    <2>3. jobs' = [jobs EXCEPT ![k] = row] /\ UNCHANGED instances
      BY <1>5 DEF EnqueueReconcile
    <2> HIDE DEF k, raised
    <2>4. /\ row.status = "ready" /\ row.desired = instances[i].desired
          /\ row.token = jobs[k].token
      BY <2>2 DEF JobRow, JobFields
    <2>5. jobs \in [JobKeys -> JobRow]
      BY DEF IntentInv, TypeInv, TypeOK
    <2> HIDE DEF row
    <2>6. instances[i].generation \in Nat
      BY <1>1, ParameterAssumption DEF InstanceRow
    <2> QED
      BY <2>1, <2>3, <2>4, <2>5, <2>6
      DEF IntentInv, AbsentUntouched, FutureAbsent, JobCarriesIntent, Current
  <1> QED
    BY <1>3, <1>4, <1>5 DEF Command

LEMMA ClosedKeeps ==
  ASSUME TypeOK, NEW k \in JobKeys, NEW status \in Statuses \ {"absent"}
  PROVE  /\ Closed(k, status).status = status
         /\ Closed(k, status).desired = jobs[k].desired
         /\ Closed(k, status).token = jobs[k].token
         /\ Closed(k, status).attempts = jobs[k].attempts
  <1>1. jobs[k] \in JobRow
    BY DEF TypeOK
  <1> QED
    BY <1>1 DEF Closed, JobRow, JobFields

LEMMA ClaimBatchIntent ==
  ASSUME IntentInv, NEW w \in Workers, NEW batch \in SUBSET Claimable, NEW locked,
         ClaimBatch(w, batch, locked)
  PROVE  IntentKept
  <1>1. UNCHANGED instances
    BY DEF ClaimBatch
  <1>2. ASSUME NEW k \in JobKeys
        PROVE  /\ jobs'[k].desired = jobs[k].desired
               /\ \/ jobs'[k] = jobs[k]
                  \/ jobs[k].status # "absent" /\ jobs'[k].status # "absent"
    <2>1. jobs[k] \in JobRow
      BY DEF IntentInv, TypeInv, TypeOK
    <2>2. Reapable(k) => jobs[k].status # "absent"
      BY DEF Reapable, Waiting, LeaseExpired
    <2>3. {"superseded", "dead"} \subseteq Statuses \ {"absent"}
      BY DEF Statuses
    <2>4. CASE k \in (Superseded \cup Exhausted) \ locked
      <3>1. jobs'[k] = Closed(k, "superseded") \/ jobs'[k] = Closed(k, "dead")
        BY <2>4 DEF ClaimBatch
      <3>2. jobs[k].status # "absent"
        BY <2>2, <2>4 DEF Superseded, Exhausted
      <3> QED
        BY <2>3, <3>1, <3>2, ClosedKeeps DEF IntentInv, TypeInv
    <2>5. CASE k \notin (Superseded \cup Exhausted) \ locked /\ k \in batch
      <3>1. jobs'[k] = ClaimedJob(k, w)
        BY <2>5 DEF ClaimBatch
      <3>2. jobs[k].status # "absent"
        BY <2>2, <2>5 DEF Claimable
      <3>3. ClaimedJob(k, w).status = "leased" /\ ClaimedJob(k, w).desired = jobs[k].desired
        BY <2>1 DEF ClaimedJob, JobRow, JobFields
      <3> QED
        BY <3>1, <3>2, <3>3
    <2>6. CASE k \notin (Superseded \cup Exhausted) \ locked /\ k \notin batch
      BY <2>6 DEF ClaimBatch
    <2> QED
      BY <2>4, <2>5, <2>6
  <1> QED
    BY <1>1, <1>2 DEF IntentKept

LEMMA FinishIntent ==
  ASSUME IntentInv, NEW r \in runs, NEW held \in BOOLEAN, held => Holds(r),
         NEW status \in Statuses \ {"absent"},
         NEW outcome \in Outcomes, Finish(r, held, status, outcome)
  PROVE  IntentKept
  <1>1. UNCHANGED instances
    BY DEF Finish
  <1>2. r.job \in JobKeys /\ jobs \in [JobKeys -> JobRow]
    BY TypedRows DEF IntentInv, TypeInv, TypeOK
  <1>3. "superseded" \in Statuses \ {"absent"}
    BY DEF Statuses
  <1>4. CASE RecordLeaseLost(r)
    BY <1>1, <1>4 DEF RecordLeaseLost, IntentKept
  <1>5. CASE held /\ (SettleAs(r, status, outcome) \/ SettleAs(r, "superseded", "cancelled"))
    <2>1. PICK next \in Statuses \ {"absent"} : jobs' = [jobs EXCEPT ![r.job] = Closed(r.job, next)]
      BY <1>3, <1>5 DEF SettleAs
    <2>2. jobs[r.job].status # "absent"
      BY <1>5 DEF Holds
    <2>3. /\ Closed(r.job, next).status = next
          /\ Closed(r.job, next).desired = jobs[r.job].desired
      BY <1>2, ClosedKeeps DEF IntentInv, TypeInv
    <2> QED
      BY <1>1, <1>2, <2>1, <2>2, <2>3 DEF IntentKept
  <1> QED
    BY <1>4, <1>5 DEF Finish

LEMMA ProcessIntent ==
  ASSUME IntentInv, NEW r \in runs, Process(r)
  PROVE  IntentKept
  <1>1. r \in Runs /\ r.job \in JobKeys
    BY TypedRows DEF IntentInv, TypeInv
  <1>2. CASE RecordObservation(r)
    <2>1. r.job.instance \in Instances
      BY <1>1 DEF JobKeys
    <2>2. instances \in [Instances -> InstanceRow]
      BY DEF IntentInv, TypeInv, TypeOK
    <2> DEFINE row == Observed(instances[r.job.instance], r.observation, r.job.generation)
    <2>3. /\ row.generation = instances[r.job.instance].generation
          /\ row.desired = instances[r.job.instance].desired
      BY <2>1, <2>2 DEF Observed, InstanceRow
    <2>4. UNCHANGED instances \/ instances' = [instances EXCEPT ![r.job.instance] = row]
      BY <1>2 DEF RecordObservation
    <2>5. UNCHANGED jobs
      BY <1>2 DEF RecordObservation
    <2> HIDE DEF row
    <2> QED
      BY <2>1, <2>2, <2>3, <2>4, <2>5 DEF IntentKept
  <1>3. CASE \/ \E o \in ObservationsFor(r.job) : ProviderAnswers(r, o)
             \/ \E kind \in FailureKinds : ProviderFails(r, kind)
    BY <1>3 DEF ProviderAnswers, ProviderFails, IntentKept
  <1>4. /\ {"succeeded", "dead", "retry_wait", "ready"} \subseteq Statuses \ {"absent"}
        /\ {"succeeded", "permanent_error", "retryable_error", "cancelled"} \subseteq Outcomes
    BY DEF Statuses, Outcomes
  <1>5. HoldsUnexpired(r) \in BOOLEAN /\ Holds(r) \in BOOLEAN /\ (HoldsUnexpired(r) => Holds(r))
    BY DEF HoldsUnexpired, Holds
  <1>6. CASE Complete(r)
    BY <1>4, <1>5, <1>6, FinishIntent DEF Complete
  <1>7. CASE Fail(r)
    <2>1. (IF LastAttempt(r) THEN "dead" ELSE "retry_wait") \in Statuses \ {"absent"}
      BY <1>4
    <2> QED
      BY <1>4, <1>5, <1>7, <2>1, FinishIntent DEF Fail
  <1>8. CASE Interrupt(r)
    BY <1>4, <1>5, <1>8, FinishIntent DEF Interrupt
  <1> QED
    BY <1>2, <1>3, <1>6, <1>7, <1>8 DEF Process

LEMMA OnlyCommandsMoveIntent ==
  ASSUME IntentInv, [Next]_vars
  PROVE  IntentKept \/ \E i \in Instances : Command(i)
  <1>1. jobs \in [JobKeys -> JobRow] /\ instances \in [Instances -> InstanceRow]
    BY DEF IntentInv, TypeInv, TypeOK
  <1>2. CASE UNCHANGED <<instances, jobs>>
    BY <1>2 DEF IntentKept
  <1>3. ASSUME NEW i \in Instances, LifetimeClock(i)
        PROVE  IntentKept
    BY <1>1, <1>3 DEF LifetimeClock, IntentKept, InstanceRow
  <1>4. ASSUME NEW k \in JobKeys, ReplayDeadLetter(k)
        PROVE  IntentKept
    BY <1>1, <1>4 DEF ReplayDeadLetter, IntentKept, JobRow, JobFields
  <1>5. ASSUME NEW k \in JobKeys, LeaseClock(k)
        PROVE  IntentKept
    BY <1>1, <1>5 DEF LeaseClock, IntentKept, JobRow, JobFields
  <1>6. ASSUME NEW r \in runs, RenewLease(r)
        PROVE  IntentKept
    <2>1. r.job \in JobKeys
      BY TypedRows DEF IntentInv, TypeInv
    <2> QED
      BY <1>1, <1>6, <2>1 DEF RenewLease, IntentKept, JobRow, JobFields
  <1>7. ASSUME NEW i \in Instances, NEW g, NEW e, NEW o, ReconcilerObserves(i, g, e, o)
        PROVE  IntentKept
    <2> DEFINE row == Observed(instances[i], o, g)
    <2>1. row.generation = instances[i].generation /\ row.desired = instances[i].desired
      BY <1>1 DEF Observed, InstanceRow
    <2>2. instances' = [instances EXCEPT ![i] = row] /\ UNCHANGED jobs
      BY <1>7 DEF ReconcilerObserves
    <2> HIDE DEF row
    <2> QED
      BY <1>1, <2>1, <2>2 DEF IntentKept
  <1>8. ASSUME NEW r \in runs, BeginInterrupt(r) \/ FinalizationLost(r)
        PROVE  UNCHANGED <<instances, jobs>>
    BY <1>8 DEF BeginInterrupt, FinalizationLost
  <1>9. ASSUME NEW w \in Workers, Crash(w)
        PROVE  UNCHANGED <<instances, jobs>>
    BY <1>9 DEF Crash
  <1>10. CASE UNCHANGED vars
    BY <1>2, <1>10 DEF vars
  <1> QED
    BY <1>2, <1>3, <1>4, <1>5, <1>6, <1>7, <1>8, <1>9, <1>10, ClaimBatchIntent,
       ProcessIntent DEF Next

LEMMA StepIntent == IntentInv /\ [Next]_vars => IntentInv'
  BY StepTyped, OnlyCommandsMoveIntent, KeptIntent, CommandIntent DEF IntentInv

-----------------------------------------------------------------------------
(* Leases, fencing tokens and attempts *)

\* A run was granted by a claim: the token it holds is its attempt number and was
\* the job's token at some time.
RunsAreGranted ==
  \A r \in runs : r.token = r.attempt /\ r.token <= jobs[r.job].token

\* No token of a job is held twice.
OneRunPerGrant == \A r, q \in runs : r.job = q.job /\ r.token = q.token => r = q

LeaseInv == RunsAreGranted /\ OneRunPerGrant /\ OpenAttemptIsHeld /\ HolderHasOpenAttempt

QueueInv == IntentInv /\ LeaseInv

\* A step that grants, settles and judges nothing.
LeasesKept ==
  /\ attempts' = attempts
  /\ \A k \in JobKeys :
       /\ jobs'[k].token = jobs[k].token
       /\ jobs'[k].attempts = jobs[k].attempts
       /\ jobs'[k].status = "leased" <=> jobs[k].status = "leased"
       /\ jobs'[k].status = "leased" => jobs'[k].owner = jobs[k].owner

SameGrant(r, q) ==
  r.job = q.job /\ r.worker = q.worker /\ r.token = q.token /\ r.attempt = q.attempt

RunsKept ==
  /\ \A r \in runs' : \E q \in runs : SameGrant(r, q)
  /\ OneRunPerGrant'

LEMMA RunsRemoved ==
  ASSUME OneRunPerGrant, runs' \subseteq runs
  PROVE  RunsKept
  BY DEF RunsKept, OneRunPerGrant, SameGrant

LEMMA RunAdvances ==
  ASSUME OneRunPerGrant, NEW r \in runs, NEW next, SameGrant(next, r), Advance(r, next)
  PROVE  RunsKept
  BY DEF RunsKept, OneRunPerGrant, SameGrant, Advance

LEMMA KeptLeases ==
  ASSUME QueueInv, LeasesKept, RunsKept
  PROVE  LeaseInv'
  <1>1. \A r \in runs : r.job \in JobKeys
    BY TypedRows DEF QueueInv, IntentInv, TypeInv
  <1>2. RunsAreGranted'
    BY <1>1 DEF QueueInv, LeaseInv, LeasesKept, RunsKept, RunsAreGranted, SameGrant
  <1>3. OpenAttemptIsHeld'
    BY DEF QueueInv, LeaseInv, LeasesKept, OpenAttemptIsHeld
  <1>4. HolderHasOpenAttempt'
    <2> SUFFICES ASSUME NEW r \in runs', Holds(r)'
                 PROVE  AttemptOpen(r)' /\ jobs'[r.job].attempts = r.attempt
      BY DEF HolderHasOpenAttempt
    <2>1. PICK q \in runs : SameGrant(r, q)
      BY DEF RunsKept
    <2>2. Holds(q)
      BY <1>1, <2>1 DEF LeasesKept, Holds, SameGrant
    <2> QED
      BY <1>1, <2>1, <2>2
      DEF QueueInv, LeaseInv, LeasesKept, HolderHasOpenAttempt, AttemptOpen, SameGrant
  <1> QED
    BY <1>2, <1>3, <1>4 DEF RunsKept, LeaseInv

LEMMA InitLeases == Init => LeaseInv
  BY DEF Init, LeaseInv, RunsAreGranted, OneRunPerGrant, OpenAttemptIsHeld, HolderHasOpenAttempt

\* A job that is not leased is queued, or queued again: nobody holds it.
LEMMA QueuedLeases ==
  ASSUME QueueInv, NEW k \in JobKeys, jobs[k].status # "leased", NEW row,
         row.status # "leased", row.token = jobs[k].token, row.attempts = jobs[k].attempts,
         jobs' = [jobs EXCEPT ![k] = row], UNCHANGED <<attempts, runs>>
  PROVE  LeaseInv'
  <1>1. jobs \in [JobKeys -> JobRow]
    BY DEF QueueInv, IntentInv, TypeInv, TypeOK
  <1>2. LeasesKept
    BY <1>1 DEF LeasesKept
  <1>3. RunsKept
    BY RunsRemoved DEF QueueInv, LeaseInv
  <1> QED
    BY <1>2, <1>3, KeptLeases

LEMMA CommandLeases ==
  ASSUME QueueInv, NEW i \in Instances, Command(i)
  PROVE  LeaseInv'
  <1>1. instances[i] \in InstanceRow
    BY DEF QueueInv, IntentInv, TypeInv, TypeOK
  <1>2. ASSUME NEW op \in Operations, instances[i].generation < MaxGeneration,
               Enqueue(i, instances[i].generation + 1, op), UNCHANGED <<attempts, runs>>
        PROVE  LeaseInv'
    <2> DEFINE k == [instance |-> i, generation |-> instances[i].generation + 1, operation |-> op]
               row == [AbsentJob EXCEPT !.status = "ready",
                         !.desired = IF op = "ensure" THEN "running" ELSE "stopped"]
    <2>1. instances[i].generation + 1 \in Generations
      BY <1>1, <1>2, ParameterAssumption DEF InstanceRow, Generations
    <2>2. k \in JobKeys /\ k.generation > instances[k.instance].generation
      BY <1>1, <2>1, KeyMade, ParameterAssumption DEF InstanceRow
    <2>3. jobs' = [jobs EXCEPT ![k] = row]
      BY <1>2 DEF Enqueue
    <2> HIDE DEF k
    <2>4. jobs[k].status = "absent" /\ jobs[k].token = 0 /\ jobs[k].attempts = 0
      BY <2>2 DEF QueueInv, IntentInv, FutureAbsent, AbsentUntouched, TypeInv, TokenCountsAttempts
    <2>5. row.status = "ready" /\ row.token = 0 /\ row.attempts = 0
      BY DEF AbsentJob
    <2> HIDE DEF row
    <2> QED
      BY <1>2, <2>2, <2>3, <2>4, <2>5, QueuedLeases
  <1>3. CASE Start(i)
    BY <1>2, <1>3 DEF Start, EnsureGeneration, Operations
  <1>4. CASE Renew(i)
    BY <1>2, <1>4 DEF Renew, EnsureGeneration, Operations
  <1>5. CASE Destroy(i)
    BY <1>2, <1>5 DEF Destroy, Operations
  <1>6. CASE EnqueueReconcile(i)
    <2> DEFINE k == [instance |-> i, generation |-> instances[i].generation,
                     operation |-> "reconcile"]
               raised == IF jobs[k].maxAttempts > jobs[k].attempts
                         THEN jobs[k].maxAttempts ELSE jobs[k].attempts + 1
               row == [jobs[k] EXCEPT !.status = "ready", !.owner = NoWorker, !.lease = 0,
                         !.maxAttempts = raised, !.desired = instances[i].desired]
    <2>1. k \in JobKeys
      BY <1>1, <1>6, KeyMade, ParameterAssumption
      DEF EnqueueReconcile, Exists, InstanceRow, Generations, Operations
    <2>2. /\ jobs[k].status # "leased" /\ jobs' = [jobs EXCEPT ![k] = row]
          /\ UNCHANGED <<attempts, runs>>
      BY <1>6 DEF EnqueueReconcile
    <2>3. jobs[k] \in JobRow
      BY <2>1 DEF QueueInv, IntentInv, TypeInv, TypeOK
    <2> HIDE DEF k, raised
    <2>4. /\ row.status = "ready" /\ row.token = jobs[k].token
          /\ row.attempts = jobs[k].attempts
      BY <2>3 DEF JobRow, JobFields
    <2> HIDE DEF row
    <2> QED
      BY <2>1, <2>2, <2>4, QueuedLeases
  <1> QED
    BY <1>3, <1>4, <1>5, <1>6 DEF Command

LEMMA ReplayLeases ==
  ASSUME QueueInv, NEW k \in JobKeys, ReplayDeadLetter(k)
  PROVE  LeaseInv'
  <1> DEFINE raised == IF jobs[k].maxAttempts > jobs[k].attempts
                       THEN jobs[k].maxAttempts ELSE jobs[k].attempts + 1
             row == [jobs[k] EXCEPT !.status = "ready", !.owner = NoWorker, !.lease = 0,
                       !.maxAttempts = raised]
  <1>1. jobs[k] \in JobRow
    BY DEF QueueInv, IntentInv, TypeInv, TypeOK
  <1>2. /\ jobs[k].status # "leased" /\ jobs' = [jobs EXCEPT ![k] = row]
        /\ UNCHANGED <<attempts, runs>>
    BY DEF ReplayDeadLetter
  <1> HIDE DEF raised
  <1>3. /\ row.status = "ready" /\ row.token = jobs[k].token
        /\ row.attempts = jobs[k].attempts
    BY <1>1 DEF JobRow, JobFields
  <1> HIDE DEF row
  <1> QED
    BY <1>2, <1>3, QueuedLeases

\* The three things a claim may do to a job.
GivenUp(k) ==
  /\ jobs'[k].status \in {"superseded", "dead"}
  /\ jobs'[k].token = jobs[k].token
  /\ \A n \in 1..AttemptBound : attempts'[k][n].outcome # "running"

Granted(k, w) ==
  /\ jobs'[k].status = "leased" /\ jobs'[k].owner = w
  /\ jobs'[k].token = jobs[k].token + 1 /\ jobs'[k].attempts = jobs[k].attempts + 1
  /\ jobs[k].attempts + 1 \in 1..AttemptBound
  /\ \A n \in 1..AttemptBound :
       attempts'[k][n].outcome = "running" <=> n = jobs[k].attempts + 1
  /\ attempts'[k][jobs[k].attempts + 1].token = jobs[k].token + 1

PassedOver(k) == jobs'[k] = jobs[k] /\ attempts'[k] = attempts[k]

LEMMA ClaimedOutcome ==
  ASSUME QueueInv, NEW w \in Workers, NEW batch \in SUBSET Claimable, NEW locked,
         ClaimBatch(w, batch, locked), NEW k \in JobKeys
  PROVE  IF k \in batch THEN Granted(k, w) ELSE GivenUp(k) \/ PassedOver(k)
  <1>1. jobs[k] \in JobRow /\ attempts[k] \in [1..AttemptBound -> AttemptRow]
    BY DEF QueueInv, IntentInv, TypeInv, TypeOK
  <1>2. k \in batch => k \notin Superseded /\ k \notin Exhausted
    BY <1>1, ParameterAssumption DEF Claimable, Superseded, Exhausted, JobRow, JobFields
  <1>3. CASE k \in (Superseded \cup Exhausted) \ locked
    <2>1. /\ k \notin batch
          /\ \/ /\ jobs'[k] = Closed(k, "superseded")
                /\ attempts'[k] = CloseAttempt(k, jobs[k].attempts, "cancelled")
             \/ /\ jobs'[k] = Closed(k, "dead")
                /\ attempts'[k] = CloseAttempt(k, jobs[k].attempts, "lease_lost")
      BY <1>2, <1>3 DEF ClaimBatch
    <2>2. \A n \in 1..AttemptBound : attempts[k][n].outcome = "running" => n = jobs[k].attempts
      BY DEF QueueInv, LeaseInv, OpenAttemptIsHeld
    <2>3. \A n \in 1..AttemptBound : attempts'[k][n].outcome # "running"
      <3> SUFFICES ASSUME NEW n \in 1..AttemptBound
                   PROVE  attempts'[k][n].outcome # "running"
        OBVIOUS
      <3>1. attempts[k][n] \in AttemptRow
        BY <1>1
      <3> QED
        BY <2>1, <2>2, <3>1 DEF CloseAttempt, AttemptRow
    <2>4. {"superseded", "dead"} \subseteq Statuses \ {"absent"}
      BY DEF Statuses
    <2> QED
      BY <2>1, <2>3, <2>4, ClosedKeeps DEF QueueInv, IntentInv, TypeInv, GivenUp
  <1>4. CASE k \in batch
    <2>1. jobs'[k] = ClaimedJob(k, w) /\ attempts'[k] = ClaimedAttempts(k)
      BY <1>2, <1>4 DEF ClaimBatch
    <2>2. jobs[k].attempts < jobs[k].maxAttempts /\ jobs[k].token = jobs[k].attempts
      BY <1>4 DEF Claimable, QueueInv, IntentInv, TypeInv, TokenCountsAttempts
    <2>3. /\ ClaimedJob(k, w).status = "leased" /\ ClaimedJob(k, w).owner = w
          /\ ClaimedJob(k, w).token = jobs[k].token + 1
          /\ ClaimedJob(k, w).attempts = jobs[k].attempts + 1
      BY <1>1 DEF ClaimedJob, JobRow, JobFields
    <2>4. jobs[k].attempts + 1 \in 1..AttemptBound
      BY <1>1, <2>2, JobRowClaimed
    <2>5. \A n \in 1..AttemptBound :
            attempts'[k][n].outcome = "running" <=> n = jobs[k].attempts + 1
      <3> SUFFICES ASSUME NEW n \in 1..AttemptBound
                   PROVE  attempts'[k][n].outcome = "running" <=> n = jobs[k].attempts + 1
        OBVIOUS
      <3>1. attempts[k][n] \in AttemptRow
        BY <1>1
      <3>2. attempts[k][n].outcome = "running" =>
              [attempts[k][n] EXCEPT !.outcome = "lease_lost"].outcome # "running"
        BY <3>1 DEF AttemptRow
      <3> QED
        BY <2>1, <3>2 DEF ClaimedAttempts
    <2>6. attempts'[k][jobs[k].attempts + 1].token = jobs[k].token + 1
      BY <2>1, <2>4 DEF ClaimedAttempts
    <2> QED
      BY <1>4, <2>1, <2>3, <2>4, <2>5, <2>6 DEF Granted
  <1>5. CASE k \notin (Superseded \cup Exhausted) \ locked /\ k \notin batch
    BY <1>5 DEF ClaimBatch, PassedOver
  <1> QED
    BY <1>3, <1>4, <1>5

LEMMA ClaimBatchLeases ==
  ASSUME QueueInv, NEW w \in Workers, NEW batch \in SUBSET Claimable, NEW locked,
         ClaimBatch(w, batch, locked)
  PROVE  LeaseInv'
  <1>1. \A r \in runs : r \in Runs /\ r.job \in JobKeys /\ r.token <= jobs[r.job].token
    BY TypedRows DEF QueueInv, IntentInv, TypeInv, LeaseInv, RunsAreGranted
  <1>2. \A k \in JobKeys : jobs[k].token \in Nat /\ jobs[k].token = jobs[k].attempts
    BY ParameterAssumption
    DEF QueueInv, IntentInv, TypeInv, TypeOK, TokenCountsAttempts, JobRow, JobFields
  <1>3. \A k \in batch : k \in JobKeys
    BY DEF Claimable
  <1>4. \A r \in runs' : r \in runs \/ \E k \in batch : r = NewRun(k, w)
    BY DEF ClaimBatch
  <1>5. \A k \in batch : /\ NewRun(k, w).job = k /\ NewRun(k, w).worker = w
                         /\ NewRun(k, w).token = jobs[k].token + 1
                         /\ NewRun(k, w).attempt = jobs[k].attempts + 1
    BY DEF NewRun
  <1>6. \A r \in runs : r.token \in Nat
    BY <1>1, ParameterAssumption DEF Runs
  <1>7. RunsAreGranted'
    <2> SUFFICES ASSUME NEW r \in runs'
                 PROVE  r.token = r.attempt /\ r.token <= jobs'[r.job].token
      BY DEF RunsAreGranted
    <2>1. CASE r \in runs
      <3>1. jobs'[r.job].token \in {jobs[r.job].token, jobs[r.job].token + 1}
        BY <1>1, <2>1, ClaimedOutcome DEF Granted, GivenUp, PassedOver
      <3> QED
        BY <1>1, <1>2, <1>6, <2>1, <3>1 DEF QueueInv, LeaseInv, RunsAreGranted
    <2>2. ASSUME NEW k \in batch, r = NewRun(k, w)
          PROVE  r.token = r.attempt /\ r.token <= jobs'[r.job].token
      <3>1. jobs'[k].token = jobs[k].token + 1
        BY <1>3, <2>2, ClaimedOutcome DEF Granted
      <3> QED
        BY <1>2, <1>3, <1>5, <2>2, <3>1
    <2> QED
      BY <1>4, <2>1, <2>2
  <1>8. OneRunPerGrant'
    BY <1>1, <1>2, <1>3, <1>4, <1>5, <1>6 DEF QueueInv, LeaseInv, OneRunPerGrant
  <1>9. OpenAttemptIsHeld'
    <2> SUFFICES ASSUME NEW k \in JobKeys, NEW n \in 1..AttemptBound,
                        attempts'[k][n].outcome = "running"
                 PROVE  /\ jobs'[k].status = "leased" /\ jobs'[k].attempts = n
                        /\ jobs'[k].token = attempts'[k][n].token
      BY DEF OpenAttemptIsHeld
    <2>1. CASE Granted(k, w)
      BY <1>2, <2>1 DEF Granted
    <2>2. CASE PassedOver(k)
      BY <2>2 DEF PassedOver, QueueInv, LeaseInv, OpenAttemptIsHeld
    <2>3. ~GivenUp(k)
      BY DEF GivenUp
    <2> QED
      BY <2>1, <2>2, <2>3, ClaimedOutcome
  <1>10. HolderHasOpenAttempt'
    <2> SUFFICES ASSUME NEW r \in runs', jobs'[r.job].status = "leased",
                        jobs'[r.job].owner = r.worker, jobs'[r.job].token = r.token
                 PROVE  /\ attempts'[r.job][r.attempt].outcome = "running"
                        /\ attempts'[r.job][r.attempt].token = r.token
                        /\ jobs'[r.job].attempts = r.attempt
      BY DEF HolderHasOpenAttempt, Holds, AttemptOpen
    <2>1. CASE r \in runs
      <3>1. jobs'[r.job] = jobs[r.job] /\ attempts'[r.job] = attempts[r.job]
        <4>1. ~GivenUp(r.job)
          BY DEF GivenUp
        <4>2. ~Granted(r.job, w)
          BY <1>1, <1>2, <1>6, <2>1 DEF Granted
        <4> QED
          BY <1>1, <2>1, <4>1, <4>2, ClaimedOutcome DEF PassedOver
      <3> QED
        BY <2>1, <3>1 DEF QueueInv, LeaseInv, HolderHasOpenAttempt, Holds, AttemptOpen
    <2>2. ASSUME NEW k \in batch, r = NewRun(k, w)
          PROVE  /\ attempts'[r.job][r.attempt].outcome = "running"
                 /\ attempts'[r.job][r.attempt].token = r.token
                 /\ jobs'[r.job].attempts = r.attempt
      <3>1. /\ jobs'[k].attempts = jobs[k].attempts + 1
            /\ attempts'[k][jobs[k].attempts + 1].outcome = "running"
            /\ attempts'[k][jobs[k].attempts + 1].token = jobs[k].token + 1
        BY <1>2, <1>3, <2>2, ClaimedOutcome DEF Granted
      <3> QED
        BY <1>5, <2>2, <3>1
    <2> QED
      BY <1>4, <2>1, <2>2
  <1> QED
    BY <1>7, <1>8, <1>9, <1>10 DEF LeaseInv

LEMMA FinishLeases ==
  ASSUME QueueInv, NEW r \in runs, NEW held \in BOOLEAN, held => Holds(r),
         NEW status \in Statuses \ {"absent", "leased"},
         NEW outcome \in Outcomes \ {"running"}, Finish(r, held, status, outcome)
  PROVE  LeaseInv'
  <1>1. r \in Runs /\ r.job \in JobKeys /\ \A q \in runs : q.job \in JobKeys
    BY TypedRows DEF QueueInv, IntentInv, TypeInv
  <1>2. /\ jobs \in [JobKeys -> JobRow]
        /\ attempts \in [JobKeys -> [1..AttemptBound -> AttemptRow]]
    BY DEF QueueInv, IntentInv, TypeInv, TypeOK
  <1>3. runs' = runs \ {r}
    BY DEF Finish
  <1>4. OneRunPerGrant'
    BY <1>3 DEF QueueInv, LeaseInv, OneRunPerGrant
  <1>5. \A o \in Outcomes \ {"running"}, n \in 1..AttemptBound :
          /\ CloseAttempt(r.job, r.attempt, o)[n].token = attempts[r.job][n].token
          /\ CloseAttempt(r.job, r.attempt, o)[n].outcome = "running"
               <=> attempts[r.job][n].outcome = "running" /\ n # r.attempt
    <2> SUFFICES ASSUME NEW o \in Outcomes \ {"running"}, NEW n \in 1..AttemptBound
                 PROVE  /\ CloseAttempt(r.job, r.attempt, o)[n].token = attempts[r.job][n].token
                        /\ CloseAttempt(r.job, r.attempt, o)[n].outcome = "running"
                             <=> attempts[r.job][n].outcome = "running" /\ n # r.attempt
      OBVIOUS
    <2>1. attempts[r.job][n] \in AttemptRow
      BY <1>1, <1>2
    <2> QED
      BY <2>1 DEF CloseAttempt, AttemptRow
  <1>6. CASE RecordLeaseLost(r)
    <2>1. jobs' = jobs
      BY <1>6 DEF RecordLeaseLost
    <2>2. \/ attempts' = attempts
          \/ /\ AttemptOpen(r)
             /\ attempts' = [attempts EXCEPT ![r.job] =
                               CloseAttempt(r.job, r.attempt, "lease_lost")]
      BY <1>6 DEF RecordLeaseLost
    <2>3. "lease_lost" \in Outcomes \ {"running"}
      BY DEF Outcomes
    <2>4. OpenAttemptIsHeld'
      BY <1>1, <1>2, <1>5, <2>1, <2>2, <2>3 DEF QueueInv, LeaseInv, OpenAttemptIsHeld
    <2>5. HolderHasOpenAttempt'
      <3> SUFFICES ASSUME NEW q \in runs, q # r, Holds(q)
                   PROVE  AttemptOpen(q)' /\ jobs'[q.job].attempts = q.attempt
        BY <1>3, <2>1 DEF HolderHasOpenAttempt, Holds
      <3>1. AttemptOpen(q) /\ jobs[q.job].attempts = q.attempt
        BY DEF QueueInv, LeaseInv, HolderHasOpenAttempt
      <3>2. q.job = r.job => q.attempt # r.attempt
        BY DEF QueueInv, LeaseInv, OneRunPerGrant, RunsAreGranted
      <3>3. q \in Runs
        BY TypedRows DEF QueueInv, IntentInv, TypeInv
      <3> QED
        BY <1>1, <1>2, <1>5, <2>1, <2>2, <2>3, <3>1, <3>2, <3>3 DEF AttemptOpen, Runs
    <2>6. RunsAreGranted'
      BY <1>3, <2>1 DEF QueueInv, LeaseInv, RunsAreGranted
    <2> QED
      BY <1>4, <2>4, <2>5, <2>6 DEF LeaseInv
  <1>7. CASE held /\ AttemptOpen(r) /\ jobs[r.job].attempts = r.attempt /\
             (SettleAs(r, status, outcome) \/ SettleAs(r, "superseded", "cancelled"))
    <2>1. "superseded" \in Statuses \ {"absent", "leased"} /\ "cancelled" \in Outcomes \ {"running"}
      BY DEF Statuses, Outcomes
    <2>2. PICK next \in Statuses \ {"absent", "leased"}, o \in Outcomes \ {"running"} :
            SettleAs(r, next, o)
      BY <1>7, <2>1
    <2>3. /\ jobs' = [jobs EXCEPT ![r.job] = Closed(r.job, next)]
          /\ attempts' = [attempts EXCEPT ![r.job] = CloseAttempt(r.job, r.attempt, o)]
      BY <2>2 DEF SettleAs
    <2>4. /\ Closed(r.job, next).status = next
          /\ Closed(r.job, next).token = jobs[r.job].token
      BY <1>1, ClosedKeeps DEF QueueInv, IntentInv, TypeInv
    <2>5. OpenAttemptIsHeld'
      <3> SUFFICES ASSUME NEW k \in JobKeys, NEW n \in 1..AttemptBound,
                          attempts'[k][n].outcome = "running"
                   PROVE  /\ jobs'[k].status = "leased" /\ jobs'[k].attempts = n
                          /\ jobs'[k].token = attempts'[k][n].token
        BY DEF OpenAttemptIsHeld
      <3>1. k # r.job
        <4> SUFFICES ASSUME k = r.job PROVE FALSE
          OBVIOUS
        <4>1. attempts[k][n].outcome = "running" /\ n # r.attempt
          BY <1>1, <1>2, <1>5, <2>3
        <4> QED
          BY <1>7, <4>1 DEF QueueInv, LeaseInv, OpenAttemptIsHeld
      <3> QED
        BY <1>1, <1>2, <2>3, <3>1 DEF QueueInv, LeaseInv, OpenAttemptIsHeld
    <2>6. HolderHasOpenAttempt'
      <3> SUFFICES ASSUME NEW q \in runs, q # r, Holds(q)'
                   PROVE  AttemptOpen(q)' /\ jobs'[q.job].attempts = q.attempt
        BY <1>3 DEF HolderHasOpenAttempt
      <3>1. q.job # r.job
        BY <1>1, <1>2, <2>3, <2>4 DEF Holds
      <3> QED
        BY <1>1, <1>2, <2>3, <3>1
        DEF QueueInv, LeaseInv, HolderHasOpenAttempt, Holds, AttemptOpen
    <2>7. RunsAreGranted'
      BY <1>1, <1>2, <1>3, <2>3, <2>4 DEF QueueInv, LeaseInv, RunsAreGranted
    <2> QED
      BY <1>4, <2>5, <2>6, <2>7 DEF LeaseInv
  <1> QED
    BY <1>6, <1>7 DEF Finish

LEMMA ProcessLeases ==
  ASSUME QueueInv, NEW r \in runs, Process(r)
  PROVE  LeaseInv'
  <1>1. r \in Runs /\ OneRunPerGrant
    BY TypedRows DEF QueueInv, IntentInv, TypeInv, LeaseInv
  <1>2. CASE \/ \E o \in ObservationsFor(r.job) : ProviderAnswers(r, o)
             \/ \E kind \in FailureKinds : ProviderFails(r, kind)
             \/ RecordObservation(r)
    <2>1. PICK next : Advance(r, next) /\ SameGrant(next, r)
      <3>1. \A phase, o, kind :
              /\ SameGrant([r EXCEPT !.phase = phase, !.observation = o], r)
              /\ SameGrant([r EXCEPT !.phase = phase, !.failure = kind], r)
              /\ SameGrant([r EXCEPT !.phase = phase, !.failure = kind, !.observation = o], r)
        BY <1>1 DEF SameGrant, Runs
      <3>2. CASE \E o \in ObservationsFor(r.job) : ProviderAnswers(r, o)
        BY <3>1, <3>2 DEF ProviderAnswers
      <3>3. CASE \E kind \in FailureKinds : ProviderFails(r, kind)
        BY <3>1, <3>3 DEF ProviderFails
      <3>4. CASE RecordObservation(r)
        BY <3>1, <3>4 DEF RecordObservation, Recorded
      <3> QED
        BY <1>2, <3>2, <3>3, <3>4
    <2>2. LeasesKept
      BY <1>2 DEF ProviderAnswers, ProviderFails, RecordObservation, LeasesKept
    <2> QED
      BY <1>1, <2>1, <2>2, RunAdvances, KeptLeases
  <1>3. /\ {"succeeded", "dead", "retry_wait", "ready"} \subseteq Statuses \ {"absent", "leased"}
        /\ {"succeeded", "permanent_error", "retryable_error", "cancelled"}
             \subseteq Outcomes \ {"running"}
    BY DEF Statuses, Outcomes
  <1>4. HoldsUnexpired(r) \in BOOLEAN /\ Holds(r) \in BOOLEAN /\ (HoldsUnexpired(r) => Holds(r))
    BY DEF HoldsUnexpired, Holds
  <1>5. CASE Complete(r)
    BY <1>3, <1>4, <1>5, FinishLeases DEF Complete
  <1>6. CASE Fail(r)
    <2>1. (IF LastAttempt(r) THEN "dead" ELSE "retry_wait") \in Statuses \ {"absent", "leased"}
      BY <1>3
    <2> QED
      BY <1>3, <1>4, <1>6, <2>1, FinishLeases DEF Fail
  <1>7. CASE Interrupt(r)
    BY <1>3, <1>4, <1>7, FinishLeases DEF Interrupt
  <1> QED
    BY <1>2, <1>5, <1>6, <1>7 DEF Process

LEMMA StepLeases == QueueInv /\ [Next]_vars => QueueInv'
  <1> SUFFICES ASSUME QueueInv, [Next]_vars
               PROVE  LeaseInv'
    BY StepIntent DEF QueueInv
  <1>1. /\ jobs \in [JobKeys -> JobRow] /\ OneRunPerGrant
        /\ \A r \in runs : r \in Runs /\ r.job \in JobKeys
    BY TypedRows DEF QueueInv, IntentInv, TypeInv, TypeOK, LeaseInv
  <1>2. UNCHANGED runs => RunsKept
    BY <1>1, RunsRemoved
  <1>3. CASE UNCHANGED <<jobs, attempts, runs>>
    BY <1>2, <1>3, KeptLeases DEF LeasesKept
  <1>4. ASSUME NEW k \in JobKeys, LeaseClock(k)
        PROVE  LeaseInv'
    <2>1. LeasesKept
      BY <1>1, <1>4 DEF LeaseClock, LeasesKept, JobRow, JobFields
    <2> QED
      BY <1>2, <1>4, <2>1, KeptLeases DEF LeaseClock
  <1>5. ASSUME NEW r \in runs, RenewLease(r)
        PROVE  LeaseInv'
    <2>1. LeasesKept
      BY <1>1, <1>5 DEF RenewLease, LeasesKept, JobRow, JobFields
    <2> QED
      BY <1>2, <1>5, <2>1, KeptLeases DEF RenewLease
  <1>6. ASSUME NEW r \in runs, BeginInterrupt(r)
        PROVE  LeaseInv'
    <2> DEFINE next == [r EXCEPT !.phase = "interrupting", !.observation = NoObservation]
    <2>1. SameGrant(next, r)
      BY <1>1 DEF SameGrant, Runs
    <2>2. LeasesKept /\ Advance(r, next)
      BY <1>6 DEF BeginInterrupt, LeasesKept
    <2> QED
      BY <1>1, <2>1, <2>2, RunAdvances, KeptLeases
  <1>7. ASSUME NEW r \in runs, FinalizationLost(r)
        PROVE  LeaseInv'
    <2>1. LeasesKept /\ runs' \subseteq runs
      BY <1>7 DEF FinalizationLost, LeasesKept
    <2> QED
      BY <1>1, <2>1, RunsRemoved, KeptLeases
  <1>8. ASSUME NEW w \in Workers, Crash(w)
        PROVE  LeaseInv'
    <2>1. LeasesKept /\ runs' \subseteq runs
      BY <1>8 DEF Crash, LeasesKept
    <2> QED
      BY <1>1, <2>1, RunsRemoved, KeptLeases
  <1>9. ASSUME NEW i \in Instances, NEW g, NEW e, NEW o, ReconcilerObserves(i, g, e, o)
        PROVE  LeaseInv'
    BY <1>3, <1>9 DEF ReconcilerObserves
  <1>10. ASSUME NEW i \in Instances, LifetimeClock(i)
         PROVE  LeaseInv'
    BY <1>3, <1>10 DEF LifetimeClock
  <1>11. CASE UNCHANGED vars
    BY <1>3, <1>11 DEF vars
  <1> QED
    BY <1>4, <1>5, <1>6, <1>7, <1>8, <1>9, <1>10, <1>11, CommandLeases, ReplayLeases,
       ClaimBatchLeases, ProcessLeases DEF Next

LEMMA QueueInvariant == Spec => []QueueInv
  <1>1. Init => QueueInv
    BY InitIntent, InitLeases DEF QueueInv
  <1> QED
    BY <1>1, StepLeases, PTL DEF Spec

\* A running attempt is the last attempt of a leased job and carries its token,
\* for any number of workers, goroutines, generations and replays.
THEOREM OpenAttemptsAreHeld == Spec => []OpenAttemptIsHeld
  <1>1. QueueInv => OpenAttemptIsHeld
    BY DEF QueueInv, LeaseInv
  <1> QED
    BY <1>1, QueueInvariant, PTL

\* The holder of a lease finds its own attempt open, so the error exits of
\* PostgresRepository.finish cannot be taken.
THEOREM HoldersHaveOpenAttempts == Spec => []HolderHasOpenAttempt
  <1>1. QueueInv => HolderHasOpenAttempt
    BY DEF QueueInv, LeaseInv
  <1> QED
    BY <1>1, QueueInvariant, PTL

-----------------------------------------------------------------------------
(* Observations *)

\* A run holds a running observation only for a job that wants a running
\* instance, and a stopped one only for a job that wants it stopped, which records
\* no other.
ObservationsFitIntent ==
  \A r \in runs :
    /\ r.observation.state = "running" => jobs[r.job].desired = "running"
    /\ r.observation.state = "stopped" => jobs[r.job].desired = "stopped"
    /\ r.phase = "recording" /\ jobs[r.job].desired = "stopped" =>
         r.observation.state = "stopped" /\ r.observation.resource = NoResource

RunningHasLifetime ==
  \A i \in Instances : instances[i].desired = "running" => instances[i].lifetime # "none"

ObservedAtMostCurrent ==
  \A i \in Instances : instances[i].observedGeneration <= instances[i].generation

\* A row that is to be stopped and was observed since it was says so.
StoppingIsShown ==
  \A i \in Instances :
    LET row == instances[i] IN
    row.generation > 0 /\ row.desired = "stopped" /\ row.observedGeneration = row.generation
      => row.observed = "stopped" /\ row.resource = NoResource

RowInv == /\ NoStaleEntrypoints /\ StoppedOnlyWhenIntended /\ RunningHasLifetime
          /\ ObservedAtMostCurrent /\ StoppingIsShown

ObservationInv == QueueInv /\ ObservationsFitIntent /\ RowInv

LEMMA RunsHaveJobs ==
  ASSUME QueueInv, NEW r \in runs
  PROVE  r.job \in JobKeys /\ jobs[r.job].status # "absent"
  <1>1. r \in Runs /\ r.job \in JobKeys /\ r.token <= jobs[r.job].token
    BY TypedRows DEF QueueInv, IntentInv, TypeInv, LeaseInv, RunsAreGranted
  <1> QED
    BY <1>1, ParameterAssumption DEF QueueInv, IntentInv, AbsentUntouched, Runs

\* The intent in the payload of a queued job never changes.
LEMMA PayloadKept ==
  ASSUME QueueInv, [Next]_vars, NEW k \in JobKeys, jobs[k].status # "absent"
  PROVE  jobs'[k].desired = jobs[k].desired
  <1>1. /\ jobs \in [JobKeys -> JobRow] /\ instances \in [Instances -> InstanceRow]
        /\ k.instance \in Instances
    BY DEF QueueInv, IntentInv, TypeInv, TypeOK, JobKeys
  <1>2. CASE IntentKept
    BY <1>2 DEF IntentKept
  <1>3. ASSUME NEW i \in Instances, NEW op, Enqueue(i, instances[i].generation + 1, op)
        PROVE  jobs'[k] = jobs[k]
    <2> DEFINE new == [instance |-> i, generation |-> instances[i].generation + 1,
                       operation |-> op]
    <2>1. k # new
      <3> SUFFICES ASSUME k = new PROVE FALSE
        OBVIOUS
      <3>1. k.instance = i /\ k.generation = instances[i].generation + 1
        OBVIOUS
      <3>2. instances[i].generation \in Nat
        BY <1>1, ParameterAssumption DEF InstanceRow
      <3> HIDE DEF new
      <3>3. k.generation > instances[k.instance].generation
        BY <3>1, <3>2
      <3> QED
        BY <3>3 DEF QueueInv, IntentInv, FutureAbsent
    <2> QED
      BY <1>1, <1>3, <2>1 DEF Enqueue
  <1>4. ASSUME NEW i \in Instances, EnqueueReconcile(i)
        PROVE  jobs'[k].desired = jobs[k].desired
    <2> DEFINE q == [instance |-> i, generation |-> instances[i].generation,
                     operation |-> "reconcile"]
    <2>1. CASE k = q
      <3>1. jobs'[k].desired = instances[i].desired
        BY <1>1, <1>4, <2>1 DEF EnqueueReconcile, JobRow, JobFields
      <3>2. k.instance = i /\ Current(k)
        BY <2>1 DEF Current
      <3> QED
        BY <3>1, <3>2 DEF QueueInv, IntentInv, JobCarriesIntent
    <2>2. CASE k # q
      <3>1. jobs'[k] = jobs[k]
        BY <1>1, <1>4, <2>2 DEF EnqueueReconcile
      <3> QED
        BY <3>1
    <2> QED
      BY <2>1, <2>2
  <1>5. ASSUME NEW i \in Instances, Command(i)
        PROVE  jobs'[k].desired = jobs[k].desired
    BY <1>3, <1>4, <1>5 DEF Command, Start, Renew, Destroy, EnsureGeneration
  <1> QED
    BY <1>2, <1>5, OnlyCommandsMoveIntent DEF QueueInv

\* Where the observation in a run comes from.
LEMMA ObservationOrigin ==
  ASSUME QueueInv, [Next]_vars, NEW r \in runs'
  PROVE  \/ r.observation = NoObservation /\ r.phase # "recording"
         \/ \E q \in runs : /\ r.job = q.job /\ r.observation = q.observation
                            /\ r.phase = "recording" => q.phase = "recording"
         \/ \E q \in runs : r.job = q.job /\ r.observation \in ObservationsFor(q.job)
  <1>1. \A q \in runs : q \in Runs
    BY TypedRows DEF QueueInv, IntentInv, TypeInv
  <1>2. CASE r \in runs
    BY <1>2
  <1>3. CASE runs' = runs
    BY <1>3
  <1>4. ASSUME NEW q \in runs, Process(q)
        PROVE  \/ r \in runs
               \/ r.observation = NoObservation /\ r.phase # "recording"
               \/ r.job = q.job /\ r.observation = q.observation /\ r.phase # "recording"
               \/ r.job = q.job /\ r.observation \in ObservationsFor(q.job)
    <2>1. ASSUME NEW o \in ObservationsFor(q.job), ProviderAnswers(q, o)
          PROVE  r \in runs \/ (r.job = q.job /\ r.observation = o)
      BY <1>1, <2>1 DEF ProviderAnswers, Advance, Runs
    <2>2. ASSUME NEW kind \in FailureKinds, ProviderFails(q, kind)
          PROVE  \/ r \in runs
                 \/ r.job = q.job /\ r.observation = q.observation /\ r.phase # "recording"
      BY <1>1, <2>2 DEF ProviderFails, Advance, Runs
    <2>3. CASE RecordObservation(q)
      BY <1>1, <2>3 DEF RecordObservation, Recorded, Advance, Runs
    <2>4. CASE Complete(q) \/ Fail(q) \/ Interrupt(q)
      BY <2>4 DEF Complete, Fail, Interrupt, Finish
    <2> QED
      BY <1>4, <2>1, <2>2, <2>3, <2>4 DEF Process
  <1>5. ASSUME NEW q \in runs, BeginInterrupt(q)
        PROVE  r \in runs \/ (r.observation = NoObservation /\ r.phase # "recording")
    BY <1>1, <1>5 DEF BeginInterrupt, Advance, Runs
  <1>6. ASSUME NEW w \in Workers, NEW batch, NEW locked, ClaimBatch(w, batch, locked)
        PROVE  r \in runs \/ (r.observation = NoObservation /\ r.phase # "recording")
    BY <1>6 DEF ClaimBatch, NewRun
  <1>7. ASSUME NEW i \in Instances, Command(i)
        PROVE  runs' = runs
    BY <1>7 DEF Command, Start, Renew, Destroy, EnqueueReconcile
  <1> QED
    BY <1>2, <1>3, <1>4, <1>5, <1>6, <1>7
    DEF Next, vars, LifetimeClock, ReplayDeadLetter, LeaseClock, Crash, RenewLease,
        FinalizationLost, ReconcilerObserves

LEMMA StepFitsIntent ==
  ASSUME QueueInv, ObservationsFitIntent, [Next]_vars
  PROVE  ObservationsFitIntent'
  <1> DEFINE Fits(r) ==
        /\ r.observation.state = "running" => jobs'[r.job].desired = "running"
        /\ r.observation.state = "stopped" => jobs'[r.job].desired = "stopped"
        /\ r.phase = "recording" /\ jobs'[r.job].desired = "stopped" =>
             r.observation.state = "stopped" /\ r.observation.resource = NoResource
  <1> SUFFICES ASSUME NEW r \in runs'
               PROVE  Fits(r)
    BY DEF ObservationsFitIntent
  <1>1. CASE r.observation = NoObservation /\ r.phase # "recording"
    BY <1>1 DEF NoObservation
  <1>2. ASSUME NEW q \in runs, r.job = q.job, r.observation = q.observation,
               r.phase = "recording" => q.phase = "recording"
        PROVE  Fits(r)
    BY <1>2, RunsHaveJobs, PayloadKept DEF ObservationsFitIntent
  <1>3. ASSUME NEW q \in runs, r.job = q.job, r.observation \in ObservationsFor(q.job)
        PROVE  Fits(r)
    <2>1. jobs'[q.job].desired = jobs[q.job].desired
      BY RunsHaveJobs, PayloadKept
    <2>2. jobs[q.job].desired \in DesiredStates
      BY RunsHaveJobs DEF QueueInv, IntentInv, TypeInv, TypeOK, JobRow, JobFields
    <2> QED
      BY <1>3, <2>1, <2>2 DEF ObservationsFor, Answers, DesiredStates
  <1> QED
    BY <1>1, <1>2, <1>3, ObservationOrigin

\* What one row owes to the parts of RowInv.
RowFits(row) ==
  /\ row.entrypoints # 0 =>
       /\ row.desired = "running" /\ row.observed = "running"
       /\ row.entrypoints = row.generation
       /\ row.observedGeneration = row.generation
  /\ row.observed = "stopped" => row.desired = "stopped" \/ row.lifetime = "expired"
  /\ row.desired = "running" => row.lifetime # "none"
  /\ row.observedGeneration <= row.generation
  /\ row.generation > 0 /\ row.desired = "stopped" /\ row.observedGeneration = row.generation
       => row.observed = "stopped" /\ row.resource = NoResource

LEMMA RowByRow == RowInv <=> \A i \in Instances : RowFits(instances[i])
  BY DEF RowInv, RowFits, NoStaleEntrypoints, StoppedOnlyWhenIntended, RunningHasLifetime,
      ObservedAtMostCurrent, StoppingIsShown

LEMMA ObservedFits ==
  ASSUME NEW row \in InstanceRow, RowFits(row), NEW o \in Observations,
         o.state = "running" => row.desired = "running",
         o.state = "stopped" => row.desired = "stopped" \/ row.lifetime = "expired",
         row.desired = "stopped" => o.state = "stopped" /\ o.resource = NoResource
  PROVE  RowFits(Observed(row, o, row.generation))
  BY ParameterAssumption DEF RowFits, Observed, InstanceRow, Observations

LEMMA StepRows ==
  ASSUME QueueInv, ObservationsFitIntent, RowInv, [Next]_vars
  PROVE  RowInv'
  <1> SUFFICES ASSUME NEW i \in Instances
               PROVE  RowFits(instances'[i])
    <2>1. (\A i \in Instances : RowFits(instances'[i])) => RowInv'
      BY DEF RowInv, RowFits, NoStaleEntrypoints, StoppedOnlyWhenIntended, RunningHasLifetime,
      ObservedAtMostCurrent, StoppingIsShown
    <2> QED
      BY <2>1
  <1>1. /\ instances \in [Instances -> InstanceRow] /\ instances[i] \in InstanceRow
        /\ RowFits(instances[i])
    BY RowByRow DEF QueueInv, IntentInv, TypeInv, TypeOK
  <1>2. CASE instances' = instances
    BY <1>1, <1>2
  <1>3. ASSUME NEW j \in Instances, EnsureGeneration(j)
        PROVE  RowFits(instances'[i])
    BY <1>1, <1>3, ParameterAssumption DEF EnsureGeneration, RowFits, InstanceRow
  <1>4. ASSUME NEW j \in Instances, Destroy(j)
        PROVE  RowFits(instances'[i])
    BY <1>1, <1>4, ParameterAssumption DEF Destroy, RowFits, InstanceRow
  <1>5. ASSUME NEW j \in Instances, LifetimeClock(j)
        PROVE  RowFits(instances'[i])
    BY <1>1, <1>5 DEF LifetimeClock, Unexpired, RowFits, InstanceRow
  <1>6. ASSUME NEW j \in Instances, NEW g \in 1..instances[j].generation,
               NEW e, NEW o \in ReconcilerObservations(j, g), ReconcilerObserves(j, g, e, o)
        PROVE  RowFits(instances'[i])
    <2>1. CASE i # j
      BY <1>1, <1>6, <2>1 DEF ReconcilerObserves
    <2>2. CASE i = j
      <3>1. /\ g = instances[i].generation
            /\ instances'[i] = Observed(instances[i], o, instances[i].generation)
        BY <1>1, <1>6, <2>2 DEF ReconcilerObserves, ReconcilerMayObserve
      <3>2. /\ o \in Observations
            /\ o.state = "running" => instances[i].desired = "running"
            /\ o.state = "stopped" => ~Unexpired(i) /\ o.resource = NoResource
            /\ instances[i].desired = "running" \/ o.state = "stopped"
        BY <1>6, <2>2, <3>1 DEF ReconcilerObservations, Answers
      <3>3. instances[i].desired \in DesiredStates /\ instances[i].lifetime \in Lifetimes
        BY <1>1 DEF InstanceRow
      <3>4. o.state = "stopped" =>
              instances[i].desired = "stopped" \/ instances[i].lifetime = "expired"
        BY <1>1, <3>2, <3>3 DEF RowFits, Unexpired, DesiredStates, Lifetimes
      <3> QED
        BY <1>1, <3>1, <3>2, <3>4, ObservedFits
    <2> QED
      BY <2>1, <2>2
  <1>7. ASSUME NEW r \in runs, RecordObservation(r)
        PROVE  RowFits(instances'[i])
    <2>1. r \in Runs /\ r.job \in JobKeys /\ r.job.instance \in Instances
      BY TypedRows DEF QueueInv, IntentInv, TypeInv, JobKeys
    <2>2. CASE instances' = instances \/ r.job.instance # i
      BY <1>1, <1>7, <2>1, <2>2 DEF RecordObservation
    <2>3. CASE instances' # instances /\ r.job.instance = i
      <3>1. /\ Current(r.job) /\ jobs[r.job].status # "absent"
            /\ instances'[i] = Observed(instances[i], r.observation, r.job.generation)
        BY <1>1, <1>7, <2>1, <2>3
        DEF RecordObservation, MayObserve, HoldsUnexpired, Holds
      <3>2. jobs[r.job].desired = instances[i].desired
        BY <2>1, <2>3, <3>1 DEF QueueInv, IntentInv, JobCarriesIntent
      <3>3. /\ r.observation \in Observations
            /\ r.observation.state = "running" => instances[i].desired = "running"
            /\ r.observation.state = "stopped" => instances[i].desired = "stopped"
            /\ instances[i].desired = "stopped" =>
                 r.observation.state = "stopped" /\ r.observation.resource = NoResource
        BY <1>7, <2>1, <3>2 DEF ObservationsFitIntent, RecordObservation, Runs
      <3> QED
        BY <1>1, <2>3, <3>1, <3>3, ObservedFits DEF Current
    <2> QED
      BY <2>2, <2>3
  <1>8. ASSUME NEW r \in runs, Process(r)
        PROVE  instances' = instances \/ RecordObservation(r)
    BY <1>8 DEF Process, ProviderAnswers, ProviderFails, Complete, Fail, Interrupt, Finish
  <1>9. ASSUME NEW j \in Instances, Command(j)
        PROVE  instances' = instances \/ EnsureGeneration(j) \/ Destroy(j)
    BY <1>9 DEF Command, Start, Renew, EnqueueReconcile
  <1> QED
    BY <1>2, <1>3, <1>4, <1>5, <1>6, <1>7, <1>8, <1>9
    DEF Next, vars, ReplayDeadLetter, LeaseClock, Crash, ClaimBatch, RenewLease,
        BeginInterrupt, FinalizationLost

LEMMA ObservationInvariant == Spec => []ObservationInv
  <1>1. Init => ObservationInv
    BY InitIntent, InitLeases
    DEF ObservationInv, QueueInv, ObservationsFitIntent, RowInv, NoStaleEntrypoints,
        StoppedOnlyWhenIntended, RunningHasLifetime, ObservedAtMostCurrent, StoppingIsShown,
        Init, NoRow, NoObservation
  <1>2. ObservationInv /\ [Next]_vars => ObservationInv'
    BY StepLeases, StepFitsIntent, StepRows DEF ObservationInv
  <1> QED
    BY <1>1, <1>2, PTL DEF Spec

\* Addresses are shown only for the current generation, while it is wanted and
\* was last observed running, whatever late workers and stale snapshots write.
THEOREM EntrypointsAreCurrent == Spec => []NoStaleEntrypoints
  <1>1. ObservationInv => NoStaleEntrypoints
    BY DEF ObservationInv, RowInv
  <1> QED
    BY <1>1, ObservationInvariant, PTL

\* The current generation is observed stopped only when it was meant to stop.
THEOREM StoppedIsIntended == Spec => []StoppedOnlyWhenIntended
  <1>1. ObservationInv => StoppedOnlyWhenIntended
    BY DEF ObservationInv, RowInv
  <1> QED
    BY <1>1, ObservationInvariant, PTL

-----------------------------------------------------------------------------
(* Settled jobs *)

LEMMA FinishTouchesHeld ==
  ASSUME TypeOK, NEW r \in runs, NEW held, NEW status, NEW outcome,
         Finish(r, held, status, outcome), held => Holds(r),
         NEW k \in JobKeys, jobs'[k] # jobs[k]
  PROVE  k = r.job /\ Holds(r)
  <1>1. jobs \in [JobKeys -> JobRow] /\ r.job \in JobKeys
    BY TypedRows DEF TypeOK
  <1> QED
    BY <1>1 DEF Finish, RecordLeaseLost, SettleAs

\* No step touches the row of a settled job of a replaced generation.
LEMMA StepSettled ==
  ASSUME QueueInv, [Next]_vars, NEW k \in JobKeys, Terminal(k), ~Current(k)
  PROVE  jobs'[k] = jobs[k]
  <1>1. /\ TypeOK /\ jobs \in [JobKeys -> JobRow] /\ instances \in [Instances -> InstanceRow]
        /\ \A r \in runs : r.job \in JobKeys
    BY TypedRows DEF QueueInv, IntentInv, TypeInv, TypeOK
  <1>2. ~Reapable(k) /\ jobs[k].status # "leased" /\ jobs[k].status # "absent"
    BY DEF Terminal, Reapable, Waiting, LeaseExpired
  <1>3. ASSUME NEW i \in Instances, NEW op, Enqueue(i, instances[i].generation + 1, op)
        PROVE  jobs'[k] = jobs[k]
    <2> DEFINE new == [instance |-> i, generation |-> instances[i].generation + 1,
                       operation |-> op]
    <2>1. k # new
      <3> SUFFICES ASSUME k = new PROVE FALSE
        OBVIOUS
      <3>1. k.instance = i /\ k.generation = instances[i].generation + 1
        OBVIOUS
      <3>2. instances[i].generation \in Nat
        BY <1>1, ParameterAssumption DEF InstanceRow
      <3> HIDE DEF new
      <3>3. k.generation > instances[k.instance].generation
        BY <3>1, <3>2
      <3> QED
        BY <1>2, <3>3 DEF QueueInv, IntentInv, FutureAbsent
    <2> QED
      BY <1>1, <1>3, <2>1 DEF Enqueue
  <1>4. ASSUME NEW i \in Instances, EnqueueReconcile(i)
        PROVE  jobs'[k] = jobs[k]
    <2> DEFINE q == [instance |-> i, generation |-> instances[i].generation,
                     operation |-> "reconcile"]
    <2>1. k # q
      BY DEF Current
    <2> QED
      BY <1>1, <1>4, <2>1 DEF EnqueueReconcile
  <1>5. ASSUME NEW i \in Instances, Command(i)
        PROVE  jobs'[k] = jobs[k]
    BY <1>3, <1>4, <1>5 DEF Command, Start, Renew, Destroy, EnsureGeneration
  <1>6. ASSUME NEW j \in JobKeys, ReplayDeadLetter(j) \/ LeaseClock(j)
        PROVE  jobs'[k] = jobs[k]
    BY <1>1, <1>2, <1>6 DEF ReplayDeadLetter, LeaseClock
  <1>7. ASSUME NEW w \in Workers, NEW batch, NEW locked, ClaimBatch(w, batch, locked)
        PROVE  jobs'[k] = jobs[k]
    BY <1>2, <1>7 DEF ClaimBatch, Superseded, Exhausted, Claimable
  <1>8. ASSUME NEW r \in runs, RenewLease(r)
        PROVE  jobs'[k] = jobs[k]
    BY <1>1, <1>2, <1>8 DEF RenewLease, HoldsUnexpired, Holds
  <1>9. ASSUME NEW r \in runs, Complete(r) \/ Fail(r) \/ Interrupt(r)
        PROVE  jobs'[k] = jobs[k]
    <2>1. HoldsUnexpired(r) => Holds(r)
      BY DEF HoldsUnexpired
    <2>2. jobs'[k] # jobs[k] => Holds(r) /\ k = r.job
      <3>1. CASE Complete(r)
        BY <1>1, <2>1, <3>1, FinishTouchesHeld DEF Complete
      <3>2. CASE Fail(r)
        BY <1>1, <2>1, <3>2, FinishTouchesHeld DEF Fail
      <3>3. CASE Interrupt(r)
        BY <1>1, <3>3, FinishTouchesHeld DEF Interrupt
      <3> QED
        BY <1>9, <3>1, <3>2, <3>3
    <2> QED
      BY <1>2, <2>2 DEF Holds
  <1>10. ASSUME NEW r \in runs, Process(r)
         PROVE  jobs'[k] = jobs[k]
    BY <1>9, <1>10 DEF Process, ProviderAnswers, ProviderFails, RecordObservation
  <1> QED
    BY <1>5, <1>6, <1>7, <1>8, <1>10
    DEF Next, vars, LifetimeClock, Crash, BeginInterrupt, FinalizationLost, ReconcilerObserves

\* No replay, late finalisation or interrupted worker reopens a settled job of a
\* generation that was replaced.
THEOREM SettledJobsStaySettled == Spec => SettledStaysSettled
  <1>1. QueueInv /\ [Next]_vars =>
          [\A k \in JobKeys : Terminal(k) /\ ~Current(k) => jobs'[k] = jobs[k]]_vars
    BY StepSettled
  <1> QED
    BY <1>1, QueueInvariant, PTL DEF Spec, SettledStaysSettled

-----------------------------------------------------------------------------
(* Completion follows the write-back *)

ObservedAt(k) == instances[k.instance].observedGeneration = k.generation

\* A run that is about to complete a job of the current generation has written
\* its observation back, and nothing can take that back within the generation.
CompletingIsObserved ==
  \A r \in runs : r.phase = "completing" /\ Current(r.job) => ObservedAt(r.job)

SucceededIsObserved ==
  \A k \in JobKeys : jobs[k].status = "succeeded" /\ Current(k) => ObservedAt(k)

WrittenInv == QueueInv /\ CompletingIsObserved /\ SucceededIsObserved

\* A generation that was observed stays observed until it is replaced.
LEMMA ObservedKept ==
  ASSUME QueueInv, [Next]_vars, NEW i \in Instances,
         instances'[i].generation = instances[i].generation,
         instances[i].observedGeneration = instances[i].generation
  PROVE  instances'[i].observedGeneration = instances[i].generation
  <1>1. /\ instances \in [Instances -> InstanceRow] /\ instances[i] \in InstanceRow
        /\ \A r \in runs : r \in Runs /\ r.job \in JobKeys /\ r.job.instance \in Instances
    BY TypedRows DEF QueueInv, IntentInv, TypeInv, TypeOK, JobKeys
  <1>2. \A j \in Instances : instances[j].generation \in Nat
    BY <1>1, ParameterAssumption DEF InstanceRow
  <1>3. ASSUME NEW j \in Instances, EnsureGeneration(j) \/ Destroy(j) \/ LifetimeClock(j)
        PROVE  instances'[i].observedGeneration = instances[i].observedGeneration
    <2>1. CASE EnsureGeneration(j)
      BY <1>1, <2>1 DEF EnsureGeneration, InstanceRow
    <2>2. CASE Destroy(j)
      BY <1>1, <2>2 DEF Destroy, InstanceRow
    <2>3. CASE LifetimeClock(j)
      BY <1>1, <2>3 DEF LifetimeClock, InstanceRow
    <2> QED
      BY <1>3, <2>1, <2>2, <2>3
  <1>4. ASSUME NEW j \in Instances, Command(j)
        PROVE  instances'[i].observedGeneration = instances[i].observedGeneration
    BY <1>3, <1>4 DEF Command, Start, Renew, EnqueueReconcile
  <1>5. ASSUME NEW j \in Instances, NEW g, NEW e, NEW o, ReconcilerObserves(j, g, e, o)
        PROVE  instances'[i].observedGeneration = instances[i].generation
    BY <1>1, <1>5 DEF ReconcilerObserves, ReconcilerMayObserve, Observed, InstanceRow
  <1>6. ASSUME NEW r \in runs, RecordObservation(r)
        PROVE  instances'[i].observedGeneration = instances[i].generation
    <2>1. CASE instances' = instances \/ r.job.instance # i
      BY <1>1, <1>6, <2>1 DEF RecordObservation
    <2>2. CASE instances' # instances /\ r.job.instance = i
      <3>1. instances'[i] = Observed(instances[i], r.observation, instances[i].generation)
        BY <1>1, <1>6, <2>2 DEF RecordObservation, MayObserve, Current
      <3> QED
        BY <1>1, <3>1 DEF Observed, InstanceRow
    <2> QED
      BY <2>1, <2>2
  <1>7. ASSUME NEW r \in runs, Process(r)
        PROVE  instances' = instances \/ RecordObservation(r)
    BY <1>7 DEF Process, ProviderAnswers, ProviderFails, Complete, Fail, Interrupt, Finish
  <1> QED
    BY <1>3, <1>4, <1>5, <1>6, <1>7
    DEF Next, vars, ReplayDeadLetter, LeaseClock, Crash, ClaimBatch, RenewLease,
        BeginInterrupt, FinalizationLost

\* A job that is current after a step was current before it, or is the new job
\* of a new generation, which is ready and which no run can hold.
LEMMA CurrentBefore ==
  ASSUME QueueInv, [Next]_vars, NEW k \in JobKeys, Current(k)', ~Current(k)
  PROVE  /\ jobs[k].status = "absent"
         /\ jobs'[k].status \in {"absent", "ready"}
         /\ runs' = runs
  <1>1. /\ jobs \in [JobKeys -> JobRow] /\ instances \in [Instances -> InstanceRow]
        /\ k.instance \in Instances /\ k.generation \in Nat
        /\ instances[k.instance].generation \in Nat
    BY ParameterAssumption
    DEF QueueInv, IntentInv, TypeInv, TypeOK, JobKeys, InstanceRow, Generations
  <1>2. PICK i \in Instances : Command(i)
    BY <1>1, OnlyCommandsMoveIntent DEF QueueInv, IntentKept, Current
  <1>3. /\ EnsureGeneration(i) \/ Destroy(i)
        /\ runs' = runs
    BY <1>1, <1>2 DEF Command, Start, Renew, Destroy, EnqueueReconcile, Current
  <1>4. /\ \E op : Enqueue(i, instances[i].generation + 1, op)
        /\ k.instance = i /\ k.generation = instances[i].generation + 1
    BY <1>1, <1>3 DEF EnsureGeneration, Destroy, InstanceRow, Current
  <1>5. jobs[k].status = "absent"
    BY <1>1, <1>4 DEF QueueInv, IntentInv, FutureAbsent
  <1>6. jobs'[k].status \in {"absent", "ready"}
    BY <1>1, <1>4, <1>5 DEF Enqueue, AbsentJob
  <1> QED
    BY <1>3, <1>5, <1>6

\* A job is completed only by a run that was about to complete it.
LEMMA CompletedBy ==
  ASSUME QueueInv, [Next]_vars, NEW k \in JobKeys,
         jobs'[k].status = "succeeded", jobs[k].status # "succeeded"
  PROVE  \E r \in runs : r.job = k /\ r.phase = "completing"
  <1>1. /\ TypeOK /\ jobs \in [JobKeys -> JobRow]
        /\ \A r \in runs : r.job \in JobKeys
    BY TypedRows DEF QueueInv, IntentInv, TypeInv, TypeOK
  <1>2. ASSUME NEW i \in Instances, NEW g, NEW op, Enqueue(i, g, op)
        PROVE  FALSE
    BY <1>1, <1>2 DEF Enqueue, AbsentJob
  <1>3. ASSUME NEW i \in Instances, Command(i)
        PROVE  FALSE
    BY <1>1, <1>2, <1>3
    DEF Command, Start, Renew, Destroy, EnsureGeneration, EnqueueReconcile, JobRow, JobFields
  <1>4. ASSUME NEW j \in JobKeys, ReplayDeadLetter(j) \/ LeaseClock(j)
        PROVE  FALSE
    BY <1>1, <1>4 DEF ReplayDeadLetter, LeaseClock, JobRow, JobFields
  <1>5. ASSUME NEW w \in Workers, NEW batch, NEW locked, ClaimBatch(w, batch, locked)
        PROVE  FALSE
    BY <1>1, <1>5 DEF ClaimBatch, Closed, ClaimedJob, JobRow, JobFields
  <1>6. ASSUME NEW r \in runs, RenewLease(r)
        PROVE  FALSE
    BY <1>1, <1>6 DEF RenewLease, JobRow, JobFields
  <1>7. ASSUME NEW r \in runs, NEW held, NEW status, NEW outcome,
               Finish(r, held, status, outcome)
        PROVE  k = r.job /\ status = "succeeded"
    BY <1>1, <1>7 DEF Finish, RecordLeaseLost, SettleAs, Closed, JobRow, JobFields
  <1>8. ASSUME NEW r \in runs, Complete(r) \/ Fail(r) \/ Interrupt(r)
        PROVE  r.job = k /\ r.phase = "completing"
    BY <1>7, <1>8 DEF Complete, Fail, Interrupt
  <1>9. ASSUME NEW r \in runs, Process(r)
        PROVE  r.job = k /\ r.phase = "completing"
    BY <1>8, <1>9 DEF Process, ProviderAnswers, ProviderFails, RecordObservation
  <1> QED
    BY <1>3, <1>4, <1>5, <1>6, <1>9
    DEF Next, vars, LifetimeClock, Crash, BeginInterrupt, FinalizationLost, ReconcilerObserves

\* A run gets there by writing its observation to the row of its generation.
LEMMA CompletingBy ==
  ASSUME QueueInv, [Next]_vars, NEW r \in runs', r \notin runs, r.phase = "completing"
  PROVE  ObservedAt(r.job)'
  <1>1. /\ instances \in [Instances -> InstanceRow]
        /\ \A q \in runs : q \in Runs /\ q.job.instance \in Instances
    BY TypedRows DEF QueueInv, IntentInv, TypeInv, TypeOK, JobKeys
  <1>2. ASSUME NEW q \in runs, RecordObservation(q)
        PROVE  ObservedAt(r.job)'
    <2>1. PICK next \in {"completing", "failing"} :
            r = [q EXCEPT !.phase = next, !.failure = "retryable", !.observation = NoObservation]
      BY <1>2 DEF RecordObservation, Recorded, Advance
    <2>2. r.job = q.job /\ next = "completing"
      BY <1>1, <2>1 DEF Runs
    <2>3. instances' = [instances EXCEPT ![q.job.instance] =
                          Observed(@, q.observation, q.job.generation)]
      <3>1. ~Recorded(q, "failing")
        BY <1>1, <2>1, <2>2 DEF Recorded, Advance, Runs
      <3> QED
        BY <1>2, <3>1 DEF RecordObservation
    <2>4. instances[q.job.instance] \in InstanceRow /\ q.job.instance \in Instances
      BY <1>1
    <2>5. Observed(instances[q.job.instance], q.observation,
                   q.job.generation).observedGeneration = q.job.generation
      BY <2>4 DEF Observed, InstanceRow
    <2> QED
      BY <1>1, <2>2, <2>3, <2>4, <2>5 DEF ObservedAt
  <1>3. ASSUME NEW q \in runs, Process(q)
        PROVE  RecordObservation(q)
    BY <1>1, <1>3
    DEF Process, ProviderAnswers, ProviderFails, Complete, Fail, Interrupt, Finish,
        Advance, Runs
  <1>4. ASSUME NEW q \in runs, BeginInterrupt(q)
        PROVE  FALSE
    BY <1>1, <1>4 DEF BeginInterrupt, Advance, Runs
  <1>5. ASSUME NEW w \in Workers, NEW batch, NEW locked, ClaimBatch(w, batch, locked)
        PROVE  FALSE
    BY <1>5 DEF ClaimBatch, NewRun
  <1> QED
    BY <1>2, <1>3, <1>4, <1>5
    DEF Next, vars, Command, Start, Renew, Destroy, EnqueueReconcile, LifetimeClock,
        ReplayDeadLetter, LeaseClock, Crash, RenewLease, FinalizationLost, ReconcilerObserves

LEMMA StepWritten ==
  ASSUME WrittenInv, [Next]_vars
  PROVE  CompletingIsObserved' /\ SucceededIsObserved'
  <1>1. QueueInv
    BY DEF WrittenInv
  <1>2. ASSUME NEW k \in JobKeys, Current(k), Current(k)', ObservedAt(k)
        PROVE  ObservedAt(k)'
    BY <1>1, <1>2, ObservedKept DEF Current, ObservedAt, JobKeys
  <1>3. CompletingIsObserved'
    <2> SUFFICES ASSUME NEW r \in runs', r.phase = "completing", Current(r.job)'
                 PROVE  ObservedAt(r.job)'
      BY DEF CompletingIsObserved
    <2>1. CASE r \in runs
      <3>1. r.job \in JobKeys /\ jobs[r.job].status # "absent"
        BY <1>1, <2>1, RunsHaveJobs
      <3>2. Current(r.job)
        BY <1>1, <3>1, CurrentBefore
      <3> QED
        BY <1>2, <2>1, <3>1, <3>2 DEF WrittenInv, CompletingIsObserved
    <2>2. CASE r \notin runs
      BY <1>1, <2>2, CompletingBy
    <2> QED
      BY <2>1, <2>2
  <1>4. SucceededIsObserved'
    <2> SUFFICES ASSUME NEW k \in JobKeys, jobs'[k].status = "succeeded", Current(k)'
                 PROVE  ObservedAt(k)'
      BY DEF SucceededIsObserved
    <2>1. Current(k)
      BY <1>1, CurrentBefore
    <2>2. ObservedAt(k)
      BY <1>1, <2>1, CompletedBy
      DEF WrittenInv, CompletingIsObserved, SucceededIsObserved
    <2> QED
      BY <1>2, <2>1, <2>2
  <1> QED
    BY <1>3, <1>4

\* A job of the current generation that succeeded was written back first, although
\* the write and the completion are separate transactions, and nothing written
\* since then at that generation unsays it: after a job that was to remove the
\* instance the row is stopped and without a resource.
THEOREM SucceededJobsAreObserved == Spec => []SucceededMeansObserved
  <1>1. Init => WrittenInv
    BY InitIntent, InitLeases
    DEF WrittenInv, QueueInv, CompletingIsObserved, SucceededIsObserved, Init, AbsentJob
  <1>2. WrittenInv /\ [Next]_vars => WrittenInv'
    BY StepLeases, StepWritten DEF WrittenInv
  <1>3. WrittenInv /\ ObservationInv => SucceededMeansObserved
    <2> SUFFICES ASSUME WrittenInv, ObservationInv, NEW k \in JobKeys,
                        jobs[k].status = "succeeded", Current(k)
                 PROVE  /\ ObservedAt(k)
                        /\ jobs[k].desired = "stopped" =>
                             /\ instances[k.instance].observed = "stopped"
                             /\ instances[k.instance].resource = NoResource
      BY DEF SucceededMeansObserved, ObservedAt
    <2>1. ObservedAt(k)
      BY DEF WrittenInv, SucceededIsObserved
    <2>2. jobs[k].desired = instances[k.instance].desired
      BY DEF ObservationInv, QueueInv, IntentInv, JobCarriesIntent
    <2>3. k.instance \in Instances /\ instances[k.instance].generation > 0
      BY ParameterAssumption DEF Current, JobKeys, Generations
    <2> QED
      BY <2>1, <2>2, <2>3 DEF ObservationInv, RowInv, StoppingIsShown, ObservedAt, Current
  <1> QED
    BY <1>1, <1>2, <1>3, ObservationInvariant, PTL DEF Spec

-----------------------------------------------------------------------------
(* The ledger of the work done *)

LedgerPhase(k) ==
  IF jobs[k].status = "leased" THEN "held" ELSE IF Terminal(k) THEN "settled" ELSE "idle"
Log(k) == [n \in 1..jobs[k].attempts |-> attempts[k][n].outcome]

LEMMA LenOf ==
  ASSUME NEW n \in Nat, NEW S, NEW s \in [1..n -> S]
  PROVE  s \in Seq(S) /\ Len(s) = n
  <1>1. s \in Seq(S)
    BY SeqDef
  <1> QED
    BY <1>1, LenProperties

LEMMA RunningOf ==
  ASSUME NEW n \in Nat, NEW S, NEW s \in [1..n -> S]
  PROVE  Ledger!Running(s) <=> n > 0 /\ s[n] = "running"
  BY LenOf DEF Ledger!Running

LEMMA JudgeOf ==
  ASSUME NEW n \in Nat, NEW S, NEW s \in [1..n -> S], NEW verdict \in S
  PROVE  Ledger!Judge(s, verdict) =
           [m \in 1..n |-> IF m = n /\ s[m] = "running" THEN verdict ELSE s[m]]
  <1>1. CASE Ledger!Running(s)
    <2>1. n \in 1..n /\ s[n] = "running" /\ Len(s) = n
      BY <1>1, RunningOf, LenOf
    <2>2. Ledger!Judge(s, verdict) = [s EXCEPT ![n] = verdict]
      BY <1>1, <2>1 DEF Ledger!Judge
    <2> QED
      BY <2>1, <2>2
  <1>2. CASE ~Ledger!Running(s)
    <2>1. \A m \in 1..n : ~(m = n /\ s[m] = "running")
      BY <1>2, RunningOf
    <2>2. Ledger!Judge(s, verdict) = s
      BY <1>2 DEF Ledger!Judge
    <2> QED
      BY <2>1, <2>2
  <1> QED
    BY <1>1, <1>2

LEMMA AppendOf ==
  ASSUME NEW n \in Nat, NEW S, NEW s \in [1..n -> S], NEW x \in S
  PROVE  Append(s, x) = [m \in 1..(n + 1) |-> IF m = n + 1 THEN x ELSE s[m]]
  <1> DEFINE t == [m \in 1..(n + 1) |-> IF m = n + 1 THEN x ELSE s[m]]
  <1>1. /\ Append(s, x) \in Seq(S) /\ Len(Append(s, x)) = n + 1
        /\ \A i \in 1..n : Append(s, x)[i] = s[i]
        /\ Append(s, x)[n + 1] = x
    BY LenOf, AppendProperties
  <1>2. t \in [1..(n + 1) -> S] /\ n + 1 \in Nat
    <2> SUFFICES ASSUME NEW m \in 1..(n + 1)
                 PROVE  (IF m = n + 1 THEN x ELSE s[m]) \in S
      OBVIOUS
    <2>1. m # n + 1 => m \in 1..n
      OBVIOUS
    <2> QED
      BY <2>1
  <1>3. t \in Seq(S) /\ Len(t) = n + 1
    BY <1>2, LenOf
  <1>4. \A i \in 1..(n + 1) : Append(s, x)[i] = t[i]
    <2> SUFFICES ASSUME NEW i \in 1..(n + 1) PROVE Append(s, x)[i] = t[i]
      OBVIOUS
    <2>1. CASE i = n + 1
      BY <1>1, <2>1
    <2>2. CASE i # n + 1
      <3>1. i \in 1..n
        BY <2>2
      <3> QED
        BY <1>1, <2>2, <3>1
    <2> QED
      BY <2>1, <2>2
  <1> HIDE DEF t
  <1>5. Append(s, x) = t
    BY <1>1, <1>3, <1>4, SeqEqual
  <1> QED
    BY <1>5 DEF t

\* The log of a job is as long as the attempts its row counts.
LEMMA LogTyped ==
  ASSUME QueueInv, NEW k \in JobKeys
  PROVE  /\ jobs[k].attempts \in Nat /\ jobs[k].attempts <= AttemptBound
         /\ Log(k) \in [1..jobs[k].attempts -> Outcomes]
         /\ Len(Log(k)) = jobs[k].attempts
         /\ \A n \in 1..jobs[k].attempts : /\ n \in 1..AttemptBound
                                           /\ Log(k)[n] = attempts[k][n].outcome
                                           /\ attempts[k][n] \in AttemptRow
  <1>1. /\ jobs[k] \in JobRow /\ attempts[k] \in [1..AttemptBound -> AttemptRow]
    BY DEF QueueInv, IntentInv, TypeInv, TypeOK
  <1>2. jobs[k].attempts \in Nat /\ jobs[k].attempts <= AttemptBound
    BY <1>1, ParameterAssumption DEF JobRow, JobFields
  <1>3. \A n \in 1..jobs[k].attempts : n \in 1..AttemptBound
    BY <1>2, ParameterAssumption
  <1>4. \A n \in 1..jobs[k].attempts :
          attempts[k][n] \in AttemptRow /\ attempts[k][n].outcome \in Outcomes
    BY <1>1, <1>3 DEF AttemptRow
  <1>5. Log(k) \in [1..jobs[k].attempts -> Outcomes]
    BY <1>4 DEF Log
  <1> QED
    BY <1>2, <1>3, <1>4, <1>5, LenOf DEF Log

\* The six steps of the ledger, seen from one job.
LEMMA LedgerSteps ==
  ASSUME NEW k \in JobKeys,
         \/ LedgerPhase(k)' = LedgerPhase(k) /\ Log(k)' = Log(k)
         \/ /\ LedgerPhase(k) \in {"idle", "held"} /\ Len(Log(k)) < AttemptBound
            /\ LedgerPhase(k)' = "held"
            /\ Log(k)' = Append(Ledger!Judge(Log(k), "lease_lost"), "running")
         \/ /\ LedgerPhase(k) = "held" /\ Ledger!Running(Log(k))
            /\ \E verdict \in Ledger!Verdicts :
                 /\ LedgerPhase(k)' \in {"idle", "settled"}
                 /\ Log(k)' = Ledger!Judge(Log(k), verdict)
         \/ /\ LedgerPhase(k) = "held" /\ Ledger!Running(Log(k))
            /\ LedgerPhase(k)' = "held" /\ Log(k)' = Ledger!Judge(Log(k), "lease_lost")
         \/ /\ LedgerPhase(k) \in {"idle", "held"} /\ LedgerPhase(k)' = "settled"
            /\ \E verdict \in {"cancelled", "lease_lost"} :
                 Log(k)' = Ledger!Judge(Log(k), verdict)
         \/ /\ LedgerPhase(k) = "settled" /\ LedgerPhase(k)' = "idle" /\ Log(k)' = Log(k)
  PROVE  Ledger!JobStep(k)
  BY DEF LedgerPhase, Log, Ledger!JobStep, Ledger!Stay, Ledger!Grant, Ledger!Report,
         Ledger!WriteOff, Ledger!GiveUp, Ledger!Reopen

LEMMA LedgerTogether ==
  ASSUME \A k \in JobKeys : Ledger!JobStep(k)
  PROVE  Ledger!LedgerNext
  BY DEF Ledger!LedgerNext

LEMMA JudgedLog ==
  ASSUME QueueInv, NEW k \in JobKeys, NEW verdict \in Outcomes
  PROVE  Ledger!Judge(Log(k), verdict) =
           [n \in 1..jobs[k].attempts |->
              IF n = jobs[k].attempts /\ Log(k)[n] = "running" THEN verdict ELSE Log(k)[n]]
  <1> DEFINE A == jobs[k].attempts
             log == Log(k)
  <1>1. A \in Nat /\ log \in [1..A -> Outcomes] /\ verdict \in Outcomes
    BY LogTyped
  <1> HIDE DEF A, log
  <1>2. Ledger!Judge(log, verdict) =
          [n \in 1..A |-> IF n = A /\ log[n] = "running" THEN verdict ELSE log[n]]
    BY <1>1, JudgeOf
  <1> QED
    BY <1>2 DEF A, log

\* Closing the last attempt of a job judges its log.
LEMMA ClosedLog ==
  ASSUME QueueInv, NEW k \in JobKeys, NEW outcome \in Outcomes,
         jobs'[k].attempts = jobs[k].attempts,
         attempts'[k] = CloseAttempt(k, jobs[k].attempts, outcome)
  PROVE  Log(k)' = Ledger!Judge(Log(k), outcome)
  <1> DEFINE A == jobs[k].attempts
  <1>1. /\ A \in Nat /\ Log(k) \in [1..A -> Outcomes]
        /\ \A n \in 1..A : /\ n \in 1..AttemptBound /\ Log(k)[n] = attempts[k][n].outcome
                           /\ attempts[k][n] \in AttemptRow
    BY LogTyped
  <1>2. \A n \in 1..A : attempts'[k][n].outcome =
          IF n = A /\ Log(k)[n] = "running" THEN outcome ELSE Log(k)[n]
    BY <1>1 DEF CloseAttempt, AttemptRow
  <1>3. Log(k)' = [n \in 1..A |-> IF n = A /\ Log(k)[n] = "running" THEN outcome ELSE Log(k)[n]]
    BY <1>2 DEF Log
  <1> QED
    BY <1>3, JudgedLog

LEMMA ClaimedLog ==
  ASSUME QueueInv, NEW k \in JobKeys, jobs[k].attempts + 1 \in 1..AttemptBound,
         jobs'[k].attempts = jobs[k].attempts + 1,
         attempts'[k] = ClaimedAttempts(k)
  PROVE  Log(k)' = Append(Ledger!Judge(Log(k), "lease_lost"), "running")
  <1> DEFINE A == jobs[k].attempts
             judged == [n \in 1..A |-> IF n = A /\ Log(k)[n] = "running" THEN "lease_lost"
                                       ELSE Log(k)[n]]
  <1>1. /\ A \in Nat /\ Log(k) \in [1..A -> Outcomes]
        /\ \A n \in 1..A : /\ n \in 1..AttemptBound /\ Log(k)[n] = attempts[k][n].outcome
                           /\ attempts[k][n] \in AttemptRow
    BY LogTyped
  <1>2. {"lease_lost", "running"} \subseteq Outcomes
    BY DEF Outcomes
  <1>3. Ledger!Judge(Log(k), "lease_lost") = judged /\ judged \in [1..A -> Outcomes]
    <2>1. Ledger!Judge(Log(k), "lease_lost") = judged
      BY <1>2, JudgedLog
    <2>2. judged \in [1..A -> Outcomes]
      BY <1>1, <1>2
    <2> QED
      BY <2>1, <2>2
  <1>4. Append(judged, "running") =
          [n \in 1..(A + 1) |-> IF n = A + 1 THEN "running" ELSE judged[n]]
    BY <1>1, <1>2, <1>3, AppendOf
  <1>5. \A n \in 1..(A + 1) : attempts'[k][n].outcome =
          IF n = A + 1 THEN "running" ELSE judged[n]
    <2> SUFFICES ASSUME NEW n \in 1..(A + 1)
                 PROVE  attempts'[k][n].outcome = IF n = A + 1 THEN "running" ELSE judged[n]
      OBVIOUS
    <2>1. CASE n = A + 1
      BY <2>1 DEF ClaimedAttempts
    <2>2. CASE n # A + 1
      <3>1. n \in 1..A /\ n \in 1..AttemptBound
        BY <1>1, <2>2
      <3>2. attempts[k][n].outcome = "running" => n = A
        BY <3>1 DEF QueueInv, LeaseInv, OpenAttemptIsHeld
      <3>3. attempts'[k][n].outcome = IF attempts[k][n].outcome = "running" THEN "lease_lost"
                                      ELSE attempts[k][n].outcome
        BY <1>1, <2>2, <3>1 DEF ClaimedAttempts, AttemptRow
      <3>4. judged[n] = IF n = A /\ Log(k)[n] = "running" THEN "lease_lost" ELSE Log(k)[n]
        BY <3>1
      <3> QED
        BY <1>1, <2>2, <3>1, <3>2, <3>3, <3>4
    <2> QED
      BY <2>1, <2>2
  <1>6. Log(k)' = [n \in 1..(A + 1) |-> attempts'[k][n].outcome]
    BY DEF Log
  <1> HIDE DEF judged, A
  <1> QED
    BY <1>3, <1>4, <1>5, <1>6

\* The phase of a job whose status is known.
LEMMA PhaseOf ==
  ASSUME NEW k
  PROVE  /\ Reapable(k) => LedgerPhase(k) \in {"idle", "held"}
         /\ jobs[k].status = "leased" => LedgerPhase(k) = "held"
         /\ Terminal(k) => LedgerPhase(k) = "settled"
         /\ jobs[k].status \in {"absent", "ready", "retry_wait"} => LedgerPhase(k) = "idle"
         /\ LedgerPhase(k)' = IF jobs'[k].status = "leased" THEN "held"
                              ELSE IF jobs'[k].status \in {"succeeded", "dead", "cancelled",
                                                           "superseded"} THEN "settled"
                              ELSE "idle"
  BY DEF LedgerPhase, Terminal, Reapable, Waiting, LeaseExpired

LEMMA ClaimBatchLedger ==
  ASSUME QueueInv, NEW w \in Workers, NEW batch \in SUBSET Claimable, NEW locked,
         ClaimBatch(w, batch, locked), NEW k \in JobKeys
  PROVE  Ledger!JobStep(k)
  <1>1. /\ TypeOK /\ jobs[k] \in JobRow /\ Len(Log(k)) = jobs[k].attempts
        /\ jobs[k].token = jobs[k].attempts
    BY LogTyped DEF QueueInv, IntentInv, TypeInv, TypeOK, TokenCountsAttempts
  <1>2. ASSUME NEW status \in {"superseded", "dead"}, NEW outcome \in {"cancelled", "lease_lost"},
               Reapable(k), jobs'[k] = Closed(k, status),
               attempts'[k] = CloseAttempt(k, jobs[k].attempts, outcome)
        PROVE  Ledger!JobStep(k)
    <2>1. status \in Statuses \ {"absent"} /\ outcome \in Outcomes
      BY DEF Statuses, Outcomes
    <2>2. jobs'[k].status = status /\ jobs'[k].attempts = jobs[k].attempts
      BY <1>1, <1>2, <2>1, ClosedKeeps
    <2>3. Log(k)' = Ledger!Judge(Log(k), outcome)
      BY <1>2, <2>1, <2>2, ClosedLog
    <2>4. LedgerPhase(k) \in {"idle", "held"} /\ LedgerPhase(k)' = "settled"
      BY <1>2, <2>2, PhaseOf
    <2> QED
      BY <2>3, <2>4, LedgerSteps
  <1>3. CASE k \in Superseded \ locked
    BY <1>2, <1>3 DEF ClaimBatch, Superseded
  <1>4. CASE k \in Exhausted \ locked
    BY <1>2, <1>4 DEF ClaimBatch, Superseded, Exhausted
  <1>5. CASE k \in batch
    <2>1. k \in Claimable /\ jobs[k].attempts < jobs[k].maxAttempts /\ Reapable(k)
      BY <1>5 DEF Claimable
    <2>2. k \notin Superseded /\ k \notin Exhausted
      BY <1>1, <1>5, ParameterAssumption DEF Claimable, Superseded, Exhausted, JobRow, JobFields
    <2>3. jobs'[k] = ClaimedJob(k, w) /\ attempts'[k] = ClaimedAttempts(k)
      BY <1>5, <2>2 DEF ClaimBatch
    <2>4. jobs'[k].status = "leased" /\ jobs'[k].attempts = jobs[k].attempts + 1
      BY <1>1, <2>3 DEF ClaimedJob, JobRow, JobFields
    <2>5. jobs[k].attempts + 1 \in 1..AttemptBound
      BY <1>1, <2>1, JobRowClaimed
    <2>6. Log(k)' = Append(Ledger!Judge(Log(k), "lease_lost"), "running")
      BY <2>3, <2>4, <2>5, ClaimedLog
    <2>7. Len(Log(k)) < AttemptBound
      BY <1>1, <2>5, LogTyped, ParameterAssumption
    <2> QED
      BY <2>1, <2>4, <2>6, <2>7, PhaseOf, LedgerSteps
  <1>6. CASE k \notin (Superseded \cup Exhausted) \ locked /\ k \notin batch
    <2>1. jobs'[k] = jobs[k] /\ attempts'[k] = attempts[k]
      BY <1>6 DEF ClaimBatch
    <2> QED
      BY <2>1, LedgerSteps DEF LedgerPhase, Log, Terminal
  <1> QED
    BY <1>3, <1>4, <1>5, <1>6

LEMMA UntouchedLedger ==
  ASSUME NEW k \in JobKeys, jobs'[k].attempts = jobs[k].attempts, attempts'[k] = attempts[k],
         jobs'[k].status = jobs[k].status
  PROVE  Ledger!JobStep(k)
  BY LedgerSteps DEF LedgerPhase, Log, Terminal

\* A job that is not leased is queued, or queued again.
LEMMA QueuedLedger ==
  ASSUME NEW k \in JobKeys, jobs'[k].attempts = jobs[k].attempts, attempts'[k] = attempts[k],
         jobs[k].status # "leased", jobs'[k].status = "ready"
  PROVE  Ledger!JobStep(k)
  <1>1. Log(k)' = Log(k) /\ LedgerPhase(k)' = "idle"
    BY PhaseOf DEF Log
  <1>2. LedgerPhase(k) \in {"idle", "settled"}
    BY DEF LedgerPhase
  <1> QED
    BY <1>1, <1>2, LedgerSteps

LEMMA FinishLedger ==
  ASSUME QueueInv, NEW r \in runs, NEW held, held => Holds(r),
         NEW status \in {"succeeded", "dead", "retry_wait", "ready"},
         NEW outcome \in {"succeeded", "permanent_error", "retryable_error", "cancelled"},
         Finish(r, held, status, outcome), NEW k \in JobKeys
  PROVE  Ledger!JobStep(k)
  <1>1. /\ TypeOK /\ jobs \in [JobKeys -> JobRow] /\ DOMAIN attempts = JobKeys
        /\ r.job \in JobKeys /\ r.attempt \in 1..AttemptBound
    BY TypedRows DEF QueueInv, IntentInv, TypeInv, TypeOK, Runs
  <1>2. ASSUME AttemptOpen(r), jobs[r.job].attempts = r.attempt, k = r.job
        PROVE  Ledger!Running(Log(k))
    <2>1. /\ jobs[k].attempts \in Nat /\ Log(k) \in [1..jobs[k].attempts -> Outcomes]
          /\ jobs[k].attempts \in 1..jobs[k].attempts
          /\ Log(k)[jobs[k].attempts] = attempts[k][jobs[k].attempts].outcome
      BY <1>1, <1>2, LogTyped, ParameterAssumption
    <2>2. jobs[k].attempts > 0 /\ Log(k)[jobs[k].attempts] = "running"
      BY <1>2, <2>1 DEF AttemptOpen
    <2> QED
      BY <2>1, <2>2, RunningOf
  <1>3. CASE RecordLeaseLost(r)
    <2>1. UNCHANGED jobs
      BY <1>3 DEF RecordLeaseLost
    <2>2. CASE attempts'[k] = attempts[k]
      BY <2>1, <2>2, UntouchedLedger
    <2>3. CASE attempts'[k] # attempts[k]
      <3>1. /\ AttemptOpen(r) /\ k = r.job
            /\ attempts'[k] = CloseAttempt(k, r.attempt, "lease_lost")
        BY <1>1, <1>3, <2>3 DEF RecordLeaseLost
      <3>2. jobs[k].status = "leased" /\ jobs[k].attempts = r.attempt
        BY <1>1, <3>1 DEF QueueInv, LeaseInv, OpenAttemptIsHeld, AttemptOpen
      <3>3. "lease_lost" \in Outcomes /\ jobs'[k] = jobs[k]
        BY <2>1 DEF Outcomes
      <3>4. Log(k)' = Ledger!Judge(Log(k), "lease_lost")
        BY <3>1, <3>2, <3>3, ClosedLog
      <3> QED
        BY <1>2, <3>1, <3>2, <3>3, <3>4, PhaseOf, LedgerSteps
    <2> QED
      BY <2>2, <2>3
  <1>4. ASSUME NEW s \in {"succeeded", "dead", "retry_wait", "ready", "superseded"},
               NEW o \in {"succeeded", "permanent_error", "retryable_error", "cancelled"},
               Holds(r), AttemptOpen(r), jobs[r.job].attempts = r.attempt, SettleAs(r, s, o)
        PROVE  Ledger!JobStep(k)
    <2>1. CASE k # r.job
      <3>1. jobs'[k] = jobs[k] /\ attempts'[k] = attempts[k]
        BY <1>1, <1>4, <2>1 DEF SettleAs
      <3> QED
        BY <3>1, UntouchedLedger
    <2>2. CASE k = r.job
      <3>1. jobs'[k] = Closed(k, s) /\ attempts'[k] = CloseAttempt(k, r.attempt, o)
        BY <1>1, <1>4, <2>2 DEF SettleAs
      <3>2. s \in Statuses \ {"absent"} /\ o \in Outcomes /\ o \in Ledger!Verdicts
        BY DEF Statuses, Outcomes, Ledger!Verdicts
      <3>3. jobs'[k].status = s /\ jobs'[k].attempts = jobs[k].attempts
        BY <1>1, <3>1, <3>2, ClosedKeeps
      <3>4. Log(k)' = Ledger!Judge(Log(k), o)
        BY <1>4, <2>2, <3>1, <3>2, <3>3, ClosedLog
      <3>5. LedgerPhase(k) = "held" /\ LedgerPhase(k)' \in {"idle", "settled"}
        BY <1>4, <2>2, <3>3, PhaseOf DEF Holds
      <3> QED
        BY <1>2, <1>4, <2>2, <3>2, <3>4, <3>5, LedgerSteps
    <2> QED
      BY <2>1, <2>2
  <1>5. CASE /\ Holds(r) /\ AttemptOpen(r) /\ jobs[r.job].attempts = r.attempt
             /\ SettleAs(r, status, outcome)
    BY <1>4, <1>5
  <1>6. CASE /\ Holds(r) /\ AttemptOpen(r) /\ jobs[r.job].attempts = r.attempt
             /\ SettleAs(r, "superseded", "cancelled")
    BY <1>4, <1>6
  <1> QED
    BY <1>3, <1>5, <1>6 DEF Finish

LEMMA EnqueuedLedger ==
  ASSUME QueueInv, NEW i \in Instances, NEW op \in Operations,
         instances[i].generation < MaxGeneration,
         Enqueue(i, instances[i].generation + 1, op), UNCHANGED attempts, NEW k \in JobKeys
  PROVE  Ledger!JobStep(k)
  <1> DEFINE new == [instance |-> i, generation |-> instances[i].generation + 1,
                     operation |-> op]
             row == [AbsentJob EXCEPT !.status = "ready",
                                      !.desired = IF op = "ensure" THEN "running" ELSE "stopped"]
  <1>1. jobs \in [JobKeys -> JobRow] /\ instances[i].generation \in Nat
    BY ParameterAssumption DEF QueueInv, IntentInv, TypeInv, TypeOK, InstanceRow
  <1>2. jobs' = [jobs EXCEPT ![new] = row]
    BY DEF Enqueue
  <1>3. row.status = "ready" /\ row.attempts = 0
    BY DEF AbsentJob
  <1>4. new.instance = i /\ new.generation = instances[i].generation + 1
    OBVIOUS
  <1> HIDE DEF new, row
  <1>5. CASE k = new
    <2>1. k.generation > instances[k.instance].generation
      BY <1>1, <1>4, <1>5
    <2>2. jobs[k].status = "absent" /\ jobs[k].attempts = 0
      BY <2>1 DEF QueueInv, IntentInv, TypeInv, FutureAbsent, AbsentUntouched, TokenCountsAttempts
    <2>3. jobs'[k] = row
      BY <1>1, <1>2, <1>5
    <2> QED
      BY <1>3, <2>2, <2>3, QueuedLedger
  <1>6. CASE k # new
    <2>1. jobs'[k] = jobs[k]
      BY <1>1, <1>2, <1>6
    <2> QED
      BY <2>1, UntouchedLedger
  <1> QED
    BY <1>5, <1>6

\* Every transaction and every step of a worker is a step of the ledger.
LEMMA StepLedger ==
  ASSUME QueueInv, Next, NEW k \in JobKeys
  PROVE  Ledger!JobStep(k)
  <1>1. /\ TypeOK /\ jobs \in [JobKeys -> JobRow] /\ jobs[k] \in JobRow
        /\ \A r \in runs : r.job \in JobKeys
    BY TypedRows DEF QueueInv, IntentInv, TypeInv, TypeOK
  <1>2. CASE UNCHANGED <<jobs, attempts>>
    BY <1>2, UntouchedLedger
  <1>3. ASSUME NEW i \in Instances, Command(i)
        PROVE  Ledger!JobStep(k)
    <2>1. CASE Start(i) \/ Renew(i) \/ Destroy(i)
      BY <2>1, EnqueuedLedger DEF Start, Renew, Destroy, EnsureGeneration, Operations
    <2>2. CASE EnqueueReconcile(i)
      <3> DEFINE q == [instance |-> i, generation |-> instances[i].generation,
                       operation |-> "reconcile"]
      <3>1. CASE k # q
        <4>1. jobs'[k] = jobs[k] /\ attempts'[k] = attempts[k]
          BY <1>1, <2>2, <3>1 DEF EnqueueReconcile
        <4> QED
          BY <4>1, UntouchedLedger
      <3>2. CASE k = q
        <4>1. /\ jobs[k].status # "leased" /\ jobs'[k].status = "ready"
              /\ jobs'[k].attempts = jobs[k].attempts /\ attempts'[k] = attempts[k]
          BY <1>1, <2>2, <3>2 DEF EnqueueReconcile, JobRow, JobFields
        <4> QED
          BY <4>1, QueuedLedger
      <3> QED
        BY <3>1, <3>2
    <2> QED
      BY <1>3, <2>1, <2>2 DEF Command
  <1>4. ASSUME NEW j \in JobKeys, ReplayDeadLetter(j)
        PROVE  Ledger!JobStep(k)
    <2>1. CASE k # j
      <3>1. jobs'[k] = jobs[k] /\ attempts'[k] = attempts[k]
        BY <1>1, <1>4, <2>1 DEF ReplayDeadLetter
      <3> QED
        BY <3>1, UntouchedLedger
    <2>2. CASE k = j
      <3>1. /\ jobs[k].status # "leased" /\ jobs'[k].status = "ready"
            /\ jobs'[k].attempts = jobs[k].attempts /\ attempts'[k] = attempts[k]
        BY <1>1, <1>4, <2>2 DEF ReplayDeadLetter, JobRow, JobFields
      <3> QED
        BY <3>1, QueuedLedger
    <2> QED
      BY <2>1, <2>2
  <1>5. ASSUME NEW j \in JobKeys, NEW lease, jobs' = [jobs EXCEPT ![j].lease = lease],
               UNCHANGED attempts
        PROVE  Ledger!JobStep(k)
    <2>1. /\ jobs'[k].status = jobs[k].status /\ jobs'[k].attempts = jobs[k].attempts
          /\ attempts'[k] = attempts[k]
      BY <1>1, <1>5 DEF JobRow, JobFields
    <2> QED
      BY <2>1, UntouchedLedger
  <1>6. ASSUME NEW j \in JobKeys, LeaseClock(j)
        PROVE  Ledger!JobStep(k)
    <2> DEFINE lease == jobs[j].lease - 1
    <2>1. jobs' = [jobs EXCEPT ![j].lease = lease] /\ UNCHANGED attempts
      BY <1>1, <1>6 DEF LeaseClock
    <2> HIDE DEF lease
    <2> QED
      BY <1>5, <2>1
  <1>7. ASSUME NEW r \in runs, RenewLease(r)
        PROVE  Ledger!JobStep(k)
    BY <1>1, <1>5, <1>7 DEF RenewLease
  <1>8. ASSUME NEW r \in runs, Complete(r) \/ Fail(r) \/ Interrupt(r)
        PROVE  Ledger!JobStep(k)
    <2>1. HoldsUnexpired(r) => Holds(r)
      BY DEF HoldsUnexpired
    <2>2. CASE Complete(r)
      BY <2>1, <2>2, FinishLedger DEF Complete
    <2>3. CASE Fail(r)
      <3>1. (IF LastAttempt(r) THEN "dead" ELSE "retry_wait")
              \in {"succeeded", "dead", "retry_wait", "ready"}
        OBVIOUS
      <3> QED
        BY <2>1, <2>3, <3>1, FinishLedger DEF Fail
    <2>4. CASE Interrupt(r)
      BY <2>4, FinishLedger DEF Interrupt
    <2> QED
      BY <1>8, <2>2, <2>3, <2>4
  <1>9. ASSUME NEW r \in runs, Process(r)
        PROVE  Ledger!JobStep(k)
    BY <1>2, <1>8, <1>9 DEF Process, ProviderAnswers, ProviderFails, RecordObservation
  <1> QED
    BY <1>2, <1>3, <1>4, <1>6, <1>7, <1>9, ClaimBatchLedger
    DEF Next, LifetimeClock, Crash, BeginInterrupt, FinalizationLost, ReconcilerObserves

\* The two tables, with their leases, tokens and generations, implement the
\* append-only ledger of attempts: outcomes are written once, attempts are
\* numbered without gaps, only a held job has a running attempt and only that one
\* can settle it.  Workers may crash, renew, lose leases and finish late.
THEOREM LedgerIsImplemented == Spec => ImplementsLedger
  <1>1. Init => Ledger!LedgerInit
    <2> SUFFICES ASSUME Init PROVE Ledger!LedgerInit
      OBVIOUS
    <2>1. \A k \in JobKeys : jobs[k].attempts = 0 /\ jobs[k].status = "absent"
      BY DEF Init, AbsentJob
    <2>2. \A k \in JobKeys : LedgerPhase(k) = "idle" /\ Log(k) = <<>>
      <3> SUFFICES ASSUME NEW k \in JobKeys PROVE LedgerPhase(k) = "idle" /\ Log(k) = <<>>
        OBVIOUS
      <3>1. QueueInv
        BY InitIntent, InitLeases DEF QueueInv
      <3>2. Log(k) \in Seq(Outcomes) /\ Len(Log(k)) = 0
        BY <2>1, <3>1, LogTyped, LenOf
      <3>3. Log(k) = <<>>
        BY <3>2, EmptySeq
      <3> QED
        BY <2>1, <3>3, PhaseOf
    <2> QED
      BY <2>2 DEF Ledger!LedgerInit, LedgerPhase, Log
  <1>2. QueueInv /\ [Next]_vars => [Ledger!LedgerNext]_(Ledger!ledgerVars)
    <2> SUFFICES ASSUME QueueInv, [Next]_vars PROVE [Ledger!LedgerNext]_(Ledger!ledgerVars)
      OBVIOUS
    <2>1. CASE Next
      BY <2>1, StepLedger, LedgerTogether
    <2>2. CASE UNCHANGED vars
      BY <2>2 DEF vars, Ledger!ledgerVars, Terminal
    <2> QED
      BY <2>1, <2>2
  <1> QED
    BY <1>1, <1>2, QueueInvariant, PTL DEF Spec, ImplementsLedger, Ledger!LedgerSpec

=============================================================================
