----------------------- MODULE InstanceLifecycleProofs -----------------------
(***************************************************************************)
(* Theorems about InstanceLifecycle for every value of its constants.      *)
(***************************************************************************)
EXTENDS InstanceLifecycle, InstanceJobsProofs

-----------------------------------------------------------------------------
(* The inductive invariant *)

\* Whether a row asks for no container: ShouldStop, of the row.
Stops(row) == row.desired = "stopped" \/ row.lifetime \notin {"fresh", "renewable"}

\* An instance that is meant to be stopped has no lifetime.
StoppedHasNoLifetime ==
  \A i \in Instances : instances[i].desired = "stopped" => instances[i].lifetime = "none"

\* A snapshot is of the current generation or an earlier one; of the current one
\* it says no more than still is true.
RowsBehind(c, rows) ==
  \A i \in Instances :
    /\ c.rows[i].generation <= rows[i].generation
    /\ c.rows[i].generation > 0 /\ c.rows[i].generation = rows[i].generation =>
         IF c.rows[i].stop THEN Stops(rows[i]) ELSE rows[i].desired = "running"

\* A write back is of the generation of the snapshot, reports what the snapshot
\* asked for, and names a container made for that generation.
WriteFits(c, x, M) ==
  LET s == c.rows[x.name.instance]
      o == x.observation
  IN /\ x.name.generation = s.generation
     /\ o.state \in (IF s.stop THEN {"stopped"} ELSE {"running", "unready"})
     /\ o.state = "running" => o.resource # NoResource
     /\ o.state = "stopped" => o.resource = NoResource
     /\ o.resource # NoResource => [name |-> x.name, id |-> o.resource] \in M

\* An instance without a row is not ensured.
EnsuresRows(c) == \A i \in Instances \ c.done : c.rows[i].generation # 0

CycleFits(c, rows, M) ==
  /\ RowsBehind(c, rows)
  /\ \A x \in c.writes : WriteFits(c, x, M)
  /\ c.phase \in {"idle", "listed"} => c.writes = {}
  /\ c.phase = "ensuring" => EnsuresRows(c)

CyclesFit == \A w \in Workers : CycleFits(cycles[w], instances, made)

\* What a worker has observed for a job was made for it.
RunsFit ==
  \A r \in runs : r.observation.resource # NoResource =>
    [name |-> NameOf(r.job), id |-> r.observation.resource] \in made

\* Containers and snapshots are well formed; a container that exists
\* was made under its name, and an id names one container for ever.
LifecycleTypeOK ==
  /\ containers \in [Names -> ResourceIds \cup {NoResource}]
  /\ made \subseteq Containers
  /\ cycles \in [Workers -> Cycles]
  /\ Listed \subseteq made
  /\ \A c, d \in made : c.id = d.id => c = d

LifeInv ==
  /\ QueueInv /\ StoppedHasNoLifetime
  /\ LifecycleTypeOK /\ CyclesFit /\ RunsFit
  /\ ResourceIsOwn

-----------------------------------------------------------------------------
(* Types *)

LEMMA RowTypes ==
  ASSUME QueueInv
  PROVE  /\ instances \in [Instances -> InstanceRow]
         /\ \A i \in Instances : /\ instances[i] \in InstanceRow
                                 /\ instances[i].generation \in Nat
  BY ParameterAssumption DEF QueueInv, IntentInv, TypeInv, TypeOK, InstanceRow

LEMMA RunNames ==
  ASSUME QueueInv, NEW r \in runs
  PROVE  /\ r \in Runs /\ r.job \in JobKeys /\ r.job.instance \in Instances
         /\ NameOf(r.job) \in Names
         /\ NameOf(r.job).instance = r.job.instance
         /\ NameOf(r.job).generation = r.job.generation
  BY TypedRows DEF QueueInv, IntentInv, TypeInv, JobKeys, NameOf, Names

LEMMA CycleFields ==
  ASSUME NEW c \in Cycles
  PROVE  /\ c.phase \in {"idle", "listed", "sweeping", "ensuring"}
         /\ c.rows \in [Instances -> Snapshots]
         /\ c.todo \subseteq Containers /\ c.done \subseteq Instances
         /\ c.writes \subseteq Writes
         /\ \A i \in Instances : /\ c.rows[i] \in Snapshots
                                 /\ c.rows[i].generation \in 0..MaxGeneration
                                 /\ c.rows[i].generation \in Nat
                                 /\ c.rows[i].stop \in BOOLEAN
         /\ \A d \in c.todo : d.name \in Names /\ d.name.instance \in Instances
         /\ \A x \in c.writes : /\ x.name \in Names /\ x.name.instance \in Instances
                                /\ x.name.generation \in Generations
                                /\ x.expected \in ResourceIds \cup {NoResource}
                                /\ x.observation \in Observations
  BY ParameterAssumption DEF Cycles, Snapshots, Containers, Writes, Names

LEMMA IdleCycleTyped == IdleCycle \in Cycles
  <1>1. NoSnapshot \in Snapshots
    BY ParameterAssumption DEF NoSnapshot, Snapshots
  <1> QED
    BY <1>1 DEF IdleCycle, Cycles

LEMMA NamesAreNames ==
  ASSUME NEW i \in Instances, NEW g \in Generations
  PROVE  /\ [instance |-> i, generation |-> g] \in Names
         /\ [instance |-> i, generation |-> g].instance = i
         /\ [instance |-> i, generation |-> g].generation = g
  BY DEF Names

-----------------------------------------------------------------------------
(* How rows move *)

\* A row's generation never goes back; within a generation its intent stays and
\* a row that asks for no container goes on asking for none.
RowMoves(old, new) ==
  /\ old.generation <= new.generation
  /\ old.generation = new.generation =>
       /\ new.desired = old.desired
       /\ Stops(old) => Stops(new)
  /\ (old.desired = "stopped" => old.lifetime = "none")
       => (new.desired = "stopped" => new.lifetime = "none")

LEMMA RowStays ==
  ASSUME NEW row \in InstanceRow
  PROVE  RowMoves(row, row)
  BY ParameterAssumption DEF RowMoves, InstanceRow

LEMMA RowEnsuredMoves ==
  ASSUME NEW row \in InstanceRow
  PROVE  RowMoves(row, [row EXCEPT !.desired = "running", !.generation = row.generation + 1,
                     !.observed = "pending", !.lifetime = "fresh", !.resource = NoResource,
                     !.entrypoints = 0])
  BY ParameterAssumption DEF RowMoves, InstanceRow

LEMMA RowDestroyedMoves ==
  ASSUME NEW row \in InstanceRow
  PROVE  RowMoves(row, [row EXCEPT !.desired = "stopped", !.generation = row.generation + 1,
                     !.observed = "stopping", !.lifetime = "none", !.entrypoints = 0])
  BY ParameterAssumption DEF RowMoves, InstanceRow

LEMMA RowObservedMoves ==
  ASSUME NEW row \in InstanceRow, NEW o, NEW g
  PROVE  RowMoves(row, Observed(row, o, g))
  BY ParameterAssumption DEF RowMoves, InstanceRow, Observed, Stops

LEMMA RowAgedMoves ==
  ASSUME NEW row \in InstanceRow, row.lifetime \in {"fresh", "renewable"}, NEW lifetime
  PROVE  RowMoves(row, [row EXCEPT !.lifetime = lifetime])
  BY ParameterAssumption DEF RowMoves, InstanceRow, Stops

LEMMA RowsMove ==
  ASSUME QueueInv, [Next]_vars, NEW i \in Instances
  PROVE  RowMoves(instances[i], instances'[i])
  <1>1. instances \in [Instances -> InstanceRow] /\ instances[i] \in InstanceRow
    BY RowTypes
  <1>2. ASSUME NEW j \in Instances, NEW row, instances' = [instances EXCEPT ![j] = row],
               RowMoves(instances[j], row)
        PROVE  RowMoves(instances[i], instances'[i])
    BY <1>1, <1>2, RowStays
  <1>3. ASSUME UNCHANGED instances
        PROVE  RowMoves(instances[i], instances'[i])
    BY <1>1, <1>3, RowStays
  <1>4. ASSUME NEW j \in Instances, EnsureGeneration(j)
        PROVE  RowMoves(instances[i], instances'[i])
    BY <1>1, <1>2, <1>4, RowEnsuredMoves DEF EnsureGeneration
  <1>5. ASSUME NEW j \in Instances, Command(j)
        PROVE  RowMoves(instances[i], instances'[i])
    <2>1. CASE Start(j) \/ Renew(j)
      BY <1>4, <2>1 DEF Start, Renew
    <2>2. CASE Destroy(j)
      BY <1>1, <1>2, <2>2, RowDestroyedMoves DEF Destroy
    <2>3. CASE EnqueueReconcile(j)
      BY <1>3, <2>3 DEF EnqueueReconcile
    <2> QED
      BY <1>5, <2>1, <2>2, <2>3 DEF Command
  <1>6. ASSUME NEW j \in Instances, LifetimeClock(j)
        PROVE  RowMoves(instances[i], instances'[i])
    <2> DEFINE lifetime == IF instances[j].lifetime = "fresh" THEN "renewable" ELSE "expired"
    <2>1. instances' = [instances EXCEPT ![j] = [instances[j] EXCEPT !.lifetime = lifetime]]
      BY <1>6 DEF LifetimeClock
    <2>2. RowMoves(instances[j], [instances[j] EXCEPT !.lifetime = lifetime])
      BY <1>1, <1>6, RowAgedMoves DEF LifetimeClock, Unexpired
    <2> QED
      BY <1>2, <2>1, <2>2
  <1>7. ASSUME NEW j \in Instances, NEW g, NEW e, NEW o, ReconcilerObserves(j, g, e, o)
        PROVE  RowMoves(instances[i], instances'[i])
    BY <1>1, <1>2, <1>7, RowObservedMoves DEF ReconcilerObserves
  <1>8. ASSUME NEW r \in runs, RecordObservation(r)
        PROVE  RowMoves(instances[i], instances'[i])
    <2>1. r.job.instance \in Instances
      BY RunNames
    <2>2. CASE UNCHANGED instances
      BY <1>3, <2>2
    <2>3. CASE instances' = [instances EXCEPT ![r.job.instance] =
                               Observed(@, r.observation, r.job.generation)]
      BY <1>1, <1>2, <2>1, <2>3, RowObservedMoves
    <2> QED
      BY <1>8, <2>2, <2>3 DEF RecordObservation
  <1>9. ASSUME NEW r \in runs, Process(r)
        PROVE  RowMoves(instances[i], instances'[i])
    BY <1>3, <1>8, <1>9
       DEF Process, ProviderAnswers, ProviderFails, Complete, Fail, Interrupt, Finish
  <1> QED
    BY <1>3, <1>5, <1>6, <1>7, <1>9
       DEF Next, vars, ReplayDeadLetter, LeaseClock, Crash, ClaimBatch, RenewLease,
           BeginInterrupt, FinalizationLost

\* What fits goes on fitting while rows move and containers are made.
LEMMA CycleStays ==
  ASSUME NEW c \in Cycles, NEW rows \in [Instances -> InstanceRow],
         NEW next \in [Instances -> InstanceRow],
         \A i \in Instances : RowMoves(rows[i], next[i]),
         NEW M, NEW N, M \subseteq N, CycleFits(c, rows, M)
  PROVE  CycleFits(c, next, N)
  <1>1. RowsBehind(c, next)
    <2> SUFFICES ASSUME NEW i \in Instances
                 PROVE  /\ c.rows[i].generation <= next[i].generation
                        /\ c.rows[i].generation > 0
                             /\ c.rows[i].generation = next[i].generation =>
                             IF c.rows[i].stop THEN Stops(next[i]) ELSE next[i].desired = "running"
      BY DEF RowsBehind
    <2>1. /\ c.rows[i].generation \in Nat /\ rows[i].generation \in Nat
          /\ next[i].generation \in Nat
      BY CycleFields, ParameterAssumption DEF InstanceRow
    <2>2. /\ c.rows[i].generation <= rows[i].generation
          /\ c.rows[i].generation > 0 /\ c.rows[i].generation = rows[i].generation =>
               IF c.rows[i].stop THEN Stops(rows[i]) ELSE rows[i].desired = "running"
      BY DEF CycleFits, RowsBehind
    <2>3. /\ rows[i].generation <= next[i].generation
          /\ rows[i].generation = next[i].generation =>
               next[i].desired = rows[i].desired /\ (Stops(rows[i]) => Stops(next[i]))
      BY DEF RowMoves
    <2>4. c.rows[i].generation <= next[i].generation
      BY <2>1, <2>2, <2>3
    <2>5. c.rows[i].generation = next[i].generation =>
            c.rows[i].generation = rows[i].generation /\ rows[i].generation = next[i].generation
      BY <2>1, <2>2, <2>3
    <2> QED
      BY <2>2, <2>3, <2>4, <2>5
  <1>2. \A x \in c.writes : WriteFits(c, x, N)
    BY DEF CycleFits, WriteFits
  <1> QED
    BY <1>1, <1>2 DEF CycleFits

-----------------------------------------------------------------------------
(* The parts of the invariant, and the steps that leave them alone *)

StoreOK ==
  /\ containers \in [Names -> ResourceIds \cup {NoResource}]
  /\ made \subseteq Containers
  /\ Listed \subseteq made
  /\ \A c, d \in made : c.id = d.id => c = d

LEMMA StoreStays ==
  ASSUME StoreOK, UNCHANGED <<containers, made>>
  PROVE  StoreOK'
  BY DEF StoreOK, Listed

LEMMA CreateKeeps ==
  ASSUME StoreOK, NEW n \in Names, CreateContainer(n)
  PROVE  /\ StoreOK' /\ made \subseteq made'
         /\ \A m \in Names : Present(m) => containers'[m] = containers[m]
  <1>1. PICK id \in ResourceIds \ {c.id : c \in made} :
          /\ ~Present(n)
          /\ containers' = [containers EXCEPT ![n] = id]
          /\ made' = made \cup {[name |-> n, id |-> id]}
    BY DEF CreateContainer
  <1> DEFINE new == [name |-> n, id |-> id]
  <1>2. /\ containers \in [Names -> ResourceIds \cup {NoResource}] /\ made \subseteq Containers
        /\ \A c \in Containers : containers[c.name] = c.id => c \in made
        /\ \A c, d \in made : c.id = d.id => c = d
    BY DEF StoreOK, Listed
  <1>3. new \in Containers /\ new.name = n /\ new.id = id
    BY DEF Containers
  <1>4. \A c \in Containers : c.name = n /\ c.id = id => c = new
    BY DEF Containers
  <1>5. \A c \in made : c.id # id
    BY <1>1
  <1> HIDE DEF new
  <1>6. \A c \in Containers : containers'[c.name] = c.id => c \in made'
    <2> SUFFICES ASSUME NEW c \in Containers, containers'[c.name] = c.id
                 PROVE  c \in made'
      OBVIOUS
    <2>1. c.name \in Names
      BY DEF Containers
    <2>2. CASE c.name = n
      BY <1>1, <1>2, <1>4, <2>2 DEF new
    <2>3. CASE c.name # n
      BY <1>1, <1>2, <2>1, <2>3
    <2> QED
      BY <2>2, <2>3
  <1>7. containers' \in [Names -> ResourceIds \cup {NoResource}]
    BY <1>1, <1>2
  <1>8. made' \subseteq Containers /\ \A c, d \in made' : c.id = d.id => c = d
    BY <1>1, <1>2, <1>3, <1>5 DEF new
  <1>9. \A m \in Names : Present(m) => containers'[m] = containers[m]
    BY <1>1, <1>2 DEF Present
  <1> QED
    BY <1>1, <1>6, <1>7, <1>8, <1>9 DEF StoreOK, Listed

LEMMA RemoveKeeps ==
  ASSUME StoreOK, NEW n \in Names, RemoveContainer(n)
  PROVE  /\ StoreOK' /\ UNCHANGED made
         /\ \A m \in Names \ {n} : containers'[m] = containers[m]
  <1>1. containers' = [containers EXCEPT ![n] = NoResource] /\ made' = made
    BY DEF RemoveContainer
  <1>2. containers \in [Names -> ResourceIds \cup {NoResource}]
    BY DEF StoreOK
  <1>3. ASSUME NEW c \in Containers, containers'[c.name] = c.id
        PROVE  containers[c.name] = c.id
    <2>1. c.name \in Names /\ c.id # NoResource
      BY ParameterAssumption DEF Containers
    <2> QED
      BY <1>1, <1>2, <1>3, <2>1
  <1>4. Listed' \subseteq made'
    BY <1>1, <1>3 DEF StoreOK, Listed
  <1> QED
    BY <1>1, <1>2, <1>4 DEF StoreOK

\* What a present container is called and what its health report says.
LEMMA PresentIsMade ==
  ASSUME StoreOK, NEW n \in Names, Present(n)
  PROVE  /\ containers[n] \in ResourceIds /\ [name |-> n, id |-> containers[n]] \in made
         /\ \A o \in HealthOf(n) :
              /\ o \in Observations /\ o.state \in {"running", "unready"}
              /\ o.resource = containers[n] /\ o.resource # NoResource
  <1>1. containers[n] \in ResourceIds /\ containers[n] # NoResource
    BY DEF StoreOK, Present
  <1>2. [name |-> n, id |-> containers[n]] \in Listed
    BY <1>1 DEF Listed, Containers
  <1>3. \A o \in HealthOf(n) :
          /\ o \in Observations /\ o.state \in {"running", "unready"}
          /\ o.resource = containers[n] /\ o.resource # NoResource
    BY <1>1 DEF HealthOf, Observations, ObservedStates
  <1> QED
    BY <1>1, <1>2, <1>3 DEF StoreOK

LEMMA GoneAndMissing ==
  /\ Gone \in Observations /\ Gone.state = "stopped" /\ Gone.resource = NoResource
  /\ Missing \in Observations /\ Missing.state = "unready" /\ Missing.resource = NoResource
  BY DEF Gone, Missing, Observations, ObservedStates

LEMMA Parts ==
  ASSUME LifeInv
  PROVE  /\ QueueInv /\ StoppedHasNoLifetime /\ StoreOK /\ RunsFit /\ ResourceIsOwn
         /\ cycles \in [Workers -> Cycles]
         /\ \A w \in Workers : cycles[w] \in Cycles /\ CycleFits(cycles[w], instances, made)
  BY DEF LifeInv, LifecycleTypeOK, StoreOK, CyclesFit

LEMMA Together ==
  ASSUME LifeInv, [Next]_vars, StoreOK', cycles' \in [Workers -> Cycles], CyclesFit',
         RunsFit', ResourceIsOwn'
  PROVE  LifeInv'
  <1>1. QueueInv'
    BY StepLeases DEF LifeInv
  <1>2. \A i \in Instances : instances'[i].desired = "stopped" => instances'[i].lifetime = "none"
    BY Parts, RowsMove DEF StoppedHasNoLifetime, RowMoves
  <1> QED
    BY <1>1, <1>2 DEF LifeInv, StoppedHasNoLifetime, LifecycleTypeOK, StoreOK

LEMMA CycleMoves ==
  ASSUME LifeInv, [Next]_vars, made \subseteq made', NEW w \in Workers, NEW c \in Cycles,
         CycleFits(c, instances, made), SetCycle(w, c)
  PROVE  cycles' \in [Workers -> Cycles] /\ CyclesFit'
  <1>1. cycles' = [cycles EXCEPT ![w] = c] /\ cycles \in [Workers -> Cycles]
    BY Parts DEF SetCycle
  <1>2. /\ instances \in [Instances -> InstanceRow] /\ instances' \in [Instances -> InstanceRow]
        /\ \A i \in Instances : RowMoves(instances[i], instances'[i])
    <2>1. QueueInv /\ QueueInv'
      BY Parts, StepLeases
    <2> QED
      BY <2>1, RowsMove DEF QueueInv, IntentInv, TypeInv, TypeOK
  <1>3. \A v \in Workers : cycles'[v] \in Cycles /\ CycleFits(cycles'[v], instances, made)
    BY <1>1, Parts
  <1>4. \A v \in Workers : CycleFits(cycles'[v], instances', made')
    BY <1>2, <1>3, CycleStays
  <1> QED
    BY <1>1, <1>4 DEF CyclesFit

LEMMA CyclesStay ==
  ASSUME LifeInv, [Next]_vars, made \subseteq made', UNCHANGED cycles
  PROVE  cycles' \in [Workers -> Cycles] /\ CyclesFit'
  <1>1. /\ instances \in [Instances -> InstanceRow] /\ instances' \in [Instances -> InstanceRow]
        /\ \A i \in Instances : RowMoves(instances[i], instances'[i])
    <2>1. QueueInv /\ QueueInv'
      BY Parts, StepLeases
    <2> QED
      BY <2>1, RowsMove DEF QueueInv, IntentInv, TypeInv, TypeOK
  <1>2. \A v \in Workers : CycleFits(cycles[v], instances', made')
    BY <1>1, Parts, CycleStays
  <1> QED
    BY <1>2, Parts DEF CyclesFit

LEMMA RunsStay ==
  ASSUME RunsFit, made \subseteq made',
         \A r \in runs' : \/ r.observation = NoObservation
                          \/ \E q \in runs : r.job = q.job /\ r.observation = q.observation
  PROVE  RunsFit'
  <1>1. NoObservation.resource = NoResource
    BY DEF NoObservation
  <1> SUFFICES ASSUME NEW r \in runs', r.observation.resource # NoResource
               PROVE  [name |-> NameOf(r.job), id |-> r.observation.resource] \in made'
    BY DEF RunsFit
  <1>2. PICK q \in runs : r.job = q.job /\ r.observation = q.observation
    BY <1>1
  <1> QED
    BY <1>2 DEF RunsFit

\* A row's resource is its own.
Own(i, row, M) ==
  row.resource # NoResource =>
    /\ [name |-> [instance |-> i, generation |-> row.observedGeneration],
        id |-> row.resource] \in M
    /\ row.desired = "running" => row.observedGeneration = row.generation

LEMMA RowsStay ==
  ASSUME ResourceIsOwn, made \subseteq made', UNCHANGED instances
  PROVE  ResourceIsOwn'
  BY DEF ResourceIsOwn

LEMMA ObservedOwn ==
  ASSUME NEW i, NEW row \in InstanceRow, NEW o, NEW M,
         o.resource # NoResource =>
           [name |-> [instance |-> i, generation |-> row.generation], id |-> o.resource] \in M
  PROVE  Own(i, Observed(row, o, row.generation), M)
  BY DEF Own, Observed, InstanceRow

LEMMA RowSet ==
  ASSUME LifeInv, made \subseteq made', NEW i \in Instances, NEW row, Own(i, row, made'),
         instances' = [instances EXCEPT ![i] = row]
  PROVE  ResourceIsOwn'
  <1>1. instances \in [Instances -> InstanceRow] /\ ResourceIsOwn
    BY RowTypes DEF LifeInv
  <1> SUFFICES ASSUME NEW j \in Instances
               PROVE  Own(j, instances'[j], made')
    BY DEF ResourceIsOwn, Own
  <1>2. Own(j, instances[j], made')
    BY <1>1 DEF ResourceIsOwn, Own
  <1> QED
    BY <1>1, <1>2
-----------------------------------------------------------------------------
(* Every step is one the queue allows *)

LEMMA AnswersAllowed ==
  ASSUME LifeInv, NEW r \in runs,
         EnsureAnswers(r) \/ DestroyRemoves(r) \/ DestroyFindsNone(r)
  PROVE  Next
  <1>1. QueueInv /\ StoreOK /\ NameOf(r.job) \in Names
    BY Parts, RunNames
  <1>2. ASSUME NEW o \in ObservationsFor(r.job), ProviderAnswers(r, o)
        PROVE  Next
    BY <1>2 DEF Next, Process
  <1>3. CASE EnsureAnswers(r)
    <2>1. PICK o \in HealthOf(NameOf(r.job)) : ProviderAnswers(r, o)
      BY <1>3 DEF EnsureAnswers
    <2>2. o \in ObservationsFor(r.job)
      BY <1>1, <1>3, PresentIsMade DEF EnsureAnswers, ObservationsFor, Answers
    <2> QED
      BY <1>2, <2>1, <2>2
  <1>4. CASE DestroyRemoves(r) \/ DestroyFindsNone(r)
    <2>1. Gone \in ObservationsFor(r.job)
      BY <1>4, GoneAndMissing
      DEF DestroyRemoves, DestroyFindsNone, ObservationsFor, Answers
    <2>2. CASE ProviderAnswers(r, Gone)
      BY <1>2, <2>1, <2>2
    <2>3. CASE \E kind \in FailureKinds : ProviderFails(r, kind)
      BY <2>3 DEF Next, Process
    <2> QED
      BY <1>4, <2>2, <2>3 DEF DestroyRemoves, DestroyFindsNone
  <1> QED
    BY <1>3, <1>4

LEMMA WriteAllowed ==
  ASSUME LifeInv, NEW w \in Workers, NEW x \in cycles[w].writes,
         ReconcilerObserves(x.name.instance, x.name.generation, x.expected, x.observation)
  PROVE  Next
  <1> DEFINE i == x.name.instance
             g == x.name.generation
             s == cycles[w].rows[i]
             o == x.observation
  <1>1. cycles[w] \in Cycles /\ CycleFits(cycles[w], instances, made) /\ QueueInv
    BY Parts
  <1>2. /\ i \in Instances /\ g \in Generations
        /\ x.expected \in ResourceIds \cup {NoResource} /\ o \in Observations
        /\ s.stop \in BOOLEAN
    BY <1>1, CycleFields
  <1>3. WriteFits(cycles[w], x, made) /\ RowsBehind(cycles[w], instances)
    BY <1>1 DEF CycleFits
  <1>4. /\ g = s.generation
        /\ o.state \in (IF s.stop THEN {"stopped"} ELSE {"running", "unready"})
        /\ o.state = "running" => o.resource # NoResource
        /\ o.state = "stopped" => o.resource = NoResource
    BY <1>3 DEF WriteFits
  <1>5. instances[i].generation = g
    BY DEF ReconcilerObserves, ReconcilerMayObserve
  <1>6. g \in 1..instances[i].generation /\ g > 0
    BY <1>2, <1>5, ParameterAssumption DEF Generations
  <1>7. IF s.stop THEN Stops(instances[i]) ELSE instances[i].desired = "running"
    BY <1>2, <1>3, <1>4, <1>5, <1>6 DEF RowsBehind
  <1>8. s.stop => ~Unexpired(i)
    BY <1>2, <1>7, Parts DEF Stops, Unexpired, StoppedHasNoLifetime
  <1> HIDE DEF i, g, s, o
  <1>9. o \in ReconcilerObservations(i, g)
    BY <1>2, <1>4, <1>5, <1>7, <1>8 DEF ReconcilerObservations, Answers
  <1>10. ReconcilerObserves(i, g, x.expected, o)
    BY DEF i, g, o
  <1>11. \E j \in Instances : \E h \in 1..instances[j].generation :
           \E e \in ResourceIds \cup {NoResource}, p \in ReconcilerObservations(j, h) :
             ReconcilerObserves(j, h, e, p)
    BY <1>2, <1>6, <1>9, <1>10
  <1> QED
    BY <1>11 DEF Next

\* The provider and the reconciler do to the queue what InstanceJobs says its
\* surroundings may do.
LEMMA StepImplements == LifeInv /\ [LifecycleNext]_allVars => [Next]_vars
  <1> SUFFICES ASSUME LifeInv, [LifecycleNext]_allVars PROVE [Next]_vars
    OBVIOUS
  <1>1. CASE QueueStep
    BY <1>1 DEF QueueStep, Next, Process
  <1>2. ASSUME NEW r \in runs,
               EnsureCreates(r) \/ EnsureAnswers(r) \/ DestroyRemoves(r) \/ DestroyFindsNone(r)
        PROVE  [Next]_vars
    BY <1>2, AnswersAllowed DEF EnsureCreates
  <1>3. ASSUME NEW w \in Workers, CycleStep(w)
        PROVE  [Next]_vars
    <2>1. ASSUME NEW c, Sweep(w, c) \/ LookFails(w, c)
          PROVE  UNCHANGED vars
      BY <2>1 DEF Sweep, LookFails, ReportOrphan, DestroyStale, DestroyMatching, InspectMatching
    <2>2. ASSUME NEW i, Returns(w, i)
          PROVE  UNCHANGED vars
      BY <2>2 DEF Returns, RecordAbsent, ReconcilerEnsures, EnsureFails
    <2>3. ASSUME NEW x \in cycles[w].writes, WriteBack(w, x)
          PROVE  [Next]_vars
      BY <2>3, WriteAllowed DEF WriteBack
    <2>4. ASSUME \/ ListDesired(w) \/ BeginEnsuring(w) \/ WriteBackFails(w) \/ EndCycle(w)
                 \/ \E expired \in SUBSET Instances : ListResources(w, expired)
          PROVE  UNCHANGED vars
      BY <2>4 DEF ListDesired, BeginEnsuring, WriteBackFails, EndCycle, ListResources
    <2> QED
      BY <1>3, <2>1, <2>2, <2>3, <2>4 DEF CycleStep
  <1>4. ASSUME NEW w \in Workers, CrashProcess(w)
        PROVE  [Next]_vars
    <2>1. CASE RunsOf(w) # {}
      BY <1>4, <2>1 DEF CrashProcess, Crash, Next
    <2>2. CASE RunsOf(w) = {}
      BY <1>4, <2>2 DEF CrashProcess, vars
    <2> QED
      BY <2>1, <2>2
  <1>5. ASSUME \/ \E n \in Names : LoseContainer(n)
               \/ \E w \in Workers, i \in Instances : ReconcilerCreates(w, i)
        PROVE  UNCHANGED vars
    BY <1>5 DEF LoseContainer, ReconcilerCreates
  <1>6. CASE UNCHANGED allVars
    BY <1>6 DEF allVars
  <1> QED
    BY <1>1, <1>2, <1>3, <1>4, <1>5, <1>6 DEF LifecycleNext
-----------------------------------------------------------------------------
(* The steps of a cycle *)

LEMMA CycleKeeps ==
  ASSUME LifeInv, UNCHANGED vars, StoreOK', UNCHANGED made, NEW w \in Workers,
         NEW c \in Cycles, CycleFits(c, instances, made), SetCycle(w, c)
  PROVE  LifeInv'
  <1>1. cycles' \in [Workers -> Cycles] /\ CyclesFit'
    BY CycleMoves
  <1>2. RunsFit' /\ ResourceIsOwn'
    BY Parts, RunsStay, RowsStay DEF vars
  <1> QED
    BY <1>1, <1>2, Together

\* A cycle past its lists keeps its snapshots.
LEMMA CycleGoesOn ==
  ASSUME LifeInv, UNCHANGED vars, StoreOK', UNCHANGED made, NEW w \in Workers,
         cycles[w].phase \in {"sweeping", "ensuring"},
         NEW phase \in {"sweeping", "ensuring"}, NEW todo \in SUBSET Containers,
         NEW done \in SUBSET Instances, NEW writes \in SUBSET Writes,
         \A x \in writes : WriteFits(cycles[w], x, made),
         phase = "ensuring" => \A i \in Instances \ done : cycles[w].rows[i].generation # 0,
         SetCycle(w, [cycles[w] EXCEPT !.phase = phase, !.todo = todo, !.done = done,
                                       !.writes = writes])
  PROVE  LifeInv'
  <1> DEFINE c == cycles[w]
             d == [c EXCEPT !.phase = phase, !.todo = todo, !.done = done, !.writes = writes]
  <1>1. c \in Cycles /\ CycleFits(c, instances, made)
    BY Parts
  <1>2. /\ d \in Cycles /\ d.rows = c.rows /\ d.writes = writes /\ d.phase = phase
        /\ d.done = done
    BY <1>1 DEF Cycles
  <1>3. /\ SetCycle(w, d) /\ \A x \in writes : WriteFits(c, x, made)
        /\ phase = "ensuring" => \A i \in Instances \ done : c.rows[i].generation # 0
    OBVIOUS
  <1> HIDE DEF c, d
  <1>4. CycleFits(d, instances, made)
    BY <1>1, <1>2, <1>3 DEF CycleFits, RowsBehind, WriteFits, EnsuresRows
  <1> QED
    BY <1>2, <1>3, <1>4, CycleKeeps

LEMMA ListDesiredKeeps ==
  ASSUME LifeInv, NEW w \in Workers, ListDesired(w)
  PROVE  LifeInv'
  <1> DEFINE row(i) == [generation |-> instances[i].generation,
                        stop |-> ShouldStop(i),
                        settled |-> /\ instances[i].observed = "stopped"
                                    /\ instances[i].observedGeneration = instances[i].generation
                                    /\ instances[i].resource = NoResource,
                        resource |-> instances[i].resource]
             rows == [i \in Instances |-> row(i)]
             c == [IdleCycle EXCEPT !.phase = "listed", !.rows = rows]
  <1>1. SetCycle(w, c) /\ UNCHANGED <<vars, containers, made>>
    BY DEF ListDesired
  <1>2. QueueInv
    BY Parts
  <1>3. \A i \in Instances : row(i) \in Snapshots
    BY <1>2, RowTypes DEF Snapshots, InstanceRow, ShouldStop
  <1>4. \A i \in Instances :
          /\ row(i).generation = instances[i].generation
          /\ instances[i].generation \in Nat
          /\ IF row(i).stop THEN Stops(instances[i]) ELSE instances[i].desired = "running"
    BY <1>2, RowTypes DEF Stops, ShouldStop, Unexpired, InstanceRow, DesiredStates
  <1> HIDE DEF row
  <1>5. rows \in [Instances -> Snapshots]
    BY <1>3
  <1>6. c \in Cycles /\ c.rows = rows /\ c.writes = {} /\ c.phase = "listed"
    BY <1>5, IdleCycleTyped DEF Cycles, IdleCycle
  <1>7. \A i \in Instances : rows[i] = row(i)
    OBVIOUS
  <1> HIDE DEF rows, c
  <1>8. CycleFits(c, instances, made)
    <2>1. RowsBehind(c, instances)
      BY <1>4, <1>6, <1>7 DEF RowsBehind
    <2> QED
      BY <1>6, <2>1 DEF CycleFits
  <1>9. StoreOK'
    BY <1>1, Parts, StoreStays
  <1> QED
    BY <1>1, <1>6, <1>8, <1>9, CycleKeeps

LEMMA ListResourcesKeeps ==
  ASSUME LifeInv, NEW w \in Workers, NEW expired \in SUBSET Instances,
         ListResources(w, expired)
  PROVE  LifeInv'
  <1> DEFINE c == cycles[w]
             rows == [i \in Instances |-> [c.rows[i] EXCEPT !.stop = @ \/ i \in expired]]
             d == [c EXCEPT !.phase = "sweeping", !.todo = Listed, !.rows = rows]
  <1>1. /\ c.phase = "listed" /\ SetCycle(w, d) /\ UNCHANGED <<vars, containers, made>>
        /\ \A i \in Instances : c.rows[i].generation = instances[i].generation
                                  => (i \in expired <=> ShouldStop(i))
    BY DEF ListResources
  <1>2. /\ QueueInv /\ c \in Cycles /\ RowsBehind(c, instances) /\ c.writes = {}
    BY <1>1, Parts DEF CycleFits
  <1>3. \A i \in Instances :
          /\ c.rows[i] \in Snapshots
          /\ instances[i].desired \in DesiredStates
    BY <1>2, RowTypes, CycleFields DEF InstanceRow
  <1>4. rows \in [Instances -> Snapshots]
    BY <1>3 DEF Snapshots
  <1>5. \A i \in Instances :
          /\ rows[i].generation = c.rows[i].generation
          /\ rows[i].stop = (c.rows[i].stop \/ i \in expired)
    BY <1>3 DEF Snapshots
  <1>6. d \in Cycles /\ d.rows = rows /\ d.writes = {} /\ d.phase = "sweeping"
    BY <1>2, <1>4 DEF Cycles, Listed
  <1> HIDE DEF c, rows, d
  <1>7. RowsBehind(d, instances)
    BY <1>1, <1>2, <1>3, <1>5, <1>6
    DEF RowsBehind, ShouldStop, Unexpired, Stops, DesiredStates
  <1>8. CycleFits(d, instances, made)
    BY <1>6, <1>7 DEF CycleFits
  <1>9. StoreOK'
    BY <1>1, Parts, StoreStays
  <1> QED
    BY <1>1, <1>6, <1>8, <1>9, CycleKeeps

LEMMA LookedKeeps ==
  ASSUME LifeInv, UNCHANGED vars, StoreOK', UNCHANGED made, NEW w \in Workers, NEW c,
         Sweeping(w, c), NEW handled \in BOOLEAN, NEW writes \in SUBSET Writes,
         \A x \in writes : WriteFits(cycles[w], x, made), Looked(w, c, handled, writes)
  PROVE  LifeInv'
  <1> DEFINE done == IF handled THEN cycles[w].done \cup {c.name.instance} ELSE cycles[w].done
             todo == cycles[w].todo \ {c}
  <1>1. /\ cycles[w] \in Cycles /\ c \in cycles[w].todo /\ cycles[w].phase = "sweeping"
    BY Parts DEF Sweeping
  <1>2. done \in SUBSET Instances /\ todo \in SUBSET Containers
    BY <1>1, CycleFields
  <1>3. SetCycle(w, [cycles[w] EXCEPT !.phase = "sweeping", !.todo = todo, !.done = done,
                                      !.writes = writes])
    <2>1. [cycles[w] EXCEPT !.phase = "sweeping", !.todo = todo, !.done = done,
                            !.writes = writes]
            = [cycles[w] EXCEPT !.todo = todo, !.writes = writes, !.done = done]
      BY <1>1 DEF Cycles
    <2> QED
      BY <2>1 DEF Looked
  <1> HIDE DEF done, todo
  <1> QED
    BY <1>1, <1>2, <1>3, CycleGoesOn
\* The container a cycle looks at and the snapshot it is compared with.
LEMMA LookFacts ==
  ASSUME LifeInv, NEW w \in Workers, NEW c, Sweeping(w, c)
  PROVE  /\ c \in Containers /\ c.name \in Names /\ c.id \in ResourceIds
         /\ cycles[w] \in Cycles /\ StoreOK
         /\ Snapshot(w, c.name.instance).stop \in BOOLEAN
  <1>1. cycles[w] \in Cycles /\ StoreOK /\ c \in cycles[w].todo
    BY Parts DEF Sweeping
  <1>2. c \in Containers /\ c.name \in Names /\ c.name.instance \in Instances /\ c.id \in ResourceIds
    BY <1>1, CycleFields DEF Containers
  <1> QED
    BY <1>1, <1>2, CycleFields DEF Snapshot

LEMMA LookWriteFits ==
  ASSUME LifeInv, NEW w \in Workers, NEW c, Sweeping(w, c), Matching(w, c),
         NEW o \in Observations,
         o.state \in (IF Snapshot(w, c.name.instance).stop THEN {"stopped"}
                      ELSE {"running", "unready"}),
         o.state = "running" => o.resource # NoResource,
         o.state = "stopped" => o.resource = NoResource,
         o.resource # NoResource => [name |-> c.name, id |-> o.resource] \in made
  PROVE  LET x == [name |-> c.name, expected |-> c.id, observation |-> o]
         IN {x} \in SUBSET Writes /\ \A y \in {x} : WriteFits(cycles[w], y, made)
  <1> DEFINE x == [name |-> c.name, expected |-> c.id, observation |-> o]
  <1>1. x \in Writes
    BY LookFacts DEF Writes
  <1>2. x.name.generation = cycles[w].rows[x.name.instance].generation
    BY DEF Matching, Snapshot
  <1>3. WriteFits(cycles[w], x, made)
    BY <1>2 DEF WriteFits, Snapshot
  <1> QED
    BY <1>1, <1>3

LEMMA LookKeeps ==
  ASSUME LifeInv, NEW w \in Workers, NEW c, Sweep(w, c) \/ LookFails(w, c)
  PROVE  LifeInv'
  <1>a. ASSUME Sweeping(w, c), UNCHANGED vars, UNCHANGED made, StoreOK',
               NEW handled \in BOOLEAN, Looked(w, c, handled, {})
        PROVE  LifeInv'
    <2>1. {} \in SUBSET Writes /\ \A x \in {} : WriteFits(cycles[w], x, made)
      OBVIOUS
    <2> QED
      BY <1>a, <2>1, LookedKeeps
  <1>1. ASSUME Sweeping(w, c), UNCHANGED <<vars, containers, made>>,
               NEW handled \in BOOLEAN, Looked(w, c, handled, {})
        PROVE  LifeInv'
    <2>1. StoreOK'
      BY <1>1, Parts, StoreStays
    <2> QED
      BY <1>1, <2>1, <1>a
  <1>2. CASE ReportOrphan(w, c)
    <2>1. Future(w, c) \in BOOLEAN
      BY DEF Future
    <2> QED
      BY <1>1, <1>2, <2>1 DEF ReportOrphan
  <1>3. CASE LookFails(w, c)
    <2>1. (Matching(w, c) \/ Future(w, c)) \in BOOLEAN
      BY DEF Future, Matching
    <2>2. Sweeping(w, c) /\ UNCHANGED vars /\ Looked(w, c, Matching(w, c) \/ Future(w, c), {})
      BY <1>3 DEF LookFails
    <2>3. StoreOK' /\ UNCHANGED made
      BY <1>3, <2>2, LookFacts, RemoveKeeps, Parts, StoreStays DEF LookFails
    <2> QED
      BY <2>1, <2>2, <2>3, <1>a
  <1>4. CASE DestroyStale(w, c)
    <2>1. Sweeping(w, c) /\ RemoveContainer(c.name) /\ Looked(w, c, FALSE, {}) /\ UNCHANGED vars
      BY <1>4 DEF DestroyStale
    <2>2. StoreOK' /\ UNCHANGED made
      BY <2>1, LookFacts, RemoveKeeps
    <2>3. FALSE \in BOOLEAN
      OBVIOUS
    <2> QED
      BY <2>1, <2>2, <2>3, <1>a
  <1>5. CASE DestroyMatching(w, c)
    <2> DEFINE x == [name |-> c.name, expected |-> c.id, observation |-> Gone]
    <2>1. /\ Sweeping(w, c) /\ Matching(w, c) /\ Snapshot(w, c.name.instance).stop
          /\ RemoveContainer(c.name) /\ Looked(w, c, TRUE, {x}) /\ UNCHANGED vars
      BY <1>5 DEF DestroyMatching
    <2>2. StoreOK' /\ UNCHANGED made
      BY <2>1, LookFacts, RemoveKeeps
    <2>3. {x} \in SUBSET Writes /\ \A y \in {x} : WriteFits(cycles[w], y, made)
      BY <2>1, GoneAndMissing, LookWriteFits
    <2> HIDE DEF x
    <2> QED
      BY <2>1, <2>2, <2>3, LookedKeeps
  <1>6. CASE InspectMatching(w, c)
    <2>1. PICK o \in (IF Present(c.name) THEN HealthOf(c.name) ELSE {Missing}) :
            Looked(w, c, TRUE, {[name |-> c.name, expected |-> c.id, observation |-> o]})
      BY <1>6 DEF InspectMatching
    <2> DEFINE x == [name |-> c.name, expected |-> c.id, observation |-> o]
    <2>2. /\ Sweeping(w, c) /\ Matching(w, c) /\ ~Snapshot(w, c.name.instance).stop
          /\ UNCHANGED <<vars, containers, made>>
      BY <1>6 DEF InspectMatching
    <2>3. StoreOK /\ StoreOK' /\ c.name \in Names
      BY <2>2, LookFacts, StoreStays
    <2>4. /\ o \in Observations /\ o.state \in {"running", "unready"}
          /\ o.state = "running" => o.resource # NoResource
          /\ o.resource # NoResource => [name |-> c.name, id |-> o.resource] \in made
      <3>1. CASE Present(c.name)
        BY <2>1, <2>3, <3>1, PresentIsMade
      <3>2. CASE ~Present(c.name)
        BY <2>1, <3>2, GoneAndMissing
      <3> QED
        BY <3>1, <3>2
    <2>5. {x} \in SUBSET Writes /\ \A y \in {x} : WriteFits(cycles[w], y, made)
      BY <2>2, <2>4, LookWriteFits
    <2>6. Looked(w, c, TRUE, {x})
      BY <2>1
    <2> HIDE DEF x
    <2> QED
      BY <2>2, <2>3, <2>5, <2>6, LookedKeeps
  <1> QED
    BY <1>2, <1>3, <1>4, <1>5, <1>6 DEF Sweep

LEMMA BeginEnsuringKeeps ==
  ASSUME LifeInv, NEW w \in Workers, BeginEnsuring(w)
  PROVE  LifeInv'
  <1> DEFINE done == cycles[w].done \cup {i \in Instances : NothingToDo(Snapshot(w, i))}
  <1>1. cycles[w] \in Cycles /\ cycles[w].phase = "sweeping" /\ cycles[w].writes = {}
    BY Parts DEF BeginEnsuring
  <1>2. done \in SUBSET Instances
    BY <1>1, CycleFields
  <1>3. \A i \in Instances \ done : cycles[w].rows[i].generation # 0
    BY DEF NothingToDo, Snapshot
  <1>4. SetCycle(w, [cycles[w] EXCEPT !.phase = "ensuring", !.todo = cycles[w].todo, !.done = done,
                                      !.writes = {}])
    <2>1. [cycles[w] EXCEPT !.phase = "ensuring", !.todo = cycles[w].todo, !.done = done,
                            !.writes = {}]
            = [cycles[w] EXCEPT !.phase = "ensuring", !.done = done]
      BY <1>1 DEF Cycles
    <2> QED
      BY <2>1 DEF BeginEnsuring
  <1>5. StoreOK' /\ UNCHANGED <<vars, made>>
    BY Parts, StoreStays DEF BeginEnsuring
  <1> HIDE DEF done
  <1>6. cycles[w].todo \in SUBSET Containers
    BY <1>1, CycleFields
  <1> QED
    BY <1>1, <1>2, <1>3, <1>4, <1>5, <1>6, CycleGoesOn

\* An instance is settled: at most one write back is left to send.
LEMMA EnsuredKeeps ==
  ASSUME LifeInv, UNCHANGED <<vars, containers, made>>, NEW w \in Workers,
         NEW i \in Instances, Ensuring(w, i), NEW writes \in SUBSET Writes,
         \A x \in writes : WriteFits(cycles[w], x, made),
         SetCycle(w, [cycles[w] EXCEPT !.done = @ \cup {i}, !.writes = writes])
  PROVE  LifeInv'
  <1> DEFINE done == cycles[w].done \cup {i}
             todo == cycles[w].todo
  <1>1. /\ cycles[w] \in Cycles /\ cycles[w].phase = "ensuring"
        /\ CycleFits(cycles[w], instances, made) /\ StoreOK'
    BY Parts, StoreStays DEF Ensuring
  <1>2. done \in SUBSET Instances /\ todo \in SUBSET Containers
    BY <1>1, CycleFields
  <1>3. \A j \in Instances \ done : cycles[w].rows[j].generation # 0
    BY <1>1 DEF CycleFits, EnsuresRows
  <1>4. SetCycle(w, [cycles[w] EXCEPT !.phase = "ensuring", !.todo = todo, !.done = done,
                                      !.writes = writes])
    <2>1. [cycles[w] EXCEPT !.phase = "ensuring", !.todo = todo, !.done = done, !.writes = writes]
            = [cycles[w] EXCEPT !.done = done, !.writes = writes]
      BY <1>1 DEF Cycles
    <2> QED
      BY <2>1
  <1> HIDE DEF done, todo
  <1> QED
    BY <1>1, <1>2, <1>3, <1>4, CycleGoesOn

LEMMA SnapshotNames ==
  ASSUME LifeInv, NEW w \in Workers, NEW i \in Instances, Ensuring(w, i)
  PROVE  /\ SnapshotName(w, i) \in Names
         /\ SnapshotName(w, i).instance = i
         /\ SnapshotName(w, i).generation = cycles[w].rows[i].generation
         /\ Snapshot(w, i).resource \in ResourceIds \cup {NoResource}
         /\ Snapshot(w, i) = cycles[w].rows[i]
  <1>1. /\ cycles[w] \in Cycles /\ CycleFits(cycles[w], instances, made)
        /\ cycles[w].phase = "ensuring" /\ i \notin cycles[w].done
    BY Parts DEF Ensuring
  <1>2. cycles[w].rows[i].generation # 0 /\ cycles[w].rows[i] \in Snapshots
    BY <1>1, CycleFields DEF CycleFits, EnsuresRows
  <1>3. cycles[w].rows[i].generation \in Generations
    BY <1>2, ParameterAssumption DEF Snapshots, Generations
  <1> QED
    BY <1>2, <1>3 DEF SnapshotName, Snapshot, Names, Snapshots

LEMMA SettleKeeps ==
  ASSUME LifeInv, UNCHANGED <<vars, containers, made>>, NEW w \in Workers,
         NEW i \in Instances, Ensuring(w, i), NEW o \in Observations, Settle(w, i, o),
         o.state \in (IF Snapshot(w, i).stop THEN {"stopped"} ELSE {"running", "unready"}),
         o.state = "running" => o.resource # NoResource,
         o.state = "stopped" => o.resource = NoResource,
         o.resource # NoResource => [name |-> SnapshotName(w, i), id |-> o.resource] \in made
  PROVE  LifeInv'
  <1> DEFINE x == [name |-> SnapshotName(w, i), expected |-> Snapshot(w, i).resource,
                   observation |-> o]
  <1>1. x \in Writes
    BY SnapshotNames DEF Writes
  <1>2. WriteFits(cycles[w], x, made)
    BY SnapshotNames DEF WriteFits
  <1>3. SetCycle(w, [cycles[w] EXCEPT !.done = @ \cup {i}, !.writes = {x}])
    BY DEF Settle
  <1>4. {x} \in SUBSET Writes /\ \A y \in {x} : WriteFits(cycles[w], y, made)
    BY <1>1, <1>2
  <1> HIDE DEF x
  <1> QED
    BY <1>3, <1>4, EnsuredKeeps

LEMMA ReturnsKeeps ==
  ASSUME LifeInv, NEW w \in Workers, NEW i \in Instances, Returns(w, i)
  PROVE  LifeInv'
  <1>1. CASE RecordAbsent(w, i)
    BY <1>1, GoneAndMissing, SettleKeeps DEF RecordAbsent
  <1>2. CASE ReconcilerEnsures(w, i)
    <2>1. PICK o \in HealthOf(SnapshotName(w, i)) : Settle(w, i, o)
      BY <1>2 DEF ReconcilerEnsures
    <2>2. /\ Ensuring(w, i) /\ ~Snapshot(w, i).stop /\ Present(SnapshotName(w, i))
          /\ UNCHANGED <<vars, containers, made>>
      BY <1>2 DEF ReconcilerEnsures
    <2>3. StoreOK /\ SnapshotName(w, i) \in Names
      BY <2>2, Parts, SnapshotNames
    <2>4. /\ o \in Observations /\ o.state \in {"running", "unready"}
          /\ o.resource = containers[SnapshotName(w, i)] /\ o.resource # NoResource
          /\ [name |-> SnapshotName(w, i), id |-> o.resource] \in made
      BY <2>1, <2>2, <2>3, PresentIsMade
    <2> QED
      BY <2>1, <2>2, <2>4, SettleKeeps
  <1>3. CASE EnsureFails(w, i)
    <2>1. /\ Ensuring(w, i) /\ UNCHANGED <<vars, containers, made>>
          /\ cycles[w].writes = {} /\ cycles[w] \in Cycles
      BY <1>3, Parts DEF EnsureFails, Ensuring
    <2>2. [cycles[w] EXCEPT !.done = @ \cup {i}]
            = [cycles[w] EXCEPT !.done = @ \cup {i}, !.writes = {}]
      BY <2>1 DEF Cycles
    <2>3. SetCycle(w, [cycles[w] EXCEPT !.done = @ \cup {i}, !.writes = {}])
      BY <1>3, <2>2 DEF EnsureFails
    <2> QED
      BY <2>1, <2>3, EnsuredKeeps
  <1> QED
    BY <1>1, <1>2, <1>3 DEF Returns
LEMMA WrittenFits ==
  ASSUME LifeInv, NEW w \in Workers
  PROVE  LET d == [cycles[w] EXCEPT !.writes = {}]
         IN d \in Cycles /\ CycleFits(d, instances, made)
  <1> DEFINE c == cycles[w]
             d == [c EXCEPT !.writes = {}]
  <1>1. c \in Cycles /\ CycleFits(c, instances, made)
    BY Parts
  <1>2. /\ d \in Cycles /\ d.rows = c.rows /\ d.writes = {} /\ d.phase = c.phase
        /\ d.done = c.done
    BY <1>1 DEF Cycles
  <1> HIDE DEF c, d
  <1>3. CycleFits(d, instances, made)
    BY <1>1, <1>2 DEF CycleFits, RowsBehind, EnsuresRows
  <1> QED
    BY <1>2, <1>3 DEF c, d

LEMMA IdleCycleFits ==
  ASSUME QueueInv
  PROVE  CycleFits(IdleCycle, instances, made)
  <1>1. \A i \in Instances : instances[i].generation \in Nat
    BY RowTypes
  <1>2. RowsBehind(IdleCycle, instances)
    BY <1>1 DEF RowsBehind, IdleCycle, NoSnapshot
  <1> QED
    BY <1>2 DEF CycleFits, IdleCycle

LEMMA WriteBackKeeps ==
  ASSUME LifeInv, [Next]_vars, NEW w \in Workers, NEW x \in cycles[w].writes, WriteBack(w, x)
  PROVE  LifeInv'
  <1> DEFINE d == [cycles[w] EXCEPT !.writes = {}]
  <1>1. /\ SetCycle(w, d) /\ UNCHANGED <<containers, made>>
        /\ d \in Cycles /\ CycleFits(d, instances, made)
    BY WrittenFits DEF WriteBack, Written
  <1> HIDE DEF d
  <1>2. cycles' \in [Workers -> Cycles] /\ CyclesFit' /\ StoreOK'
    BY <1>1, CycleMoves, Parts, StoreStays
  <1>3. UNCHANGED runs
    BY DEF WriteBack, ReconcilerObserves, vars
  <1>4. RunsFit'
    BY <1>1, <1>3, Parts, RunsStay
  <1>5. ResourceIsOwn'
    <2>1. CASE UNCHANGED vars
      BY <1>1, <2>1, Parts, RowsStay DEF vars
    <2>2. CASE ReconcilerObserves(x.name.instance, x.name.generation, x.expected, x.observation)
      <3> DEFINE i == x.name.instance
                 g == x.name.generation
                 o == x.observation
      <3>1. /\ cycles[w] \in Cycles /\ CycleFits(cycles[w], instances, made) /\ QueueInv
        BY Parts
      <3>2. x.name \in Names /\ i \in Instances /\ instances[i] \in InstanceRow
        BY <3>1, CycleFields, RowTypes
      <3>3. o.resource # NoResource => [name |-> x.name, id |-> o.resource] \in made
        BY <3>1 DEF CycleFits, WriteFits
      <3>4. x.name = [instance |-> i, generation |-> g]
        BY <3>2 DEF Names
      <3>5. /\ instances[i].generation = g
            /\ instances' = [instances EXCEPT ![i] = Observed(instances[i], o, g)]
        BY <2>2 DEF ReconcilerObserves, ReconcilerMayObserve
      <3> HIDE DEF i, g, o
      <3>6. o.resource # NoResource =>
              [name |-> [instance |-> i, generation |-> instances[i].generation],
               id |-> o.resource] \in made'
        BY <1>1, <3>3, <3>4, <3>5
      <3>7. Own(i, Observed(instances[i], o, instances[i].generation), made')
        BY <3>2, <3>6, ObservedOwn
      <3>8. made \subseteq made'
        BY <1>1
      <3> QED
        BY <3>2, <3>5, <3>7, <3>8, RowSet
    <2> QED
      BY <2>1, <2>2 DEF WriteBack
  <1> QED
    BY <1>2, <1>4, <1>5, Together

LEMMA CycleStepKeeps ==
  ASSUME LifeInv, [Next]_vars, NEW w \in Workers, CycleStep(w)
  PROVE  LifeInv'
  <1>1. CASE WriteBackFails(w)
    <2> DEFINE d == [cycles[w] EXCEPT !.writes = {}]
    <2>1. SetCycle(w, d) /\ UNCHANGED <<vars, containers, made>>
      BY <1>1 DEF WriteBackFails, Written
    <2>2. d \in Cycles /\ CycleFits(d, instances, made) /\ StoreOK'
      BY <2>1, WrittenFits, Parts, StoreStays
    <2> HIDE DEF d
    <2> QED
      BY <2>1, <2>2, CycleKeeps
  <1>2. CASE EndCycle(w)
    <2>1. SetCycle(w, IdleCycle) /\ UNCHANGED <<vars, containers, made>>
      BY <1>2 DEF EndCycle
    <2>2. CycleFits(IdleCycle, instances, made) /\ StoreOK'
      BY <2>1, IdleCycleFits, Parts, StoreStays
    <2> QED
      BY <2>1, <2>2, IdleCycleTyped, CycleKeeps
  <1> QED
    BY <1>1, <1>2, ListDesiredKeeps, ListResourcesKeeps, LookKeeps, BeginEnsuringKeeps,
       ReturnsKeeps, WriteBackKeeps DEF CycleStep

-----------------------------------------------------------------------------
(* The other steps *)

LEMMA CrashKeeps ==
  ASSUME LifeInv, [Next]_vars, NEW w \in Workers, CrashProcess(w)
  PROVE  LifeInv'
  <1>1. /\ runs' = runs \ RunsOf(w) /\ SetCycle(w, IdleCycle)
        /\ UNCHANGED <<instances, containers, made>>
    BY DEF CrashProcess
  <1>2. cycles' \in [Workers -> Cycles] /\ CyclesFit' /\ StoreOK'
    BY <1>1, IdleCycleTyped, IdleCycleFits, CycleMoves, Parts, StoreStays
  <1>3. RunsFit' /\ ResourceIsOwn'
    BY <1>1, Parts, RunsStay, RowsStay
  <1> QED
    BY <1>2, <1>3, Together

\* A container is made, lost or removed and nothing else happens.
LEMMA ContainerKeeps ==
  ASSUME LifeInv, UNCHANGED <<vars, cycles>>, NEW n \in Names,
         CreateContainer(n) \/ RemoveContainer(n)
  PROVE  LifeInv'
  <1>1. StoreOK' /\ made \subseteq made'
    BY Parts, CreateKeeps, RemoveKeeps
  <1>2. cycles' \in [Workers -> Cycles] /\ CyclesFit'
    BY <1>1, CyclesStay
  <1>3. RunsFit' /\ ResourceIsOwn'
    BY <1>1, Parts, RunsStay, RowsStay DEF vars
  <1> QED
    BY <1>1, <1>2, <1>3, Together

\* A run goes on, with nothing observed that was not made for its job.
LEMMA AdvanceKeeps ==
  ASSUME LifeInv, [Next]_vars, StoreOK', UNCHANGED <<instances, made, cycles>>,
         NEW r \in runs, NEW next, Advance(r, next), next.job = r.job,
         next.observation.resource # NoResource =>
           [name |-> NameOf(r.job), id |-> next.observation.resource] \in made
  PROVE  LifeInv'
  <1>1. made \subseteq made' /\ runs' = (runs \ {r}) \cup {next}
    BY DEF Advance
  <1>2. \A q \in runs : q.observation.resource # NoResource =>
          [name |-> NameOf(q.job), id |-> q.observation.resource] \in made
    BY Parts DEF RunsFit
  <1>3. RunsFit'
    BY <1>1, <1>2 DEF RunsFit, NameOf
  <1>4. cycles' \in [Workers -> Cycles] /\ CyclesFit' /\ ResourceIsOwn'
    BY <1>1, CyclesStay, Parts, RowsStay
  <1> QED
    BY <1>3, <1>4, Together

LEMMA AnswersKeep ==
  ASSUME LifeInv, NEW r \in runs,
         EnsureAnswers(r) \/ DestroyRemoves(r) \/ DestroyFindsNone(r)
  PROVE  LifeInv'
  <1>1. [Next]_vars /\ r \in Runs /\ StoreOK /\ RunsFit /\ NameOf(r.job) \in Names
    BY AnswersAllowed, Parts, RunNames
  <1>2. StoreOK' /\ UNCHANGED <<instances, made, cycles>>
    <2>1. CASE EnsureAnswers(r) \/ DestroyFindsNone(r)
      BY <1>1, <2>1, StoreStays DEF EnsureAnswers, DestroyFindsNone, ProviderAnswers, lifeVars
    <2>2. CASE DestroyRemoves(r)
      BY <1>1, <2>2, RemoveKeeps DEF DestroyRemoves, ProviderAnswers, ProviderFails
    <2> QED
      BY <2>1, <2>2
  <1>3. ASSUME NEW o, ProviderAnswers(r, o),
               o.resource # NoResource => [name |-> NameOf(r.job), id |-> o.resource] \in made
        PROVE  LifeInv'
    <2> DEFINE next == [r EXCEPT !.phase = "recording", !.observation = o]
    <2>1. Advance(r, next)
      BY <1>3 DEF ProviderAnswers
    <2>2. next.job = r.job /\ next.observation = o
      BY <1>1 DEF Runs
    <2> HIDE DEF next
    <2> QED
      BY <1>1, <1>2, <1>3, <2>1, <2>2, AdvanceKeeps
  <1>4. ASSUME NEW kind, ProviderFails(r, kind)
        PROVE  LifeInv'
    <2> DEFINE next == [r EXCEPT !.phase = "failing", !.failure = kind]
    <2>1. Advance(r, next)
      BY <1>4 DEF ProviderFails
    <2>2. next.job = r.job /\ next.observation = r.observation
      BY <1>1 DEF Runs
    <2>3. r.observation.resource # NoResource =>
            [name |-> NameOf(r.job), id |-> r.observation.resource] \in made
      BY <1>1 DEF RunsFit
    <2> HIDE DEF next
    <2> QED
      BY <1>1, <1>2, <2>1, <2>2, <2>3, AdvanceKeeps
  <1>5. CASE EnsureAnswers(r)
    BY <1>1, <1>3, <1>5, PresentIsMade DEF EnsureAnswers
  <1>6. CASE DestroyRemoves(r) \/ DestroyFindsNone(r)
    BY <1>3, <1>4, <1>6, GoneAndMissing DEF DestroyRemoves, DestroyFindsNone
  <1> QED
    BY <1>5, <1>6

\* The queue alone brings no observation in.
LEMMA QueueRuns ==
  ASSUME QueueInv, QueueStep, NEW r \in runs'
  PROVE  \/ r.observation = NoObservation
         \/ \E q \in runs : r.job = q.job /\ r.observation = q.observation
  <1>1. \A q \in runs : q \in Runs
    BY RunNames
  <1>2. CASE r \in runs
    BY <1>2
  <1>3. CASE runs' = runs
    BY <1>3
  <1>4. ASSUME NEW q \in runs,
               \/ \E kind \in FailureKinds : ProviderFails(q, kind)
               \/ RecordObservation(q) \/ BeginInterrupt(q)
        PROVE  \/ r \in runs
               \/ r.observation = NoObservation
               \/ r.job = q.job /\ r.observation = q.observation
    BY <1>1, <1>4
    DEF ProviderFails, RecordObservation, Recorded, BeginInterrupt, Advance, Runs
  <1>5. ASSUME NEW q \in runs, Complete(q) \/ Fail(q) \/ Interrupt(q) \/ FinalizationLost(q)
        PROVE  r \in runs
    BY <1>5 DEF Complete, Fail, Interrupt, Finish, FinalizationLost
  <1>6. ASSUME NEW w \in Workers, NEW batch, NEW locked, ClaimBatch(w, batch, locked)
        PROVE  r \in runs \/ r.observation = NoObservation
    BY <1>6 DEF ClaimBatch, NewRun
  <1>7. ASSUME NEW i \in Instances, Command(i)
        PROVE  runs' = runs
    BY <1>7 DEF Command, Start, Renew, Destroy, EnqueueReconcile
  <1> QED
    BY <1>2, <1>3, <1>4, <1>5, <1>6, <1>7
    DEF QueueStep, LifetimeClock, ReplayDeadLetter, LeaseClock, RenewLease

LEMMA QueueRows ==
  ASSUME LifeInv, QueueStep
  PROVE  ResourceIsOwn'
  <1>1. /\ instances \in [Instances -> InstanceRow] /\ ResourceIsOwn
        /\ \A i \in Instances : instances[i] \in InstanceRow
    BY Parts, RowTypes
  <1>2. made \subseteq made' /\ made' = made
    BY DEF QueueStep, lifeVars
  <1>3. CASE UNCHANGED instances
    BY <1>1, <1>2, <1>3, RowsStay
  <1>4. ASSUME NEW i \in Instances, NEW row, Own(i, row, made),
               instances' = [instances EXCEPT ![i] = row]
        PROVE  ResourceIsOwn'
    BY <1>2, <1>4, RowSet
  <1>5. ASSUME NEW i \in Instances, EnsureGeneration(i)
        PROVE  ResourceIsOwn'
    <2> DEFINE row == [instances[i] EXCEPT !.desired = "running",
                         !.generation = instances[i].generation + 1,
                         !.observed = "pending", !.lifetime = "fresh",
                         !.resource = NoResource, !.entrypoints = 0]
    <2>1. instances' = [instances EXCEPT ![i] = row]
      BY <1>5 DEF EnsureGeneration
    <2>2. Own(i, row, made)
      BY <1>1 DEF Own, InstanceRow
    <2> HIDE DEF row
    <2> QED
      BY <1>4, <2>1, <2>2
  <1>6. ASSUME NEW i \in Instances, Destroy(i)
        PROVE  ResourceIsOwn'
    <2> DEFINE row == [instances[i] EXCEPT !.desired = "stopped",
                         !.generation = instances[i].generation + 1,
                         !.observed = "stopping", !.lifetime = "none", !.entrypoints = 0]
    <2>1. instances' = [instances EXCEPT ![i] = row]
      BY <1>6 DEF Destroy
    <2>2. /\ row.desired = "stopped" /\ row.resource = instances[i].resource
          /\ row.observedGeneration = instances[i].observedGeneration
      BY <1>1 DEF InstanceRow
    <2>3. Own(i, instances[i], made)
      BY <1>1 DEF Own, ResourceIsOwn
    <2> HIDE DEF row
    <2>4. Own(i, row, made)
      BY <2>2, <2>3 DEF Own
    <2> QED
      BY <1>4, <2>1, <2>4
  <1>7. ASSUME NEW i \in Instances, LifetimeClock(i)
        PROVE  ResourceIsOwn'
    <2> DEFINE lifetime == IF instances[i].lifetime = "fresh" THEN "renewable" ELSE "expired"
               row == [instances[i] EXCEPT !.lifetime = lifetime]
    <2>1. instances' = [instances EXCEPT ![i] = row]
      BY <1>7 DEF LifetimeClock
    <2>2. /\ row.desired = instances[i].desired /\ row.resource = instances[i].resource
          /\ row.observedGeneration = instances[i].observedGeneration
          /\ row.generation = instances[i].generation
      BY <1>1 DEF InstanceRow
    <2>3. Own(i, instances[i], made)
      BY <1>1 DEF Own, ResourceIsOwn
    <2> HIDE DEF row
    <2>4. Own(i, row, made)
      BY <2>2, <2>3 DEF Own
    <2> QED
      BY <1>4, <2>1, <2>4
  <1>8. ASSUME NEW r \in runs, RecordObservation(r)
        PROVE  ResourceIsOwn'
    <2>1. CASE UNCHANGED instances
      BY <1>3, <2>1
    <2>2. CASE /\ MayObserve(r)
               /\ instances' = [instances EXCEPT ![r.job.instance] =
                                  Observed(@, r.observation, r.job.generation)]
      <3> DEFINE i == r.job.instance
                 o == r.observation
      <3>1. i \in Instances /\ NameOf(r.job) = [instance |-> i, generation |-> r.job.generation]
        BY Parts, RunNames DEF NameOf
      <3>2. instances[i].generation = r.job.generation
        BY <2>2 DEF MayObserve, Current
      <3>3. o.resource # NoResource => [name |-> NameOf(r.job), id |-> o.resource] \in made
        BY Parts DEF RunsFit
      <3>4. instances' = [instances EXCEPT ![i] = Observed(instances[i], o, r.job.generation)]
        BY <2>2
      <3> HIDE DEF i, o
      <3>5. Own(i, Observed(instances[i], o, instances[i].generation), made)
        BY <1>1, <3>1, <3>2, <3>3, ObservedOwn
      <3> QED
        BY <1>4, <3>1, <3>2, <3>4, <3>5
    <2> QED
      BY <1>8, <2>1, <2>2 DEF RecordObservation
  <1>9. ASSUME NEW i \in Instances, Command(i)
        PROVE  ResourceIsOwn'
    BY <1>3, <1>5, <1>6, <1>9 DEF Command, Start, Renew, EnqueueReconcile
  <1>10. ASSUME NEW r \in runs,
                \/ \E kind \in FailureKinds : ProviderFails(r, kind)
                \/ Complete(r) \/ Fail(r) \/ Interrupt(r)
                \/ RenewLease(r) \/ BeginInterrupt(r) \/ FinalizationLost(r)
         PROVE  UNCHANGED instances
    BY <1>10 DEF ProviderFails, Complete, Fail, Interrupt, Finish, RenewLease, BeginInterrupt,
                 FinalizationLost
  <1> QED
    BY <1>3, <1>7, <1>8, <1>9, <1>10
    DEF QueueStep, ReplayDeadLetter, LeaseClock, ClaimBatch

LEMMA QueueKeeps ==
  ASSUME LifeInv, [Next]_vars, QueueStep
  PROVE  LifeInv'
  <1>1. UNCHANGED <<containers, made, cycles>> /\ made \subseteq made'
    BY DEF QueueStep, lifeVars
  <1>2. RunsFit'
    BY <1>1, Parts, QueueRuns, RunsStay
  <1>3. cycles' \in [Workers -> Cycles] /\ CyclesFit' /\ StoreOK'
    BY <1>1, CyclesStay, Parts, StoreStays
  <1> QED
    BY <1>2, <1>3, QueueRows, Together

LEMMA InitKeeps == LifecycleInit => LifeInv
  <1> SUFFICES ASSUME LifecycleInit PROVE LifeInv
    OBVIOUS
  <1>1. QueueInv /\ StoppedHasNoLifetime /\ RunsFit /\ ResourceIsOwn
    BY InitIntent, InitLeases
    DEF QueueInv, LifecycleInit, Init, NoRow, StoppedHasNoLifetime, RunsFit, ResourceIsOwn
  <1>2. LifecycleTypeOK
    <2>1. Listed = {}
      BY ParameterAssumption DEF LifecycleInit, Listed, Containers
    <2> QED
      BY <2>1, IdleCycleTyped DEF LifecycleInit, LifecycleTypeOK
  <1>3. CyclesFit
    BY <1>1, IdleCycleFits DEF LifecycleInit, CyclesFit
  <1> QED
    BY <1>1, <1>2, <1>3 DEF LifeInv

LEMMA LifeStays ==
  ASSUME LifeInv, UNCHANGED allVars
  PROVE  LifeInv'
  <1>1. UNCHANGED vars /\ UNCHANGED <<containers, made, cycles>> /\ made \subseteq made'
    BY DEF allVars, lifeVars
  <1>2. cycles' \in [Workers -> Cycles] /\ CyclesFit' /\ StoreOK'
    BY <1>1, CyclesStay, Parts, StoreStays
  <1>3. RunsFit' /\ ResourceIsOwn'
    BY <1>1, Parts, RunsStay, RowsStay DEF vars
  <1> QED
    BY <1>1, <1>2, <1>3, Together

LEMMA StepKeeps == LifeInv /\ [LifecycleNext]_allVars => LifeInv'
  <1> SUFFICES ASSUME LifeInv, [LifecycleNext]_allVars PROVE LifeInv'
    OBVIOUS
  <1>1. [Next]_vars
    BY StepImplements
  <1>2. ASSUME NEW r \in runs, EnsureCreates(r)
        PROVE  LifeInv'
    <2>1. NameOf(r.job) \in Names
      BY Parts, RunNames
    <2> QED
      BY <1>2, <2>1, ContainerKeeps DEF EnsureCreates
  <1>3. ASSUME NEW n \in Names, LoseContainer(n)
        PROVE  LifeInv'
    BY <1>3, ContainerKeeps DEF LoseContainer
  <1>4. ASSUME NEW w \in Workers, NEW i \in Instances, ReconcilerCreates(w, i)
        PROVE  LifeInv'
    BY <1>4, SnapshotNames, ContainerKeeps DEF ReconcilerCreates
  <1> QED
    BY <1>1, <1>2, <1>3, <1>4, QueueKeeps, AnswersKeep, CycleStepKeeps, CrashKeeps, LifeStays
    DEF LifecycleNext

LEMMA LifeInvariant == LifecycleSpec => []LifeInv
  BY InitKeeps, StepKeeps, PTL DEF LifecycleSpec
-----------------------------------------------------------------------------
(* Who removes a container *)

\* Which container a step removes, and why.
LEMMA RemovedBy ==
  ASSUME LifeInv, LifecycleNext, NEW n \in Names, Present(n), containers'[n] = NoResource
  PROVE  \/ LoseContainer(n)
         \/ \E r \in runs : NameOf(r.job) = n /\ DestroyRemoves(r)
         \/ \E w \in Workers : \E c \in cycles[w].todo : c.name = n /\ Removable(w, c)
  <1>1. StoreOK /\ QueueInv /\ containers[n] # NoResource
    BY Parts DEF Present
  <1>2. CASE UNCHANGED containers
    BY <1>1, <1>2
  <1>3. ASSUME NEW m \in Names, RemoveContainer(m)
        PROVE  m = n
    BY <1>1, <1>3, RemoveKeeps
  <1>4. ASSUME NEW m \in Names, CreateContainer(m)
        PROVE  FALSE
    BY <1>1, <1>4, CreateKeeps
  <1>5. ASSUME NEW m \in Names, LoseContainer(m)
        PROVE  LoseContainer(n)
    BY <1>3, <1>5 DEF LoseContainer
  <1>6. ASSUME NEW r \in runs,
               EnsureCreates(r) \/ EnsureAnswers(r) \/ DestroyRemoves(r) \/ DestroyFindsNone(r)
        PROVE  NameOf(r.job) = n /\ DestroyRemoves(r)
    <2>1. NameOf(r.job) \in Names
      BY <1>1, RunNames
    <2> QED
      BY <1>2, <1>1, <1>3, <1>4, <1>6, <2>1
      DEF EnsureCreates, EnsureAnswers, DestroyRemoves, DestroyFindsNone, lifeVars
  <1>7. ASSUME NEW w \in Workers, NEW i \in Instances, ReconcilerCreates(w, i)
        PROVE  FALSE
    BY <1>4, <1>7, SnapshotNames DEF ReconcilerCreates
  <1>8. ASSUME NEW w \in Workers, CycleStep(w)
        PROVE  \E c \in cycles[w].todo : c.name = n /\ Removable(w, c)
    <2>1. ASSUME NEW c \in cycles[w].todo, Sweep(w, c) \/ LookFails(w, c)
          PROVE  c.name = n /\ Removable(w, c)
      <3>1. CASE UNCHANGED containers
        BY <1>1, <3>1
      <3>2. CASE Sweeping(w, c) /\ RemoveContainer(c.name) /\ Removable(w, c)
        BY <1>3, <3>2, LookFacts
      <3> QED
        BY <2>1, <3>1, <3>2
        DEF Sweep, LookFails, ReportOrphan, InspectMatching, DestroyStale, DestroyMatching,
            Removable
    <2>2. ASSUME NEW i, Returns(w, i)
          PROVE  UNCHANGED containers
      BY <2>2 DEF Returns, RecordAbsent, ReconcilerEnsures, EnsureFails
    <2>3. ASSUME \/ ListDesired(w) \/ BeginEnsuring(w) \/ WriteBackFails(w) \/ EndCycle(w)
                 \/ \E expired \in SUBSET Instances : ListResources(w, expired)
                 \/ \E x \in cycles[w].writes : WriteBack(w, x)
          PROVE  UNCHANGED containers
      BY <2>3 DEF ListDesired, BeginEnsuring, WriteBackFails, EndCycle, ListResources, WriteBack
    <2> QED
      BY <1>1, <1>8, <2>1, <2>2, <2>3 DEF CycleStep
  <1> QED
    BY <1>1, <1>5, <1>6, <1>7, <1>8 DEF LifecycleNext, QueueStep, CrashProcess, lifeVars

LEMMA WantedStays ==
  ASSUME LifeInv, LifecycleNext, NEW n \in Names, Present(n), containers'[n] = NoResource,
         Wanted(n)
  PROVE  UNCHANGED <<runs, cycles>>
  <1> DEFINE row == instances[n.instance]
  <1>1. /\ n.instance \in Instances /\ n.generation \in Nat /\ n.generation > 0
        /\ row.generation = n.generation /\ ~Stops(row) /\ row.desired # "stopped"
    BY ParameterAssumption DEF Names, Generations, Wanted, ShouldStop, Unexpired, Stops
  <1>2. ASSUME NEW r \in runs, NameOf(r.job) = n, DestroyRemoves(r)
        PROVE  FALSE
    <2>1. /\ QueueInv /\ r.job \in JobKeys /\ jobs[r.job].status # "absent"
          /\ r.job.instance = n.instance /\ r.job.generation = n.generation
      BY <1>2, Parts, RunNames, RunsHaveJobs
    <2>2. jobs[r.job].desired = row.desired
      BY <1>1, <2>1 DEF QueueInv, IntentInv, JobCarriesIntent, Current
    <2> QED
      BY <1>1, <1>2, <2>2 DEF DestroyRemoves
  <1>3. ASSUME NEW w \in Workers, NEW c \in cycles[w].todo, c.name = n, Removable(w, c)
        PROVE  FALSE
    <2> DEFINE s == cycles[w].rows[n.instance]
    <2>1. /\ s.generation <= row.generation
          /\ s.generation > 0 /\ s.generation = row.generation =>
               IF s.stop THEN Stops(row) ELSE row.desired = "running"
      BY <1>1, Parts DEF CycleFits, RowsBehind
    <2>2. s.generation \in Nat
      BY <1>1, Parts, CycleFields
    <2>3. Snapshot(w, c.name.instance) = s
      BY <1>3 DEF Snapshot
    <2> HIDE DEF s, row
    <2>4. n.generation < s.generation \/ (n.generation = s.generation /\ s.stop)
      BY <1>3, <2>3 DEF Removable, Stale, Matching
    <2> QED
      BY <1>1, <2>1, <2>2, <2>4
  <1>4. LoseContainer(n)
    BY <1>2, <1>3, RemovedBy
  <1> QED
    BY <1>4 DEF LoseContainer, vars

-----------------------------------------------------------------------------
(* Theorems *)

\* The resource a row shows was made for that instance and for the generation it
\* was observed at, whatever jobs, snapshots and write backs of earlier
\* generations are still under way.
THEOREM ResourcesAreOwn == LifecycleSpec => []ResourceIsOwn
  <1>1. LifeInv => ResourceIsOwn
    BY DEF LifeInv
  <1> QED
    BY <1>1, LifeInvariant, PTL

\* Only the host loses the container of an instance that is wanted at that moment.
\* A removal is the work of a run, whose job carries the intent of its own
\* generation, or of a cycle, whose snapshot is behind the row: neither removes it.
THEOREM WantedContainersStay == LifecycleSpec => WantedIsNeverRemoved
  <1>1. LifeInv /\ [LifecycleNext]_allVars =>
          [\A n \in Names : Present(n) /\ containers'[n] = NoResource /\ Wanted(n)
                              => UNCHANGED <<runs, cycles>>]_allVars
    BY WantedStays
  <1> QED
    BY <1>1, LifeInvariant, PTL DEF LifecycleSpec, WantedIsNeverRemoved

\* The queue with its provider and its reconcilers in place implements the queue
\* of InstanceJobs, whose provider may answer anything its contract allows: every
\* step is a step of the queue or leaves it alone.
THEOREM QueueIsImplemented == LifecycleSpec => ImplementsQueue
  <1>1. LifecycleInit => Init
    BY DEF LifecycleInit
  <1> QED
    BY <1>1, LifeInvariant, StepImplements, PTL DEF LifecycleSpec, ImplementsQueue, Spec

\* What was proved of the queue holds of the whole: no replaced or destroyed
\* instance shows addresses, and none is observed stopped that was not meant to be.
THEOREM LifecycleShowsCurrent ==
  LifecycleSpec => [](NoStaleEntrypoints /\ StoppedOnlyWhenIntended)
  <1>1. LifecycleSpec => Spec
    BY QueueIsImplemented DEF ImplementsQueue
  <1> QED
    BY <1>1, EntrypointsAreCurrent, StoppedIsIntended, PTL


=============================================================================
