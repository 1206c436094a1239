------------------------- MODULE InstanceLifecycle -------------------------
(***************************************************************************)
(* The queue of InstanceJobs together with what it drives: the containers  *)
(* of a Docker provider and the reconciler every worker process runs.      *)
(*                                                                         *)
(* A container is named by its instance and generation and has an id that  *)
(* is never used again.  A reconcile cycle works from two snapshots, the   *)
(* desired rows and then the inventory, and every provider call and every  *)
(* write back is a step of its own: commands, jobs, expiry, other cycles   *)
(* and crashes come in between.                                            *)
(***************************************************************************)
EXTENDS InstanceJobs

VARIABLES
  containers,  \* the inventory: container id by name, NoResource if none
  made,        \* every container ever created, with its name
  cycles       \* Reconciler.Cycle of every worker process

lifeVars == <<containers, made, cycles>>
allVars == <<vars, lifeVars>>

-----------------------------------------------------------------------------

\* ResourceName: two generations of an instance never share a container.
Names == [instance : Instances, generation : Generations]
\* Mutant of NameOf: the generation of the row is taken for that of the job.
NameOfCurrent(k) == [instance |-> k.instance, generation |-> instances[k.instance].generation]
NameOf(k) == [instance |-> k.instance, generation |-> k.generation]
Containers == [name : Names, id : ResourceIds]

\* What a cycle keeps of a row of ListDesiredInstances.
Snapshots == [generation : 0..MaxGeneration,
              stop : BOOLEAN,       \* shouldStop
              settled : BOOLEAN,    \* already observed stopped, with no resource
              resource : ResourceIds \cup {NoResource}]
NoSnapshot == [generation |-> 0, stop |-> TRUE, settled |-> TRUE, resource |-> NoResource]

\* A RecordObservation the cycle is about to send.
Writes == [name : Names, expected : ResourceIds \cup {NoResource},
           observation : Observations]

Cycles == [phase : {"idle", "listed", "sweeping", "ensuring"},
           rows : [Instances -> Snapshots],
           todo : SUBSET Containers,     \* listed, not yet looked at
           done : SUBSET Instances,      \* handled or blocked
           writes : SUBSET Writes]
IdleCycle == [phase |-> "idle", rows |-> [i \in Instances |-> NoSnapshot],
              todo |-> {}, done |-> {}, writes |-> {}]

ShouldStop(i) == instances[i].desired = "stopped" \/ ~Unexpired(i)
Wanted(n) == /\ instances[n.instance].generation = n.generation
             /\ ~ShouldStop(n.instance)

LifecycleInit ==
  /\ Init
  /\ containers = [n \in Names |-> NoResource]
  /\ made = {}
  /\ cycles = [w \in Workers |-> IdleCycle]

-----------------------------------------------------------------------------
(* The Docker provider: create or find by name, remove by name *)

Present(n) == containers[n] # NoResource
Listed == {c \in Containers : containers[c.name] = c.id}

CreateContainer(n) ==
  \E id \in ResourceIds \ {c.id : c \in made} :
    /\ ~Present(n)
    /\ containers' = [containers EXCEPT ![n] = id]
    /\ made' = made \cup {[name |-> n, id |-> id]}

RemoveContainer(n) ==
  /\ containers' = [containers EXCEPT ![n] = NoResource]
  /\ UNCHANGED made

\* A container may be healthy or not whenever it is looked at.
HealthOf(n) ==
  {[state |-> s, resource |-> containers[n]] : s \in {"running", "unready"}}
Missing == [state |-> "unready", resource |-> NoResource]
Gone == [state |-> "stopped", resource |-> NoResource]

\* The host loses a container: removed by hand, pruned, disk lost.
LoseContainer(n) ==
  /\ Present(n)
  /\ RemoveContainer(n)
  /\ UNCHANGED <<vars, cycles>>

-----------------------------------------------------------------------------
(* The provider calls of a job *)

EnsureCreates(r) ==
  /\ r.phase = "operating"
  /\ jobs[r.job].desired = "running"
  /\ CreateContainer(NameOf(r.job))
  /\ UNCHANGED <<vars, cycles>>

EnsureAnswers(r) ==
  /\ jobs[r.job].desired = "running"
  /\ Present(NameOf(r.job))
  /\ \E o \in HealthOf(NameOf(r.job)) : ProviderAnswers(r, o)
  /\ UNCHANGED lifeVars

\* Destroy removes by name and answers without looking again; it may fail although
\* the container is gone.
DestroyRemoves(r) ==
  /\ jobs[r.job].desired = "stopped"
  /\ Present(NameOf(r.job))
  /\ RemoveContainer(NameOf(r.job))
  /\ ProviderAnswers(r, Gone) \/ \E kind \in FailureKinds : ProviderFails(r, kind)
  /\ UNCHANGED cycles

DestroyFindsNone(r) ==
  /\ jobs[r.job].desired = "stopped"
  /\ ~Present(NameOf(r.job))
  /\ ProviderAnswers(r, Gone)
  /\ UNCHANGED lifeVars

-----------------------------------------------------------------------------
(* Reconciler.Cycle: two snapshots *)

SetCycle(w, c) == cycles' = [cycles EXCEPT ![w] = c]

ListDesired(w) ==
  /\ cycles[w].phase = "idle"
  /\ SetCycle(w, [IdleCycle EXCEPT !.phase = "listed", !.rows =
       [i \in Instances |->
          [generation |-> instances[i].generation,
           stop |-> ShouldStop(i),
           settled |-> /\ instances[i].observed = "stopped"
                       /\ instances[i].observedGeneration = instances[i].generation
                       /\ instances[i].resource = NoResource,
           resource |-> instances[i].resource]]])
  /\ UNCHANGED <<vars, containers, made>>

\* The clock is read after both lists: an expiry that was ahead in the first may
\* have passed.  That of a generation replaced meanwhile may have or not.
ListResources(w, expired) ==
  LET c == cycles[w] IN
  /\ c.phase = "listed"
  /\ \A i \in Instances : c.rows[i].generation = instances[i].generation
                            => (i \in expired <=> ShouldStop(i))
  /\ SetCycle(w, [c EXCEPT
       !.phase = "sweeping", !.todo = Listed,
       !.rows = [i \in Instances |-> [c.rows[i] EXCEPT !.stop = @ \/ i \in expired]]])
  /\ UNCHANGED <<vars, containers, made>>

-----------------------------------------------------------------------------
(* Reconciler.Cycle: the loop over the inventory *)

Looked(w, c, handled, writes) ==
  SetCycle(w, [cycles[w] EXCEPT !.todo = @ \ {c}, !.writes = writes,
                                !.done = IF handled THEN @ \cup {c.name.instance} ELSE @])

Sweeping(w, c) ==
  /\ cycles[w].phase = "sweeping" /\ cycles[w].writes = {}
  /\ c \in cycles[w].todo

Snapshot(w, i) == cycles[w].rows[i]
Unknown(w, c) == Snapshot(w, c.name.instance).generation = 0
Future(w, c) == ~Unknown(w, c) /\ c.name.generation > Snapshot(w, c.name.instance).generation
\* Mutant of Stale: any other generation is taken for an earlier one.
StaleOrFuture(w, c) ==
  ~Unknown(w, c) /\ c.name.generation # Snapshot(w, c.name.instance).generation
\* Mutant of Stale: the desired state is looked at before the generation.
StaleOfRunning(w, c) ==
  /\ ~Unknown(w, c) /\ c.name.generation < Snapshot(w, c.name.instance).generation
  /\ ~Snapshot(w, c.name.instance).stop
Stale(w, c) == ~Unknown(w, c) /\ c.name.generation < Snapshot(w, c.name.instance).generation
Matching(w, c) == ~Unknown(w, c) /\ c.name.generation = Snapshot(w, c.name.instance).generation

\* instance_orphan_reports is upserted; nothing of the program reads it.
ReportOrphan(w, c) ==
  /\ Sweeping(w, c)
  /\ Unknown(w, c) \/ Future(w, c)
  /\ Looked(w, c, Future(w, c), {})
  /\ UNCHANGED <<vars, containers, made>>

DestroyStale(w, c) ==
  /\ Sweeping(w, c)
  /\ Stale(w, c)
  /\ RemoveContainer(c.name)
  /\ Looked(w, c, FALSE, {})
  /\ UNCHANGED vars

DestroyMatching(w, c) ==
  /\ Sweeping(w, c)
  /\ Matching(w, c)
  /\ Snapshot(w, c.name.instance).stop
  /\ RemoveContainer(c.name)
  /\ Looked(w, c, TRUE, {[name |-> c.name, expected |-> c.id, observation |-> Gone]})
  /\ UNCHANGED vars

InspectMatching(w, c) ==
  /\ Sweeping(w, c)
  /\ Matching(w, c)
  /\ ~Snapshot(w, c.name.instance).stop
  /\ \E o \in (IF Present(c.name) THEN HealthOf(c.name) ELSE {Missing}) :
       Looked(w, c, TRUE, {[name |-> c.name, expected |-> c.id, observation |-> o]})
  /\ UNCHANGED <<vars, containers, made>>

Removable(w, c) == Stale(w, c) \/ (Matching(w, c) /\ Snapshot(w, c.name.instance).stop)

\* The provider call, or the report, fails, a removal perhaps after it took effect:
\* an instance that was handled or blocked stays so until the next cycle.
LookFails(w, c) ==
  /\ Sweeping(w, c)
  /\ Looked(w, c, Matching(w, c) \/ Future(w, c), {})
  /\ \/ UNCHANGED <<containers, made>>
     \/ Removable(w, c) /\ RemoveContainer(c.name)
  /\ UNCHANGED vars

-----------------------------------------------------------------------------
(* Reconciler.Cycle: the loop over the instances without a container *)

NothingToDo(s) == s.generation = 0 \/ (s.stop /\ s.settled)

BeginEnsuring(w) ==
  /\ cycles[w].phase = "sweeping" /\ cycles[w].writes = {}
  /\ cycles[w].todo = {}
  /\ SetCycle(w, [cycles[w] EXCEPT !.phase = "ensuring", !.done =
       @ \cup {i \in Instances : NothingToDo(Snapshot(w, i))}])
  /\ UNCHANGED <<vars, containers, made>>

SnapshotName(w, i) == [instance |-> i, generation |-> Snapshot(w, i).generation]

Ensuring(w, i) ==
  /\ cycles[w].phase = "ensuring" /\ cycles[w].writes = {}
  /\ i \notin cycles[w].done

Settle(w, i, o) ==
  SetCycle(w, [cycles[w] EXCEPT
    !.done = @ \cup {i},
    !.writes = {[name |-> SnapshotName(w, i), expected |-> Snapshot(w, i).resource,
                 observation |-> o]}])

RecordAbsent(w, i) ==
  /\ Ensuring(w, i)
  /\ Snapshot(w, i).stop
  /\ Settle(w, i, Gone)
  /\ UNCHANGED <<vars, containers, made>>

ReconcilerCreates(w, i) ==
  /\ Ensuring(w, i)
  /\ ~Snapshot(w, i).stop
  /\ CreateContainer(SnapshotName(w, i))
  /\ UNCHANGED <<vars, cycles>>

ReconcilerEnsures(w, i) ==
  /\ Ensuring(w, i)
  /\ ~Snapshot(w, i).stop
  /\ Present(SnapshotName(w, i))
  /\ \E o \in HealthOf(SnapshotName(w, i)) : Settle(w, i, o)
  /\ UNCHANGED <<vars, containers, made>>

EnsureFails(w, i) ==
  /\ Ensuring(w, i)
  /\ SetCycle(w, [cycles[w] EXCEPT !.done = @ \cup {i}])
  /\ UNCHANGED <<vars, containers, made>>

EndCycle(w) ==
  /\ cycles[w].phase = "ensuring" /\ cycles[w].writes = {}
  /\ cycles[w].done = Instances
  /\ SetCycle(w, IdleCycle)
  /\ UNCHANGED <<vars, containers, made>>

-----------------------------------------------------------------------------
(* The write back, and the process itself *)

Written(w) == SetCycle(w, [cycles[w] EXCEPT !.writes = {}])

\* Mutant of WriteBack: the write back is not guarded.
WriteBackUnguarded(w, x) ==
  /\ x \in cycles[w].writes
  /\ instances' = [instances EXCEPT ![x.name.instance] =
                     Observed(@, x.observation, x.name.generation)]
  /\ Written(w)
  /\ UNCHANGED <<jobs, attempts, runs, containers, made>>

\* ErrObservationConflict is logged and the cycle goes on.
WriteBack(w, x) ==
  /\ x \in cycles[w].writes
  /\ \/ ReconcilerObserves(x.name.instance, x.name.generation, x.expected, x.observation)
     \/ /\ ~ReconcilerMayObserve(x.name.instance, x.name.generation, x.expected)
        /\ UNCHANGED vars
  /\ Written(w)
  /\ UNCHANGED <<containers, made>>

WriteBackFails(w) ==
  /\ cycles[w].writes # {}
  /\ Written(w)
  /\ UNCHANGED <<vars, containers, made>>

\* The process dies with its runner and its reconciler.
CrashProcess(w) ==
  /\ RunsOf(w) # {} \/ cycles[w].phase # "idle"
  /\ runs' = runs \ RunsOf(w)
  /\ SetCycle(w, IdleCycle)
  /\ UNCHANGED <<instances, jobs, attempts, containers, made>>

-----------------------------------------------------------------------------

Sweep(w, c) == ReportOrphan(w, c) \/ DestroyStale(w, c) \/ DestroyMatching(w, c)
                 \/ InspectMatching(w, c)

QueueStep ==
  /\ \/ \E i \in Instances : Command(i) \/ LifetimeClock(i)
     \/ \E k \in JobKeys : ReplayDeadLetter(k) \/ LeaseClock(k)
     \/ \E w \in Workers, batch \in SUBSET Claimable, locked \in SUBSET Lockable :
          ClaimBatch(w, batch, locked)
     \/ \E r \in runs : \/ \E kind \in FailureKinds : ProviderFails(r, kind)
                       \/ RecordObservation(r) \/ Complete(r) \/ Fail(r) \/ Interrupt(r)
                       \/ RenewLease(r) \/ BeginInterrupt(r) \/ FinalizationLost(r)
  /\ UNCHANGED lifeVars

\* Returns stands for every way Ensure ends; ReconcilerCreates is not one.
Returns(w, i) == RecordAbsent(w, i) \/ ReconcilerEnsures(w, i) \/ EnsureFails(w, i)

\* The next step of a cycle, for better or worse.
CycleStep(w) ==
  \/ ListDesired(w)
  \/ \E expired \in SUBSET Instances : ListResources(w, expired)
  \/ \E c \in cycles[w].todo : Sweep(w, c) \/ LookFails(w, c)
  \/ BeginEnsuring(w)
  \/ \E i \in Instances : Returns(w, i)
  \/ \E x \in cycles[w].writes : WriteBack(w, x)
  \/ WriteBackFails(w)
  \/ EndCycle(w)

LifecycleNext ==
  \/ QueueStep
  \/ \E r \in runs : \/ EnsureCreates(r) \/ EnsureAnswers(r)
                    \/ DestroyRemoves(r) \/ DestroyFindsNone(r)
  \/ \E n \in Names : LoseContainer(n)
  \/ \E w \in Workers : \/ CycleStep(w)
                       \/ \E i \in Instances : ReconcilerCreates(w, i)
                       \/ CrashProcess(w)

LifecycleSpec == LifecycleInit /\ [][LifecycleNext]_allVars

\* Every process goes on reconciling: a cycle makes its next step, calls have
\* timeouts, and crashes or failures do not cut short each inventory, each look at
\* the same container or each write back.  Nothing is assumed of jobs, commands or
\* expiry.
ReconcilerFairness ==
  \A w \in Workers :
    /\ WF_allVars(CycleStep(w))
    /\ SF_allVars(\E expired \in SUBSET Instances : ListResources(w, expired))
    /\ \A n \in Names : SF_allVars(\E c \in cycles[w].todo : c.name = n /\ Sweep(w, c))
    /\ SF_allVars(\E x \in cycles[w].writes : WriteBack(w, x))

LifecycleFairSpec == LifecycleSpec /\ ReconcilerFairness

-----------------------------------------------------------------------------
(* Properties *)

\* The resource a row shows was created for that instance and for the generation
\* the row was last observed at, and while the instance is wanted that is its
\* current one: no snapshot, job or cycle of an earlier generation makes a row
\* point at a container of another generation.
ResourceIsOwn ==
  \A i \in Instances :
    LET row == instances[i] IN
    row.resource # NoResource =>
      /\ [name |-> [instance |-> i, generation |-> row.observedGeneration],
          id |-> row.resource] \in made
      /\ row.desired = "running" => row.observedGeneration = row.generation

\* A wanted container goes only when the host loses it, which no run and no cycle
\* takes part in: no destroy job, however late it reaches the provider after its
\* instance was started anew, and no reconcile cycle, whatever it read before,
\* removes the container of a generation that is wanted now.
WantedIsNeverRemoved ==
  [][\A n \in Names : Present(n) /\ containers'[n] = NoResource /\ Wanted(n)
                        => UNCHANGED <<runs, cycles>>]_allVars

\* With the provider and the reconciler in place the queue behaves as InstanceJobs
\* says it may: every observation written is one its open provider allows.
ImplementsQueue == Spec

Accounted(n) == ~Present(n) \/ (Wanted(n) /\ instances[n.instance].resource # NoResource)

\* Every container is accounted for in the end, whatever jobs die, commands arrive
\* and processes crash.  One that nobody wants goes, and it is never wanted again:
\* the old generation of a renewed or destroyed instance, the one a stale cycle
\* created again, the one that expired.  And the create-before-writeback window
\* closes: the row of a wanted one comes to show a resource.
ContainersSettle == \A n \in Names : []<>Accounted(n)

=============================================================================
