# A verification project for SauryCTF

SauryCTF is a CTF platform: a Nuxt/Nitro control plane (`apps/web`), a Go
instance worker (`apps/worker`), and PostgreSQL, which is the only thing the two
share. This directory models the parts of it that are concurrent, may fail
between two steps, or must hold over long sequences of operations, checks the
models with TLC on small instances, and proves the central invariants with TLAPS
for every value of the constants.

The modules are translated from the source; `PROJECT.json` maps each definition
to the lines it stands for.

## 1. Inventory

| Component | State | Operations | What is hard |
| --- | --- | --- | --- |
| Instance commands (`instance-repository.ts`, `operations-repository.ts`) | rows of `instances`, `instance_jobs` | start, renew, destroy, operator reconcile, dead-letter replay | the generation that every later write is compared with; quota; time captured before the locks |
| Instance job queue (`worker/internal/jobs`) | `instance_jobs`, `instance_job_attempts`, leases in workers' memory | claim with housekeeping, renew, complete, fail, interrupt, record observation | takeover while the first worker still runs, fencing, crash between any two transactions |
| Reconciler (`worker/internal/reconcile`) | two snapshots in memory | cycle: list rows, list containers, destroy, inspect, ensure, write back, report orphans | every decision is taken from a stale snapshot |
| Docker and Kubernetes providers | containers, or six objects per instance | ensure, inspect, destroy, list | create before write back, partial destruction |
| Worker process (`app.go`) | goroutines | runner and reconciler live and die together | crash |
| Submissions and scoring | submissions, solves, score facts, versions | append, adjust, review, replay | attempt limits, order of solves against their time, replay over a cut |
| Scoreboards | snapshots by version, build leases in memory | read, rebuild, freeze, fall back | the frozen view, versions that move during a build |
| Teams and participations | members, captain, invitations, registrations | create, join, leave, transfer, register, review, withdraw | locks across two aggregates |
| Operator commands | idempotency keys, audit | claim, execute, complete | external effect between claim and completion |
| Mail outbox | deliveries with leases | claim, sent, failed | worker id without a token, last attempt lost |
| Content objects | objects, references, blobs | register, commit, claim garbage, delete | a new reference during collection |
| Identity, sessions, rate limits, retention | tokens, sessions, buckets | issue, use, revoke, consume, purge | single use, several buckets in one transaction |
| Packages, writeups, announcements, timeline, settings, monitoring, migrations, UI | rows with optimistic versions | single-transaction edits, read models | little that interleaves |

How they interact. A player command is one PostgreSQL transaction
(READ COMMITTED) that locks the instance row, raises `desired_generation` and
inserts a job for that generation. Workers poll the queue, lease jobs with a
fencing token, call a provider, write the observation back and finalise the job,
each in a transaction of its own. Independently, the reconciler of every worker
process compares a list of rows with a list of containers and repairs
differences through the same providers, writing to the same rows under a
different guard. Nothing but rows connects the three.

What makes each part correct:

* queue: leases, attempts and jobs stay in step; an outcome is written once; a
  settled job of an old generation never moves; every queued job is settled;
* rows: nothing of an old generation shows through; an instance is said to be
  stopped only if it was meant to stop; success was observed;
* reconciler: what is wanted is never removed; what is not wanted goes; rows
  point at their own container;
* submissions: one solve per team and challenge, contiguous orders, limits;
* scoreboards: a frozen view is a function of the facts before the cut;
* teams: one captain, one team per user, a team that was accepted keeps its roster
  until the contest is over, and what was read before a lock decides nothing;
* content: what is referenced is stored, what is claimed is not stuck;
* outbox: rows say what happened to a mail, and every mail is settled;
* accounts: password, tokens, verification and sessions speak of the same account,
  the present one.

`PROJECT.json` lists the hazards at their lines, with the property that covers
each or the reason why none does.

## 2. Modules

| Module | Models |
| --- | --- |
| `AttemptLedger` | abstract: what the queue promises about the work done for its jobs |
| `InstanceJobs` | commands, queue, runner, the two observation writers; providers answer anything their contract allows |
| `InstanceLifecycle` | extends `InstanceJobs` with the containers of a Docker provider and the reconcile cycle of every process |
| `ScoreFacts` | abstract: what submissions promise to whoever reads the score |
| `Submissions` | one contest: enrolment, challenge settings, flags on their way to a fact, solves, adjustments, version, first solve events, clues |
| `Scoreboard` | extends `ScoreFacts` with snapshots and the steps of a read |
| `Teams` | members, captains, invitations, registration and review, as commands that read, wait for a lock and look again |
| `Contents` | uploads, content rows, blobs, references and the garbage collectors of several processes |
| `Accounts` | one account: its password, address, mailed tokens and cookies, under slow requests |
| `MailOutbox` | deliveries, the dispatcher of every process, and sends under way |
| `...Proofs` | inductive invariants and theorems about each module, one proof module for each of the eight |
| `MC...` | symmetry sets and settings of each module for TLC |

`Submissions` implements `ScoreFacts`, and `Scoreboard` reads nothing else of it:
what holds of the board over `ScoreFacts` holds over `Submissions`. The enrolment of
`Submissions` is what `Teams` makes of it, without the members. `Teams`, `Contents`,
`Accounts` and `MailOutbox` share no rows with each other but these: a change of an
account makes a member eligible or not (`UserChanges`), and a token's mail is queued
by the transaction that stores it (`IssueToken`, `Enqueue`).

### InstanceJobs

State: `instances` (one record per row; generation 0 means that there is no row),
`jobs` by `(instance, generation, operation)`, the table's unique index,
`attempts` by job and attempt number, and `runs`, one record per goroutine in
`Runner.process`. A job outlives its lease in `runs`: a worker that lost it goes
on until it finds out.

One action is one transaction or one step between two of them:

| Code | Actions |
| --- | --- |
| `start`, `renew`, `destroy` | `Start`, `Renew`, `Destroy` |
| `enqueueReconcile`, `replayDeadLetter` | `EnqueueReconcile`, `ReplayDeadLetter` |
| `ClaimBatch` (supersede, exhaust, claim: one transaction) | `ClaimBatch` |
| `ProcessLease`: provider call, then observation | `ProviderAnswers`, `ProviderFails`, `RecordObservation` |
| `renewLoop`, cancelled call | `RenewLease`, `BeginInterrupt` |
| `Complete`, `Fail`, `Interrupt` through `finish`, `recordLeaseLost` | `Complete`, `Fail`, `Interrupt` (`Finish`) |
| failed finalisation, dead process | `FinalizationLost`, `Crash` |
| `PostgresStore.RecordObservation` | `ReconcilerObserves` |
| time | `LeaseClock`, `LifetimeClock` |

Abstractions, and why they lose nothing the properties look at:

* time: a lease is a number of ticks that `LeaseClock` takes away at any moment;
  an expiry is `fresh`, `renewable` (in the renewal window) or `expired`. Retry
  delays and `available_at` are dropped: a waiting job may be claimed at once,
  which allows more behaviours than the code;
* `FOR UPDATE SKIP LOCKED`: a claim may pass over any set of jobs a finalisation
  may be locking (`Lockable`); commands that hold the instance row do not matter,
  the claim does not lock it;
* `unready` stands for starting, failed and unknown. `entrypoints` is the
  generation whose addresses the row shows, 0 for none;
* a cancelled provider call has no effect after the worker gave it up;
* membership, contest phase, audit and error texts are left out. `cancelled` jobs
  and `inspect` jobs are written by nothing outside tests;
* operators queue reconcile jobs only for `OperatorGenerations`, and replays stop
  at `AttemptBound`: bounds of the exploration, like `MaxGeneration`.

### InstanceLifecycle

Adds `containers` (by name, which is instance and generation), `made` (history:
every container ever created) and `cycles`, one reconcile cycle per process: its
phase, the rows it listed, the containers it has still to look at, the instances
handled or blocked, and the write back it is about to send. `ListDesired` and
`ListResources` are two steps; the clock is read after the second. Each provider
call, each write back and each failure is a step of its own, so that commands,
jobs and crashes come in between. Container ids are never used again, as Docker's
are; a container may be found healthy or not at any look, and `LoseContainer`
takes one away from outside. A removal, by a job or by a cycle, may have taken effect
although it answers with an error, and so may the write of an observation that is
followed by `Fail`. One Docker provider is modelled: duplicate, provider-mismatch and
identity-mismatch reports are not reachable in it.

`instance_orphan_reports` is written and never read by the program: `ReportOrphan`
only moves the cycle on.

### Submissions

State: `enrolment` (a participation's status), `challenge` (the settings an admission
reads, the flag policy among them), `calls` (flags verified and not yet in a
transaction, with the time since when), `transactions` (open appends with what they have
read), and the tables `submissions`, `solves`, `adjustments`, `version`, `events` and
`clues`.

| Code | Actions |
| --- | --- |
| `verifyFlag`: `admit`, limits, verdict | `Verify`; `Dismiss` when nothing comes of it |
| `append`: lookup, locks, second admission, reads | `Begin` |
| `append`: inserts, version, first solve, clues, commit | `Commit`; `Rollback` on a crash or a taken key |
| `recordScoreAdjustment`, `reviewCheatClue` | `Adjust`, `ReviewClue` |
| `register`, `withdraw`, `review` | `Register`, `Withdraw`, `Review` |
| `revise`, `archive` | `Revise`, `Archive` |

An append takes its time before it waits for its rows: `Begin(k, at)` may take any
moment since the flag was verified. `RowsFree` is the wait for the participation
and the challenge (`FOR UPDATE`), `ContestFree` that of the transactions that lock
the contest `FOR UPDATE` while appends hold it `FOR SHARE`; those are one step
each. What a transaction reads at `Begin` is what its statements would read later:
only the holder of the challenge row changes its counts.

A flag policy is what a row accepts as each team's flag (`accepts`) and whether its
type is team-derived (`derived`); like the limit and the times it can be revised while
flags are on their way. `Verify` takes the verdict by the policy it reads, and the append
keeps that verdict but reads the type again to decide whether it looks for the flags of
other teams (`detectForeignTeamFlag`); `derived` in a submission is history, the type
its append read. The scoring policy is revised too, but of what an append stores only
`awarded_score` is made of it, which nothing reads back: a board's points come from the
policy at its build.

A registration, a review and an adjustment are judged by the time their transaction
began, and have their locks up to `MaxLag` ticks later (`BegunAt`): an acceptance may
commit after the contest has ended, here and in `ScoreFacts`.

Abstractions: digests and ciphertexts are left out, so two answers are equal when their
digests are. A user stands for the team; membership does not change. Points, awarded
scores and the amount and target of an adjustment are left out: the board is a function
of the facts kept. The thresholds of the clues (3, 10 in 60 seconds) are constants. A
null limit or closing time is one that is out of reach. The replicas and the database
share one clock. Rate limits only refuse, and `Dismiss` covers that.

### Scoreboard

State: `snapshots` of the overall scope, and `readers`, one read each. Divisions
are scopes with snapshots of their own and take the same steps.

| Code | Actions |
| --- | --- |
| `read`: the time | `Open` |
| `readContestState` | `Load` |
| snapshot lookups | `ServeStored`, `Miss` |
| `materialize`: replay, version check | `Build`, `BuildFails` |
| `writeSnapshot` | `Store`, `StoreFails` |
| `readStaleProjection` | `ServeStale`, `Fail` |
| answer sent, replica dies | `Close` |
| `result_recalculate` | `ClearSnapshots` |

A lookup that is repeated before the build (`preferExisting`, the winner of a
build) is one the model makes later; a read that joins the build of another in the
same replica has loaded the same version, and takes the same steps in the model. Any
error of a build or of an insert, a conflict with the facts or with a stored board or a
failure of the database, leads to `readStaleProjection` (`BuildFails`, `StoreFails`). A
board is what it is computed from: the facts and the accepted teams. Divisions and
scoring policies change a board under one version as an acceptance does, and are
left out. `floor`, the version when a read was opened, is history for
`PublicReadsAreFresh`. A clearing between the insert and the comparison of
`writeSnapshot` is not modelled: that read would fail or fall back.

### Teams

State: `members` and `captains` by team, `invitation` (the current generation),
`enrolment` by team and contest, `contest`, `eligible` (a user is active, verified and
keeps no initial password), and `calls`, the commands that have found their team and
wait for its lock.

| Code | Actions |
| --- | --- |
| the unlocked read of `join`, `findTeamForUser`, `lockActorTeam` | `Begin`; or at once with what follows (`Found`) |
| `lockTeam`, `readLocks` and the rest of the transaction | `Join`, `Leave`, `RemoveMember`, `RotateInvite`, `TransferCaptain`, `Register`, `Withdraw` |
| refusals, aborted transactions | `Abort` |
| `create`, `correctMembership` | `Create`, `AddMember`, `DropMember`, `AssignCaptain` |
| `review` | `Review`, with the contests that had ended when it began |
| `publish`, `archive`, the end | `ContestMoves` |
| bans, verification, changes of address | `UserChanges` |

The team's row lock makes everything after it one step: `members`, `captains`,
`invitation` and `enrolment` of a team are written under that lock only. The phase of a
contest is judged by `CURRENT_TIMESTAMP`, the start of the transaction: a call carries
`ended`. Names, audit, contest invitations, allowed e-mail domains and divisions are
left out: they refuse or label. Nothing gives an invitation an expiry. `rosters` is
history: the members and captain at the acceptance, with the corrections since.

### Contents

State: `objects` by the storage key of the upload, `blobs`, `references`, `uploads`,
`commits` (a blob was found, the row not yet updated), `collectors`.

| Code | Actions |
| --- | --- |
| `uploadTemporary`: `store.put`, `registerTemporary`, `bestEffortDelete` | `Put`, `Register`, `RegisterFails`, `Discard`, `UploadDies` |
| `commitTemporary`: `store.stat`, then the guarded update | `Stat`, `Commit` |
| references of assets, attachments, packages; a challenge is revised; the logo | `Attach`, `ReviseAssets`, `ReplaceLogo` |
| `claimGarbage`: snapshot, then locks and update | `List`, `Claim` |
| the loop of `collectGarbage` | `Confirm`, `DeleteBlob`, `MarkDeleted`, `CandidateFails`, `CollectionEnds` |
| 24 hours; a process dies | `Expire`; `CollectorDies` |

The claim is two steps because its statement sees the references of its snapshot and
the objects as they are when locked. References are removed when a logo is replaced
and when a challenge is revised, which deletes its assets and inserts the new ones.
A blob with no row, left by an upload that died, is never collected (`UploadDies`):
a comment at `service.ts:224` leaves it to the bucket's lifecycle rule. Committed blobs
keep the `temporary/` prefix in their keys, so such a rule would delete them too; nothing
in the repository configures one, and the model has none.

### Accounts

State: `user` (address, verified, active, session version), `hash`, `tokens`,
`requests` (what they have read), and `sessions`, every cookie ever handed out.

| Code | Actions |
| --- | --- |
| `login`: read; verify, rehash, hand out | `ReadForLogin`; `Login` |
| `changePassword`: read and verify; locks and the tokens it sees; commit | `ReadForPassword`; `StartChange`; `ChangePassword` |
| `requestPasswordReset`, `requestEmailVerification`: read; the two statements of `issueEmailToken` | `ReadForToken`; `MarkTokens`, `IssueToken` |
| `resetPassword`, `verifyEmail` | `ResetPassword`, `VerifyEmail`; `Expire` |
| `handleChangeEmail`: session; transaction | `ReadForEmail`; `ChangeEmail` |
| `changeUserStatus`, `changeGlobalRole`, `session_invalidate` | `ChangeUserStatus`, `InvalidateSessions` |

A hash stands for the password it was made of and the parameters it was made with.
`password` in tokens and sessions is history: what was valid when a token was stored,
what the holder of a session proved to know. `late` marks the sessions of the one
exception: a change of address checks its session first and never again, so a request
that was under way when the session ended gets a new, good one
(`docs` promise only that earlier cookies fail, and they do: `EndedSessionsStayEnded`).
A change of password and the issue of a token are READ COMMITTED transactions that do
not wait for each other: the update of `users` takes a lock that the foreign key of an
inserted token is compatible with. Each therefore looks at the tokens it is going to use
up in one step and commits in another (`seen`), and a token stored in between is missed;
`during` marks the tokens stored while a change of password was under way. Two changes,
or a change and a reset, do wait for each other (`ChangeUnderWay`). The session of a
change is looked at when the credential is read; the code does so a little earlier.
`must_change_password`, the bootstrap of the administrator and other accounts are left
out; the unique address of another account is a refusal (`Fail`).

### MailOutbox

State: `mails` (the rows; `waiting` is an `available_at` or `lease_until` ahead),
`dispatching`, `sends` under way, and `copies`, history: what the mail server took.

| Code | Actions |
| --- | --- |
| `appendSecurityEvent` | `Enqueue` |
| `claim` by the timer's `runOnce` | `Claim` |
| `transport.send`, which may fail after the server took the mail | `Send` |
| `markSent`, `markFailed`, and either of them throwing | `MarkSent`, `MarkFailed`, `MarkSentThrows`, `MarkFailedThrows` |
| the end of `runOnce`, a process that dies | `RunEnds`, `WorkerDies` |

A mark that throws may have written its row, the answer alone being lost.
`Promise.all` ends with the first rejection: `MarkFailedThrows` clears the flag while
the other sends of the run go on, no longer `awaited`. Rows are guarded by the owner
alone, so a later attempt of the same process can be settled by the earlier one.

## 3. Runs

| Run | Question | Instance |
| --- | --- | --- |
| `takeover` | do leases and attempts stay in step over takeovers, was success observed by its holder, do settled jobs stay settled through replays, and do the tables implement `AttemptLedger`? | 1 instance, 2 workers (symmetric), 2 generations, 2 attempts, lease of 1 tick |
| `settle` | is every queued job settled? | fair; 1 worker, 1 generation, lease of 2 ticks, 1 attempt, dead letters replayed once, operator commands |
| `lifecycle_cleanup` | does a row point at its own container, does nothing of an old generation show through, does the composition refine `InstanceJobs`, and is every container removed or accounted for in the end? | fair; 1 process, 2 generations that may expire, 1 container |
| `lifecycle_generations` | does a late destroy job or a stale cycle ever remove, or mark stopped, what was started anew? | 1 process, 3 generations that do not expire (`AlwaysFresh`), 1 container |
| `submissions_facts` | is the score always replayable, do limits and request ids hold, and is `ScoreFacts` implemented? | 2 teams, 2 requests, 2 challenges (all symmetric) whose limits are lowered, 2 waiting calls, 1 adjustment, contest of 1 tick, then practice, commands that lag by 1 tick |
| `submissions_clues` | do clues match what was submitted, and stay as the judges left them? | 2 teams, 3 requests (symmetric), 1 challenge whose flag policy is revised, 2 repeats for a clue |
| `scoreboard_reads` | are snapshots exact, live reads fresh or marked stale, archived reads complete? | 2 teams, 2 reads (symmetric), 2 facts, freeze at 1, end at 2, acceptances that lag by 1 tick |
| `scoreboard_frozen` | does a frozen board show only facts of before the freeze? **violated** | both views, 1 read at a time |
| `contents_gc` | does what is referenced keep its blob, and is what is claimed deleted or released? | fair; 2 keys, 1 content, 2 processes one of which lasts, a logo and 1 challenge |
| `teams_roster` | do rosters hold, are teams sound, and does old news decide nothing? | 3 users, 2 teams (symmetric), 1 contest for 1 or 2 members, 2 invitations of a team, 1 command waiting for its lock |
| `accounts_races` | do password, tokens, verification and sessions speak of the present account? | 2 addresses, 2 tokens (symmetric), 2 further passwords, 3 versions, 2 requests at a time |
| `mail_dispatch` | do rows say what happened, and are mails settled? | fair; 2 mails, 2 processes one of which lasts, 2 attempts |

Why the bounds are enough for what is asked. Everything in the queue is per job, and
jobs of different instances meet only in a claim's batch and in the quota, so one
instance shows every interaction between the jobs of its generations. Two workers show
takeover; a third would repeat the second. Two generations show every comparison with
the current one: before, equal, and (for a snapshot or a container) ahead; but the
destroy job of one generation can meet a wanted container only when there is a third,
started while the job of the second is pending. Two attempts show retry, takeover and
exhaustion; a job that a permanent error ended after the first is replayed with the
second. `takeover` has no resources, so no job of it observes a running instance; the
lifecycle runs do. A lease of one tick is held or expired; two ticks let a renewal
matter. `settle` has one worker and one attempt until a replay, so it has no job that
waits for a retry or that another worker takes over; those are in `takeover`, which asks
for no progress. In the lifecycle runs one container exists in a behaviour, of whichever
generation creates it, and what the host loses is not created again; the theorems have
no such bound. `AlwaysFresh` leaves expiry and renewal out of the run with three
generations, which are the other run's. Symmetry is used in runs without liveness
properties only. Operators' reconcile commands appear in `settle`; the composed runs
leave them out (`OperatorGenerations = {}`), as a reconcile job calls the providers as
an ensure or a destroy job does.

Submissions meet in three places: the rows of a participation, of a challenge, and the
unique keys. Two teams and two challenges show transactions side by side and waiting for
either row, and a request id used in both; two waiting calls let an official submission
be stored after a practice one of the same challenge. Clues are about one challenge
each, so their run has one. Their thresholds are scaled to 2, so that an answer has to
be repeated, and a third submission meets the clue again after its review. A lag of one
tick is enough to cross the end. Two facts are enough to be numbered, cut by the freeze
and built under one version; a third would be another second. Two reads race for one
snapshot. Counters (`MaxFacts`, `MaxAdjustments`, `MaxReviewed`, `MaxCalls`, `MaxTime`,
`MaxLag`, `MaxPassword`, `MaxVersion`, `MaxRequests`, `MaxInvitation`) only bound the
exploration; the specifications they bound state no fairness, and stop when the bounds
are used up (`CHECK_DEADLOCK FALSE`; a user can always change, so `Teams` does not).

In `Contents` the keys of one content meet in the unique digest, in one collector's
list and in nothing else; two show an upload discarded, repeated and registered after
the first was deleted. Two collectors show one taking over what the other left. In
`Teams` one waiting command already meets every other command, review and correction,
which happen in full between its read and its lock; two waiting ones would only add
their order. Two members fill the contest, the third user is refused or corrected in.
In `Accounts` two requests race with each other and with any number of steps that need
no earlier read. Two mails are what `Promise.all` needs to lose sight of one, two
attempts what a forgotten one needs to meet the next; with three attempts the liveness
check no longer ends in time.

### What the violation shows

`scoreboard_frozen`: a read opened before the freeze stores a snapshot with a fact of
after it, and frozen reads serve the latest public snapshot until the contest ends
(`docs/guide/scoreboard.md:19` promises the facts visible at the freeze).

### Known divergences without a run

The models contain the behaviours; each was reproduced with them.

* `destroy` raises the generation to g+1 and queues a destroy job for it; the worker
  removes the container named after g+1, which never existed, and the row says
  `stopped` while the container of generation g runs. It goes with the next successful
  look of a reconcile cycle (`ContainersSettle`), so the status is early rather than wrong
  for ever; the guide (`docs/guide/game-participation.md:31`) promises that the resource
  is gone.
* A container whose id the row knows is lost; a cycle ensures a new one and does not
  get to write its id back. From then on the write back is refused, because the row
  carries the old id and the guard accepts NULL or the id of the container just
  inspected (`postgres_store.go:155`). With no resource in the row the window does
  close (`ContainersSettle`).
* A solve's time is taken before the transaction, its order inside it
  (`submission-repository.ts:590`). The first solve announced may have been submitted
  second. With the freeze between the two times the frozen build fails, as the orders
  left have a gap.
* A team is accepted between two builds of one version of the board. The second
  differs from the first and is refused (`scoreboard-view-repository.ts:143`); internal
  reads then fail until the version moves or an operator clears the snapshots.
* A flag is verified under one policy and appended under another. If the append finds
  the type static, it does not look for the flags of other teams, and the clue of a flag
  that was stolen under the policy before may be lost. And after a static flag was
  replaced by team-derived ones, whoever submits the old flag is reported to have the flag
  of the team that solved the challenge with it (`CluesMatchSubmissions` speaks of
  submissions appended under a team-derived policy, and of clues with one such at least).
* A reset token is stored between a password change's update of the tokens
  (`identity-repository.ts:300`) and its commit. It is not among those used up, stays
  live, and resets the new password although it was asked for before. The next change
  uses it up (`during`, the exception of `ProofsAreCurrent`); no document says that it
  may not be there.
* The registration of an upload is committed but its answer is lost: the uploader
  removes the blob of a live row, which another request may have been handed
  (`disowned` in `Contents`, the exception of `ReferencedIsStored`).
* The record of a mail's last attempt is lost: the row stays leased for ever, since a
  claim requires attempts below the limit (`Stranded` in `MailOutbox`, the exception of
  `DeliveriesSettle`).
* `rotateInvite` revokes at `now()`, the start of its transaction, and the table
  demands `revoked_at >= created_at` (`0003_teams.sql:49`): a rotation that began before
  another and got the lock after it fails. It may be repeated (`Abort`).

Found by reading, outside the models: the archive of a contest package contains
`exported_at`, so an export repeated with its key has another package object and is
refused as a conflict (`contest-package-repository.ts:224`), where
`docs/architecture/api-conventions.md:53` lets a repeated key converge.

### Fairness

`settle` assumes weak fairness of each goroutine's next step, because provider
calls and finalisations have timeouts (`WORKER_OPERATION_TIMEOUT`,
`runner.go:117,134`) and a step that ends in failure is also a step; weak
fairness of the lease clock, because time passes; and strong fairness of serving a
job, because every worker polls for ever and claims in the order of
`available_at`, which may be interrupted by other claims. Nothing is assumed of
commands, crashes, renewals or operators.

`lifecycle_cleanup` assumes that a process goes on with its
cycle (weak fairness of its next step, for better or worse) and that crashes and
failures do not hit every inventory, every look at the same container and every
write back (strong fairness of those). Nothing is assumed of jobs: the cleanup
must work when they all die.

`contents_gc` assumes of one process only that its timer runs the collector again and
again (15 minutes, `01-services.ts:235`), and that its claims, confirmations, deletions
and marks do not fail every time (strong fairness); what was claimed comes first in the
order of `claimGarbage`. `mail_dispatch` assumes that time passes, that the timer of one
process claims again and again (2 seconds, oldest first: strong fairness for each mail),
and that each send and each record ends, in a failure or not, while its process lives.
Nothing is assumed of the other process in either.

## 4. Proofs

Every invariant, action property and refinement that a passing run checks is also
proved with TLAPS, for all constants the modules' assumptions allow: any number of
instances, workers, teams, readers, keys, users, processes and attempts, any freeze,
end, limit and threshold. Only liveness stays with TLC (below).

| Module | Theorems (property) |
| --- | --- |
| `InstanceJobsProofs` | `TypeCorrect` (`TypeOK`), `OpenAttemptsAreHeld` (`OpenAttemptIsHeld`), `HoldersHaveOpenAttempts` (`HolderHasOpenAttempt`), `EntrypointsAreCurrent` (`NoStaleEntrypoints`), `StoppedIsIntended` (`StoppedOnlyWhenIntended`), `SettledJobsStaySettled` (`SettledStaysSettled`), `SucceededJobsAreObserved` (`SucceededMeansObserved`), `LedgerIsImplemented` (`ImplementsLedger`) |
| `InstanceLifecycleProofs` | `ResourcesAreOwn` (`ResourceIsOwn`), `WantedContainersStay` (`WantedIsNeverRemoved`), `QueueIsImplemented` (`ImplementsQueue`), `LifecycleShowsCurrent` (`NoStaleEntrypoints`, `StoppedOnlyWhenIntended`) |
| `SubmissionsProofs` | `SubmissionsTyped` (`TypeOK`), `ScoreIsAlwaysReplayable` (`FactsReplayable`), `FactsStayCounted` (`FactsAreCounted`), `RequestsStayIdempotent` (`RequestsAreIdempotent`), `CluesStayMatched` (`CluesMatchSubmissions`), `LimitAlwaysHolds` (`LimitHolds`), `SettledCluesStay` (`ReviewedCluesStay`), `ScoreFactsAreImplemented` (`ImplementsScoreFacts`) |
| `ScoreboardProofs` | `ScoreboardTyped` (`ScoreboardTypeOK`), `SnapshotsStayExact` (`SnapshotsAreExact`), `FreshReads` (`PublicReadsAreFresh`), `CompleteArchivedReads` (`ArchivedReadsAreComplete`) |
| `TeamsProofs` | `TeamsTyped` (`TeamsTypeOK`), `TeamsStaySound` (`TeamsAreSound`), `RostersStayAccepted` (`RosterHolds`), `DecisionsAreCurrent` (`OldNewsDecidesNothing`) |
| `ContentsProofs` | `ContentsTyped` (`ContentsTypeOK`), `ReferencesKeepTheirBlobs` (`ReferencedIsStored`) |
| `AccountsProofs` | `AccountsTyped` (`AccountsTypeOK`), `ProofsStayCurrent` (`ProofsAreCurrent`), `SessionsStayEnded` (`EndedSessionsStayEnded`) |
| `MailOutboxProofs` | `OutboxIsTrue` (`DeliveriesAreTrue`) |

From the assumptions. The named `ASSUME`s are of three kinds. Values that must not
be mistaken for others (`NoWorker`, `NoResource`, `NoUser`, the flags) stand for NULL
or for something that cannot be stored. Finite sets (`Participations`, `Requests`,
`Users`, `Keys`) are there because the properties count them. Numbers are natural, and
positive where a database constraint or a default makes them so (attempts, leases,
thresholds). The bounds of the exploration (`Max...`, `AttemptBound`) are constants
of the proofs too and may be as large as one likes. `EndAt` follows the start and the
freeze does not follow the end, as the schema demands.

### The queue

Apart from the types none of the properties is inductive. The argument goes in
layers, each an inductive invariant on top of the ones before:

1. `TypeInv`: types, and `TokenCountsAttempts`: the fencing token of a job equals its
   attempt count, both being raised only by the claim. With it `TypeOK` says that no job
   has more attempts than its own limit, which only a replay or an operator's reconcile
   raises. This is what bounds the token, and what later turns a comparison of tokens
   into one of attempts.
2. `IntentInv`: a job that does not exist has no attempts, no row has jobs of
   generations ahead of it, and a job's payload carries the desired state of its
   generation. Commands are the only writers, under the row lock.
3. `QueueInv`, with `LeaseInv`: every run was granted a token the job has reached,
   a grant belongs to one run, and a run that still holds its lease has the open
   attempt. `OpenAttemptIsHeld` and `HolderHasOpenAttempt` follow. The reason
   finalisation cannot get stuck half way is here: a takeover raises the token, so
   `Holds` fails before the attempt is closed under the holder.
4. `ObservationInv`: the observation a run carries fits the intent of its
   generation, and the row's observed state, addresses and resource fit together.
   With the generation compared on every write, `NoStaleEntrypoints` and
   `StoppedOnlyWhenIntended` follow.
5. `WrittenInv`, on top of `QueueInv`: a run about to complete a job of the
   current generation finds that generation observed (`CompletingIsObserved`). A
   write within a generation keeps it observed (`ObservedKept`); a command that
   leaves the generation makes current only a job nobody can be running
   (`CurrentBefore`). `SucceededMeansObserved` is the other half of the invariant.

`SettledStaysSettled` needs only `QueueInv`: a row changes when it waits, is leased,
or is queued for the generation that is current afterwards (`StepSettled`).

So does the refinement of `AttemptLedger`. The log of a job is its attempt rows up to
the number the job row counts, so it grows when that number does and at no other time.
What must be shown is that closing a row is judging the log's last entry: the claim
closes every running row and housekeeping the one the job row counts, and by
`OpenAttemptIsHeld` these are the same; `recordLeaseLost` closes the row of the attempt
it was given, and if that row is running it is the last one of a job still leased.
`LedgerSteps` states the six abstract steps as they look from one job, `StepLedger`
finds one for every concrete step and every job, and `LedgerTogether` joins them:
a claim may grant some jobs and give up others at once.

### The lifecycle

`LifeInv` adds to `QueueInv` the types of containers and cycles (`LifecycleTypeOK`),
and: a snapshot a cycle works from is of the row's generation or an earlier one and, of
the same, says no more than still is true (`RowsBehind`); a write back is of the
snapshot's generation, reports what the snapshot asked for, and names a container made
under that name (`WriteFits`); what a worker observed was made for its job (`RunsFit`);
a stopped instance has no lifetime. `RowsBehind` survives every step because a row moves
in one direction only (`RowMoves`): its generation does not go back, within a generation
its intent stays, and a row that asks for no container does not come to ask for one
again.

`StepImplements` proves from it that every step of the composition is a step of
`InstanceJobs` or changes nothing there, which makes `LifecycleSpec => Spec` and hands
over what was proved of the queue. `WantedIsNeverRemoved` says that a wanted container
goes only in a step no run and no cycle takes part in, the host's loss; a removal by
either changes `runs` or `cycles`, even when it answers with an error. It follows by
asking who removes a container (`RemovedBy`): a destroy job of the present generation
carries the intent of the row (`JobCarriesIntent`), and a cycle would need a snapshot
that is ahead of the row, or one that says stop where the row does not.

### Submissions and the score

`SubInv` joins the four properties of the facts with the transactions that are half
way: they have different teams and different challenges (`TransactionsAreApart`, what
the row locks give), and what each has read is still true when it commits
(`TransactionsAreCurrent`: the next order, the mode, the limit, the acceptance). Facts
are finite and adjustments are numbered as they come, which is what the version counts.
For the clues the insertion of one submission is followed through every pair it makes:
repeated and shared answers are found exactly, and the clues of foreign flags lie between
the pairs stored under a team-derived policy and the pairs of which one was
(`StolenIsFound`).

`ScoreFactsAreImplemented` maps official solves and the version to `ScoreFacts` with
`MaxFacts` as large as the facts of `Submissions` can become, a solve for each request
and the adjustments: official solves map one to one to the requests that made them, so
an unused request leaves room for one more. `MaxLag` is the same on both sides: an
acceptance judged before the end commits at most that much after it in both.

### Scoreboards

`BoardInv` holds the facts' own invariant (`FactsInv`), `SnapshotsAreExact`, and a
statement about each read according to the step it has reached (`Holds`). A version
pins its facts down, since it counts facts that are only added; a build that ends with
the version it began with has therefore read exactly those. Builds and inserts may fail at
any point, and what falls back then is marked. Looking for the latest
snapshot needs a greatest element, which is proved by well-founded induction on the
version.

The proof found an error of an earlier form of `ArchivedReadsAreComplete`, which said
that *every* answer of an archived contest is complete. With two readers, as in the run,
that holds. With three it does not: two builds of one version differ because a team was
accepted between them; the second conflicts; an operator clears the snapshots; a third
reader stores an older build; and the one that conflicted falls back to it. So does any
read whose rebuild fails. Such an answer is marked as stale, and the property speaks of
the answers that are not.

### Teams, contents, accounts, mail

* `TeamInv`: types, soundness, the rosters; nobody is in a team that was not created;
  and a waiting command saw of a contest's end only what is true now. Time runs one
  way, so a lock that `readLocks` would have respected at the start it respects still.
* `ContentInv`: a live row that is not claimed has its blob; a referenced row was
  committed and at most claimed since; an upload about to be registered has a blob and
  no row; and what is in a collector's hand is claimed or deleted and not referenced. The
  last part is what the confirmation after the claim gives, and all of safety rests on
  it: `ReferencedIsHeld` alone is lost when a stale snapshot is claimed.
* `AccountInv`: no version a request or a cookie carries is ahead of the account, and
  the present one was obtained with the present password. One change of password commits
  at a time, and the tokens it has not seen were stored since it looked (`ChangesSee`),
  so what it leaves behind are the tokens stored `during` it and nothing older. That a
  session does not come back to life is then an action property: a change of status
  moves the version.
* `MailInv`: no send is ahead of its row, what the server accepted has left a copy, and
  the sends of a mail under way are finitely many. What a send records of its row is
  true whether the record throws or not (`MarkIsTrue`). The count of copies and sends
  against attempts needs exactly this, as sends of one delivery overlap.

### What is only model-checked

Liveness (`JobsSettle`, `ContainersSettle`, `QuarantineEnds`,
`DeliveriesSettle`), because fairness and ENABLED are beyond the prover. No operator of
the proved modules is recursive, so nothing had to be left out for that reason.
`FrozenShowsNothingLater` is false.

## 5. Not modelled

The components listed as `not_modelled` or `partly` in `PROJECT.json`, with
reasons there. Within the modelled ones: READ COMMITTED re-checks inside a single
UPDATE (each statement is atomic here, except the claim of `Contents`), claims that fail
as a whole because a payload does not decode, the Kubernetes provider, and the waits
between transactions that lock a team and a contest in different orders, which
PostgreSQL ends by aborting one (`Abort`, `Rollback`). Writeups, announcements,
packages and settings are single transactions under a row lock and an expected
version. The user interface keeps no state that another component depends on. Its
largest pages (`games/[id].vue` and those under `console/`) call endpoints under
`/api/games` and `/api/admin` that the server of this commit does not have.

## 6. Plan

1. Composition: over `Submissions` instead of `ScoreFacts`, the board's theorems hold by
   `ScoreFactsAreImplemented`; stating this needs one module with both.
2. Facts the proofs suggest and no run states yet: that the two builds which differ
   under one version differ in the ranked teams alone, and that a mail is sent at most as
   often as it was claimed by processes that died.
3. The read of a job's row inside `observation.go:138`, which is one atomic step here,
   split from the write that follows it.
