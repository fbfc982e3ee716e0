# DevProof: specifications, checks and proofs

DevProof executes browser tests with AI agents. The API (`src/apps/api`) is the
control plane and the only authority over state; Agent Runtimes
(`src/apps/agent-runtime`) are workers that claim runs under a lease and drive a
model; Browser Runtimes (`src/apps/browser-runtime`) are daemons that hold the
browsers and obey commands sent over a WebSocket. What is hard about it is not
the test steps but authority: which worker, human or sweeper may act on which
browser and which row, when processes stop, messages are late and every process
has its own clock. The TLA+ modules here model that part, TLC checks them on
small instances and TLAPS proves some of the properties for all instances.

## Inventory

| Component | State | Operations | Interacts with |
| --- | --- | --- | --- |
| Session permits of the Browser Runtime (`session-permits.ts`, `index.ts`, `ssrf-proxy.ts`) | permit, monotonic deadline and executor epoch per session, revoked sessions, clock estimate, live sessions and running commands | accept, revoke, assert, watchdog, open, command, close, disconnect, hello, reconcile | control plane by WebSocket: every permit is a snapshot of rows that move on |
| Session authority (`session-permit.ts`, `runtime-gateway`, `runtime-command-dispatcher`, `runtime-sessions`, `runtime-lease-sweeper`) | session row: status, lease, control generation, owner epoch, permit expiry, human TTL | permit snapshot, renew, reconcile, dispatch, activate, takeover, release, sweep | Runtime, agent tasks, console |
| Run lifecycle (`agent-runtime-task.service.ts`, `execution-run.service.ts`, `unified-run-cleanup.worker.ts`, `test-domain`) | run, attempts, tasks with lease and fencing token, interventions | claim, heartbeat, append event, submit outcome, recover expired leases, resolve, expire, cancel | workers, admission, session recovery, people |
| Worker lease supervision (`lease-supervisor.ts`, `worker.ts`, `control-plane.client.ts`) | confirmed lease, local deadline, one renewal in flight | confirm, schedule, tick, lose, stop | heartbeat endpoint |
| Browser admission (`browser-admission.service.ts`, `execution-concurrency.ts`, `account-coordination.ts`) | slots, profile leases, resource leases, queue order | allocate, defer, fail, startup recovery | run lifecycle, sessions |
| Session recovery and closure (`session-recovery.*`, `session-closure`, `session-write-audit`, `session-resource-cleanup`) | recovery row: closure state, write assessment, attempts | request, claim, dispatch close, accept evidence, resolve | dispatcher, closure journal of the Runtime |
| Closure journal (`closure-journal.ts`) | durable closure records of a Runtime | begin, evidence, queue and acknowledge results | session recovery |
| Command dispatch (`runtime-command-dispatcher.service.ts`, `browser-execution-runner.service.ts`) | durable command rows | execute, cancel, accept result and event, time out | Runtime |
| Task aggregate (`task-execution.service.ts`, `projectTaskExecution`) | stages, cases, generation, projection | create, dispatch, rerun, cancel, project | runs, analysis, notifications |
| Spec analysis (`spec-analysis-runtime.service.ts`) | analysis attempts with leases | claim, heartbeat, outcome, recover | workers |
| Profiles (`profile-reservation.service.ts`, `browser-profiles/`) | reservation queue, snapshots | acquire, release, reconcile, invalidate | tasks, admission |
| Drain, notifications, human relay, console, web, observability | see `PROJECT.json` | | |

The behaviours that are hard, with the line where each bites, are the `hazards`
of `PROJECT.json`. In short: permits and acknowledgements that arrive out of
order; state read in one transaction and used in a later one; a lease that runs
out while its worker, a human or an operator still acts; recovery in several
transactions around a remote browser whose closure and whose writes must be
proved; results delivered twice or after their deadline; two executions that want
one slot, one login or the same data; and runs, closes, commands and analyses
that must end although nobody answers.

What makes the parts correct: a browser obeys one authority at a time and none
past its expiry; a lost executor is silent before its work is handed on; a run
has one reporting executor, repeats no write, ends, and stays ended; what a
browser holds is freed by proof of its closure alone; what is published is stored
and was published once; a task says what its analysis is doing.

## Modules

| Module | Models | Composition |
| --- | --- | --- |
| `RuntimePermits` | permits and watchdog of the Browser Runtime | |
| `SessionAuthority` | who may drive one browser | extends `RuntimePermits` with the control plane and the messages between |
| `RunLease` | one run, its attempts, leases, interventions, deadlines | |
| `LeaseSupervisor` | the worker's side of one lease | |
| `ClosureJournal` | the Runtime's journal of one session over daemon and host restarts | |
| `RuntimeCommands` | command rows, delivery, results, artifacts, deletion | |
| `SessionRecovery` | recovery rows, closes, evidence, operators | |
| `BrowserAdmission` | competing executions, slots, identities, data leases | |
| `SpecAnalysis` | the analysis stage of one task, its agents, people and projection | implements `StageAttempts` |
| `StageAttempts` | abstract: numbered attempts, one open, one holder, no end rewritten | |

`*Proofs` modules hold theorems, `MC*` modules values for TLC. An operator
commented "Mutant" is a plausible bug in the operator after it; it is used by no
specification, and each property is known to fail under one of them. A constant
`Settings` lists the situations a run explores, each with its own bounds; the
behaviour picks one in its initial state, which keeps one run's instances apart.

**`RuntimePermits`** is the Runtime's permit table with the steps of the session
manager that feed it (heartbeat acknowledgement, reconnect, command, open) and
consult it (command before and after, watchdog, proxy). It is open: the
environment may send any permit of `Sent` at any time with any clock estimate
that does not lag. `now` is the Runtime's monotonic clock and the server's;
`skew` is how far the estimate runs ahead. `accept`'s tests are one operator
each, in the code's order. `sole` and `by` of a command are history.

**`SessionAuthority`** closes it with the control plane: the session row, its
task's row, takeover and release as the two or three transactions they are, the
runner's check and the dispatcher's second read as two actions, and messages in
flight, lost with their connection: heartbeats are handled in the order in which
they were sent (the gateway's promise queue), a reconciliation is applied before
anything else, acknowledgements and commands overtake each other. `PermitOf` is
`sessionExecutionPermit`. One session and its one task: sessions share nothing
here. Left out: the run's deadline (it only shortens permits) and the close
command (`RuntimePermits` has the Runtime's side of it).

**`RunLease`** is one run with up to three attempts. Transactions under
the `browser-execution-resources` lock, or SERIALIZABLE ones, are one action;
`cancel` has neither and is `CancelRead` then `CancelCommit`. The browser of an
attempt is reduced to what the run's handlers ask: usable, closed with proof, may
have written, writes settled. `issued` is history: every lease ever handed to a
worker, so that any worker of the past may still heartbeat, send commands or
submit. The existential `proof` of the write assessment stands for the audits
whose data are not modelled; it never proves the absence of a write that
happened. Startup recovery, deferred recovery and the operator are included.

**`LeaseSupervisor`** is the worker's side of one lease: one renewal in flight,
the deadline a safety margin before the confirmed lease, against the heartbeat
handler. A request may be handled long after the worker gave up on it
(`ghosts`). Timers fire at most `Lateness` late.

**`ClosureJournal`** follows one epoch of one session in the daemon: the open
task, the memoised close and `closeWithEvidence`, each cut at every await, with
the journal file, the state file and the outbox of results on disk. A daemon may
stop before or after any write, its host may reboot, and both forget what was in
memory. `launches` and `attested` are history.

**`RuntimeCommands`** is the durable row of a command from `execute` to its
terminal status: the message to one connection generation, the Runtime's outbox
that delivers a result again after a reconnection, `acceptResult` with its
deletion intent, upload, claim and publication, the sweeper, and the retention
worker that deletes what its intent says. The instant at which `Publish` looks at
a command is the transaction's; the upload before it may outlast any deadline.
The Runtimes that connect one after the other may differ: one before protocol 14,
without `closure-evidence-v1` or without a host instance launches under no
registered identity (`identifies`, read when the launch is registered and written
by `handleHello`), and may be replaced by one that can identify its launches, as
long as no browser runs. Of launches that cannot be identified nothing is claimed:
their sessions count as having written in `SessionRecovery`.

**`SessionRecovery`** has a row for each session that is no longer healthy, the
one permit of its Runtime, the worker's transactions and the dispatching task
between them, an explicit session close, evidence and errors from the Runtime,
the audit that settles a write guard, and the operator. Time is what may fall
due: a claim, a deadline, the next attempt, in any order. `writes` is what the
command rows of a session show: none that may write, one admitted and not yet
recorded, one recorded while the session took commands (a person's takeover counts
as one), or one recorded later; one command stands for all. An assessment settles
the writes by a confirmed outcome, by an audit with closure evidence, or by a
history of observations only (`hasVerifiedObservationOnlyHistory`), for which the
session need not be closed, only stopped: an executor that is lost before it did
anything but look is settled while its browser may still run. A session without
a registered and audited launch starts with a recorded write.

**`BrowserAdmission`** runs `reconcile`, `allocate`, `openSession`, startup
recovery and release of several replicas as activities that stop between any two
transactions. Time is what may lapse. An allocation may be taken over as stale at
any time except between the transaction that reopens it and the read after it,
and a startup reservation (90 s) outlives the close it waits for (60 s) unless
the replica that made it has stopped. Left out: routing between Runtimes, case
dependencies, profile authorisation, resumed accounts.

**`SpecAnalysis`** is the analysis of one task under either executor: the agent
pool's claim, heartbeat, outcome and recovery, whose transactions lock the task
and are one step; the deterministic executor, whose transactions do not and are
as many steps as matter; cancel, `retryStage`, the supplement of missing input;
and `projectTask`, which reads the task, then its stages, then writes if the row
was not touched. The stages after the analysis are not modelled: the profile
stays unresolved, so that after the analysis only cancellation and the deadline
are left. `StageAttempts` is what its attempts implement, in the pool.

## Runs

| Run | Checks | Bounds |
| --- | --- | --- |
| `runtime_permits` | types; no traffic or reported command past the server's expiry (`NoAuthorityPastExpiry`); `RevocationIsFinal`; `AuthorityNeverRegresses` | one session, two tasks, two leases, ten permits that differ in owner, epoch, generation, lease and expiry, four instants, skew up to 1 |
| `session_authority` | the Runtime holds only what was granted (`AuthorityWasGranted`); a reported command had the browser to itself (`SoleAuthority`); a lost executor forwards and reports nothing (`LostExecutorIsSilent`) | five settings: re-claims, takeovers, lost connections, a session lease that outlives the task's, renewals; two messages in flight |
| `run_lease` | `OneLiveExecutor`; no repeated write (`NoSilentReplay`); a retry only over proved closure and settled writes (`RetryAfterClosure`); `VerdictIsEarned`; `PermitEndsWithBudget`; every run ends and every lost lease is decided (`RunEnds`) | five settings: a budget shorter than the lease, three attempts lost in a row, an intervention between attempts, a cancel call against either |
| `processes` | worker: `TypeSupervisor`, `LeaseOutlivesWork`, `CancelStopsWork`. Journal: `LaunchesAreKnown`, `EvidenceIsTrue`, `CloseConcludes` | lease 6, margin 2, lateness 1, any network; three daemons on two boots |
| `commands` | a result is published once or not at all (`PublishedOnce`), what is published has its object (`PublishedIsStored`), a launch that the Runtime can identify is registered before its browser runs (`LaunchIsRegistered`), no terminal row changes (`VerdictStands`), every row settles (`CommandSettles`) | one command, redelivered, late, deleted by two replicas, or opening over two connections of Runtimes with and without identified launches |
| `recovery` | `OneCloseAtATime`, `ResourcesOutliveBrowser`; the write guard waits for settled writes, and no command that may write was recorded of a session settled while its browser may run (`GuardAwaitsOutcome`); `OperatorDecides`, `RecoveryConcludes` | one session from its execution's end over a reconnection, repeated attempts with an explicit close, an operator's retry; two sessions for one permit |
| `admission` | `ResourcesHeld`, `ClaimsExclusive`, `OneBrowserPerAttempt`, `ActiveIsAdmitted` | two executions on two replicas for one slot, one identity or overlapping data; one execution lost at startup with two recovering replicas |
| `admission_concludes` | `AdmissionConcludes` | one execution and two stops anywhere; two writers of overlapping data for one slot |
| `analysis` | `StageFollowsAttempt`, `EndIsAnnounced`, `LateResultRejected`, `CancelIsFinal`, `ImplementsAttempts`, `AnalysisConcludes` | two workers, one person, one projector, two attempts, one fault, with and without a deadline |

Each property is stated, with the code it is about, beside its definition. The
bounds are the smallest in which the hazard happens: every property fails on the
run's own instance under a mutant of the code. Time is a small integer or a set of
things that may fall due; what matters is the order of the expiries, and the
lengths are chosen so that each can come first. Where a run's grants would need a
clock beyond the last instant, grants stop at a horizon and expiries go on.
`CHECK_DEADLOCK FALSE` is set because a bounded clock, an ended run, a settled
command or a closed session stops.

### Violations

Three runs state what the repository says and the code does not do; each has a
finding in `PROJECT.json` with the quoted line.

* `paused_under_human`: an agent command that passed the runner's check before a
  takeover is dispatched after it, with the human's permit, and runs.
* `human_outlives_agent`: a session under a takeover is quarantined when the
  agent misses heartbeats.
* `terminal_is_final`: a cancel call overwrites a run that completed, with a
  verdict, after the call had read it. (That an ended run is not reopened does
  hold, and is part of `VerdictIsEarned`.)

### What else the modelling showed

These are not runs; they are where the models follow the code to a surprising
place, or where a module's limits hide one.

* An execution in `WAITING_CAPACITY` or `ALLOCATING` whose session is already
  verified closed when its run ends is never set `RELEASED` by the cleanup.
* The deterministic executor checks and then writes without locking the task
  (`task-execution.service.ts:2814`, `:2976`): a cancellation in between can be
  overwritten until the projection restores it, and a late result is accepted
  because `requireAnalysisLease` looks at the token alone. `SpecAnalysis` models
  it, and states its promises (all but the types and `AnalysisConcludes`) of the
  agent pool.
* `cancel` overwrites a task that became terminal between its read and its
  transaction; cancelled tasks are never announced.
* The dispatcher's admission of a command is not under the resource lock
  (`runtime-command-dispatcher.service.ts:84` reads the session, `:180` creates the
  row). A command that passed its checks before the quarantine may be recorded
  after an assessment found observations only, although
  `session-write-audit.ts:123` asks that command admission be stopped first; a
  settled row is not assessed again, so its write would have no guard. This is
  `writes = "late"` in `SessionRecovery`; `GuardAwaitsOutcome` claims the rest.
* `dispatchPending` (`task-execution.service.ts:3430`), not modelled: a dispatcher
  slower than the 5 s retry delay cancels the run a second dispatcher has linked,
  although the comment at `:1831` calls one poll safe across replicas.

### Fairness

`RunLease!Fairness` assumes that time passes and that the API's interval workers
keep running: `UnifiedRunCleanupWorker` (`ExpireRun`, `ExpireIntervention`) and
the lease recovery timer. Their actions stay enabled until taken, so weak
fairness is what an interval timer gives. Nothing is assumed of workers,
browsers, admission or people. `RuntimeCommands!FairSpec` assumes time and the
sweeper, nothing of callers, connections or the Runtime. `LeaseSupervisor` assumes
that time passes and that the expiry timer fires; `CancelBy` leaves the clock
room for the last deadline that could have been confirmed. `ClosureJournal`
assumes that every awaited operation ends (file writes, and Chromium's launch and
close, which have time limits). `SessionRecovery` assumes the workers, their
tasks and the sweepers, nothing of the Runtime or of operators. In
`BrowserAdmission` and `SpecAnalysis` an interval worker takes its candidates in
turns, so that one candidate is not passed over for ever although another's
activity disables it meanwhile: its claim has strong fairness, what follows weak.

## Proofs

TLC checks small instances; the theorems hold for all values of the constants
under the named assumption of each module. Every invariant used was first
checked by TLC on the instance of the component's run.

### `RuntimePermitsProofs`

For all sets of sessions, tasks, leases and permits and under `PermitParameters`:
`TypeCorrect`, `PermitExpirySafe`, `RevocationFinal`, `AuthorityMonotone`.
The inductive invariant `IInv` adds to the types that a registered permit's
local deadline is at most its expiry (`DeadlineWithinExpiry`), that a revoked
session holds no permit (`RevokedHoldsNothing`) and that the clock estimate does
not lag. `NoAuthorityPastExpiry` alone is not inductive: it says nothing of the
deadline that will be compared later. The table changes in three ways only (a
permit is stored, a session revoked, nothing); each is shown once to keep the
invariant and to be a legal step, and every action is recognised as one of them.

### `SessionAuthorityProofs`

For every setting of leases, TTLs and bounds under `AuthorityParameters`:
`AuthorityGranted`, `LostIsSilent` and `AuthorityIsSole`. `AInv` has `IInv` for
the Runtime (its steps are those of `RuntimePermitsProofs`, with permits that are
well formed and estimates that are ahead because the round trip is added) and
speaks of three places a permit can be in. `FlightInv`: what travels was granted,
names no epoch or generation of the future, and an agent's permit is bounded by
the lease of the task it was granted for (`LeaseBound`, which recovery turns into
"has expired"). `Registration`: so was what is registered, and its epoch is the
executor's. `OrderInv` and `LateInv` are about what arrives late.
`SoleAuthority` is not inductive, nor is it enough that epochs and generations
never go back: the permits of a startup and of a human without an owner name no
epoch, so a late one of these would take the session from an executor, and a
later agent's permit of the old epoch would give it back to a command that had
lost it. A takeover's permit is behind by its generation; a startup permit is
refused after an agent's, and after a human's it either has an older generation
or answers an older heartbeat, which the Runtime drops (`Behind`). This is where
the order of heartbeats is needed: were they handled out of order, TLC would find
`SoleAuthority` violated. `CommandsInv` then says that a command which lost its
authority is behind by epoch, by generation or by a resumed executor's human
permit (`Passed`), and that no permit that can still be stored undoes it.

### `ProcessesProofs`: the supervisor of a lease

For every lease, margin, interval and back-off under `SupervisorParameters` (in
particular `Lateness < Safety`, which is what the margin is for):
`SupervisorTypeCorrect`, `WorkEndsBeforeLease`. `DeadlineInv` adds that the
deadline lies `Safety` before the lease in the database, that the clock is at
most `Lateness` past it, that an answered renewal left a lease reaching `Lease`
beyond its sending, and that the lease never reaches more than `Lease` from now,
so that a heartbeat handled late cannot shorten it.

### `ProcessesProofs`: the closure journal

For every number of daemons and of boots (`JournalParameters`: at least one of
each): `LaunchesKnown` and `EvidenceTrue`. That evidence is true when it is
issued does not follow from what was issued before, so `JournalInv` speaks of
the record it is read from. A launch is recorded before the process starts, and
only in an empty record, so it happens once (`LaunchAfterRecord`). A closed record
is of a dead process and of no open that still has to start one
(`ClosedIsDead`). The writers of a closed record rely on what they awaited:
once the session is revoked no open starts, and the one that was pending is over
(`RevokedAndOver`); and they write after the process died (`KilledBeforeComplete`).
Each step of the three tasks, each of their starts and each stop of the daemon
is shown to keep the four parts and the types.

### `SpecAnalysisProofs`

For every number of workers, people, projectors and attempts, every budget and
both executors, under `AnalysisParameters`: `StageFollowsItsAttempt`,
`EndsAreAnnounced`, `LateResultsAreRejected`, `CancellationIsFinal`, and
`AnalysisImplementsAttempts`, the refinement of `StageAttempts`. `AnalysisInv`
has three parts. `Shape` types every variable. `Numbered` says that attempts
exist exactly up to the current one, that a row has an owner exactly while it
runs, and that every worker and every retry in progress refers to an attempt that
exists; it needs `PoolInv` for the commit of an outcome, which must be of the
current attempt. `PoolInv` holds of the agent pool alone: one open attempt, the
current one, exactly while the stage is open; a retry in progress still finds
FAILED what it read FAILED unless there is a newer attempt (`RetryKnows`); a
projection's reading is true unless the row was touched (`ReadingHolds`), which is
what makes the conditional update of `projectTask` enough. For the action
properties and the refinement each step is shown to be one of five moves of the
attempts (`Moves`), and each move one of `StageAttempts` or a stutter; a
cancellation withdraws all open attempts at once, which is a step of
`StageAttempts` because at most one is open.

### `SessionRecoveryProofs`

For every set of sessions and all settings (attempts, dispatching tasks, retries,
disconnections) under `RecoveryAssumption`: `OneClose`, `ResourcesKept`,
`GuardWaits`, `OperatorHasTheWord`. `RecoveryInv` has two halves. What is of one
session (`Sound`, `ClosedIsDead`): the row is VERIFIED exactly when the closure is,
a verified browser is dead, slot and guard are free only then, and evidence is of
a dead browser. Writes settled under a browser that may run, with no confirmed
outcome, have no record and belong to a session that stopped taking commands
(`HeldUntilClosed`): the property alone is not inductive, since a command could
still be recorded after the assessment if the session took any. What is of the permit (`Claims`): `OneCloseAtATime` is not
inductive, because the code never compares two commands; it looks at the permit.
`PermitCovers` says that a command that may still be executed is the one of the
permit and of its session's row; so a claim that finds the permit free finds no
such command of another session. A task gives the permit back by its token
alone, so `TokensMatch` says that the permit with a task's token is for the
command the task saw end; that tokens are reused is harmless because a claim takes
one that no running task holds. `CommandsInOrder` makes a new command's number
fresh. Every step is shown to be of one of three kinds: it leaves the rows alone
(`QuietStep`), writes the rows of one session (`RowStep`), or moves the permit.

### `RunLeaseProofs`

For every retry policy, lease, budget, number of attempts and of interventions,
under `RunParameters`: `OneExecutor`, `WritesAreNotReplayed`, `OneRecovery`,
`VerdictsAreEarned`, `PermitsEndWithBudget`. None of these is inductive, because
each is about rows that different transactions write. `RunInv` says that the rows
of one attempt agree (`Sound`): settled writes belong to a browser that takes no
more commands, and a task being recovered has failed and its browser's owner is
behind the fence, which is why the executor that was lost can add nothing to what
the assessment saw. Only the current attempt is open or being recovered
(`Current`), so an earlier one can change nothing any more and wrote nothing.
`Phase` says who the run waits for, `Budgeted` that the permit is bounded with
the state that needs the bound. `RetriedOnce` counts the attempts that were
retried after a lost lease: the guard of `decideRecovery` looks at the counter,
the property at the attempts. One lemma per action; those that move one row of an
attempt go through `RowStep` or `RowOnly`, those that move the run with its current
attempt through `CurrentMoves`, a further attempt through `NextAttempt`.

### `RuntimeCommandsProofs`

For all commands, replicas, connections, uploads and time limits under
`CommandConstants` (`UploadTime < IntentTime`: an upload is aborted before its
deletion intent comes due): `PublishesOnce`, `ObjectsAreAccounted`,
`LaunchesAreRegistered` and the action property `VerdictsStand`. `CommandInv` has
three parts. The calls (`Called`): an unused call has no row, and what the sweeper
holds has expired. The Runtime (`Registered`): on a connection whose Runtime can
identify its launches, a message that launches travels only after the
registration. A call registers nothing when the Runtime it read could not, so
that this survives an upgrade depends on the connection: `Registering` says that a
call read the current generation or an earlier one and speaks of the current one
only, a message is never of a connection that was replaced, and a Runtime with a
browser is the process that launched it. The store, for which the published properties say too
little: the upload of a handler holds a key of its own (`Uploads`); while it may
still write, its intent is not due, and while its intent is unclaimed, what it
wrote is there (`Kept`); a deletion holds a key that nobody can publish, because
its intent has a token (`Purging`). So `Publish`, which consumes an intent
without a token, finds the object, and a deletion, even one that was given up and
continued by another replica, finds nothing published. A late write after the
deletion would break `Kept`: the abort signal of the upload is what excludes it.

### `BrowserAdmissionProofs`

For all executions, replicas and releasing activities (finitely many), any
slots, permits and claims, and every setting under `AdmissionParameters`:
`ResourcesAreHeld`, `ClaimsAreExclusive`, `OneBrowserForAttempt`,
`ActiveWasAdmitted`. `AdmissionInv` has three parts.

What sessions hold (`Resources`). `SessionFits`: a session keeps its slot, its
permit and all its claims until its closure, and after it what guards a write of
unknown outcome. `Apart`: no two share a slot or a permit, and a later one was not
admitted against what an earlier one holds. This is enough for the first two
theorems: slots and permits are different numbers of a range, so browsers are no
more than these; that the code's comparison of prefixes is symmetric, and that two
keys without a conflict do not overlap, are lemmas about sequences
(`ConflictSymmetric`, `OverlapIsPrefix`).

Whose session it is. `ExecFits`: an execution refers to its last session, and one
before it is closed, never had an agent and was given up by the one restart.
`Admitted` and `TaskFits` relate a session in use to its execution and to the
task that runs on it. They do not follow from the rows alone, because a worker
writes what it read transactions ago.

What is in progress. `WorkerFits` and `WorkersApart`: an allocation works under a
token of its own, so the row either still has that token and is as the allocation
left it, or a conditional write does nothing. A run that is called off takes the
token away, and then the run is not open: this is why what `REOPEN` and the read
after it see is still true when it is used. `ReleaseFits` and `ReleasesApart` say
the same of the startup recovery, whose reservation keeps the task closing and
the session it set out to close the execution's.

That a token is new whenever one is drawn is a theorem too (`TokenIsNew`,
`StampIsNew`): the tokens in use are at most one for each execution, two for each
worker and one for each release, and `Tokens` has one more. One lemma per action;
those that touch one row go through `SessionMoves`, `WorkMoves`, `ReleaseMoves`,
`ExecMoves` or `BothMove`.

### Only model-checked

* `CancelStopsWork` and everything with fairness (`RunEnds`, `CloseConcludes`,
  `CommandSettles`, `RecoveryConcludes`, `AdmissionConcludes`,
  `AnalysisConcludes`): liveness and ENABLED are outside the prover.
* The three violations, which are counterexamples.

### Not modelled

What a test does on a page, the model calls of the agents, evidence files,
reports, the consoles and the web application: data and presentation, with no
protocol between processes that could be checked. Profile reservation, dispatch,
drain, notifications and the human relay do have one, and are not modelled yet;
`PROJECT.json` says so per component, and the hazards without a property are
theirs. `VerificationExecutor` and its journal are a sequential program over
page data.

### Plan

Every invariant and every action property a run checks is a theorem, except what
is listed above. What is left is breadth: the reservation queue of profiles and
the dispatch of pending executions, which would make the hazards without a
property checkable, and the outcome's retry loop of the worker.
