# Verification of the incident-response agent

TLA+ modules, TLC configurations and TLAPS proofs for the program in `src/`:
a service that takes incident events, proposes one bounded remediation for
each, has a human decide, and executes what was approved at most once.  Paths
without a directory are files of `src/incident_response_agent/`.

## 1. The system

### Components, state, operations

| Component | Source | State it keeps | Operations |
|---|---|---|---|
| Store | `storage.py` | SQLite tables `runs`, `proposals`, `audit` | one transaction (`BEGIN IMMEDIATE`) per method: `create_or_get_run`, `transition_run`, `create_proposal_and_transition`, `decide_proposal`, `claim_execution`, `finalize_execution`, `expire_due`, `fail_run`, `create_audit`; reads; migration of old databases |
| Service | `service.py`, `schemas.py`, `clock.py` | none but the store; local variables of a handler | `start_event`, `decide`, `execute`, `expire_due`, `get_run` |
| Policy | `policy.py` | none | the allowed actions of a scenario, `build_option`, `action_hash` |
| HTTP application | `app.py` | one background task | endpoints that call the service; a loop that calls `expire_due` |
| Executors | `executor.py`, `sandbox.py`, `container_lab.py` | a sandbox directory, containers, worker settings | `run_action`, start and stop of the lab |
| Promotion registries | `capability_learning.py`, `runbook_learning.py` | tables of candidates, promoted versions, activations | `submit`, `revise`, `review`, `find_*`, `get_promoted`, `record_activation` |
| Activation | `cli.py`, `capability_learning.py`, `executor.py` | a worker's concurrency, two records of the outcome | promote, propose, approve, execute, verify, record |
| Knowledge of an investigation | `runbook_application_eval.py`, `capability_application_eval.py`, `site_investigation.py` | the evidence observed, versions found and opened | the search and open tools, acceptance of a diagnosis |
| Causal workflow | `causal_workflow.py` | a graph's checkpoint | investigate, build, approval, execute, verify |
| Telemetry, models | `telemetry.py`, `model.py` | none | collect, analyse |
| Access control | `security.py` | none | a check per request, sanitising of text |
| Command line, settings, metrics, evaluations | `cli.py`, `config.py`, `observability.py`, `*_eval.py`, ... | none of the running service | wiring, demos, offline scoring |

### How they interact

The HTTP application, the command line and the causal workflow call the
service.  A service handler alternates between local work (reads, the clock,
telemetry, the model, policy, the executor) and store transactions.  Threads of
one process are serialised by the lock of the connection, processes that share
the database file by `BEGIN IMMEDIATE` with a busy timeout of five seconds;
when that passes the transaction raises.  Nothing is locked across two
transactions.

### What is hard, and what makes it correct

* **Races between handlers.**  Decisions, claims, sweeps and duplicate events
  meet on one run, each with values it read earlier.  Correct means: a run and
  its newest proposal move together; one thread drives a run; the executor is
  called at most once, and only with what was approved; what has ended stays.
* **Errors in the middle.**  A collector, model, policy, executor or
  transaction raises between two commits, or the process dies there.  Correct
  means: the run fails or stays where a retry cannot act a second time, and the
  recorded outcome never claims a success that did not happen.
* **Time.**  Deadlines are compared with a clock that was read before the
  transaction was entered.
* **Eventual outcomes.**  An accepted event leaves intake and a claimed run gets
  an outcome when nothing fails.
* **History.**  Several transactions and threads write the audit trail; it must
  read as one history of the run.
* **Views.**  A client's view of a run is put together from three reads with no
  transaction around them.
* **Old databases.**  Every process migrates the database it opens, statement by
  statement, next to others that migrate, crash or already serve.
* **Shared outsiders.**  Container executions share one sandbox and its modes;
  threads share one lab container and restart it; commands of the engine time
  out with or without effect.
* **Nodes that run again.**  A workflow node that is interrupted between its
  effects and its checkpoint repeats them against a run that has moved on.
* **Reviews.**  Reviewers of several processes work on candidates they read
  earlier.  Correct means: only what was evaluated and approved is promoted,
  once, and a decided candidate or a version never changes; an activation cites
  what was promoted, changes a worker whole or not at all, and its records say
  what happened.

`PROJECT.json` lists each hazard at its line under "hazards", with the
properties that cover it.

## 2. Modules

| Module | What it is |
|---|---|
| `IncidentStore` | The three tables and one operator per transaction of `SQLiteStore`. |
| `IncidentService` | The handlers on top of it: variables `clock`, `worker` (what each request thread is doing, with its local variables) and the history `effects` (executor calls). Properties, the refinement mapping and the inductive invariant are at its end. |
| `ApprovalGate` | The abstract specification: what the service promises about a run, without threads, transactions or a clock. |
| `MCIncidentService` | The symmetry set for TLC. |
| `IncidentServiceProofs` | The inductive invariant and type correctness. |
| `IncidentServiceTheorems` | The properties that follow, the action property, the replay of audit trails; that the service implements `ApprovalGate`; all of it again with the background task. |
| `ExpirationLoop` | Extends `IncidentService` by the application's background task. |
| `RunViews` | Extends `IncidentService` by a reader that composes the view of a run. |
| `MCRunViews` | The symmetry set for TLC. |
| `RevisionNotes` | Extends `IncidentService` by the length of the stored summaries, which revisions extend. |
| `MCRevisionNotes` | The symmetry set for TLC. |
| `NotesAndViewsProofs` | The bound on that length; what views show. |
| `SchemaMigration` | Opening a database: `_initialize_schema` and `_migrate_legacy_records`, statement by statement, in several processes. |
| `MCSchemaMigration`, `SchemaMigrationProofs` | The symmetry set; invariant, and what no start ever serves or reopens. |
| `ContainerExecutor` | Container executions in one sandbox: modes, container, timeout, removal. |
| `ContainerLab` | The disposable service: start, restarts by several threads, close. |
| `MCTargets` | `ContainerExecutor` or `ContainerLab`, as `factory.py` configures one of them. |
| `TargetsProofs` | The invariants of sandbox and lab, and what they imply. |
| `CausalWorkflow` | The graph of the causal recovery, one thread of it with its run in the service. |
| `CapabilityRegistry` | The capability registry statement by statement, with open transactions and the history of activations; implements `RunbookRegistry`. |
| `CapabilitiesProofs` | The invariants of registry and sessions, that refinement, and what activations leave. |
| `CapabilityActivation` | From a promoted contract to a lowered worker and its records. |
| `MCCapabilities` | `CapabilityRegistry` or sessions of `CapabilityActivation`, with the contracts TLC tries. |
| `KnowledgeTools` | How an investigation finds, opens and cites promoted knowledge. |
| `AgentsProofs` | That only matching knowledge is opened and answers rest on evidence; that a thread acts once and its graph follows the record. |
| `MCAgents` | Investigations of `KnowledgeTools` or a thread of `CausalWorkflow`, with evidence and knowledge for TLC. |
| `PromotionGate` | A proposal's way from research to promotion, as functions of its text, for both registries. |
| `RunbookRegistry` | Candidates, reviewers and promoted versions of runbooks; a system of its own, with tables the service never reads. |
| `MCRunbookLearning` | `RunbookRegistry` or the way to it, `PromotionGate`. |
| `LearningProofs` | The registry's inductive invariant and its properties; the gate's. |

The last four MC modules put two systems that share no variable next to each
other: a variable (`target`, `part`, `program`) is chosen in the initial state and
says which of the two runs.  Their reachable states are those of one system and
those of the other, and each property is about one of them.

Every module has next to some of its definitions a second one marked *Faulty*,
with a suffixed name: the same operation with a plausible bug.  Nothing uses
them; each property is known to fail when the operation is replaced by its
faulty form, as listed in `PROJECT.json` under "mutants".

### Store

A run is named by its idempotency key (UNIQUE in `runs`), a proposal by its run
and revision (UNIQUE in `proposals`); a missing row has the status `absent`.
Payload hashes, options (scenario, kind, action and parameters) and run keys are
model values.  `action_hash` is the record of revision and option: a digest that
is injective, as SHA-256 is taken to be.  An audit row keeps its event, for
transitions the two states, for decisions the digest; actors, trace ids, times
and texts are left out.  A decision's audit row has the name of the decision as
its event.  The checks that a stored row still matches its own digest are left
out: no operation of the program writes a row they would refuse.

Each operator is the whole transaction, its audit rows included.  A transaction
that raises changes nothing, because it is rolled back; the service actions
`DecisionConflicts`, `ClaimConflicts` and `HandlerRaises` are those ends.

### Service

`worker[w].pc` says between which two transactions a thread is:

| Handler | Steps |
|---|---|
| `_start_event` | `StartEvent`, `AcceptEvent`, `CollectTelemetry`, `Analyze`, `AssessRun`, `BuildProposal` (option and clock), `CreateProposal`; `IntakeRaises` and `FailRun` are its except clause |
| `_decide` | `RequestDecision` (reads, clock), then one of `DecisionConflicts`, `DecisionExpires`, `DecisionRevises`, `DecisionSettles` |
| `_execute` | `RequestExecution` (reads, clock), one of `ClaimConflicts`, `ClaimExpires`, `ClaimExecution`; `AuditToolCall`, `RunExecutor`, `Finalize`, or `FinalizeAsFailed` from the except clause |
| `expire_due` | `RequestExpiry` (clock), `ExpireDue` |
| environment | `Tick`; with "busy" in `Faults`: `FinalizeRaises`, `HandlerRaises` and the database half of `IntakeRaises`; with "crash": `Crash` |

A step that only reads is merged with the clock reading next to it where what
it reads cannot change (the option, deadline and revision of a proposal).
Requests that change nothing (unknown proposal, execution disabled, duplicate
event, payload conflict, a mismatching revision, an option policy refuses) are
stuttering.  Collector, analyser, policy and executor belong to the
environment: they return or raise at any time; the executor may have had its
effect when it raises.  Observability calls are taken not to raise, and a commit
not to fail once `BEGIN IMMEDIATE` succeeded.  The clock never runs backwards.

### Background task

`ExpirationLoop` adds `loop`, the task that `app.py` starts with the
application: it sleeps (`LoopWakes` ends the sleep and reads the clock) and
sweeps (`LoopSweeps`).  An exception of the sweep ends it (`LoopRaises`):
nothing catches it inside the loop, and the task is looked at only on shutdown.
The module describes one lifetime of the application, without its shutdown.

### Views

`RunViews` adds `view`, what one call of `get_run` has read so far: `ReadRun`,
`ReadLatestProposal`, `ReadAudit`, one read per lock, then `Respond`.  Audit
rows are only appended, so the trail that was read is named by its length.

### Registry of runbooks

`reviewer[v]` is a thread inside `revise` or `review`, with the candidate it
read; `BeginRevision` and `BeginReview` go up to the transaction (the evaluator
included, whose verdict is a function of the proposal: its field `passes`), and
`Revise`, `TurnDown` and `Promote` are the transactions, each a conditional
UPDATE on the pending candidate.  A lost race, a locked database and a crash are
`LoseReview`: they leave no trace.  Rows of `promoted_runbooks` are never
deleted and a new version is the largest plus one, so `promoted[b]` is a
sequence whose positions are the versions.  Digests, notes, reviewers' names
and times are left out.

### Notes of revisions

`RevisionNotes` adds the length of every stored summary and of the note each
thread carries: `RequestRevision` validates the assessment it read,
`StoreRevision` stores the sum, `StoreSummary` the analyser's validated text.
Every other step of the service is taken over as it is (`OtherStep`).

### Opening a database

`starter[p]` is a process inside `SQLiteStore.__init__`, with the rows it
selected.  `executescript` commits the transaction it is called in
(`CreateTables`), so each later statement is a step that commits by itself.  A
row is one run with its newest proposal and audit trail; `origin` tells rows of
the old schema from those this program recorded.  Both columns of the old schema
are missing on an old database; a lost ALTER race, a locked database and a crash
are `StartEnds`.  A process that serves records runs and moves proposals
(`Record`, `Advance`), which is all that matters of it here.

### Containers

`ContainerExecutor`: `open` is the set of paths whose mode allows others,
`files` what lies in the sandbox, `exec[t]` an execution, `box[t]` its
container.  Modes are opened and restored path by path.  The container runs its
script one deletion at a time and may be denied, outlive its command, or resist
removal.  The tables of what each action deletes and writes are those of the
scripts; `Result` is what the host executor does for the same action.  Assumed:
a runtime that remaps user ids (otherwise modes are moot); the Python 3.12 of the
image, whose path methods raise `PermissionError` instead of answering False; at
most one container per thread is left behind; nobody refills the files.

`ContainerLab`: `phase` is the application, `box` the container as the engine
knows it with the service in it, `call[t]` a `restart_and_wait`.  Commands may
fail, or be given up with the effect done, not done, or still to come (`late`,
`due`).  A boot has two steps, because the script truncates its count before it
writes it and a restart may end it in between; the next boot is then a first one
again.  The host reads of the count what is there, what was there before the last
write, or 0 (`Counts`), and a probe may fail under faults (`ProbedHealths`).  The
settling second may be over at any time, so that `Settles` needs no later count.
`rm` is not believed nor disbelieved, and an `inspect` that exits with an error
counts as absence, also when the error is the engine's (`Inspected`).  Two things
are history that the code does not keep: `box.heals`, the boots that answered
200, with its value at the restart in `call[t].healed`, and `phase.failures`, the
commands of a clean-up that did not do their work.  Assumed: the application is
closed only when requests are finished, the file system lets the sandbox be
deleted, and a restart keeps the container's identity.

### Causal workflow

One thread of the graph: `checkpoint` is the node LangGraph would run next,
`step` how far the node is, `run` and `trail` the thread's run and audit rows in
the service.  `Interrupt` ends a node between two of its writes, whereupon it
runs again from its start, as LangGraph does; `SendMessage` is another message in
a finished thread, `Restart` a server with a new in-memory database and sandbox
under a checkpoint that was kept.

### Capabilities

`CapabilityRegistry` splits the transactions of `RunbookRegistry` into BEGIN,
UPDATE, INSERT and COMMIT: `transaction` holds the rows as the open transaction
sees them.  `Lose` is every way for a caller to fail, with rollback.
`record_activation` looks a version up and inserts a row later.  Refined by
`Governed`: rows of capabilities are read as rows of runbooks, and a caller that
records is idle.

`CapabilityActivation` has one session per run of the command: its in-memory
incident store and worker belong to it, the registry to all.  `Contracts` are
the texts promoted (`MCContracts` of `MCCapabilities`): sound or not, with parameters inside and outside of policy.

`KnowledgeTools`: `observed`, `found` and `opened` are what the trace of each
investigation holds, `call[c]` a tool call between its reads and its record.
What a diagnostic tool can record is what the telemetry of the incident contains
(`Observable`, any subset of the evidence for each investigation).
The harness and the learning demos share the code, and so the module serves for
runbooks and capabilities; the search of a thread in `Required` has to be made
before its answer is accepted.

`PromotionGate` is the data side of the registries: `passes` there is `Passes`
here.  Evidence, signals and categories are those of the two labs; the policy of
a text is one of three values (sound, allowed only by the wider rule of
runbooks, neither), because the gate looks at nothing else of it.

## 3. Runs

Deadlock is checked in the runs of the service, of its background task, of its
views and notes, and of the migration: a thread that returned can always take
another request, and a process can always crash or serve.  It is not checked in
`targets`, `learning`, `capabilities` and `agents`, where the system may be at
rest: a closed lab, a registry whose candidates are used and decided, a finished
session, an answered investigation, an ended workflow.

| Run | Configuration | Instance | What it shows |
|---|---|---|---|
| `service` | `Service.cfg` | 3 threads, 1 run, 2 revisions, TTL 1, clock to 2, busy and crash | `IInv`, `RunFollowsProposal`, `OwnershipIsExclusive`, `EffectAtMostOnce`, `EffectWasApproved`, `OutcomeMatchesEffect`, `AuditReplays`, `TerminalIsForever`; `GateSpec`: every step is one of the gate, or none |
| `settles` | `ServiceSettles.cfg` | 2 threads, 1 run, no faults, `FairSpec` | `IntakeSettles`, `ExecutionSettles` |
| `deadline` | `ServiceDeadline.cfg` | 2 threads, 1 run, no faults | violates `ClaimMeetsDeadline`, see below |
| `sweeps` | `LoopCloses.cfg` | 2 threads, 1 run, 2 revisions, busy, `LoopSpec` | `OverdueProposalsClose` |
| `loop_ends` | `LoopEnds.cfg` | 1 thread, 1 run, busy, `LoopSpec` | violates `UnansweredProposalsExpire`, see below |
| `views` | `Views.cfg` | 2 threads and a reader, 1 run, 2 revisions, no faults | `ViewNeverRunsBackwards`, `ViewIsExplained` |
| `notes` | `Notes.cfg` | 2 threads, 1 run, 3 revisions, limit 2, notes of 0 or 1 | `GrowthIsBounded` |
| `migration` | `Migration.cfg` | 2 processes, 2 old runs, crashes, `FairSpec` | `ServedIsMigrated`, `LegacyIsNeverServed`, `MigrationCompletes` |
| `targets` | `Targets.cfg` | 2 threads with two actions that share `logs`; 2 threads and 3 healthy boots of the lab; commands that fail, time out or come late | `AccessFollowsExecutions`, `CompletedMeansDone`, `WritesNeedAnExecution`; `SandboxOutlivesContainer`, `RestartedMeansRecovered` |
| `learning` | `Learning.cfg` | 2 reviewers, 3 candidates, 2 runbooks, either verdict; every proposal over 7 signals, 4 categories, 3 policies | `VersionsAreReviewed`, `PromotedOnce`, `LineageIsLinear`, `DecisionsAreFinal`; `ReviewedIsObserved`, `RevisionKeepsPassing`, `PromotedIsSelective` |
| `capabilities` | `Capabilities.cfg` | 2 callers, 3 candidates, 1 capability, either verdict; 2 sessions, 2 capabilities, 7 contracts | `ActivationsCitePromoted`, `IsGoverned`; `LoweredUnderContract`, `ActivationIsAllOrNothing`, `HistoryIsTruthful` |
| `agents` | `Agents.cfg` | 2 investigations, one of which must cite, with 2 calls in parallel, 4 observations, 1 item with 2 versions; a thread with 4 tool calls, 3 interruptions at any of six places, 2 messages, restart, `AgentsSpec` | `OpenedIsRelevant`, `AcceptedRestsOnEvidence`; `ActsAndVerifiesOnce`, `GraphFollowsRecord`, `ApprovedThreadsEnd` |

**Bounds and why they suffice.**  The transactions of one run never read the
rows of another, and the sweep does to each run what it does to one, so one run
is enough for the properties of a run.  Three threads let a third meet any race
of two.  Two revisions let every operation address a superseded, a current and a
missing revision, and give an approval a digest it may be confused with.  With a
TTL of 1, a clock that goes to 2 lets the first proposal and its revision both
expire.  The safety results of the service do not rest on these bounds, nor on
there being one run and one option: they are proved for all values (section 4).
Threads, runs, payloads and options are interchangeable, so the safety runs use
them as symmetry sets.  Of the runs with liveness properties only `agents` has one,
of the tool calls, which its liveness property is not about: a Studio thread makes
none, so that the symmetry identifies none of its states.  `views` needs
no faults: a step that fails changes no table, or is one that two threads show
anyway.  Three candidates are a submission, a revision of it and a rival
revision or an unrelated submission; two reviewers are a race.

In `notes` a limit of 2 and notes of 0 or 1 put a summary below, at and above
the limit. In `migration` two old runs let one be rewritten while another is
selected, and a run recorded meanwhile takes the place of a missing one. The two
actions of `targets` share the directory `logs`, and one has two more, so that
the modes of two executions overlap and differ. Three healthy boots of the lab
let each of two restarts be followed by one and a late restart by another; boots
that answer 503 are not bounded. In `agents` one item in two versions and an
observation of each category are what tool calls can mix up: an investigation
can open both versions and cite one for evidence that only the other covers, or
open one version, or two, and cite evidence that none covers. The other
investigation sees an incident that resembles one version by its signals only,
and must open nothing (`Observable`). Of the workflow in `agents`, three
interruptions reach every pair of places in a node and a third after it ran
again. The contracts of `MCCapabilities` lie on both sides of every check. The
proposals of `learning` are bounded only by the vocabulary, which is that of the
labs with one signal that stands for any other.

**Fairness.**  `FairSpec` asks weak fairness of `Handle(w)` of each thread: a
thread in the middle of a handler goes on with it, as a running thread does,
and external calls return or raise in the end.  No request has to be made and
the clock may stop.  The handler may take the raising branch for ever, which is
why the outcome is "a proposal or a failed run".  Both liveness properties hold
without faults only: after a crash in intake or between claim and finalization
nothing takes the run up again (`docs/adr/003-safety-correctness-hardening.md`
keeps such an execution as `executing` on purpose), and a database locked
during the second finalization has the same effect.

`LoopSpec` asks in addition that the event loop goes on with the background task
(`LoopRuns`).  `LoopRaises` is no part of it: the task may always be lucky, and
`OverdueProposalsClose` allows for the case that it is not.

`SchemaMigration` is fair to `Start(p)`: a process that was started goes on, and
one whose start failed is started again, as an operator would.  Crashes are
allowed for ever; `MigrationCompletes` says what happens if from some moment on
no start ends early but for a race it lost (`Settled`).

`AgentsSpec` is fair to `Node` of the workflow: a thread that is not waiting for
a human is resumed.  The human need not answer, and no fairness makes an
interruption stop (the bound does).  `ApprovedThreadsEnd` speaks of
threads past the decision, and allows for a server that forgot the run, a
proposal that expired before it was claimed, and an execution that was
interrupted after its claim (`LeftBehind`), which the service keeps as it is on
purpose.

**Divergences.**  ADR 003 says: "The proposal TTL remains the execution-claim
deadline even after approval."  `_execute` reads the clock before
`claim_execution` waits for the transaction, up to the busy timeout, and the
transaction compares the time it was given.  `deadline` shows a claim of a
proposal whose TTL has passed.  What does hold is that the deadline lies after
the time the handler read.

`foundation.prompt` says: "Expire and retain unanswered proposals after a
configured TTL without executing remediation or deleting their history."  The
loop in `app.py` calls `expire_due` with no handler around it.  `loop_ends`
shows the sweep that meets a locked database: the task ends, and a proposal
nobody answers stays `proposed` until the application is restarted.  A late
decision or claim still expires it, so nothing is executed.

The other expectations below stand under a heading of their own at the end of
their modules.  No run checks them; TLC refutes each within seconds when the
module is checked with it.

ADR 003 also says: "Expired proposals are retained and inspectable in SQLite and
audit history", and that the migration removes *legacy* event content.  The
migration's transaction is committed by `executescript`, so its statements
commit one by one.  `ExpiryIsWhole` fails for a start that ends after it expired
a proposal: the run stays open, its trail has no expiry, and the next start
selects only open proposals.  `OnlyLegacyIsMigrated` fails for a process that is
still migrating and removes the event of a run another process has just
recorded.  What holds is that nobody serves an unmigrated database and that no
old proposal is ever decided.

`README.md` promises that `GET /runs/{run_id}` remains available.
`RunsStayViewable` fails: a note makes the stored summary longer than the 2000
characters of `ModelAssessment`; the revision is committed and the answer, as
every later view, raises.  Further revisions are refused, which bounds the
damage (`GrowthIsBounded`); approval, execution and expiry still work.

ADR 003 grants a container "access only to the fixed action subdirectories".
`OnlyActionDirectories` fails: with two executions at a time the modes add up,
and each container reaches the other's directories.  What holds is that modes are
open for executions under way only (`AccessFollowsExecutions`).  In the lab,
`FailedStartClosesAccess` fails: a `run` command that times out raises past the
clean-up, and the factory that called it closes the store only.

`docs/evidence.md` says of the lab: "cleanup verifies removal", ADR 004 that
cleanup "removes and verifies the exact target".  `ClosedLeavesNothing` fails:
`close` ignores the exit code of `rm` and takes any non-zero exit of `inspect` as
absence, so that when the engine answers both with an error, it removes the
sandbox and returns, and the container is left.  What holds is that it takes both
commands to fail, that a close that raises has kept the sandbox for another
attempt, and that access is closed by either (`SandboxOutlivesContainer`).  (The
ADR does say that a failure of the runtime may leave a container.)

The executor reports a restart as "disposable service restarted and verified
healthy" (`executor.py`).  After the wait for health the snapshot is read again
until its boot count is a later one, for up to a second, and its health is not
looked at.  `SuccessIsHealthy` fails without any fault: of two restarts one
reports success with the service last seen starting.  `SuccessIsLater` fails as
well: when the reads lag or fail for that second, the old count or 0 is reported.
What holds is that the service has booted and answered 200 since the restart that
is reported (`RestartedMeansRecovered`).

`OnlyUnhealthyIsRestarted` fails too: `restart_and_wait` refuses to restart
anything but an unhealthy service, but with two threads the second restarts what
the first has healed.

`README.md` calls the workflow "one resumable Studio thread".
`ThreadsAreResumable` fails: the building node stamps its event with the current
time under a fixed idempotency key, so that when it runs again the service
refuses the event as another payload, each time.

ADR 009 says a failed verification triggers the rollback and records it.
`RollbackWasApplied` fails: an activation refused before it touched the worker is
audited as `rollback_applied` as well.  `HistoriesAgree` fails: where the audit
trail says `rollback_applied`, the registry's row says `failed`
(`docs/full-sre-agent.md` promises the former).  The row's separate flag
`rollback_applied` is derived from the worker's state.  On success the two
records agree (`HistoryIsTruthful`).

ADR 009 also says that a diagnosis may not cite a category "outside the promoted
required set".  `ScopeIsEnforced` fails: an investigation that opened two versions
may cite the categories of either, whichever version it names.

## 4. Proofs

Every safety invariant and every action property of the passing runs is proved
for all values of the constants; only liveness is not (see the end).

In the service all constants are arbitrary: any sets of threads, runs, payloads
and options, any number of revisions, any TTL, any set of faults.  Assumed are only
`StoreAssumption` (at least one revision; NULL is no run, payload or option)
and `ServiceAssumption` (a positive TTL, the types of the others).  Elsewhere, too,
what is assumed is named in the module: that markers such as NULL are none of the
values, that limits are numbers, and in `ContainerExecutor` that every action
has its list of directories (`ExecutorAssumption`).

**The inductive invariant.**  None of the safety properties is inductive by
itself: that the executor is called once depends on who may be about to call
it, hence on the states of run and proposal while a thread holds them, hence on
every transaction that could move them.  `IInv` joins

* `TypeOK` and `RowsAreComplete`;
* `EarlyRunsHaveNoProposal`, so that `fail_run`, which ignores proposals, cannot
  strand one;
* `RunFollowsProposal`, so that a transaction on one revision knows the others;
* `JobIsValid`, what a thread's local variables still mean when it uses them;
* `OwnershipIsExclusive`, so that no other thread can move a held run;
* `ApprovalsAreBound`, that an approved row carries its digest and the audit
  trail records it;
* `EffectsFollowClaims`, what a call or its absence says about the row and the
  thread that made it.

**The argument.**  `IncidentServiceProofs` proves Init and then one lemma per
action.  Actions fall into families that share lemmas: those that change no
table, those that only append to the audit trail, those that move a run before
its proposal exists, and those that move a run and a proposal together.  The
sweep, the only step that writes many runs, is reduced to what it does to one
(`SweepOfRun`).  `IncidentServiceTheorems` derives the properties; where a
property needs more than the invariant says, its proof names the part.
For the refinement each action is mapped to a gate step or a stutter, which
needs the invariant to know that the open proposals of a run are one.

**Audit trails.**  What a step does to one run is one of four things
(`RunStep`): nothing; a note, the first of which accepts the run; a new revision
with its row; a move along `Following`, logged as what it was, perhaps with a
note after it.  That is proved
action by action (`NextRunStep`).  Replaying a trail then needs no recursion: one
appended row leaves `MovesOf` as it was or adds one transition at its end, which
starts where the replay stood (`NoteReplays`, `MoveReplays`).  `TrailInv` adds
that a run without a row has no transition on record.

**The background task.**  Its sweep uses a time it captured earlier, and no
thread takes part in it.  The lemmas about sweeps (`SweepKeepsStore`,
`SweepRunStep`, `SweepRefines`) therefore speak of `expire_due` at any time, and
serve the handler and the task alike; all other steps of `LoopSpec` are steps of
the service or of `loop` alone.

**Views.**  A view is read in three moments, between which the run goes on.
`HistoryInv` says what is in the tables at each of them: a failed run has no
proposal or a failed one, the trail has the transition to the state of the run,
and as many revision rows as proposals were replaced.  `ViewInv` carries that
over: the run stays ahead of what was read of it (the transitive `Later`), and
what explained a part of the view goes on to explain it, as trails only
grow.  Both are proved from `RunStep`, not from the actions again.

**The registry.**  Here too the constants are arbitrary; assumed is only that
NULL is no candidate.  Its `IInv` adds to the properties `RowsAreComplete` and
`ReviewsAreBound`: a reviewer about to promote holds the very proposal of its
candidate, and that proposal passed.  That part makes the conditional UPDATE
enough, because proposals of rows are never rewritten: the state alone has to be
read again.

**The capability registry.**  `IInv` says what a caller's local variables still
mean, that no two callers hold the same new identifier, and that an open
transaction sees the committed rows with exactly the statements it has executed,
of a candidate that is still pending: no other connection writes meanwhile, so
the conditional UPDATE is as good at COMMIT as it was when it ran.  From it
follow that cited activations are reviewed versions and, action by action, that
the committed rows move as `RunbookRegistry` moves them: COMMIT is `Revise` or
`Promote`, BEGIN, UPDATE, INSERT and recording are stutters, a loss is
`LoseReview`.  Reading a sequence of versions as runbooks commutes with
appending to it (`AppendMapped`).  Assumed is that NULL is no candidate, caller
or proposal and that version numbers are positive.

**The migration.**  Its `IInv` says of each process what it has still to rewrite
is among the rows it selected, and what it has passed is rewritten, although
others start, crash and serve meanwhile: old rows are never added, and nobody
writes old content.  No assumption on the constants.

**Notes.**  A thread about to revise has read a summary within the limit, and as
long as it can still revise nothing has replaced it: its proposal is the newest,
by the service's own invariant, which the proof uses as a lemma.

**Knowledge.**  Evidence and versions are only ever added, so that what a search
read at two moments is still relevant when it is recorded (`IsRelevant` is
stable); the action that opens a version checks the record.  For the answers
`AnswerInv` adds that an investigation whose answer was accepted has no tool call
under way, whose late record could change what the answer was compared with.

**The workflow.**  `ThreadInv` says what node, step and run tell about each
other (`RunTells`, `StepTells`) and how many audit rows of each kind there are
(`TrailTells`): that a repeated node finds what its interrupted predecessor
wrote, and skips it, is what makes effects and verifications single.

**Targets.**  `SandboxInv`: an open directory is held by an execution that writes
to it and has not yet come to it while restoring (`OpenIsHeld`); how far a
container has come with the files of its action, which nobody puts back, says
what its execution may report (`BoxProgress`).  `LabInv`: each phase leaves the
container and the calls in states of its own, a late container being one of a
phase that failed and a late removal none of a service in use (`PhaseOfBox`);
what a clean-up finds at its inspection is gone or due to a failed `rm`
(`CleanUpAccounts`); and a call that waits while the service is healthy, or has
seen it so, knows of fewer healthy boots than there were (`CallsRecover`), since
its own restart ended the health that earlier ones had brought.

**Activations.**  Promoted contracts never change, so what a session read of the
registry stays true (`SessionsInv`); worker, lab record and audit row are tied to
the next step of the session, with a part for each.

**The gate.**  `GateInv` holds of a text on its way; what remains are facts about the
gate's predicates on sets, chiefly that a revision, which only leaves out what is
not causal, keeps passing what passed (`RevisionPasses`).

The four MC modules with two parts each have a theorem `...AreBoth`: their
behaviours are behaviours of both parts, so what is proved of a part's `Spec` is
what the run checks.

| Theorem | States |
|---|---|
| `IncidentServiceProofs!InductiveInvariant` | `Spec => []IInv` |
| `TypeCorrect` | `Spec => []TypeOK` |
| `AtMostOneEffect` | `Spec => []EffectAtMostOnce` |
| `OnlyApprovedEffects` | `Spec => []EffectWasApproved` |
| `RunsFollowProposals` | `Spec => []RunFollowsProposal` |
| `ExclusiveOwnership` | `Spec => []OwnershipIsExclusive` |
| `TrustedOutcome` | `Spec => []OutcomeMatchesEffect` |
| `EndedStaysEnded` | `Spec => TerminalIsForever` |
| `TrailsReplay` | `Spec => []AuditReplays` |
| `ServiceIsGate` | `Spec => GateSpec` |
| `SweptInvariant` | `LoopSpec => [](LoopTypeOK /\ IInv)` |
| `SweptEffectsAreSafe` | `LoopSpec => [](EffectAtMostOnce /\ EffectWasApproved /\ OutcomeMatchesEffect)` |
| `SweptRunsStayEnded` | `LoopSpec => TerminalIsForever` |
| `SweptTrailsReplay` | `LoopSpec => []AuditReplays` |
| `SweptServiceIsGate` | `LoopSpec => GateSpec` |
| `LearningProofs!InductiveInvariant` | `Spec => []IInv` |
| `ReviewedVersions` | `Spec => []VersionsAreReviewed` |
| `OneVersionEach` | `Spec => []PromotedOnce` |
| `LinearLineage` | `Spec => []LineageIsLinear` |
| `FinalDecisions` | `Spec => DecisionsAreFinal` |
| `OnlyObservedIsReviewed` | `LearningSpec => []ReviewedIsObserved` |
| `RevisionCostsNothing` | `LearningSpec => []RevisionKeepsPassing` |
| `PromotionIsSelective` | `LearningSpec => []PromotedIsSelective` |
| `CapabilitiesProofs!InductiveInvariant` | `Spec => []IInv` |
| `CitedActivations` | `Spec => []ActivationsCitePromoted` |
| `ImplementsGovernedRegistry` | `Spec => IsGoverned` |
| `CapabilitiesInvariant` | `CapabilitiesSpec => [](IInv /\ SessionsInv)` |
| `LoweredByContract` | `CapabilitiesSpec => []LoweredUnderContract` |
| `AllOrNothing` | `CapabilitiesSpec => []ActivationIsAllOrNothing` |
| `TruthfulHistory` | `CapabilitiesSpec => []HistoryIsTruthful` |
| `SchemaMigrationProofs!InductiveInvariant` | `Spec => []IInv` |
| `MigratedWhenServed` | `Spec => []ServedIsMigrated` |
| `LegacyStaysClosed` | `Spec => LegacyIsNeverServed` |
| `NotesInductive` | `NotesSpec => [](IInv /\ NotesInv)` |
| `BoundedGrowth` | `NotesSpec => []GrowthIsBounded` |
| `ViewsInvariant` | `ViewSpec => [](IInv /\ HistoryInv /\ ViewInv)` |
| `ViewsRunForwards` | `ViewSpec => [](ViewTypeOK /\ ViewNeverRunsBackwards)` |
| `ViewsAreExplained` | `ViewSpec => []ViewIsExplained` |
| `AgentsProofs!InductiveInvariant` | `Spec => []IInv` |
| `RelevantKnowledgeOnly` | `Spec => []OpenedIsRelevant` |
| `AnswersInvariant` | `Spec => [](IInv /\ AnswerInv)` |
| `AnswersRestOnEvidence` | `Spec => []AcceptedRestsOnEvidence` |
| `ThreadInvariant` | `Workflow!Spec => []ThreadInv` |
| `EffectsAndVerificationsOnce` | `AgentsSpec => []ActsAndVerifiesOnce` |
| `GraphAgreesWithRecord` | `AgentsSpec => []GraphFollowsRecord` |
| `TargetsInvariant` | `TargetsSpec => []TargetsInv` |
| `AccessIsTakenBack` | `TargetsSpec => []AccessFollowsExecutions` |
| `CompletedIsTrue` | `TargetsSpec => []CompletedMeansDone` |
| `StragglersAreLockedOut` | `TargetsSpec => WritesNeedAnExecution` |
| `CleanUpIsAccounted` | `TargetsSpec => []SandboxOutlivesContainer` |
| `RestartIsRecovery` | `TargetsSpec => []RestartedMeansRecovered` |

The inductive invariants other than the service's are proved here and not
repeated in the runs, which check the properties that follow from them.

**Only model-checked.**  `IntakeSettles`, `ExecutionSettles`,
`OverdueProposalsClose`, `MigrationCompletes` and `ApprovedThreadsEnd`: liveness
under fairness is outside the prover's reach.  The tables that are fixed in the
code (what an action deletes and writes, the vocabulary of the labs, the order of
the workflow's nodes) are those of the modules in the proofs as in the runs.

## 5. What is not modelled, and why

* **Text.**  Sanitising and the wording of summaries and notes are abstracted;
  of lengths only that of the summary is modelled, because it grows.
* **Digest checks of stored rows.**  No operation writes a row they would refuse.
* **Commit failures.**  A commit that raises after `BEGIN IMMEDIATE` succeeded
  needs an I/O error of the disk.
* **Access control** (`security.py`): a pure check per request, before the
  handlers modelled here.
* **Telemetry and models** (`telemetry.py`, `model.py`): external calls that
  return or raise; the retries of the analyser are a loop inside one such call.
* **Policy's matrix** (`policy.py`): a constant table.  Its bound on the one
  action with a parameter is in `CapabilityActivation`.
* **Host executor, sandbox scan**: one deletion in one process, and file I/O.
* **Scoring** (`reflection_eval.py` and the scoring parts of the other harnesses):
  sequential arithmetic over recorded results.
* **Settings, observability, other commands**: wiring, parsing and export.

## 6. What could come next

1. The scenario matrix and `build_option` of `policy.py` as operators with a
   reference definition.
2. `CausalWorkflow` and `CapabilityActivation` composed with `IncidentService`
   instead of the one run they keep of it.
