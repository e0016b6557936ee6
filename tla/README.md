# TLA+ verification of the AlHaris Tech platform

Models, model checks and proofs of the parts of this repository whose
correctness depends on the order in which things happen and on where they stop.
Paths are relative to the repository root; `api/` stands for `apps/api/src/` and
`speckit/` for `tools/spec-kit/src/specify_cli/`.

Run a check with `tlc -workers 2 -config <run>.cfg <module>` and the proofs with
`tlapm <module>.tla` for `IdempotencyProofs`, `EventWorkerProofs`, `DlqProofs`,
`WorkflowEngineProofs`, `CatalogsProofs`, `IntegrationProofs`, `BundleProofs` and
`ListLemmas` (`IntegrationProofs` takes ten minutes, `BundleProofs` seven).
`PROJECT.json` maps every modelling definition to the lines it models, and lists
runs, mutants, findings, hazards and theorems.

## 1. Inventory

The platform's own program is the NestJS application under `api/` (about 5,200
lines); the dashboard is a set of static pages and the packages hold
declarations. `tools/spec-kit` is a bundled copy of GitHub Spec Kit (Python,
about 33,000 lines), the tool the repository is developed with: a workflow
engine, and a package manager for extensions, presets, integrations, workflows,
step types and bundles.

| Part | State | Operations | Depends on |
|---|---|---|---|
| Idempotency layer, `api/events/idempotency` | per event a lock key (30 s) and an execution record (7 days) in Redis | checkAndLock, markCompleted, markFailed | Redis |
| Event workers, `api/events/workers/worker-factory.ts` | BullMQ jobs; the local variables of a running processor | the processor: check, execute, hooks, mark, retry, exhaust, route | idempotency layer, DLQ, BullMQ, metrics |
| Dead-letter queue, `api/events/dlq` | per queue a capped Redis list; per event a poison counter | route; inspect, replay, replayAll, remove, clearQueue | Redis, event bus |
| Metrics, tracer, health, `api/events/observability`, `health` | counters, ring buffer | increment, read | workers |
| Worker lifecycle, `worker-orchestrator.ts`, `worker-registry.ts` | map of live workers, `started`, map of handlers | start, stop, startQueue, stopQueue, register | worker factory |
| Event bus, `api/events/bus`, `infrastructure/queue-*` | queues | publish, publishMany, schedule, cancel | validation, BullMQ |
| Redis connection, `redis-manager.ts`, `redis.provider.ts` | client, error state | initialize (once, at boot), ping, shutdown | ioredis |
| Event validation, `api/events/validation` | validators copied at start | validate | CRBL registry |
| CRBL schema registry, `api/crbl` | specs, schemas, rules, compiled validators | load, reload (with backup), lazy compile | file system, ajv |
| Guards, pipe, interceptor, `api/common` | none | decide on a request | CRBL registry |
| Auth, `api/modules/auth` | users (failure counter, lock), refresh tokens | register, login, refresh, logout | Postgres |
| Workflow engine, `speckit/workflows` | `state.json` of a run; RunState and call stack of the process | execute, resume; Ctrl-C, kill | step types |
| Extensions, `speckit/extensions.py`, `agents.py` | `.registry`, directories, `.backup`, agents' command files and skills, `extensions.yml` | add, remove, update, enable, disable, set-priority | catalogs, agents |
| Integrations, `speckit/integrations`, `shared_infra.py` | `integration.json`, `init-options.json`, manifests of hashes, command files, shared templates | install, uninstall, use, switch, upgrade | extensions, catalogs |
| Presets, `speckit/presets` | `.registry`, directories, `.composed`, command files, skills | add, remove, set-priority, enable, disable; resolve, reconcile | extensions, catalogs |
| Workflow packages, `speckit/workflows/catalog.py` | two registries, directories | workflow add, remove; step add, remove | catalogs |
| Bundler, `speckit/bundler`, `commands/bundle` | `bundle-records.json` | install, update, remove | the four managers above |
| Catalogs, `speckit/catalogs.py` and one class per kind | source lists of project and user, cache with time stamps | lookup, install policy, add and remove a source | network |
| Command line, `speckit/_version.py`, `commands/init.py` | none of its own | init, self check, self upgrade | git, pip, uv |

### How they interact

A publisher calls the **event bus**, which adds a job to a BullMQ queue in
Redis. A **worker** processes it: it asks the **idempotency layer** for the
event, runs the handler, and marks the outcome; a failed attempt is rethrown so
that BullMQ retries it; the last one is marked failed and routed to the
**dead-letter queue**. An administrator inspects the queue and replays entries
through the event bus, which closes the circle. All of this is chains of single
Redis commands from several processes, each `await` a point where anything else
may happen, where the process may die, and where a reply may be lost. There is no
lock but the two of the design: BullMQ's job lock and the idempotency lock. Both
expire.

The **workflow engine** is sequential, but its run outlives its process: it
pauses at gates, fails, is interrupted or killed, and resumes from what it last
wrote, which is the index of a top-level step, while the interpreter may have
been several nested lists deep.

The **package managers** of spec-kit run once from top to bottom, and what they
share is the file system. Extensions, presets and integrations write to the same
agents' directories, by name; an integration switch moves the extensions'
commands; a preset's content depends on every other preset and on the extension
below it; a bundle calls the four managers one after the other. Each command is
ten to thirty separate writes, any of which may raise or be the last before the
process is killed, and the next command starts from what is left. What they
install they look up in a **catalog**, sometimes twice in one command, through a
cache of two files per source.

### What makes each part correct

- idempotency: an event is in the hands of one executor; a settled event is not
  run again; a verdict is final.
- workers: effects and DLQ entries are not multiplied by duplicates, stalls,
  retries and crashes beyond what went wrong; failed job, failed record and DLQ
  entry agree; every job comes to rest; the counters account for every start.
- dead-letter queue: nothing in it is lost or published more than asked for,
  whatever its callers do to each other; the poison counter does not overcount;
  calls end.
- workflow engine: one settled step at a time over all resumes; completed means
  all done; a stop stops every level; final states are final; processes end.
- extensions: a failed update leaves what was there; registry, files and hooks
  agree; the user's configuration is never without a copy.
- integrations: two files name one default; what the user edited survives; a
  switch takes the extensions along and forgets none of them.
- presets: command files show what the stack resolves to, in whatever order it
  was built.
- bundler: a failed installation leaves nothing; what is recorded is installed;
  nothing of the user's own is taken away.
- catalogs: an answer is no older than promised; what is installed comes from the
  first source that has it, and from one that allows it; the number shown by
  `catalog list` is the source that `catalog remove` removes.

## 2. Modules

| Module | Models | State and actions |
|---|---|---|
| `OnceExecution` | what the idempotency layer promises, without Redis | who runs an event, what is remembered of it; Take, Settle, GiveUp, Forget |
| `Idempotency` | `api/events/idempotency` and the way the processor calls it | one action per Redis command; both TTLs; Abandon is the retry path that leaves the lock behind; Crash at any await |
| `EventWorker` | the job processor, BullMQ as it is configured, the counters | INSTANCEs Idempotency for the commands of checkAndLock and mark; adds hooks, retry, exhaustion, routing, backoff, stalled jobs, stale tokens, throwing Redis calls, locks that run out under their run, records that expire |
| `Dlq` | `DlqRouter` and `DlqService` | routers and administrators, one action per Redis command or MULTI; an administrator's may throw, executed or not |
| `WorkflowEngine` | `speckit/workflows/engine.py` and the control-flow steps | `disk` (state.json), `mem` (RunState), an explicit stack for the recursion of `_execute_steps`; a call that returns (`pc = "returned"`) goes back to the loop, fan-out or list that made it, and what happens next is decided there, level by level |
| `ExtensionStore` | ExtensionManager, its registry, the command registrar, the hooks | the project's files; a command is a list of steps, `todo`; one action per step, in which the process may be killed or the call raise, with part of the writes done |
| `IntegrationStore` | the integration commands; EXTENDS `ExtensionStore` | adds `integration.json`, manifests, integration files, shared files, and the moves of extension commands from agent to agent; `stripped` remembers whose manifest an upgrade has deleted |
| `PresetStore` | PresetManager and PresetResolver | registry, directories, command files and skills as sequences of layers; steps as above, and `try` steps whose handlers run when the body raises |
| `WorkflowStore` | workflow and step add and remove; EXTENDS `PresetStore` | two registries, directories, staging and renaming |
| `BundleInstaller` | install, update, remove of bundles; EXTENDS `WorkflowStore` | records; the managers' own steps run as part of the bundle's command, unwinding is its handler |
| `Catalogs` | sources, cache, lookup and policy of all six kinds | config files, cache, clock; a lookup asks one source after the other; commands that add and remove a source |
| `MC*` | instances for TLC | |
| `IdempotencyProofs`, `EventWorkerProofs`, `DlqProofs`, `WorkflowEngineProofs`, `CatalogsProofs` | theorems about the module each is named after | |
| `IntegrationProofs` | theorems about `ExtensionStore` and `IntegrationStore` as one system | |
| `BundleProofs` | theorems about `BundleInstaller`, with `PresetStore` and `WorkflowStore` as one system | |
| `ListLemmas` | facts about lists and finite sets the proofs rest on | |

Each of the modelling modules also holds, next to a correct definition, the
faulty form a plausible bug would give it (`Acquire_Overwrites`,
`Resume_NoOffset`, ...). They are not part of any specification; `PROJECT.json`
names for each property the one that breaks it.

Composition: `EventWorker` composes idempotency, worker, BullMQ and the entry into
the DLQ. `MCIntegrationStore` runs extensions and integrations as one system,
`MCBundleInstaller` presets, an extension (one bit there: present or not),
workflows, step types and bundles.

Correspondence worth knowing when reading the modules:

- `pc[w] = "exists" | "acquire" | ...` names the command executor w awaits
  *next*. The code up to the next await is in the action of that command.
- The processor resolves its handler before the first await, so a job without one
  goes straight to `"threw"`.
- A catch block counts as part of the run it ends: in the refinement mapping
  (`IdemView`) `"catch"` is `"granted"`.
- BullMQ is external. Modelled of it: a job is handed to one slot at a time; a
  job is taken back as stalled, from a dead slot or (LiveStalls) from a live
  one, at most `maxStalledCount` times before it is failed; the finish of a slot
  whose token is stale is rejected; a failed attempt is delayed or final by the
  queue's `attempts`.
- In `WorkflowEngine` a step result is kept per step id of the definition; the
  per-iteration and per-item copies (`id:base:n`) share it. Steps may share an id
  (`Id`), as steps nested in a fan-out template may with any other. Expressions and
  commands are reduced to their outcome. `Loose` are the gates with an option to
  reject that is valid but not spelled as `execute` compares it.
- In `WorkflowEngine` stopping is not one step. A step that pauses, fails or aborts
  saves the status and returns (`Halt`); each level above then looks at the status
  in a step of its own (`Unwind`: the checks of `engine.py:780`, `813`, `842` and
  `854`), and an interrupt or a kill may fall between any two of them.
- In the stores a step `<<"name", argument>>` at the head of `todo` is the call the
  command makes next; `In("name")` is the guard of its action. `Fault` spends one
  of `MaxFaults`. A raise drops the rest of `todo`, or continues with the handler
  that surrounds it; a kill drops everything. `cut`, `broken`, `stale`, `mine` and
  `excused` are history variables that the properties use to say what has been
  interrupted, or done by the user, and no action reads them.
- A file is reduced to who wrote it and for which version (`ExtensionStore`,
  `IntegrationStore`) or to the sequence of layers it is composed of
  (`PresetStore`); rendering is left out.
- `Catalogs` has one behaviour per kind: the six classes do the same with
  differences (does it cache, does it fall back on a stale answer, is the policy
  checked again), which are operators with the kind as argument.

## 3. Runs

| Run | Bounds | Shows |
|---|---|---|
| `idempotency` | 3 executors, 2 events | the proofs' inductive invariant and that the Redis protocol implements `OnceExecution`, with retries that leave locks, crashes and both TTLs |
| `worker` | 2 slots, 2 jobs of one event, 2 attempts, live stalls, any 2 mishaps of five kinds: a crash, a throwing hook, a throwing Redis call, an execution lock that runs out under its run, an execution record that expires | while no lock is lost the processor keeps the protocol of `Idempotency`; each mishap costs at most one more effect and one more DLQ entry; DLQ entry, record and failure agree |
| `worker_settles` | 2 slots, jobs of two events of which one has no handler, 1 mishap of any of the five kinds | every job comes to rest; counters balance |
| `worker_unhandled` | 1 slot, 1 job without a handler | finding: an unhandled event is not dead-lettered |
| `worker_lost_retry` | 1 slot, 1 job, no mishap | finding: a retry finds its own lock and is completed unprocessed |
| `dlq` | 2 routers, 2 administrators, 3 failures of 2 events, cap 2, 1 publish or other Redis command that throws | concurrency alone loses nothing; a publish that throws costs at most two entries and any other command one; no administrator publishes an entry twice; counters do not overcount; calls end |
| `dlq_requeue_fails` | 1 administrator, 1 failure | finding: a replay whose publish throws has lost the entry |
| `workflow` | 11 steps: gates (one with a loosely spelled rejection), while with a gate inside, if, fan-out with a do-while inside and in that another fan-out and a step that repeats an outer id; 2 iterations, 2 items, 4 stops | the properties of the engine listed above |
| `workflow_gate_skipped` | one while loop with a gate | finding: a paused gate is never asked again when the condition changed |
| `extensions` | 2 extensions that share an alias, one with an update that drops and brings commands and hooks; 2 agents, one in skills mode; 5 commands or edits, 1 fault | RolledBack, FilesAsRecorded, HooksFollowEntry, ConfigCarried; of the integrations OneDefault, EditsSurvive, SwitchMovesCommands |
| `packages` | 2 presets (one wraps both commands, one replaces both), a command of spec-kit and one of the extension, 1 workflow, 1 step type, 2 bundles that share a preset, one with an update; 4 commands, 1 fault | FilesFollowStack, RecordedInstalled, FailureLeavesNothing, NoCollateral |
| `catalogs` | each of the six kinds; 3 sources, one item; config files without priorities, in order and out of order; 3 acts, clock to 2 with a duration of 1, 1 fault | CacheAge, AllowedOnly, ConfigAsListed |

### Why the bounds are enough to be interesting

Two slots and two jobs of one event give every overlap the lock is there for,
and with the third executor of `idempotency` one may settle while another waits
and a third checks. One mishap of any kind is enough to separate "at most once"
from "once plus mishaps", which is what `DuplicationBounded` says; `worker` has two,
for the pairs: a lock that runs out under its run and the record of the other run
that expires, or a crash and a stalled job. Its two jobs carry one event and its
slots are alike, so it takes states that differ by a renaming of either as one; none
of its properties is about liveness. The lock and the BullMQ lock live 30 s
both, so a live stall comes with a lock that runs out: nothing keeps the two
apart in `EventWorker`, and where a lock is lost under its run it is counted as a
mishap. Two attempts have a first, a retry and a last. A DLQ cap of 2 with 3 failures overflows, and
two failures of one event are what LREM by text and search by event id disagree
about. The one failure of `dlq` may fall on any command of an administrator, before
or after Redis has executed it. For these three modules the theorems of section 5 remove the bounds.

In `workflow` each kind of step occurs. The stack is up to five calls deep (branch,
fan-out, do-while, fan-out), so a step in the innermost template stops, fails or is
killed under loops and fan-outs in their first and later rounds, and every one of
them has to return. Four stops suffice to stop inside each and again after the
resume.

In the stores a fault may fall into any step of any command, and what is left of
the acts is what the user does with the ruins: with five acts an extension can be
added, disabled, updated with a fault, repaired and switched to the other agent.
Two extensions with one alias are the least that a name conflict needs, two
presets the least for an order, two bundles that share a preset the least for a
reference count. One fault separates "rolled back" from "half done"; a second
one, in the rollback of the first, is where the code gives no promise.
In `catalogs` a clock of two ticks lets an answer expire while a second command
runs; three sources give each of two an upper and a lower neighbour.

No run of a store or of `catalogs` checks liveness: a command is a finite list
of calls and ends when the last one returns.

`VIEW NoCounters` of the worker runs leaves the metrics, which no property of
those runs mentions, out of the state identity.

### Findings, in short (details with quotes in `PROJECT.json`)

1. `worker-factory.ts:89`: a job without a handler ends in a TypeError in the
   catch block and never reaches the DLQ (test 02-dlq-retry says it does).
2. `worker-factory.ts:135`: a retry within 30 s finds the lock of the attempt
   before it and is completed as "already processed".
3. `dlq-service.ts:63`: a failed replay does not keep the entry.
4. `engine.py:608`: resume may walk past a gate at which the run paused.

## 4. Fairness

- `worker_settles`: weak fairness of each processor (handlers and hooks
  terminate, the event loop runs whoever can move; a crashed slot is idle and
  fetches again, as a restarted process would), of the delivery of a waiting
  job, of BullMQ's backoff timer and of its stalled check for jobs nobody owns.
  No fairness of crashes, stalls of live slots, throwing calls or of the expiry of
  locks and records: the result does not need a lock ever to expire, because a
  refused job is completed.
- `dlq`: weak fairness of an administrator's call once it has begun. Routers are
  not fair; new calls need not come.
- `workflow`: weak fairness of the interpreter, returns from call to call included.
  A command returns or is timed out,
  and at a gate somebody answers or nobody is there and it pauses.

## 5. Proofs

Every theorem holds for all values of the constants that satisfy the named
assumptions next to them; TLC evaluates the same assumptions on every run.

### `IdempotencyProofs`

For any executors and events, and for `LocksOutliveRuns = TRUE` (typing does not
need it): `TypeCorrect`, `Invariance` (`IInv`), `MutualExclusion` (`OneRunner`),
`NeverAgain` (`NoRunOnceRecorded`), `Finality` (`RecordIsFinal`) and `Implements`
(`ImplementsOnceExecution`: every step of the Redis protocol is a step of
`OnceExecution` or stutters).

`OneRunner` is not inductive: nothing in it says why the SET NX of a second
executor fails. `IInv` adds that whoever is between acquiring and releasing the
lock of an event *has* it in Redis (`LockHeld`) and is alone (`OneHolder`), and
that a runner's event has no record. The last part needs both: a record appears
only through a holder's SETEX, and the second EXISTS is read while holding. Run
`idempotency` checks `IInv` on its instance.

The assumption `LocksOutliveRuns` (no run outlasts the 30 s of the lock) is not
something the code enforces: nothing bounds a handler and nothing renews the
lock. It is a parameter of the model so that the dependency is explicit; with
FALSE the mutual exclusion fails at once.

### `EventWorkerProofs`

For any jobs, events, attempts, stalls and mishaps. No bound on how long a run takes
is assumed: locks run out under runs, and records expire.

| Theorem | Property | Needs | Invariant |
|---|---|---|---|
| `TypeCorrect` | `TypeOK` | | `TypeInv`: with `QueueInv` (a job not at rest has attempts left, and its BullMQ lock is with the slot that works on it) and `SlotInv` (a busy slot has a job, and that job's event) |
| `KeepsProtocol` | `ImplementsIdempotency` | | `TypeInv`: each action is matched with one of `Idempotency` or a stutter |
| `DeadMeansFailed` | `DlqMeansFailed` | | `Outcomes` |
| `OneEntry` | `OneDlqEntry` | `FiniteSlots` | `Costs` |
| `DuplicatesPaidFor` | `DuplicationBounded` | `FiniteSlots` | `Costs` |
| `NoSilentFailure` | `FailedMeansRouted` | `MaxAttempts <= QueueAttempts` | `Accounted` |
| `CountersBalance` | `MetricsBalance` | `FiniteSlots` | `MetricsBalance` with `TypeInv` |

`Outcomes` brings the lower layer up: by `KeepsProtocol` the invariant `IInv` of
`Idempotency`, read of the worker's slots, holds as long as no Redis call has
thrown and no lock has run out under its run (`Protected`). On it rest `Verdict`
(the record is the outcome that was saved; one slot takes an event to the
dead-letter queue) and `Effective` (an effect is recorded as completed, or about to
be). `Recorded` (from the SETEX of its outcome on an event has a record) needs only
that no record has expired.

`Costs` has to hold *after* things have gone wrong, when nothing is exclusive any
more: two slots may run one event at once, and the release of one deletes the lock
of the other. It therefore counts instead of excluding. `Paid` says, of every event,
that its effects, together with the slots that may yet add one (`Runners`) and with
one more if a slot that comes now would be granted it (`Gap`: no record, and no
lock or nobody left to give it back), exceed one by no more than the mishaps; and the
same of its DLQ entries with the slots that may yet add one (`Debtors`) and the
mishaps that may cost one (`Charges`: Redis, overruns, expired records). Every step
moves an event from one of these terms to another, or a mishap pays for it: a lock
that runs out opens the gap, a SETEX closes it, a record that expires opens it again.

`DuplicationBounded` and `OneDlqEntry` say that each mishap costs *one*. That is not
plain: a slot whose lock ran out deletes, when it is done, the lock of the slot
that came after it, and so lets in a third. But by then it has written its record,
which refuses the third; the record would have to expire as well, which is a
mishap of its own. `RecordExpires` therefore leaves out that seven days pass while
a slot waits for the reply of a single EXISTS or DEL.

`NoSilentFailure` has the assumption under which it is true of the code:
`retry-config.ts` lets the worker count its attempts itself, and if the queue's
`attempts` were smaller a job would fail for good before the worker routes it.

### `DlqProofs`

For any routers, events, finite sets of failures and of administrators
(`FiniteAssumption`), any cap and any limit of what a replay looks through:
`TypeCorrect`, `PoisonBounded` (`PoisonNeverOvercounts`), `LossIsBounded`
(`LossBounded`), `RepublishedBounded` (`RepublishedOnceEach`).

- The counter: a router's number was true when it was read and pushes only add
  (`Counted`), and a failure is with one router and pushed once (`Routing`).
- Losses: a failure that was pushed is listed, in somebody's hand, or accounted
  for; a publish that throws takes away the first reason for one failure, and the
  clean-up it starts for one more (`LossCounted` counts clean-ups under way). An
  LRANGE, LREM or DEL that throws ends the call, with the one entry it has in hand or
  was taking off.
- Replays: one publication per administrator is what the code gives, not what
  `packages/contracts/spec/dlq-governance.md:293` promises (section 7). Every
  publication uses up an administrator (`UsedUp`), because LREM
  removes only what was found (`Held`) and a failure is listed at most once, after
  its push and before its replay ends (`ListedOnce`, `PushedFirst`).

`ListLemmas` has what these need of lists: removing an element, the first match
of a search, and `SmallestCounterexample`, an induction over finite sets stated
as the existence of a minimal counterexample, which needs no operator parameter.

### `WorkflowEngineProofs`

For every definition, however it is nested and whichever ids it repeats, any
iterations, items and stops: `TypeCorrect`, `NothingRuns`
(`NothingRunsOnceStopped`), `Finality` (`FinalIsFinal`), `Rejection`
(`RejectionAborts`), `Completed` (`CompletedMeansAllDone`), `OneAtATime`
(`OneStepAtATime`), `CurrentItem` (`ItemIsCurrent`). The one assumption about the
shape of a definition, `Tree`, says that a step of the outermost list is written in
one place; it is about steps, not ids.

- `TypeInv` adds to the typing what the stack is (`Frames`: the outermost frame runs
  `Top` without its first `offset` steps, the others a list their step has as a
  body) and where the process is in it (`Position`: a call that has returned left
  its list at a step or at its end).
- `Live`: while steps are executed the run is on record as running; from the step
  that stops it on, memory and record say how, while the calls return one by one.
  `NothingRuns` needs it at every one of these returns: a level that went on
  without a look at the status would begin its next step or round.
- `Rejection` says what happens on the way: of an aborted run each step leaves one
  level, the record says aborted all along, and the last one ends the process. It
  excepts gates with a loosely spelled rejection (section 7), and a process that
  is interrupted or killed meanwhile.
- `Progress` relates the three copies of "how far": the position on the stack, the
  index in memory and the one on disk. The steps before each are settled, memory
  is at most one step behind the stack, and disk agrees with memory up to its
  index. Neither `CompletedMeansAllDone` nor `OneStepAtATime` is inductive without
  it, since both speak of disk, which only copies memory. It speaks of the steps
  whose id no other step has (`Own`): the validator lets a template repeat an id, and
  then the result under it is that of the template.
- `CurrentItem` rests on `Items`. `Current` is the property, of any stack: the item is
  the round of the innermost fan-out on it, or none if there is no fan-out, or, where
  that fan-out has another one inside, none although there is one. `Inside` says that
  what is above a fan-out on the stack runs steps it encloses, so that the fan-out
  that resets the item on its way out *is* inside the one below. It covers nested
  fan-outs: they may lose their item, and never get a wrong one.

### `CatalogsProofs`

For any sources, priorities, config files as users may write them, cache duration
and number of faults: `TypeCorrect` (`TypeOK`, which no run checks),
`NothingStale` (`CacheAge`), `FromTheFirstAllowed` (`AllowedOnly`) and
`EditsAsListed` (`ConfigAsListed`).

- Typing has to follow a file through every edit. Removing the n-th source of a
  list takes that there is one: in a strict total order of n elements every place
  is taken (`ListLemmas.EveryRankTaken`, by counting who is `Ahead`).
- `CacheAge` rests on `Stamped`: in every line of the cache the stamp is not of the
  future and, if both files can be read, what it stands for is at least as new.
  That is what writing the content before the stamp buys, and it survives a write
  cut short at any point; with the opposite order it would not.
- `AllowedOnly` rests on `FirstWins`: who has been heard comes before who is left
  to be asked (or after, for the kinds that let the last answer stand), and the one
  that stands is the first of those heard that have the item.
- `ConfigAsListed` compares two lists that are each picked by rank. There is one way
  to enumerate a finite strict order (`RankedEnumerates`, `OnlyRanked`), so it is
  enough to name an enumeration of the new file. A source that is added has a
  priority above all others (`NextPriorityAbove`) and comes last (`AppendedLast`). A
  removal moves every later entry up by one place (`Moved`), which also changes the
  implied priorities; when the entries without a priority come first (`Settled`) no two
  others change their order by it (`RemovedFrom`, `RemovalsInOrder`). Adding and
  removing keep that premise, so it is one about the file a user wrote
  (`AppendsInOrder`). Files without priorities, with priorities only, and of entries
  without one followed by higher ones satisfy it, and so do files only the commands
  wrote; for workflows and steps the premise is a file in order (section 7).

### `IntegrationProofs`

For any extensions, agents, manifests and names, any number of commands, of
exceptions and of kills.

| Theorem | Property | Invariant |
|---|---|---|
| `TypeCorrect` | `TypeOK` | `TypeInv` |
| `HooksFollow` | `HooksFollowEntry` | `ExtInv` |
| `FilesRecorded` | `FilesAsRecorded` | `ExtInv` |
| `RollbackRestores` | `RolledBack` | `ExtInv` |
| `ConfigSurvives` | `ConfigCarried` | `ExtInv` |
| `DefaultsAgree` | `OneDefault` | `Heading` |
| `EditsKept` | `EditsSurvive` | `Heading` |

A command is data here: the list `todo` of the steps it has yet to do. None of the
properties is inductive, since each speaks of a project between two commands and
every step in between breaks it. So there are two halves to each invariant, what
is true of the list and what is true of the files when its next step is such and
such.

- The list: `ExtPlan` says of an extension command which step may follow which
  (`Follows`) and that it ends with its last one. It takes the place of a program
  counter; a rollback replaces the list by another one of the same kind.
- The files: `Sound` is what holds of every extension no command is working on and
  whose commands were not cut short by a kill or an unguarded exception (`cut`).
  For the extension of the running command there is one conjunct per stage:
  `Installing`, `Entered`, `Hooked`, `Remembered` (what the update holds in memory
  and in the stash is what was there before), `Undoing` (how far the rollback is).
- Command files are shared by name, so what one extension does could disturb
  another's. `Apart` says no two extensions that are installed and not cut short
  have a name in common; `Free` says it of the version being installed, and is what
  `_validate_install_conflicts` establishes.
- `ConfigKept` follows the user's configuration from the directory to the backup
  and back, one step at a time.

For the integration commands that style does not work: their lists are put
together from parts (take the commands of one agent away, set up another, make it
the default, and a handler that goes back), and whether a step may delete a file
depends on what the steps before it did. `Mark` is a record of what matters to the
defaults and the manifests, and `Effect(m, s)` what step m makes of it. `Lead(t, s, z, W)`
says that the list t leads from s to z, through marks in which each step
may be taken (`MayDo`: it spares the user's files unless the command is forced,
and if it fails the handler recovers). `Heading`, the invariant, says that the rest
of the running command leads from the project's present mark to a good one. Lists
are joined by `LeadJoin`, so each command is proved from its parts.
The manifests of a mark are two sets, who has one (`kept`) and whose was deleted by
the stale-file phase of an upgrade (`bare`): a good mark has a manifest for every
installed integration but those, and for no other. An upgrade with stale files thus
leads to a good mark without the manifest it began with, which is what the code does
(section 7), and the later commands are proved from such marks too.

### `BundleProofs`

For any presets, workflows, step types and bundles, any plans, any number of
commands, of exceptions and of kills. `BundleAssumption` says that a value names a
component of one kind only; in the code a component is a kind and an id.

| Theorem | Property | Invariant |
|---|---|---|
| `RecordedAreThere` | `RecordedInstalled` | `IInv` |
| `FailuresLeaveNothing` | `FailureLeavesNothing` | `IInv` |
| `UsersAreKept` | `NoCollateral` | `IInv` |
| `FilesFollow` | `FilesFollowStack` | `Shown /\ Flow`, with `IInv` |

Here too a command is a list of steps, `todo`, with the lists its except blocks go
on with, `handlers`. A bundle's command runs those of its components inside its
own try statement, so the invariant has two layers.

- What the command of one component c may have left to do before the list z and
  inside the except blocks H: `Making(c, z, H)`, `Refreshing`, `Removing`. Each names
  the lists and what is true of c then: `New(c)` until it is registered, usable while
  its files are written, `Gone(c)` when it has been taken away as far as it could
  be. `MakingStep`, `RefreshingStep` and `RemovingStep` say that a step leads to
  another of these, or through with it to z, or by an exception to the first of H;
  and that it changes c and no other component (`Only`).
- What a bundle's command may have left around that: one definition for each place
  in `install_bundle`, `_rollback` and `remove_bundle` (`ToTry`, `Placing`, `Adding`,
  `Renewing`, `ToRecord`, `ToUnwind`, `ToTake`, `Taking`, `ToRaise`; `Dropping`,
  `Freeing`). All along an install, what it has put there is neither the user's nor
  anybody else's (`Installing`, `Ours`), and nothing is installed but what was, what
  it has put there and the component at hand (`Inside`).

`Claims` is what the user and the records are entitled to: what the user has
installed is usable and in no record; what a record lists is usable or has been
broken by the user or a fault. It is inductive only together with the phases: an
install may take away in its unwinding what it has put there because `Ours` says that
nobody claims it. `Safe` is the same of a single step, and gives `NoCollateral`.

`FailureLeavesNothing` is said of an install in whose except blocks nothing has
failed. In an earlier form it said so only of `_rollback`, and that was false with
two faults, which no run has: when the second note of a preset fails, and then
`_unregister_skills` in the except block of `install_from_directory`, the rest of
that block is skipped and the preset stays installed (section 7). `job.unwound`
therefore counts from the first except block on, and `Spoilt` says that something
has failed since.

`FilesFollowStack` says something only between commands; its invariant has to say what
is true in the middle of one. `Shown` is what every step keeps: the files of a
name that is not stale show what its stack resolves to (`Follows`), a registry entry
lists names of its own preset only (`Entries`), and what replaces is never kept as
composed (`Plain`). `Flow` is what the running command has left: lists whose steps leave
the stacks alone or mark what they change (`Free`, `Frees`); or such lists below one
preset that is being put on its stack, taken back or removed (`BeginsPreset`,
`PutsPreset`, `UndoesPreset`, `TakesPreset`), all of whose names are stale all
along; or such lists below the reconciliation of some names (`SettlesNames`). A
reconciliation may clear the mark because each of its names has layers or has no file
(`Backed`) when `_reconcile_composed_commands` begins, and because its command files
are right and what is copied into the skills is the same (`Ready`) when
`_reconcile_skills` does. An install of a bundle is never in the middle of two
presets, so this one layer is enough. That a step on one preset leaves the content of
all other names alone (`OneStack`) needs no induction: `Composition` is a function of
the stack, its priorities and its base, and these are the same.

In an earlier form the history `stale` took up only the names a preset registers,
and the property was false of constants the run did not have: a preset that replaces a
command of an extension that is not there (section 7). Now a preset that comes, goes
or is retuned makes all its names stale, the ones of absent extensions among them,
and the run's plain preset replaces such a command.

### Only model-checked

- Liveness (`JobsSettle`, `CallsEnd`, `RunsEnd`): liveness under fairness and
  ENABLED are beyond the prover used.
- The properties of the four findings do not hold of the code; their runs show how
  they fail.
- `SwitchMovesCommands`. What it says of command files is unconditional. Of skills it
  says that none are left with the old agent unless two agents work in skills mode:
  the registry keeps one list of skills for all agents, and an extension is removed
  from the skills directory of the default one only, so one that is removed after
  the default has moved leaves its skills with the first agent, and a later switch
  does not know of them. The run has one agent in skills mode.
- That command files and skills are sequences of layers (the rest of `PresetStore`'s
  `TypeOK`), which takes an induction over the stack. The presets and their entries
  are typed in `IInv`.

## 6. Not modelled

Parts of the system:

- Worker lifecycle, Redis connection, event validation: they run at boot and
  shutdown, one call at a time. `EventWorker` begins with the workers running and
  a client that connected. The event bus hands one job at a time to BullMQ:
  `EventWorker` and `Dlq` begin with the jobs in the queue. (`publishMany` rejects
  when one of its adds fails while others are queued; a caller that retries
  publishes those twice, which the workers see as duplicate jobs.)
- CRBL schema registry: its maps are replaced as a whole and restored as a whole;
  what a failed reload leaves behind is inside ajv. Guards, pipe and interceptor
  are functions of the request and that registry.
- Auth: single SQL statements over two tables. The failure counter is read, and
  written after an await on the password check, so two failed logins at once may
  count as one; nothing in the repository says what should then hold.
- spec-kit's init, self check and self upgrade: sequences of calls of git, pip and
  uv, whose effect is not in the repository.
- Declarations, the dashboard's static pages, templates, rendering of command
  files, console output.

Inside the modelled parts:

- Handlers: they are a return or a throw. No handler is registered anywhere in the
  repository at this commit, so at present every event takes the unhandled path.
- Backoff times, clocks and TTL lengths of the event runtime: timers fire at any
  moment; `Idempotency` alone lets none run out under a run (`LocksOutliveRuns`). In
  `EventWorker` that the seven days of a record end while a slot waits for one EXISTS
  or DEL. Redis losing acknowledged writes.
- An administrator's crash between two commands of a replay; it loses the entry as
  a command that throws does. A router's command that throws: the failure is not
  routed, or has been.
- Two processes executing one workflow run at once, file-system errors other than
  a kill during save, reuse of a run id through SPECKIT_WORKFLOW_RUN_ID, the
  expression language, validation and input resolution of workflows.
- Two spec-kit processes at once in one project, or on one cache: no command takes
  a lock, and the code makes no claim.
- When a hook's condition holds (HookExecutor), the layers of ConfigManager, what
  the thirty integrations write (one file stands for all), preset templates and
  scripts (they resolve like commands), bundle init, build and validate.

## 7. Observations

What the modelling brought up besides the findings. None of these is a
property; where one limits a property, its comment says so. From the second heading
on paths are relative to `speckit/` unless they begin with `docs/`, which is
`tools/spec-kit/docs/`.

Dead-letter queue:

- `packages/contracts/spec/dlq-governance.md:293` says "Only 1 replay-all per queue at a
  time (Redis lock: dlq:lock:replay:{queueName})". There is no such lock in the code:
  two administrators whose replays overlap may find the same entry before either has
  removed it, and both publish it. `RepublishedOnceEach` states the bound the code does
  give, one publication per administrator, and with two of them a run in which one
  entry is published twice is easily found.
- An LREM or DEL that throws is outside the try of `replay`
  (`api/events/dlq/dlq-router.ts:116`): the entry may be gone and the event not
  published, and a `replayAll` ends with the rest of its snapshot not replayed.

Workflow engine:

- `workflows/steps/gate/__init__.py:197` accepts "Reject" or "ABORT" as the option that
  on_reject: abort (or retry) requires, and line 76 compares the answer with "reject" and "abort"
  exactly: choosing it completes the gate and the run goes on. `RejectionAborts`
  excepts such gates (`Loose`).
- The template of a fan-out is validated with a set of ids of its own
  (`workflows/engine.py:271`), so a step nested in it may repeat an id from outside,
  and overwrites its result. The properties speak of the steps whose id no other step
  has (`Own`).
- A fan-out inside the template of another resets `context.item` when it is done: the
  rest of the outer template, until its next item, has none (`ItemIsCurrent` allows
  it).
- An interrupt after a gate has decided to abort, and before `_execute_steps` has
  returned, overwrites aborted with paused (`workflows/engine.py:539`), so the run may
  be resumed (`FinalIsFinal` and `RejectionAborts` except it).

Extensions:

- The rollback of an update restores neither skills nor what a failure before
  `registry.add` has copied of the new version's files, and takes a stash that was
  cut short for a whole one (`__init__.py`, `extension_update`).
- `remove --keep-config` followed by `add` loses the kept configuration; `add
  --force` clears an earlier one from `.backup`.
- An extension that is disabled while the agent is switched and enabled later has
  no commands for the new agent. Disabling leaves the command files in place
  although the message speaks of commands that are no longer available.
- Command files are deleted by name: when a conflict went unnoticed, because the
  other's manifest is gone, it is the other extension's file. Aliases may shadow
  commands of spec-kit. Reinstalling an extension overwrites what a preset has put
  in place of its command.
- A recorded command file that was gone before an update is not put back by its
  rollback, and if the new version wrote one of that name it stays, when another
  extension's file of the name had been deleted in between (`RolledBack` allows
  it).
- Skills of an extension are left behind with an agent that was the default when
  they were written and is not when the extension is removed; if another agent works
  in skills mode too, a switch away from the first one later leaves them as well
  (`SwitchMovesCommands` excepts it).
- A registry file that was cut short is taken for an empty one.

Integrations:

- `uninstall` leaves the commands of extensions in the agent's directory. After
  `uninstall` and `install` of another agent the shared templates are those of the
  first (docs/reference/integrations.md:114).
- The rollback of `install` tears down by force and may delete a file of the user
  that an uninstall had preserved (docs/reference/integrations.md:66).
- When the new version of an integration has fewer files, `upgrade` deletes the stale ones
  by `uninstall` of a manifest that has the integration's key
  (`integrations/_migrate_commands.py:493`), and that ends with deleting the file of
  that key (`integrations/manifest.py:355`), the manifest saved a moment before. The
  upgrade reports success; from then on `uninstall` takes the integration off the list
  and leaves its files, `switch` away from it refuses, and `upgrade` finds nothing to
  do. `OneDefault` allows it after this phase and nowhere else.
- After an `upgrade` that failed behind the setup, the next one takes the new files
  for the user's. An `integration.json` that was cut short makes every later
  command refuse.

Presets:

- set-priority, enable and disable reconcile nothing, though
  `presets/__init__.py:703` says that command files always reflect the stack.
- An install that is killed after `registry.add` has recorded no commands, so the
  removal of that preset reconciles none.
- When `_unregister_skills` raises in the except block of `install_from_directory`,
  the rest of the block is skipped: the preset stays registered, with its files, and
  an install of a bundle does not unwind it, since it never got it as installed.
- A preset's command for an extension that is not installed is skipped by
  `_register_commands`, and nothing reconciles it, so it has no file although the
  resolver returns the preset's content. Installing the extension writes the
  extension's own.
- In a project with native skills the removal of a preset may delete the skill of
  a command of spec-kit (`_unregister_skills` looks for it in
  `.specify/templates/commands`).

Workflows and bundles:

- A failed `workflow add` deletes the directory of the workflow as it was
  installed before, and the registry still lists it.
- `bundle update` fails for every bundle that owns a preset, extension or step
  type: `_refresh_component` (`bundler/services/installer.py:184`) calls install,
  which refuses what is installed (docs/reference/bundles.md:59 promises a
  refresh). Components that a new version no longer lists are left behind without
  an owner. `remove_bundle` that fails half way leaves its record as it was.

Catalogs:

- `extension add` looks its extension up a second time when it downloads, and does
  not ask again whether that source allows installing (`extensions.py:2541`);
  presets do ask.
- `workflow catalog remove` and `step catalog remove` take the number for the place
  in the file, while `list` shows the sources by priority. A source added to a
  file without priorities may come first. `integration catalog remove` on a file
  that mixes entries with and without priorities may reorder the rest: an implied
  priority is the place in the file, which the removal changes (`Settled` excludes
  such files from `ConfigAsListed`).
- Removing the last extension catalog leaves an empty list, which the loader
  refuses although the command announces the defaults (`__init__.py:935`,
  `catalogs.py:112`). A workflow, step or preset configuration that was cut short
  falls back to the defaults silently.
- A source that times out or sends invalid UTF-8 while it is read stops an
  extension or integration lookup with a traceback instead of being skipped.
- `fetch_catalog` and `clear_cache` of the extension catalog are called nowhere.

## 8. Where to go on

- The worker lifecycle with the event bus and a Redis client that is null from the
  start: what is published is processed while the orchestrator reports running, or
  health says otherwise.
- The auth tables under concurrent requests, once the repository says what the
  failure counter promises.
