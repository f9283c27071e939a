# OmniCrawler in TLA+

OmniCrawler crawls sites, extracts records and exports them. What makes it hard
to get right is not the extraction but the bookkeeping around it: a SQLite
request queue worked off by threads, runs that are paused, stopped, interrupted,
killed and resumed, errors that must reach the final status, work queues with
leases shared by several processes, and files that a restore, an update or a
repair must change together or not at all. This project models that bookkeeping.

All paths below are relative to `src/src/omnicrawler/`.

## 1. Inventory

| Component | State it keeps | Operations | Talks to | Model |
|---|---|---|---|---|
| Crawl run loop (`pipeline/_run.py`, `core.py`, `_fetch.py`, `_extract.py`, `_exports.py`) | `inflight`, `processed`, `attempted`, `frontier_exhausted`, `status` | `run`, `consume`, `drain`, `safe_drain`, `_stage_exports` | every component below | `CrawlRun` |
| Request queue (`state/state_store_queue.py`) | table `frontier` | `prepare_cycle`, `enqueue`, `claim`, `mark_done`, `mark_failed`, `mark_redirect_target_done`, `retry_failed` | called by the loop, discovery, recovery | `Frontier` |
| Run store and status machine (`state/state_store_runs.py`, `core/run_state.py`) | tables `runs`, `errors`, `stage_checkpoints` | `start_run`, `transition_run`, `finish_run`, `recover_incomplete_runs`, `save_checkpoint` | loop, recovery, front ends | `RunState`, `CrawlRun` |
| Run control (`runtime/run_control.py`) | file `run_control.json` | `pause`, `resume`, `request_stop`, `reset`, `wait_if_paused` | operator processes write, loop and broker read | `CrawlRun`, `EgressBroker` |
| Egress broker (`security/egress.py`) | switches, cached stop flag, slots, budgets, circuits | `request`, `authorize`, `record_*`, `disconnect_task` | fetch threads, loop, control file | `EgressBroker` |
| Admission (`runtime/live_concurrency.py`) | width per machine and per scope | `observe`, `domain_limit` | loop | as a nondeterministic width in `CrawlRun` |
| Recovery center (`runtime/recovery.py`) | none | `continue_incomplete`, selective retries | run store, queue, run control | `CrawlRun`, `ExportCommit` |
| Local task queue and workers (`runtime/redis_worker.py`) | tables `tasks`, `dead_letter`, `workers` | `submit`, `pop`, `ack`, `nack`, `consume_loop` | worker processes | `TaskLease` |
| Schedule store (`runtime/scheduler.py`) | table `schedules` with `lease_until` | `claim_due`, `finish`, `defer`, `set_enabled`, `run_due` | system triggers, the pipeline | `ScheduleLease` |
| Change monitor (`scheduling/change_detector.py`, `monitor_store.py`) | baselines, event queue | `check_rule`, compare-and-swap of the baseline | GUI and CLI detectors | `MonitorBaseline` |
| Notification delivery (`scheduling/monitor_store.py`, `webhook.py`) | `target_deliveries` rows with tokens | `claim`, `acknowledge`, `fail`, revocation | the receiver | `Delivery` |
| Exports (`pipeline/_exports.py`, `export_receipts.py`, `state_store_runs.py`) | `export_commits`, receipts, output directory | staged export, `begin/finish/fail_export`, reuse | loop, recovery, editors of records | `ExportCommit` |
| Workspace restore (`services/workspace.py`, `core/database_lease.py`, `core/file_lock.py`) | snapshots, `.restore.pending.json`, locks | `health`, `snapshot`, `rollback`, recovery | every store that is opened | `WorkspaceRestore` |
| Self-update (`commands/self_update.py`, `services/updater.py`) | program files, asides, `pending-cleanup.json` | plan, replace, rollback, finish, cleanup | the user | `Updater` |
| Component registry (`services/component_registry.py`, `component_manager.py`) | `installed.json`, rollback entries, journal | import, uninstall, rollback, leased runtime | OCR tasks | `ComponentRegistry` |
| Evidence repair (`services/repair_workflow.py`, `quality/observation_store.py`) | configuration, `.repair-active.json`, observations | apply, observe, promote, rollback | the owner, who edits | `RepairLoop` |
| Browser pool (`fetching/browser_pool.py`) | a queue per worker, contexts | `fetch`, `close` | fetch threads | `BrowserPool` |
| Domain semaphores (`fetching/domain_semaphore.py`) | semaphores per domain, cache | `acquire` | tasks of one event loop | `DomainConcurrency` |
| Folder watcher (`convertx/watch.py`) | signatures of sources and outputs | `scan_once` | programs that write files | `FolderWatch` |
| Plugins (`plugins/`) | registry, quotas, broker processes | hooks, `PluginQuota` | loop hooks | what a raising hook does, in `CrawlRun` |
| Other fetching, sources, extraction, documents, quality, planning, GUI, CLI | sessions, caches, configuration | I/O and pure transformation | loop | none (section 5) |

Behaviour that is hard, and what correctness means there:

- **Threads and one writer.** Executor threads fetch, only the main thread
  settles. Claims in the table, futures and the write in progress must agree at
  every moment.
- **Several transactions per page.** Data, redirect alias, row and checkpoint
  commit one by one. A kill may fall between any two; the next run must neither
  lose a page nor believe in one it never got.
- **Three exit paths and their interrupts.** Normal end, exception and Ctrl-C each
  drain with a timeout, then commit a status, then drain once more. `consume()` has
  popped a request before it waits for its result, so that an interrupt can hit a
  request no drain will see again.
- **Decisions on stale information.** Exhaustion is decided while requests are in
  flight; who cut the network is looked up after the refusal; the stop flag is
  cached; a baseline, a digest, a file's signature is read before the work and
  used after it.
- **Verdicts.** Isolated failures must show in the status, with an error row an
  operator can find.
- **Leases.** Nothing renews them; holders that are late meet their successors.
- **Several files that must change together.** Restore, component registry,
  repair and update each write two to many files and may be killed between any
  two; the next command, of another process, has to make sense of what it finds.
- **Shared limits.** Slots, budgets, circuit, semaphores and browsers are shared
  by requests that end in many ways, and every way must give back what it took.

`PROJECT.json` lists each of these as a hazard at its line.

## 2. Modules

| Module | Models | State and actions |
|---|---|---|
| `Frontier` | `QueueMixin` | one operator per method: it takes the table and returns what its transaction commits |
| `RunState` | `core/run_state.py` | the transition relation |
| `CrawlRun` | `Pipeline.run` with threads, operator, recovery and faults | see below |
| `RequestLedger` | what a crawl promises about requests | abstract specification |
| `MCCrawlRun` | topologies for TLC | definitions for the configurations |
| `TaskLease` | `_LocalQueue` and `consume_loop` | one action per transaction; nack is three |
| `CrawlTypeProofs` | lemmas on the queue operators, theorem about `CrawlRun` | `TypeCorrect` |
| `CrawlStatusProofs` | theorems about data and runs | `FinishedHasData`, `VerdictIsAccepted`, `ExitsLeaveTerminalRuns`, `VerdictsAreHonest` |
| `CrawlClaimProofs` | theorems about claims and rows | `ClaimsAreExclusive`, `NoClaimIsLost`, `LastDrainReleasesAll`, `BudgetsAreKept`, `FailuresAreRecorded`, `AttemptsAreBounded`, `DeliveredPagesStay`, `CrawlKeepsLedger` |
| `TaskLeaseProofs` | theorems about `TaskLease` | `LeaseTypes`, `LeaseIsExclusive`, `TasksLeaveATrace` |
| `RestoreContract` | what snapshots and rollbacks promise | abstract specification: edits, snapshots, whole rollbacks, edits while one is pending |
| `WorkspaceRestore` | `WorkspaceManager` over the database lease | one action per file write and lock operation |
| `RegistryContract` | what the component registry promises | abstract specification: whole commands |
| `ComponentRegistry` | the journalled registry | one action per file of the journal's replay |
| `Updater` | `self-update apply` and `cleanup` | one action per rename and copy |
| `EgressBroker` | one host's requests and the control file | one action per locked section or file access |
| `RepairLoop` | apply, observe, rollback of a repair | one action per write of file, record or row |
| `ExportCommit` | the exports of a run | one action per transaction or write |
| `MonitorBaseline` | checks of a page by several detectors | fetch, save, conflict |
| `Delivery` | the webhook outbox and its senders | one action per transaction or request |
| `ScheduleLease` | schedules, leases, `run_due` | one action per transaction |
| `DomainConcurrency` | the two semaphores and the cache | a step up to the next blocking await |
| `BrowserPool` | callers, `close` and worker threads | one action per queue or page operation |
| `FolderWatch` | `scan_once` and the writers | one action per look at a file |
| `MCGuards`, `MCQueues`, `MCServices` | compositions for TLC, with their fairness | `focus` picks the component |
| `RestoreProofs`, `RegistryProofs` | theorems about the two restores | section 4 |
| `GuardProofs` | theorems about broker, exports, repair and update | `EgressLimitsAreKept`, `StopIsAlwaysSeen`, `CommitsStaySettled`, `DeliveryStaysCurrent`, `RepairStaysTracked`, `EditsAreKept`, `UpdatesAreSafe` |
| `SchedulingProofs` | theorems about monitor, outbox, schedules, semaphores and watcher | `MonitorIsSound`, `DeliveriesAreHonest`, `SchedulesAreShared`, `LimitsAreHeld`, `ConversionsAdvance` |

`CrawlRun` reads as follows. `rows`, `runs`, `errors`, `checkpoints` and `stored`
are the database; `ctl` is `run_control.json`; the rest is the process and
disappears with it (`ForgetProcess`). `pc` is where the main thread is and `mode`
which drain it is in: `loop` (none), `drain` (stop, cancel or resource limit),
`abort` (`except Exception`), `interrupt` (`except KeyboardInterrupt`), `final`
(`finally`). `fetch[u]` is the future of `u`. The path of one page is

    ClaimBatch -> Submit -> FetchStart -> FetchEnd -> Consume
      -> HandleDelivered -> Alias -> Mark -> Checkpoint          (delivered)
      -> HandleFailed | HandleRefused -> Settle                  (failed, blocked)
      -> HandleReleased                                          (handed back)
    ClaimBatch -> Submit -> FetchStart -> Await -> ResultArrives -> (as above)
    any write of a delivered page -> StoreFails | CallbackRaises -> Settle

Each arrow that changes the table is one SQLite transaction of the code.
`MainThread`, `Fetches`, `Failures` and `Operator` group the actions by who
causes them. Faults happen only if the instance lists them in `Events` and while
`faults < MaxFaults`.

- `Await` is a drain that hands `consume()` a future which still runs: it is popped
  first (`_run.py:219`) and waited for afterwards (230). An interrupt there, or
  anywhere before the row is written, takes the request out of everybody's hands.
- `StoreFails` and `CallbackRaises` come with the class of the exception (`Thrown`):
  `describe_error` calls timeouts and connection errors retryable, so that the handler
  puts even a finished row back to `pending`; a `PermissionError` counts as a
  refusal; everything else is permanent. The first of the handler's two transactions
  is part of the step (`ThrownUnder`), the second is `Settle`. Callbacks that raise
  `CancelledError` or `ExtractionError` are left out.
- `ProceedMisread`, `FetchMisread` and `RefusedMisread` are reads of
  `run_control.json` that fail: each counts as "neither paused nor stopped".
- `dropped` is a ghost: the requests whose claim was lost at such a moment, namely
  popped and interrupted, held by a handler that fails itself, in a batch not yet
  submitted, or left behind by the last drain. `broken` is a ghost as well: the runs
  that were killed or whose status the code itself gives up. Dropped requests stay in
  progress until the next run's `prepare_cycle`.

Abstractions: claim order is left out (any admissible batch may be claimed);
admission may have any width up to its ceilings at any time; a fetch ends in one
of the outcome classes of the handlers in `consume()`; extraction, PDF and export
stages succeed or raise; an operator's update of the control file is one step.

`TaskLease` numbers worker lives, not worker processes: a restarted process is a
new life and each `pop` has a fresh token, so a worker name stands for its token.
The clock is the set `lapsed` of workers whose `visible_at` has passed.

The other modules, each with the correspondence a reader needs:

- `WorkspaceRestore`. `gate` is `.maintenance.lock`, `leases` the file locks of
  `.leases/`, `journal` the snapshot `.restore.pending.json` names. `at[p]` walks
  through `database_lease` (`openGate`, `connect`, `open`), `initialize` (`check`),
  `database_maintenance` (`waitGate`, `scan`), `rollback` (`nested`, `copyConfig`,
  `copyDb`, `journal`) and `_apply_staged` (`applyDb`, `applyConfig`, `unlink`).
  `job[p].phase` tells a recovery, the rollback itself and its compensation apart.
  A plain `snapshot` takes neither gate nor lease, as in the code: its pair may mix
  two moments, so the contract's `Take` allows any earlier versions. Nothing locks
  `config.yaml`: `EditConfig` may happen at every step. What is written while a
  rollback is pending is not promised to last, and the contract says so: `pending`
  begins with the journal and ends with its removal, and the last edit that came after
  the rollback's own write of the configuration is what it leaves (`late`, which
  `Late` computes); whoever takes up an interrupted rollback writes it over.
- `Updater`. A path's content is a release number; an aside carries the run that
  renamed it. `CleanUp` and `Finish` choose freely which files are in use. The plan
  is made before the clean-up, as in the code. A crash records nothing. `FinishFails`
  is a list of left-overs that cannot be written, outside the `try` of the replacement
  (outcome `unfinished`); `ListWriteFails` says what the list then holds: the old
  entries, all of them, or none when the file was cut.
- `ComponentRegistry`. `pending` is the journal; `recover_document` is `ReplayUndo`,
  `ReplayInstalled`, `ReplayEnds`, run by the command that wrote it or the next one.
- `EgressBroker`. `Stat` and `ReadControl` are the two halves of
  `_control_stopped`; in `enter*` they run under the broker's lock (`lock`), in
  `auth*` without it. `StatFails` and `ReadFails` answer "not stopped", the second with
  the file's time in the cache; the ghost `misread` marks such an answer until the
  file is read again. `BeginUpdate` and `EndUpdate` are the read and the write of
  `RunControl.update`. A write within one tick of the file's clock keeps the stamp.
- `RepairLoop`. `record` is `.repair-active.json`, `row` and `used` the observation
  store. `Edit` may fall between any two steps of a command and sets `raced`.
- `ExportCommit`. `input` is a version of everything `export_input_digest` reads;
  `StartTask` covers a crawl, a reprocessing and a repeated export. The recovery
  center (`RecoverRuns`) and editors act at any step, since neither takes the
  session lease. `ExporterRaises` is an exception, which fails the commit;
  `ExportInterrupted` is Ctrl-C, which the handler does not catch: a crawl still
  finishes its run and the commit stays `running`.
- `MonitorBaseline`. `upToDate` holds the detectors whose memory equals the stored
  row: the compare-and-swap compares a time of check no other row has.
- `Delivery`. The attempt count stands for `lease_token`: every claim renews both.
  A sender's `batch` is the list read once per dispatch.
- `ScheduleLease`. `line` is the order of `next_run_at`; `Outlasts` lets a lease run
  out under its holder; `Finish` clears the lease whoever has it, as in the code.
- `DomainConcurrency`, `BrowserPool`, `FolderWatch` follow one function each:
  `acquire` with `_get_or_create_sem` and `_evict_idle_locked`; `_worker` and
  `_handle_task` with `fetch` and `close`; `scan_once`. A full cache of semaphores
  drops the oldest idle ones, up to a quarter of its size and at least one
  (`EvictTarget`); `MaxCached` is any number from 2, to which the constructor raises
  smaller ones. A scan comes to all files or, when there are more than `MaxFiles`, to
  any `MaxFiles` of them. `onConflict` is fixed for a watcher: `rename` always
  converts, `skip` may find the output there and record the source without a
  conversion (`SkipFile`). A task that is handed a global slot counts as inside at
  once, which makes the limits count it early.

Ghost variables hold no state of the code: `dropped` and `broken` (CrawlRun),
`misread` (EgressBroker), `blemished` (Delivery), `disturbed`
(ScheduleLease), `tripped` (EgressBroker), `raced` (RepairLoop), `repeats` and
`stranded` (ExportCommit), `before` and `outcome` (Updater), `received`, `submitted`,
`done`. They record what happened, and no guard of an action of the code reads
them.

## 3. Runs

| Run | Instance | Shows |
|---|---|---|
| `CrawlFaults` | 2 requests, 1 run, 2 faults of 7 kinds, pause, stop, cancel | claims have one owner and only interrupts and failing handlers lose one, failures are recorded, verdicts are honest, every exit path finishes the run, a delivered page is reopened only under its own settlement |
| `CrawlRestart` | 2 requests, 2 runs, 1 fault (kill, interrupt, store, callback, late error, bad limits), recovery | finished requests have data, attempts are bounded, refinement of `RequestLedger` |
| `CrawlLive` | 3 requests on 2 hosts, one slot per host, pause, resume, stop | budgets, stop halts, termination |
| `Guards` | 2 processes and 2 snapshots; 3 releases of 3 files; 3 fetchers and 2 operators; 2 managers and 4 packages; 4 pieces of evidence; 2 runs with 2 exporters; 1 or 2 faults each | restore and registry implement their contracts; update, repair, export and broker keep their promises whatever is killed where |
| `Queues` | 2 tasks, 3 worker lives, 2 faults; 2 detectors, 3 page changes; 2 events, 2 senders; 1 fault each | tasks are not lost, leases are exclusive, tasks are resolved; the events are one history; deliveries are honest; the last content is seen and every event settled |
| `Services` | 3 schedules, 2 triggers; 3 tasks, 3 domains; 3 pages, 2 workers; 2 files; 1 or 2 faults each | leases, semaphores, browsers and the watcher neither share what they must not nor forget anybody |
| six violation runs | the smallest instance that fails | section 6 |

`Guards`, `Queues` and `Services` are compositions of components that share
no variable. An interleaving of two such components shows each of them only its
own steps and stutters, and every property below mentions the variables of one
component, so nothing is lost when a behaviour moves one of them: `focus` names
it, and the initial states cover them all. The sum of the state spaces is
explored instead of their product.

Why these bounds are enough to be interesting. Two requests with a redirect from
one to the other give every status of a redirect target, a link that is found
while its target is in flight, a drain that settles one request while the other
still runs, and a batch that is larger than one. Two faults let an exit path fail
inside another. Two runs give a replay of every half-finished settlement, also
with `ResetOnRun` and cursor pages. Three requests on two hosts are the least for
an admission gap (work is pending, slots of its host are taken) with a page limit
of two. Three worker lives survive two faults and still leave one to finish.

In the three compositions: two processes are the least for a recovery by another
one, and two faults let a recovery, or a compensation, be interrupted itself. Three
releases, the second without a file the third ships again, give dropped, kept and
returning files. Two slots and three fetchers make slots scarce; a circuit that
opens at two failures can be half open with two requests under way; two operators
can overwrite each other's stop. Two engines and two language packages give a
dependency, an alternative and a conflict. Two good and two bad pieces of evidence
reach promotion and a directed rollback. Two runs that export to one directory give
a reuse after a foreign overwrite. Three schedules with a limit of two give a queue,
with one toggle, death or outlasted lease; three domains with a cache of two give
evictions, of one entry at a time; larger caches, which evict up to a quarter, are
covered by the theorem. Two workers and three pages give a page behind a page that
fails. `MaxProcessed` = 12 is never reached: the trimming of the watcher's table
(section 5) is outside this instance, and so is a scan that ends at `MaxFiles` = 2;
the theorem covers the second for any number.

Constants commented as "bound" (`MaxFaults`, `MaxRuns`, `MaxTasks`, `MaxVersion`,
`MaxSnapshots`, `MaxControlWrites`, `MaxInput` and so on) are the only ones the
models add. The other numbers are configuration of the program. Deadlock is not
checked because behaviours end: all runs used up, all tasks resolved, all bounded
events spent.

`HonestVerdict` is checked without late errors in `Events`: that case is the
violation run `CrawlLateError`. `FailureIsRecorded` speaks of runs that are not
`broken`, `ClaimsHaveOwner` and `NoOrphanAtExit` of requests that are not `dropped`
(what an interrupt drops is `CrawlInterruptOrphan`), and `LoopExitIsTerminal` of
processes past their setup (an interrupted setup is `CrawlSetupInterrupt`).

Fairness. The main thread never blocks for ever (waits have timeouts), so
`MainThread` is weakly fair; the executor starts queued futures and the HTTP
client has timeouts, so `FetchStart` and the end of each fetch are weakly fair.
Operators, kills, errors and interrupts are not fair: `Termination` therefore
excuses a run that is kept paused, and `StopHalts` a stop that is withdrawn. In
`TaskLease` live workers poll (`consume_loop` without `max_tasks`), executors
return or raise, and time passes for dead workers. `TaskResolved` rests on
`MaxFaults`: if every execution outlasted its lease no task would be resolved.

In the compositions, fairness is stated per component and only while `focus` is on
it. Detectors keep checking (a timer in the GUI, cron on the command line). The
end of each crawl and the monitor page dispatch again and again; requests return,
for the HTTP client has timeouts; retry times and leases pass. Triggers call
`run_due` again and again and crawls end. An event loop runs ready tasks and a
request inside a semaphore ends. A browser thread runs, a page ends by its own
timeouts, and `close` runs to its end once it began; that somebody closes the pool
is not assumed. The watcher polls, writers stop (`MaxFileVersion`), retry windows
end. Faults, toggles, edits, cancellations and kills are never fair.

## 4. Proofs

Every safety property a run checks is a theorem, for every value of the constants
that meets the named assumptions (`RequestsFinite`, `MaxAttemptsNat`, `TopologyOK`,
`BoundsOK`, `WatchConstants`, ...). TLC evaluates the assumptions on every run. Two
theorems have a hypothesis of their own, which is named with them below.

The crawl (`CrawlTypeProofs`, `CrawlStatusProofs`, `CrawlClaimProofs`):

- `TypeCorrect`: `Spec => []TypeOK`. `TypeOK` is inductive because it includes
  `ControlOK`, which says where the process holds a run, a request and futures:
  without it `runs'[run]` or `rows'[current]` need not be typed. The step proof is
  split into four lemmas (setup, loop, consume, exit), one step per action.
- `ClaimsAreExclusive`: `Spec => []HolderOwnsClaim`. `HolderOwnsClaim` is inductive
  relative to `TypeOK`, which its proof uses. The argument: a claim takes pending rows
  only (`ClaimIsPrivate`); between claim and settlement nothing writes the row of a
  held request, since discovery inserts absent rows only, a redirect alias leaves
  rows in progress alone, and a settlement changes one row (`SettlesOneRow`);
  `prepare_cycle`, seeding and recovery run while no future exists.
- `FinishedHasData`: `Spec => []DoneIsStored`. Not inductive alone: the alias and the
  mark transaction finish rows on the strength of an earlier commit. The
  strengthening `WritesAreStored` says that between `_handle_result` and these two
  writes both addresses are in the database; every other operator of the queue
  finishes no row (`OnlyDeliveryFinishes`), and nothing deletes from `stored`.
- `VerdictIsAccepted`: `Spec => []FinishIsLegal`. The strengthening is `RunIsOpen`
  (until `finish_run` the row of the run is running, or it is paused while the loop
  polls or after it has seen the stop) with `LoopIsUndrained` (a drain never
  returns into the loop). A paused run can only be finished as cancelled, which the
  status machine allows; a running one as anything terminal.
- `ExitsLeaveTerminalRuns`: `Spec => LoopExitIsTerminal`, an action property. It needs
  `ExitInv`: a live process has a run that is open or finished (`RunIsKnown`); abort
  and interrupt carry a verdict of their own (`ExitVerdict`), without which the
  `finish_run` of an exit path could write the success the loop had computed; and the
  last drain begins after a `finish_run` that succeeded, or the run is `broken`
  (`EndIsTerminal`).
- `VerdictsAreHonest`: `"late" \notin Events => (Spec => []HonestVerdict)`. The
  hypothesis is the one `CrawlFaults` checks under; without it the statement is false
  (`CrawlLateError`, section 6). `HonestVerdict` compares rows of `runs` with rows of
  `errors` and `checkpoints`, while the code decides on counters in memory. So
  `HonestInv` adds: errors belong to runs there have been (`ErrorsArePast`); `processed`
  and `attempted` count what was written (`CountsAgree`); each way out of the loop has
  recorded what it fails for (`ModesAgree`); the status computed at the end of the loop
  is computed with nothing in flight (`LoopAgrees`); and a run that has succeeded writes
  nothing more (`SuccessIsLast`).
- `NoClaimIsLost` and `LastDrainReleasesAll`: `Spec => []ClaimsHaveOwner` and
  `Spec => []NoOrphanAtExit`, from `OwnerInv`. A claim in the table has a future, a
  place in a claimed batch, or `consume()` waiting for it or at work on it, or it was
  given up (`dropped`): by an interrupt or a handler that fails while `consume()` holds
  it, an interrupt or an error between claim and submission, or a last drain broken off.
  That is kept because `prepare_cycle` runs before any claim (`SetupReleases`),
  `consume()` lets go of a request only after its row was written (`WriteReleases`), and
  the last drain leaves no other future (`ExitIsDrained`). So the exit itself strands
  nothing; that such an interrupt does is finding 6.
- `BudgetsAreKept`: `Spec => []BudgetsHold`, inductive relative to `TypeOK` and
  `HolderOwnsClaim`. It bounds what was counted together with the cardinality of what
  is in flight, claimed and still to be delivered by `consume()` (`Deliverable`); a page
  that leaves one of the sets must leave it before it is counted. The proof refuted an
  earlier `BudgetsHold`, which counted a page twice that was delivered before its
  callback raised.
- `FailuresAreRecorded`: `Spec => []FailureIsRecorded`. Only two writes of `consume()`
  lose a row (`OnlySettlementLoses`), in either order with the error row.
- `AttemptsAreBounded`: `Spec => []AttemptsBound`. Bounding the rows is not inductive:
  the mark must find an attempt left. `AttemptsInv` says that every queued row, and the
  row being written, has one (`QueuedHasTry`, `WriteHasTry`), and that a new run
  finds one attempt more (`SetupLeavesTry`) whatever reset or forced seeding does.
- `DeliveredPagesStay`: `Spec => DeliveredStaysDone`, an action property. A row that is
  done is written by `consume()` of the same request only, when an exception follows its
  mark; such a step leaves an error row or, for a refusal, is about to. All other writers
  of the table leave done rows alone (`OnlyTheseWriteRows`, `OthersStayDone`).
- `CrawlKeepsLedger`: `Spec => ImplementsLedger`, the refinement of `RequestLedger`.
  The ledger's state of a request is a function of its row (`LedgerOf`), but for the
  one `consume()` holds: that is taken until it is put down (`StateOf`), because a
  callback or a store that raises after the mark may reopen the finished row. So the
  ledger does not promise that a row once done stays done within a run, and the code does
  not keep that; it promises that nobody else reopens it, and that each taking of a
  request ends once, by its own `consume()` or with the process. Each action is shown
  to be a ledger step or to leave it alone, with the theorems above and `SettlesOnce`: a
  settlement finds a row that is claimed or settled, never one back in the queue.

The local task queue (`TaskLeaseProofs`):

- `LeaseTypes` and `LeaseIsExclusive`: `Spec => []OneLiveLease`. `OneLiveLease` is
  not inductive: that a pop cannot give away a valid lease follows from the table
  row it reads. The strengthening is `LeaseInTable` (the lease of a worker that has
  time is the one in the table, unless the row is gone), and a task that is gone is
  never leased again.
- `TasksLeaveATrace`: `Spec => []TaskNeverLost`, with `TraceBeforeRemoval`: a worker
  that is about to acknowledge has seen its executor return, and one about to remove
  a row has committed the dead letter, even when its lease was meanwhile given away.

Restore and registry (`RestoreProofs`, `RegistryProofs`):

- `RestoreIsAlone`: `RestoreSpec => []NoStoreDuringRestore`, and
  `RestoreKeepsContract`: `RestoreSpec => ImplementsRestoreContract`, for any number
  of processes, snapshots, crashes and nested recoveries. The inductive invariant
  `RestoreInv` has three parts. `LocksInv`: who is at a gated place holds the gate,
  and who scanned the leases and found none is alone with the files until it
  leaves. `JobInv`: what a command at each place knows. `FilesInv`: the journal
  names the snapshot that was taken before it, nothing changes the files between
  that snapshot and the journal, and after each write of `_apply_staged` the file is
  the snapshot's, unless the owner has edited it since. The refinement maps the pair
  to the journal's snapshot while a journal exists, so that writing it and removing it
  are the only steps that change it; `Late` maps what the owner wrote after the
  rollback did. One process at most is about to remove the journal (`OneUnlinks`,
  `UnlinkHasJournal`), and without one nothing is late (`NoLate`).
  One lemma per action; `OthersKeep` is the frame: a process at rest keeps its part
  whatever another one does.
- `RegistrySound`: `RegistrySpec => []RegistryIsSound`, and `RegistryPromiseKept`:
  `RegistrySpec => ImplementsRegistryContract`, for any managers, packages and
  requirements. `LockInv` says who is past `idle` holds the lock; `JournalInv` that a
  replay reaches the registry and the entries its journal stands for, so each of its
  writes is a stutter of the contract and may be repeated after a crash; `FilesInv`
  that every set of components a journal can hold is compatible and has its files.
  `UninstallKeepsCompatible` is the one fact about requirements it needs.

Broker, exports, repair and update (`GuardProofs`):

- `EgressLimitsAreKept` and `StopIsAlwaysSeen`, from `EgressInv`. `EgressLimitsHold`
  counts slots without saying whose they are; `SlotsInv` says the counter is the number
  of threads at the places that hold one. `CacheInv` says that no reading of the
  control file is newer than the file, and that a cache with the file's stamp has its
  content, unless two writes fell into one tick of the clock (`coarseWrites`) or the
  last answer came from a stat or a read that failed (`misread`).
- `CommitsStaySettled` and `DeliveryStaysCurrent`, from `ExportInv`: a receipt names the
  files of its run (`ReceiptInv`), a digest is no newer than the input and the output is
  of the digest or of a later change (`DigestInv`), a commit that is `running` has a job
  or a run that goes on, unless its exporter was killed or interrupted on a finished run
  (`RunningInv`), and at most one submission to the plugin is not
  yet recorded (`SubmitInv`).
- `RepairStaysTracked` and `EditsAreKept`, from `RepairInv`: `RecordInv` (the snapshot in
  the record lacks the rule, its digest is of the snapshot with it), `FileInv` (a rule
  in the file has its record) and `PlaceInv` (what a command knows at each of its
  writes). Both promises are about idle states, and a kill makes any place idle.
- `UpdatesAreSafe`, from `UpdateInv`: while files are replaced or put back, each is the
  old one or the old one is aside (`SwapInv`); every file the release wants is still to
  do or done, although the plan was made before the clean-up (`WorkInv`), so that also an
  update whose end fails has all its files; and the list
  of left-overs never names an aside that is still needed (`ListInv`, `DroppedInv`).

Monitor, outbox, schedules, semaphores, watcher (`SchedulingProofs`):

- `MonitorIsSound`, from `MonitorInv`: the compare-and-swap tells a detector that its
  memory is the stored row (`Known`), so that each event begins where the last ended.
- `DeliveriesAreHonest`, from `DeliveryInv`: an event that met no crash, lost answer or
  overlong send is in the hands of one sender (`OneSender`), whose token is the row's and
  whose lease lives (`SenderHolds`), and once accepted nobody may claim it again
  (`AcceptedOnce`).
- `SchedulesAreShared`, from `ScheduleInv`: a claim on an undisturbed schedule has a live
  lease, and no other trigger has one (`LeaseHeld`).
- `LimitsAreHeld`, from `DomainInv`: no slot is lost or made (`SlotsCounted`,
  `GlobalCounted`), `references` counts the tasks inside `acquire` (`CallersCounted`),
  who stands in a queue waits there and stands there once, and a domain in use keeps its
  semaphore (`SemaphoresKnown`). The last is what eviction could break, however many
  entries it drops.
- `ConversionsAdvance`: `2 * MaxFileVersion <= MaxProcessed => (WatchSpec =>
  []ConvertedTwiceOnlyWhenWritten)`. The hypothesis says that the table has room for a
  source and an output of every version written, which is 5,000 versions for the
  code's limit of 10,000; beyond it the property is false (section 5). The proof first
  shows that nothing is trimmed: the table names a version at most twice (`Distinct`,
  and every version belongs to one file, `VersionsHaveFiles`), so it is at most that
  long (`TableIsShort`, an injection into `1 .. 2n`). The property itself spans three
  conversions. `HistoryOf` says what separates them: between two looks the conversion
  before the last is older than the file, or the file is in the table; a skipped file is
  entered without a conversion, which only makes the next one rarer; from a look on it
  is older than the signature taken, and the last conversion is not newer than it.

Each temporal step is `PTL` over the initial condition and the step lemma. The step
lemmas are split by action, and in `CrawlRun` by the part of the run first. A frame
lemma next to each invariant (`WatchFrame`, `OthersKeep` and their like) deals with the
actions that leave its variables alone.

Model-checked only: liveness, which under fairness is out of the prover's reach
(`StopHalts`, `Termination`, `TaskResolved`, `LastContentIsSeen`, `EventIsSettled`,
`DueScheduleRuns`, `AcquireIsServed`, `AcceptedIsAnswered`, `LastVersionIsConverted`).
The compositions for TLC (`MCGuards`, `MCQueues`, `MCServices`) and the
violation runs have no theorems.

## 5. Not modelled

Left out after reading them:

- Fetching protocols, extraction, document conversion, quality reports, GUI, CLI,
  template compilation and release tools, by far the most of the code: they
  transform data or do I/O without shared state that a property could tell apart.
- `_run_stream`: one thread without queue, claims or drains. Every exit path but a
  raising hook writes one status, as in `CrawlRun` with nothing in flight.
- The Redis backend of the task queue, which pops destructively and promises no
  more; `worker_main.py` and `execution_backend.py`, one subprocess under a time limit.
- `KeepaliveSessionPool` and `AuditChain`: the program does not use them yet.
  `mirror_registry` orders mirrors by health and keeps no promise between calls.
- `transactional_upgrade` is `snapshot`, an operation of its caller and `rollback`.
- `stage_resumable`, offline packages and the `versions/` layout of an update.
- The branch of the monitor for a condition that is not met
  (`change_detector.py:553-557`): the model is the condition `changed`. The policies
  `overwrite` and `error` of the folder watcher.
- Plugin quotas, alias names of runs, run events, cooldowns, desktop notifications.

SQLite is assumed to commit a transaction entirely or not at all, a rename to
replace a file in one step, file locks to vanish with their process, and the session
lease (`fetching/session_lease.py`) to keep a second pipeline off the workspace.

What the models show the code does, where no document says otherwise:

- A `snapshot` next to a rollback can hold configuration and database of two
  moments; `config.yaml` itself is not locked (`services/workspace.py`).
- A dropped file in use is remembered by its path; if a later release ships the path
  again, the clean-up deletes the new file. `UpdateIsSafe` excludes such paths
  (`Returns`). A rollback that fails puts the aside on the clean-up list although it
  is the only copy; a crash leaves asides no list knows.
- A schedule that outlasts its 300 s lease is started a second time, `finish` clears
  whichever lease is there, and disabling a schedule drops the lease of a running
  one. `SharedOnlyIfDisturbed` says exactly this. Triggers that raise in the
  conditions (`schedule_conditions.py:50` without a minimum battery) keep the lease
  until it runs out.
- Before the first eligible event, small changes of a page do not add up
  (`change_detector.py:613`).
- A list of pending deliveries read earlier can take an event beyond its eight
  attempts; revoking a row that is being sent reports it as cancelled although it
  arrives; a rule disabled for a moment cancels its events for good.
- Two updates of the control file can lose a stop. The last attempt with a
  retryable HTTP status is not counted by the circuit (`http_client.py:342`).
- A discarded rendering that raises leaves its context open until the pool closes.
- The watcher's table holds 10,000 signatures, one for a source and one for its
  output. Beyond 5,000 converted versions it forgets the oldest and converts those
  files again although nobody wrote them.
- Applying an LLM candidate a second time treats it as L1, because the stored row
  has lost its origin. A crash right after an observation that flagged a candidate
  leaves it flagged, and no later one directs a rollback. A rollback killed after it
  restored the file is refused from then on.
- An exporter that is killed while a finished run is reprocessed, or hit by Ctrl-C in a
  crawl (`_exports.py:98` catches `Exception` only, and `_run.py:515-528` finishes the
  run as cancelled), leaves its commit `running`. Recovery takes up unfinished runs
  only, and `begin_export` refuses a commit that is running, so the run is never
  exported again by itself. `CommitsAreSettled` excludes exactly these (`stranded`).
- A progress callback or a store transaction that raises a timeout or a connection error
  after a page was marked done sends the row back to `pending`: the page is fetched,
  stored and counted a second time (`_run.py:295-301`). `DeliveredStaysDone` says that
  nothing else does.
- An edit of `config.yaml` while a rollback is pending may be lost or survive it, since
  nothing locks the file; the contract says so.
- A folder with more files than `max_files` is converted in the order of the file
  system, and files beyond the limit may never be; with `on_conflict=skip` a source whose
  output exists counts as done. `LastVersionIsConverted` excludes both.

## 6. Where the code and its documents disagree

1. `CrawlRetryLost`: `pipeline/_run.py:407` sets `frontier_exhausted` while a
   request is in flight. Its retryable failure goes back to `pending`, but the
   loop is over.
2. `CrawlSelfStop`: after an exception the pipeline cuts its network without
   requesting a stop, and requests refused for that reason become `blocked`.
3. `CrawlSetupInterrupt`: Ctrl-C during setup leaves the run `running`.
4. `CrawlLateError`: an exception after `finish_run` leaves a `succeeded` run with
   an error.
5. `TaskLeaseNack`: `nack` compares the token and deletes in different
   transactions and can delete another worker's task.
6. `CrawlInterruptOrphan`: `consume()` pops a request before it waits for its result
   and settles it (`_run.py:219`, 230). Ctrl-C in between leaves the row `in_progress`
   after a run that ended `cancelled`; `docs/OPERATIONS.md:86-87` promises that requests
   in flight are settled and no such orphan is left.

Two more disagreements need a failing file operation and are described by actions of
the models, not by runs of their own:

7. A control file that cannot be read or parsed counts as "not stopped" and is cached as
   such (`egress.py:249-261`; `StatFails`, `ReadFails`), against the invariant INV-003 of
   `docs/SECURITY_AND_COMPLIANCE.md:78` that a stopped task sends nothing. `StopIsSeen`
   excepts exactly the checks that rest on such an answer.
8. `_finish` runs outside the `try` that rolls back (`updater.py:206`, 268). When it
   cannot write the list of left-overs the command reports a rolled back update with
   every new file in place (`FinishFails`); `updater.py:180-181` says that any failing
   step is undone. `UpdateIsSafe` says what is left instead: a complete new release.

## 7. Plan

Done: the crawl core, the queue, the run store and the local task queue; the
schedule store, monitor, outbox, exports, broker, workspace restore, update,
component registry, repairs, browser pool, semaphores and folder watcher.

Done as well: a theorem for each safety property of the runs, and the three
refinements.

Next, in order of weight:

1. The safe half of the liveness arguments: once a stop was seen no step but a fault
   gives the loop more to do, and an attempt of a task or an event is never given back.
   Then only the fairness argument itself is left to TLC.
2. A refinement that `TaskLease` and `Delivery` share: at-least-once delivery.
3. `record_notifications`, which feeds the outbox from a crawl, and several rules
   with cooldowns.
4. Plugin quotas, and `retry_failed_selected` next to a crawl.
5. The `versions/` layout of an update.
