# AgentDNS Sentinel: verification

TLA+ models of AgentDNS Sentinel, the TLC runs that check them and the TLAPS
proofs about them. Sentinel is the DNS server of a fleet of agents: it decides
for every lookup whether this agent may have this name now, logs the decision,
watches the services behind the names, and has a control API, an incident
responder and a dashboard around that core. File references are relative to the
repository; line numbers are those of the commit the models were written from.

    tlc -config store_shedding.cfg MCEventStore      # any run of PROJECT.json
    tlapm EventStoreProofs.tla                       # the proofs of any *Proofs module

`PROJECT.json` lists the runs, the map from definitions to source lines, the
hazards with the properties that cover them, one mutant per property, the
findings and the theorems.

## The system

| Part | Source | State | Operations |
|---|---|---|---|
| Policy engine | `dns_manager/policy.py` | configuration and its compiled snapshot, rate windows, round-robin cursors, probe health, overrides | `evaluate`, `set_domain_access`, `set_endpoint_health`, `clear_endpoint_override`, `record_probe`, `reset_budgets`, `reset`, read-outs |
| Budgets and alerts | `dns_manager/budget.py` | spend per agent in a rolling window, a bounded alert deque, the time each alert was last raised | `would_exceed`, `charge`, `spend_report`, `raise_alert` |
| Rules | `dns_manager/rules.py` | none (compiled patterns) | normalization, matching, query guard, cost table |
| Evidence store | `dns_manager/store.py` | a bounded queue, a writer thread and its batch, a drop counter, two tables | `record`, `flush`, `events`, `summary`, `agent_activity`, `clear`, `control_event`, `close` |
| Health monitor | `dns_manager/health.py` | per endpoint: state, consecutive failures and successes | `check_once` in a thread, `stop` |
| Control API | `dns_manager/api.py` | none of its own: changes the engine and the services, writes `control_events` | 6 handlers that change something, 8 that read |
| DNS resolver | `dns_manager/server.py` | none | one `resolve` per query, on threads of its own |
| Mock services | `mock_service/server.py` | a health flag | `/health`, `/control/fail`, `/control/recover` |
| Incident responder | `agents/incident_responder.py` | none | `investigate`, `remediate` |
| Dashboard | `dashboard/state.py` | a snapshot, the verdicts, `busy`, the poller's flag | event handlers of a browser tab: `refresh`, `poll`, `toggle_auto_refresh`, `run_scenario`, `run_stage`, `run_all`, `set_endpoint_failure`, `reset_demo` |
| Traffic agents | `agents/service.py` | none | `query`, `fetch` |
| Demo | `demo/`, `scripts/demo.py` | results of a scenario | 15 scenarios, run one after the other |
| Runloop lab | `runloop_lab/`, `scripts/runloop_lab.py` | a state file that names a Devbox | `policy`, `blueprint`, `up`, `redeploy`, `demo`, `snapshot`, `down`, `e2e` |

How they meet: resolver threads call `evaluate` and then `record`; API handler
threads change the engine (under its lock) and write audit rows (their own
transactions); the monitor thread publishes probe results into the engine; a
reset touches all of them, one after the other, under no common lock. Dashboard,
responder and scenarios see the system only through the API and DNS.

What is hard about each part, and what makes it correct:

- **Evidence store.** Any number of threads meet at a full queue and evict,
  acknowledge and count in separate steps while the writer drains, transactions
  fail and `close()` sends its sentinel through the same queue. Correct: no row
  is duplicated or vanishes without a reason, drops are counted, the log keeps
  the order of answers, readers see everything outstanding when they asked, and
  neither `record()` nor `flush()` hangs.
- **Policy engine and budgets.** Queries read a snapshot without the lock and
  decide under it; limits are rolling windows with boundaries; alerts are
  de-duplicated and bounded. Correct: quotas and budgets hold in every window,
  forbidden names stay forbidden whatever is granted, answers are spread over the
  healthy endpoints, and refusals are alerted.
- **Rules.** Letter case, trailing dots, and where a wildcard's suffix begins.
  Correct: matching is by label, and prices do not depend on the file's order.
- **Health monitor.** Sweeps race with resets and shutdown, and probes fail in
  ways the handler does not expect. Correct: exactly the declared debounce, and
  convergence to the services' real state.
- **Control API.** Handlers read, change, read again and audit in four steps with
  no lock across them; disk, configuration, services and process may fail in
  between. Correct: what is in force is in the trail, older requests do not win,
  and a reset restores.
- **Dashboard.** Handlers of one tab run between each other's awaits, share
  `busy`, `polling`, the page and the verdicts, and a reset respects none of it.
  Correct: runs exclude each other, the scoreboard shows the run in progress,
  there is one poller, `busy` ends, and the page catches up.
- **Demo and responder.** Fifteen scenarios spend the same quotas and budgets,
  wait for a monitor of its own pace, and repair services that others may touch.
  Correct: a clean lab passes whatever is selected, each scenario is judged, what
  is reported repaired is, and a failover is denied only for a reason.
- **Runloop lab.** A remote machine that outlives the command that made it.

## Modules and what they stand for

| Module | Models | EXTENDS / INSTANCE |
|---|---|---|
| `DecisionLog` | what the log promises, without threads or locks | |
| `EventStore` | `store.py`, decision log | INSTANCE `DecisionLog` |
| `PolicyEngine` | `policy.py`, `budget.py` | |
| `PolicyRules` | `rules.py`, list edits of `policy.py:259-270` | |
| `HealthMonitor` | `health.py`, `api.py` `reset` | |
| `ControlApi` | `api.py`, handlers that change something | |
| `Dashboard` | `dashboard/state.py`, the buttons of `views.py` | |
| `Demo` | `demo/scenarios.py`, `demo/runner.py`, `scripts/demo.py`, `agents/`, `mock_service/`, `server.py` `resolve` | EXTENDS `PolicyEngine` |
| `RunloopLab` | `scripts/runloop_lab.py`, `runloop_lab/lab.py`, `state.py`, start-up of `spec.py` | |
| `MC*` | small instances for TLC | the module of that name |
| `EventStoreProofs`, `PolicyEngineProofs`, `HealthMonitorProofs`, `PolicyRulesProofs`, `ControlApiProofs`, `DashboardProofs`, `DemoProofs`, `RunloopLabProofs` | theorems | the module of that name, TLAPS |

Operators called "Mutant" in a comment are wrong variants of the definition after
them, each a plausible bug that the property named in `PROJECT.json` detects.
Variables marked "history" record what happened for a property to speak of; no
guard reads them.

### EventStore

`queue`, `unfinished`, `dropped`, `db` are `_queue`, its `unfinished_tasks`,
`_dropped` and the `dns_events` table. `rec[q]` is where the `record()` call of
row `q` stands, `wpc`, `batch`, `owed`, `stopping` are the locals of `_drain()`,
`rpc`, `asked` those of the readers, `cpc` of `close()`. A step is one method of
`queue.Queue` (each runs under the queue's mutex), one increment under
`_counter_lock`, or one transaction, so every interleaving the interpreter can
produce between those is explored:

- `RecordPut`, `RecordFull`, `RecordShed`, `RecordNothingToShed`,
  `RecordShedAck`, `RecordShedCount`, `RecordRetry`, `RecordRefused`,
  `RecordRefusedCount` are `record()` from the first `put_nowait` to the second
  `queue.Full`; `RecordSync` is `async_writes=False`.
- `WriterStart` (connection and PRAGMAs, which run outside any handler),
  `WriterGet`, `WriterFill`, `WriterFilled`, `WriterWrite`, `WriterAck` are
  `_drain()`/`_write()`.
- `ReadBegin` to `Clear` are `flush()` followed by the query of each reader,
  `CloseBegin`, `ClosePut`, `CloseJoin` are `close()`.

Rows carry no content. `control_event()` never touches the queue and is in
`ControlApi`.

`Spec` hands over each row once. `TrafficSpec` adds `RecordAgain`: a thread whose
row has left the queue and the batch records the next one under the same name, so
a few names stand for traffic without end. Liveness is checked of `TrafficSpec`;
the history that counts or orders all rows is kept in `Spec` only, where the
safety properties are.

### DecisionLog

The abstract log: `new` rows are accepted into `pending`, refused, or logged at
once; a pending entry may be discarded; a block of the oldest may land in `log`
or be lost together; a reader asks and is answered when nothing pending at its
request still is. `EventStore!Log` maps `pending` to `batch \o queue`, `log` to
`db`, `gone` to everything shed, lost, cleared or raised.

### PolicyEngine

One action per operation. `Begin` is `evaluate()` up to the lock (the deny
rules, the guard and the allow list on the snapshot), the five `Decide...`
actions are the rest, one per outcome: throttled, over budget, no record, no
healthy endpoint, answered. Everything else holds the lock throughout and is one
step, except `set_domain_access()`, whose change and new snapshot are
`SetDomainAccess` and `Recompile`, because `Begin` may run in between.
`_rate_limited`, `spent`, `would_exceed`, `charge` and `raise_alert` are the
operators `Throttle`/`Admit`, `Fresh`, `WouldExceed`, `Charge` and `RaiseAlert`.
Time is an integer; patterns are abstract with their extension `Covers` (what a
pattern covers is the subject of `PolicyRules`).

### PolicyRules

A name is a sequence of characters. `NormalizeDomain`, `Exact`,
`AnchoredSuffixes`, `Matches`, `Violation`, `CostOf` follow the code's character
operations; `Covers` and `FitsGuard` are reference definitions over labels and
the positions of dots. `Grant` and `Revoke` are the two branches of
`set_domain_access()`; `word` remembers the last request about each name.

### HealthMonitor

`SweepStep` is the monitor thread, one step per probe (in any order, as the
thread pool runs them) and three per endpoint afterwards: `Record`, `ReadVerdict`
and `Publish` are separate since a reset can replace the tracker between any
two. `ResetStep` is the reset handler: revive each service, reset the engine,
replace the tracker. `Become` lets a service fail, recover or answer something
that is not HTTP. The counters saturate at their thresholds, past which the
code only compares them.

### ControlApi

One handler thread per `Call`; `req` is what it asks for, `pc` where it stands,
`before`, `after` what it read. The steps are: read before, change, read after,
write the row (access, pins, budgets); send, write the row (inject); revive,
restore, clear, write the row (reset). Faults: an audit row or clear that
cannot be written, an unreadable `policies.json` in `reset()` (after half of it
is done), a service whose answer is lost or not HTTP, and one restart.

### Dashboard

The state behind one browser tab. A task is a handler in progress: `handler`
says which, `stage` how far it is, `job` the scenarios it runs, `at` how many it
has finished, `read` what its fetch returned. One event loop runs all of them,
so a step is a block between two awaits: `async with self` blocks take the tab's
lock and release it, except in `refresh()` and in the last block of
`run_scenario()`, which keep it while they fetch (`lock`). Each block is an
action named for it (`ManyStart`, `ManyNext`, `ManyApply` and `ManyFinish` are
those of `_run_many()`); each awaited call returns (`Called`, `FetchAnswered`) or
fails where it can (`FetchFails`, `InjectRaises`, `Dies` for `lab.reset()`).
Buttons are disabled by a copy of `busy` that lags behind, so `Click` may happen
at any time. The page is seven tables read at seven moments; `lab` is the version
of any one of them and `page` the version shown. History: `overrun` marks runs
that overlap on account of a `reset_demo()`, `died` a `lab.reset()` that raised,
`missed` a poll that returned because of a poller about to leave.

### Demo

A scenario is the sequence of calls its body makes (`Baseline` to `AuditTrail`)
and a predicate on what they returned (`GovernHolds` to `OperateHolds`); the
`Catalogue` is `SCENARIOS`. The engine is `PolicyEngine` itself: `AskNext`,
`AskDecide` and `AskReply` are `query()` of an agent and `resolve()` of the
server around `Begin`, `Decide...` and `Reply`; grants, budget resets, spend
reports and resets are its actions too. `Survey`, `Repair`, `AwaitAll` and the
asks after them are the responder. `up` is the services' own state, `log` the
newest rows of the decision log (readers flush first, so they see all of it:
`FlushFresh`), `heard` the answers a scenario got. `Command` is one run of
`scripts/demo.py` or of a button: with a reset (`RunAfterReset`) or without. Where
the reset raises (`ResetRaises`), with nothing or all of it done, the command is
over. History: `wanted` is what a command was asked for, `judged` what it has given
a verdict, and `aborted` says that its reset raised.

The monitor is `Publish`: it comes to report what a service answers, at any
moment. `MaxFaults` bounds what can go wrong besides: a call that raises
(`Raises`, `ResetRaises`), a repair or a revival that does not arrive, a monitor
slower than a scenario waits for it (`AwaitTimesOut`, `AwaitAll`), one that
publishes after a reset what it found before (`StaleSweep`), and somebody else who
takes a service down or brings it back (`Meddle`). The history variable `clean`
is true from a reset, or the start, until one of them happens or a command
follows without a reset.

Scenario bodies are sequential, except the 40 queries of `memory-bounds`, which
are gathered: all are refused before they touch any state, so their order does not
matter and they are asked in turn.

### RunloopLab

One operator, one command at a time, each the sequence of calls that `Steps`
gives for its command line; `todo` is what is left of it. `state` is the
command's `LabState` and `file` is `.runloop/lab.json`: `Save` is where the code
saves, so a command that dies leaves what it had saved by then. `Save` itself may
fail or be interrupted, because `write_text()` empties the file and then fills it:
the file is then the old one, the new one, or broken, which `load()` takes for a
blank one. A step returns, or raises (`Raise`) before or after its effect, which is
also what an interrupt does. `Create` may raise with a Devbox running whose id
nobody has seen. `CleansUp` is the `finally` of `cmd_e2e`. A Devbox has the revision
of its working directory, of its images and of its containers; `sync_code()`
changes the first, `docker compose up` with or without `--build` the others.
`Edit` changes the tree and `Expire` ends a Devbox at any moment. The history
variable `usual` turns false for what the state file cannot follow:
`--devbox-id`, a second `up` beside a running Devbox, a creation that failed
halfway, a save that was cut short and left a file without the Devbox its command
knew of.

## Runs

Every passing run finishes with its whole state space explored; each property
has a mutant of a mapped definition that TLC finds violating it.

| Run | Instance | States | What it shows |
|---|---|---|---|
| `store_shedding` | 3 rows, 1 reader, queue of 2, batches of 2, both modes, failing sqlite, `close()`; symmetric rows | 685k | `UnfinishedMatches`, `InOnePlace`, `DropsCounted`, `LogInOrder`, `CloseDrains`: no interleaving of `record()` calls with the writer, a reader and `close()` corrupts the queue's count, duplicates or loses a row without a reason, drops one uncounted, reorders the log or stops the writer too early; and the refinement `ImplementsDecisionLog` |
| `store_readers` | 2 threads that record row after row, 1 reader, queue of 1, batches of 2, both modes, failing sqlite, `close()`; fairness | 176k | `FlushFresh`, and liveness: `RecordReturns`, `FlushReturns` |
| `policy_live` | 1 agent, 5 names, a wildcard, a pool of 2, all operations | 553k | `SnapshotCurrent`, `LoadBalanced` under grants, revocations, probes, pins and resets at any moment |
| `policy_metering` | 2 symmetric agents, 2 metered names (one without a record), quota 1, budget 3, warning at 2, windows of 1 and 2 ticks, a cooldown of 2, clock to 3 | 365k | `RateBound`, `BudgetBound`, `RefusalsAlerted`, `WarnedFirst` over every window |
| `health_pool` | 2 endpoints, thresholds 2, garbled answers, stop, resets; fairness | 609k | `DebounceExact`, `PoolFollowsTracker`, `PoolDebounced`, and convergence: `DownLeaves`, `UpReturns` |
| `rules_matching` | alphabet `a A b . *`; all names of up to 3 characters and 16 longer ones; every allow list of 4 spellings, edited by requests in 5 | 2k | `PassesByLabel`, `LastWordHolds`, `CostIsMostSpecific` |
| `control_audit` | 3 symmetric requests of any kind on 2 domains and 1 endpoint, all faults, one restart | 2.8M | `ChangesAreTraced`, `InForceIsALatestRow`, `RowsShowTheChange`, `ResetRestores` |
| `dashboard` | 2 handlers in progress, 2 scenarios in an act, 2 looks at an endpoint, 1 change of the lab; fairness | 337k | `OneRunAtATime`, `ActShowsItsRun`, `OnePoller`, and liveness: `BusyEnds`, `PageCatchesUp` |
| `demo` | the shipped policy; 8 selections, 2 commands, 1 fault | 1.3M | `ScenariosPass`, `EveryScenarioJudged`, `BlameIsFair`, `RepairIsReal` |
| `runloop_lab` | 2 Devboxes, 2 revisions of the tree; the command lines of the Makefile and those with a flag that changes their course | 910k | `RunningIsRecorded`, `RunsTheTree`, `E2eEndsItsDevbox`: whichever step fails or is interrupted, `down` still finds what runs unless a save or a creation was cut short, a redeploy runs the tree, and `e2e` ends what it created |

Why the bounds are enough. In `store_shedding` the sentinel is an entry like the
three rows, so with room for two of them two threads evict at once, an entry that
arrives in between takes the room an eviction made, and a batch of 2 lets the
writer hold rows while the queue refills. In `store_readers` every put behind
another meets a full queue, and one thread evicts what the other has put, again
and again. In `policy_metering` the windows are 1 and 2 ticks and the cooldown is
2, with the clock running past all of them, so entries expire before, at and after
each boundary; two agents are what a shared key would confuse. Two endpoints give
every order of two probes, thresholds of two distinguish a blip from a run, and `Memory` = 4
results hold a run of failures followed by a run of successes (longer histories
are forgotten, and the properties then say nothing of them; counters are zeroed
at every change of direction, so nothing older is remembered by the code
either). In the rules run a label may have 2 characters, a name 4 labels and 7
characters, and the names include the ones just within and just beyond each
limit. Three calls are two that race and one reset, or a change, its revocation
and a third. Two Devboxes are the recorded one and the one it could be confused
with, two revisions the one before an edit and the one after; commands follow
each other without a bound. In `dashboard` two
handlers are what any overlap or second poller takes, an act of two scenarios has
a state in which one is finished, one change tells an old page from a new one, and
since a slot is free again when its handler returns, any number of handlers
follow each other. In `demo` the policy, limits, prices and endpoints are those of
`config/`, less the names no scenario asks for; the selections put each scenario
alone, after each kind of other, and all fifteen in a row; the second command
meets whatever the first left, with or without a reset. 5 queries stand for the 20
of `rate-limit`, whose quota is 3, and 2 for the 40 of `memory-bounds`; the model
keeps the 40 newest log rows, the most any check reads. All queries of a scenario
fall into one tick, the hardest case for a quota, and the clock does not reach the
60 seconds after which a budget is free again. `policy_live` stops the clock, as none of its properties is about
time, and `policy_metering` leaves pool and lists at rest for the same reason.

Deadlock checking is off in the store and control runs only: all rows may be
recorded, the store closed and all calls answered, and then nothing is left to
do. (`Demo` ends in the explicit step `Over`.)

### Fairness

`EventStore!TrafficSpec`: weak fairness for each thread that is inside a call and
for the writer, because the interpreter schedules its threads. None for new
calls, and none for the disk: the writer may fail at its start, after which it
never steps, and any transaction may fail. That is not enough for a reader beside
traffic without end: `join()` returns when it finds nothing unfinished, and new
rows can keep that from being so whenever the reader looks. `FlushReturns` excepts
such traffic (`[]<>Recording`) and covers traffic of any length that ends;
`RecordReturns` has no such exception. `HealthMonitor!FairSpec`: weak fairness for the monitor thread and for a reset in progress; each probe has a
timeout (`health.py:58`), so a probe always ends. Nothing is assumed of the
services; `DownLeaves` and `UpReturns` are about endpoints that stay down or up
for good, which is what "eventually" can mean for them. `Dashboard!Fairness`: each
handler in progress keeps stepping, strongly, since the tab's lock is handed over
in the order it was asked for and every call has a timeout; and of the fetches
that keep being made, some are answered. Nothing is assumed of the user.

### Disagreements between the code and its documents

Two runs are expected to find a violation.

- `store_lost_batch`: `_write()` swallows `sqlite3.Error` (`store.py:181`), so a
  failed transaction loses up to 128 rows that are then neither written, queued
  nor counted, which `tests/test_resources.py:39` says every decision is.
- `health_garbled`: an endpoint whose answer is not HTTP raises an exception
  `http_probe()` does not catch (`health.py:59`); it is never evicted, and while it
  lasts no result of any endpoint is recorded.

The passing properties next to them (`InOnePlace`, `DownLeaves`) say what does
hold in those situations.

Others were met while modelling and are described rather than run; the passing
property beside each names the exception where it has one.

- A reader may wait for ever under traffic that never ends, as `join()` needs the
  queue's count at zero (`store.py:188`); `FlushReturns` excepts it.
- A `record()` that meets a full queue may evict the sentinel of `close()`
  (`store.py:120`): the writer goes on for ever and `close()` gives up after its
  timeout. `CloseDrains` is about writers that stop.
- `LabState.save()` empties `lab.json` and then fills it (`runloop_lab/state.py:33`).
  Cut short after `create_devbox()` has returned, by an interrupt or a full disk, it
  leaves a file that reads as blank, and no later command knows of the Devbox that
  runs, although `state.py:13`, `docs/runloop.md:67` and the message for an
  interrupted command (`scripts/runloop_lab.py:333`) say they do.
  `RunningIsRecorded` excepts it by `usual`.
- A `lab.reset()` that raises ends `scripts/demo.py` with a traceback and no verdict
  for any scenario (`demo.py:131`); `EveryScenarioJudged` excepts it by `aborted`.
- A `create_devbox()` that fails or is interrupted while it waits may leave a Devbox
  whose id was never seen (`scripts/runloop_lab.py:111`); `RunningIsRecorded`
  excepts it by `usual`.
- A change between `engine.reset()` and `store.clear()` (`api.py:336`, `342`)
  stays in force while its audit row is erased (`ChangesAreTraced` excepts changes
  that meet a reset).
- Revoking a name that a wildcard entry covers removes nothing, succeeds, and is
  audited as a revocation (`policy.py:267`; `README.md:335` says "Grant or revoke
  a domain at runtime").
- Switching live updates off and on while the poller is between reading the switch
  and clearing `polling` leaves no poller (`state.py:100`, `107`, `117`), against
  "Keep the page live while the switch is on" (`state.py:98`). `PageCatchesUp`
  excepts it by `missed`.
- `lab.reset()` raising in `_run_many()` or `reset_demo()` leaves `busy` set and
  every later run refused, the buttons disabled, until the page state is renewed
  (`state.py:188`, `248`); `set_endpoint_failure()` has a `finally` for it.
  `BusyEnds` excepts it by `died`.
- `reset_demo()` does not look at `busy` (`state.py:245`): one started by a click
  that was on its way joins a run and clears its flag. `OneRunAtATime` and
  `ActShowsItsRun` except those runs by `overrun`.
- `set_endpoint_failure()` reports "The health monitor marked ... unhealthy" also
  when none of its 20 looks saw that (`state.py:232`).
- A poller that was fetching when the switch was turned off applies its snapshot
  afterwards, and may apply one after a newer one.
- `remediate()` swallows a lost repair because "the override below still keeps
  the demonstration deterministic" (`incident_responder.py:104`); there is no
  override, and the wait then runs out.
- `supply-chain` without a reset fails within a minute of `cost-budget`, whose
  spend it finds; a `live-policy` that breaks between its two grants leaves the
  first in force until the next reset. Both are outside `clean`.

## Proofs

Each property below holds of every behaviour of its module's `Spec`, for every
value of the constants its assumption allows. The inductive invariant behind a
property was an invariant of the TLC run that checks the property before it was
proved. Where a theorem has a hypothesis of its own, it is named here.

### EventStoreProofs

For any finite set of rows, any readers, queue limit and batch size
(`StoreAssumption`).

- `Invariant`: `Spec => []IInv`, where
  `IInv == TypeOK /\ WriterShape /\ UnfinishedMatches /\ Handed /\ FlushFresh /\ SyncIdle`;
  `TypeCorrect`, `UnfinishedIsOwed` and `FlushedReadersAreFresh` are its parts that
  the runs check. `UnfinishedMatches` is not inductive alone: that an
  acknowledgement never takes the count below what is owed needs `WriterShape` (what
  the writer holds at each stage). `FlushFresh` needs that no row due to a reader
  can enter the queue again (`Handed`), that `unfinished = 0` implies an empty
  queue and batch, and that without a writer nothing is ever queued (`SyncIdle`).
- `LoggedInOrder`, `CloseHasDrained`, `RowsInOnePlace`, `ShedIsCounted`, from a
  second invariant, `LineInv`. The log, the batch and the queue are one line of
  entries. `InOrder` says that an entry never stands behind one whose `record()`
  began after its own had returned, which is `LogInOrder` on the part that is the
  log; `Sentinel` is the same of the sentinel, and gives `CloseDrains`. `Accounted`
  and `Earlier` say which rows are in the line, which have left it, and that they
  are each of those once. The two counting properties follow by cardinalities.
- `Implementation`: `Spec => ImplementsDecisionLog`, the refinement `store_shedding`
  checks. What is pending is the batch followed by the queue, so an entry the
  writer takes moves nothing (`HeadMoves`), an eviction discards the entry after
  the batch (`HeadRemoved`), and a transaction lands or loses the oldest entries
  (`BatchLeaves`). A reader is answered only because of `FlushFresh`, a row written
  through only because of `SyncIdle`, and a batch is what leaves only because of
  `WriterShape`.

### PolicyEngineProofs

For any agents, threads, limits, costs and windows (`PolicyAssumption`).

- `RateIsBounded`: `RateBound`. The bound is about `admitted`, the unpruned
  history, while the code decides on the pruned `_requests`; `RateInv` says that
  `requests[a]` is always a suffix of `admitted[a]` (`Remembered`), that everything
  cut off is older than the window, and that entries a limit apart are a window
  apart (`Spaced`).
- `BudgetIsBounded`: `BudgetBound`. The same with sums: the ledger is a suffix of
  the history and the rest has expired (`InLedger`), so what any window up to now
  has cost is at most what the ledger says. The lemmas about `Total` (of an
  appended entry, of a stretch within another) are inductions over the length,
  stated through the least number that fails (`Least`).
- `LoadIsBalanced`: `LoadBalanced`, under `DistinctEndpoints`: no name's record
  lists an address twice, as none does in `policies.json`; the code does not check
  it, and an address listed twice gets two shares. `PoolInv` orders the healthy
  endpoints by how far ahead of the cursor they are: who comes later has had as
  much, or one more.
- `RefusalsAreAlerted`: `RefusalsAlerted`, under `RoomForAlerts`: the buffer has
  room for two alerts per agent (the code has 100 places and five agents). Without
  it a storm of others' alerts can push one out of the buffer while
  `_alerted_at` still suppresses its repetition. `AlertInv(h)` says that alerts of
  one kind and agent are a cooldown apart (`Apart`) and that the last one is held
  until it is as old as `h` (`Dated`). With `h` no more than `n` cooldowns, a full
  buffer holds an alert as old as that when another is to come (`LastIsOld`: the
  agents, the kinds and the `n` stretches are pigeonholes), and the oldest is the
  one that goes. Here `h` is the cooldown and `n` is one.
- `RefusalsAreAnnounced`: `WarnedFirst`, the same over a window and a cooldown.
  `WarnInv` relates the ledger to the alerts: the entries are in the order of
  their times (`Ordered`), and a ledger that adds up to the warning had its last
  entry less than a cooldown after a warning (`Warned`). It is kept because the
  only thing that makes a sum larger is a charge, and every charge that gets to
  the threshold raises the warning unless one is recent. Two hypotheses: `NoJump`,
  no price takes an agent from below its warning to beyond its budget (in
  `policies.json` the highest price is 10, and the warnings are at 30 of 40 and at
  40 of 50); `RoomForWarnings`, with a window of 60 s and a cooldown of 30 s three
  alerts of each kind for each of five agents, 30 of the 100 places. Without
  `NoJump` a price of 15 takes an agent from 29 of 40 to a refusal with no warning
  at all.
- `SnapshotIsCurrent`: `SnapshotCurrent`, by a two-step argument on `editing`.

### HealthMonitorProofs

For any endpoints, thresholds and memory (`HealthAssumption`).

- `TrackerDebounces`: `DebounceExact`. The verdict is a matter of the whole
  history while the code keeps two counters; `CountersExact` says that each counter
  is the length of the run the history ends with, up to its threshold.
- `EngineFollows`: `PoolFollowsTracker`, from `SweepAgrees`: inside a sweep that no
  reset disturbed, the engine agrees with the tracker on the endpoints it has had.
- `PoolIsDebounced`: the action property `PoolDebounced`, from both.

### PolicyRulesProofs

For any alphabet, letter case, configuration and requests (`RulesAssumption`).

- `LastWordDecides`: `LastWordHolds`. Normalization yields a name without capitals
  or final dots (`NormalizedIsNormal`) and keeps such a name (`NormalIsKept`), so a
  grant adds its own name and no other, and a revocation takes every spelling of
  its name and none of another.
- `LabelsDecide`: `PassesByLabel`, and `SpecificPriceWins`: `CostIsMostSpecific`,
  of every name, list and table in the state (`RulesInv`). The code compares
  characters, the property labels; in between are the dots. `Labels` cuts a name
  at its dots and its ends; the cuts are in order (`CutsInOrder`), are the dots
  (`CutsAreDots`), and no label has a dot in it (`LabelsAre`). Names that end
  alike from one cut on have the same last labels (`LettersToLabels`), and names
  with the same last labels end alike (`LabelsToLetters`), hence a pattern matches
  by characters exactly when it does by labels (`MatchesByLabel`; `SuffixIs`,
  `CoversWild` and `CoversExact` are its two kinds). Of two patterns
  that cover a name the longer has no fewer labels, which makes the order in which
  `CostTable` tries its rules the order of how specific they are (`CostBySpecificity`).

### ControlApiProofs

For any calls, domains and endpoints.

- `RowsAreExact`: `RowsShowTheChange`. While no other handler has overlapped a
  call, what it read before is still in force until it changes it.
- `ResetIsComplete`: `ResetRestores`, from `Restoring`: what a reset that is the
  latest call has restored by each of its stages.
- `TrailIsComplete`: `ChangesAreTraced`. Every deviation is of some call that
  has its row, is still to write it, failed to, or met a reset; a row leaves the
  trail only by a reset's `clear()`.
- `LatestRowHolds`: `InForceIsALatestRow`. The last handler to change something
  about a domain or endpoint has no successor among the rows on it, because one
  that began after its answer would have changed it later.

### DashboardProofs

For any number of tasks, scenarios and acts (`DashboardAssumption`).

- `RunsAreAlone`: `OneRunAtATime`. With the types of `handler`, `stage` and
  `overrun` (`TasksOK`) the property is inductive: a handler starts when `busy` is
  clear, hence when only overrun tasks work; one that clears `busy` was alone or
  overrun. The lemmas say so once for every way to go on (`GoingOn`), return
  (`Returning`), end (`RunEnds`) and start (`Starting`), and the steps cite them.
- `OnePollerAtMost`: `OnePoller`, from the stages a poller can be in
  (`PollerStages`).
- `ScoreboardIsOfThisRun`: `ActShowsItsRun`, from what a job is at each stage
  (`JobsOK`), `RunsAreAlone`, and that the act's scenarios are distinct: the verdict
  of the scenario that ended is the only one of the act that changes.

### RunloopLabProofs

For any Devboxes and any set of command lines.

- `EveryBoxIsRecorded`, `RedeployRunsTheTree`, `E2eCleansUp`: `RunningIsRecorded`,
  `RunsTheTree` and the action property `E2eEndsItsDevbox`, from one invariant,
  `LabInv`. `Shape` says what a command still has to do, counted from its end,
  which a step that is done keeps; `Recorded`, for each stage of each
  command, which of `lab.json` and the command's own state names a Devbox that
  runs; `HasTheTree`, what a rebuild has copied and built by then; `E2eInv`, that
  the clean-up of `e2e` is sent to the Devbox it made. A save that fails is a step
  like any other here, and leaves `Recorded` alone unless it lost its Devbox, which
  `usual` then remembers.

### DemoProofs

For any policy, endpoints, selections and number of faults (`DemoAssumption`; that
`api.internal` is a name of the instance is all it asks of the policy).

- `NothingIsSkipped`: `EveryScenarioJudged`, from the invariant that what a command
  was asked for is judged, queued or running, unless its reset raised (`JInv`).
- `BlameHasACause`: `BlameIsFair`, from `EngineInv` and `FailoverInv`. A script runs
  one call at a time, so what the last list of answers means depends on where the
  script is: `Remaining` says that `todo` is an end of the script of `failover`,
  `Answers` how many calls have been heard by then. `Fair` is the argument: an
  endpoint that was listed and is healthy now has come back since; so has one
  that an answer in flight or heard names, because the pool chose it when it was
  healthy (`AnswerIsHealthy`). It holds because no scenario pins an endpoint
  (`EngineInv`), and the responder looks while no query is in flight.
- `RepairReachesTheService`: `RepairIsReal`, from `EngineInv` and `IncidentInv`.
  `Settled` says that no call still to be made takes a service down once the
  responder has looked, through the two calls that `EnsureIncident` may put before
  the rest; `Genuine` that an endpoint which was listed, and is reported healthy or
  no longer listed, is up or was taken down by somebody else.

### Only model-checked

Liveness (`RecordReturns`, `FlushReturns`, `DownLeaves`, `UpReturns`, `BusyEnds`,
`PageCatchesUp`) is beyond the prover. `ScenariosPass` is about the shipped policy
and no other: what it says of the quotas, prices and alerts of fifteen scenarios in
a row is a computation, which `demo` carries out. Every other property of the
passing runs is a theorem.

Theorems of the library that take an operator as a parameter, the usual form of
induction, cannot be used with these provers; where an induction is needed it is
stated of a set of numbers that would have a least element (`Least`).

## Not modelled

- Token checks: one comparison per request. Of the resolver, query types other
  than A, which are answered before any decision, and the reply codes; of the
  agents, `fetch()`, which no scenario uses. A refused query is asked once: what a
  client's stub resolver retries on its own is outside the repository.
- Of the demo: the checks of attribution and format (source address, timestamps),
  two of `memory-bounds` that cannot fail by construction (no new records, and the
  queue within its capacity, `scenarios.py:449`, `458-462`),
  the activity log, `verify_demo.py`, printing; a second client of the lab beyond
  `Meddle`, as two demonstrations at once spend the same quotas and neither
  claims to pass.
- Of the dashboard: the derived views, the filter, the message texts. Several tabs
  have separate states and meet only in the lab.
- Of the Runloop lab: commands that run at the same time (each saves its whole
  state over the other's), evidence files, and the environment's settings. Two
  things seen while modelling it that no property states: a `redeploy` after an
  `up` that failed between its two saves starts the dashboard with the tunnels
  of the previous Devbox (`runloop_lab.py:154`), and `down` on a Devbox that has
  expired fails before it clears `lab.json`.
- Dashboard views, icons, benchmarks, setup scripts: layout, pure I/O, packaging.
- The GET handlers of the API: they only read. What the seven reads of
  `/dashboard` can do to the page is in `Dashboard`.
- sqlite itself: a transaction happens or raises.

## Plan

Two clients of the lab at once: a dashboard's `set_endpoint_failure()` beside a
responder's `remediate()`, with the full `HealthMonitor` between them instead of
`Publish`.
