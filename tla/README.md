# Hobat: a TLA+ verification project

Hobat collects what a Thread / Matter home network says about itself (border
routers over their CLI and REST API, Home Assistant's Matter server over a
WebSocket, mDNS, Eve exports), caches every answer as a JSON snapshot, merges
snapshots into Unified datasets, evaluates the health of the network from them
into a SQLite store, and serves all of it to a browser. Paths below are relative
to the repository; the program is in `src/src/`.

## 1. Inventory

| component | state it keeps | operations | hard behaviour | what makes it correct | modules |
|---|---|---|---|---|---|
| Unified publication (`td_unified_dataset.py`) | the public files of a product, `.td-unified.lock`, the recovery directory with its copies and `commit.json` | build, publish, recover, read | collectors replace evidence during a build; a builder dies between any two file operations; readers take no lock | a readable generation is one that was committed, built from evidence that existed together; a crash loses nothing | `CommittedStore`, `UnifiedPublication`, `UnifiedReaders` |
| Web server jobs (`td_webserver.py`) | job records, runtime handles, one asyncio lock per source, the health job registered per dataset | submit, run, cancel one, cancel all, evict | tasks, subprocesses, timers and requests interleave at every `await` | one collection per source at a time, no duplicate refresh, a cancelled job ends cancelled and holds nothing | `WebJobs` |
| Web server short requests (`td_webserver.py`) | `_active_processes`, the same locks, the tasks that requests join | refresh synchronously, serve cached, shut down | freshness is decided before and after waiting for the lock; shutdown | an answer is as fresh as was asked; nothing outlives shutdown | `WebRequests` |
| Source capabilities (`td_source_capabilities.py`) | a cache of inspections and of probe results, both in flight | inspect, probe | files are replaced while they are read; callers share | files that are told of as present were on disk together, but for those that came and went during the inspection; no probe result older than the TTL | `SourceCapabilities` |
| Health store (`td_health_sqlite.py` and the modules around it) | observations, assessments, rosters and their revisions, receipts, comparisons and prepared evidence, last-known facts | save a result, mutate the roster, compare, prepare, purge, prune | several processes write; a result is computed outside the transaction that stores it | an assessment used the roster it names; a retried request acts once for each enrolment; derived rows are what deriving them again would say | `HealthRoster`, `HealthComparisons`, `HealthAbsences`, `RosterFacts` |
| Health evaluation (`td_health_evaluator.py`, `td_health_graph.py`) | none | evaluate, reassess | rules that overlap, gaps in the evidence, reassessment of a part | a reassessment says what an evaluation would; every path and no other is found | `NetworkVerdict`, `MeshGraph` |
| Migrations (`td_health_sqlite.py`, `td_health_migration.py`) | the schema version, copies, cohorts of assessments | upgrade the schema, move assessments to another policy | several processes at once, kills, writers | nothing changes without a copy of what it was | `SchemaUpgrade`, `HealthMigration` |
| Backups (`td_system_backups.py`) | the data directory, a staging and a previous directory | create, validate, restore | a restore is many renames | either the old or the new contents, whole | `SystemBackups` |
| HA Matter client (`ha_matter_ws_client.py`) | pending requests, ids of timed-out ones, events | request, wait, receive, close | answers out of order, late, twice, or never | each request gets its own answer or an error, nobody waits in vain | `MatterWsClient` |
| HA Matter collectors (`ha_matter_ws_cli.py`, ...) | the files of a command and its outcome | list nodes, follow diagnostics, fetch all | events overtake answers; a command dies between two files | what is accepted belongs to the outcome beside it | `MatterSnapshot`, `MatterDiagnostics`, `MatterFiles` |
| OTBR REST client (`otbr_restapi_util.py`, `td_restapi_diagnostic_recovery.py`) | actions on the router, partial results, files of two commands | sweep, expand, recover | actions fail, time out, disappear, and may still run; RLOC16s change hands | what is complete hides nothing, a recovered row is of the run it is bound to | `RestSweep`, `RestMesh`, `RestFiles` |
| OTBR CLI collectors (`otbr_cli_*.py`) | records by RLOC16, a checkpoint | collect the mesh, the routers' tables | answers arrive in later outputs; devices move and fall silent | an answer is attributed to its request, a device that answered is kept | `CliAttribution`, `CliCollection`, `CliTables` |
| Record merge (`merge_dataset.py`, `merge_policy_*.py`) | devices found so far | correlate, merge fields | order of files, contradicting and shared identities, a counter that wraps | devices that contradict each other stay apart, no row is lost | `MergeRecords`, `MergeFields` |
| Browser sessions (`js/tdash-dataset.js`) | the loading session, its poll, its checkpoint | load, poll, cancel, switch | an answer arrives for a session that was replaced | the view shows the dataset selected last | not modelled |
| Importers, mDNS, CLI (`mdns_*`, `eve_process.py`, `td_cli.py`) | none across runs | collect once | sequential | the parsers' own contracts | not modelled |

How they interact: the browser calls the web server; the server runs `td_cli.py`
in a subprocess per job, under the lock of the source; the CLI's collectors replace
snapshots and sidecars in the data directory with atomic renames; a Unified build
(also a job) reads those under `flock` and replaces a product's files; the server
and health processing read products without the lock; health processing writes the
SQLite store, which the server's read API serves. The data directory, the source
locks and the store are the only shared state.

## 2. How the project is built

One module per component; modules that need another one's state EXTEND it
(`UnifiedReaders` the publication) or stand for it by its effect (`WebRequests` has a
background job as one more holder of the lock, `WebJobs` has `td_cli` as a subprocess
that ends). `CommittedStore` is the abstract specification that `UnifiedPublication`
implements. Modules that are proved about use no RECURSIVE operator; constants carry
named assumptions; every operation is an action of its own, and a property that has
several named parts keeps them as conjuncts. Proofs are in the modules `..._proofs`, one
per component or per combined run.

Components that share no state are checked in one run: a module `MC...` chooses at the
start which `part` a behaviour is about, steps only that part, and leaves the others in
one initial state, so the state space is the sum and not the product of theirs. A
property of such a run says `part = "x" => ...`, or is an action property, which the
other parts satisfy because they stutter. A part that would also have several initial
states of its own is pinned to one while it is not chosen.

| run | modules | instance | checks | states |
|---|---|---|---|---|
| `publication` | `UnifiedPublication` | two inputs, two artifacts, two networks, two crashes | `Inv`, `SnapshotConsistent`, `NoMixWithoutJournal`, `CommittedIsStored`, `RecoveredOrStuck` | 381 332 |
| `readers` | `MCReaders` | `UnifiedReaders` with a reader, two networks and a crash, or two changing inputs | `ReadAtomic`, `VerifiedReadCurrent` | 2 578 447 |
| `jobs` | `MCJobs` | three jobs of two sources; two jobs of one source under fairness | `JobsExclude`, `VerdictsStand`, `LiveJobsSettle` | 705 805 |
| `roster` | `MCHealthRoster` | two devices, two observations, a processing, a request | `ContextsAreLive`, `SavedAgainstCurrentRoster`, `ActsOnWhatWasShown` | 2 203 250 |
| `matter_client` | `MatterWsClient` | two requests, three frames, one remembered id | `OwnAnswer`, `HonestServerKeepsSession`, `NobodyWaitsInVain`, `EveryRequestEnds` | 1 055 072 |
| `collectors` | `MatterDiagnostics`, `MatterSnapshot`, `MatterFiles`, `RestSweep`, `RestMesh`, `RestFiles` | see 7 and 8 | one property each | 3 363 958 |
| `operations` | `SystemBackups`, `SchemaUpgrade`, `HealthMigration`, `HealthRoster`, `WebRequests`, `SourceCapabilities` | see 5, 6 and 11 | `NothingLost`, `MigrationSound`, `CurrentThroughPurges`, `RequestsSound`, `ProbesSound`; `ChangesHaveBackup` for two | 1 838 925 |
| `records` | `CliAttribution`, `CliCollection`, `CliTables`, `MergeRecords`, `MergeFields` | see 9 and 10 | one property each | 1 493 351 |
| `health_history` | `HealthAbsences`, `HealthComparisons`, `RosterFacts`, `MeshGraph`, `NetworkVerdict` | see 12 | one property each, `FactsAdvance` beside | 365 490 |
| `recovery_stuck` | `UnifiedPublication` | one input | violated: `NextBuildRecovers` | finding |
| `jobs_orphan` | `MCWebJobs` | two device actions | violated: `OneProcessPerSource` | finding |
| `roster_reprocess` | `MCHealthRoster` | two observations, no requests | violated: `SavesSucceed` | finding |

A property of a combined run is a conjunction of the named properties of the component's
module, where each is stated and explained; the module's `TypeOK` is one of the conjuncts.
Deadlock checking is off in every run but `publication` and `readers`: a command that
has ended stops, and the bounds on clocks and counters stop the rest.

Two further configurations that are not runs of the project show where the code does not
keep what is said of it. Each checks two properties, of which TLC reports the one it
refutes first; with one of them removed it refutes the other.

| configuration | module | refuted | said where |
|---|---|---|---|
| `WebJobsRefuted.cfg` | `MCWebJobs` | `CancellingEnds` | `doc/codebase_webpage_web_server_data_flow.md:522` |
| | | `OneLiveHealthJob` | the tests of health jobs |
| `RecordsRefuted.cfg` | `MCRecords` | `NamedOnce` | the docstring of `_upsert_device_record` |
| | | `RetrievalFailureRaises` | the docstring of `fetch_and_parse_router_table` |

## 3. Unified publication

`UnifiedPublication` is one product: `NumArtifacts` artifacts in the order of
`_artifact_names`, then the report, the only file whose replacement commits. Its state is
what is on disk (`files`, and `dir`, `backup`, `journal` for the recovery directory),
what is cached (`input`) and the locals of the one builder that holds the `flock`
(`pc`, `k`, `captured`, `target`, `previous`); a builder without the lock has done
nothing yet. One action is one file operation: an unlink, a rename, the hard link
that makes `commit.json` appear. A death (`Crash`) is possible between any two of
them and forgets the locals. `past` is a history variable.

| code | actions |
|---|---|
| `util_data._atomic_text_file` (a collector) | `Collect` |
| `build_unified_dataset` | `AcquireLock`, `Release`, `Crash` |
| `_recover` | `RecoverNothing`, `RecoverUnjournaled`, `RecoverCommitted`, `RecoverInterrupted`, `RestoreFile`, `RestoreFails`, `FinishRollback` |
| `_clear_recovery` | `UnlinkBackup`, `UnlinkJournal`, `RemoveRecovery` |
| `_build_locked` | `CaptureInput`, `RejectInputs`, `ChooseTarget`, `NoOp`, `StartPublication` |
| `_publish` | `RecheckInput`, `InputChanged`, `MakeRecovery`, `BackupFile`, `WriteJournal`, `StartReplacing`, `ReplaceFile`, `VerifyPublication` |

Data is abstract: a version of an evidence file has a digest, and later versions may have
the digest of earlier ones; a generation is the vector of digests and the selected
network; a report adds the coverage, which is outside the generation's id; the row file
depends on the first input alone, so two generations may share it. A raw file's mtime,
when it is the only time there is, also enters the code's generation id; that only makes
ids more distinct and is left out.

`CommittedStore` is what a reader may rely on: one value, sometimes unavailable, changed
only by a commit. `CommittedIsStored` is the refinement: the value is the report in
place if the product is whole, else the copy the journal protects.

`UnifiedReaders` adds readers that take no lock: `read_generation` reads the report, then
the artifacts in the report's JSON order (any order here), with `verify_inputs` the
evidence, and then rechecks everything. `whole` and `current` are history variables: the
reports that could have been returned at some moment of the read.

Bounds. `publication`: two inputs, two artifacts, three replacements of each input, so that
an input can change and change back; two networks, so that a build can publish a second
generation from unchanged evidence; two crashes, so that a recovery can itself be
interrupted; safety, refinement and liveness. `readers` has two parts (`MCReaders`, which
only restricts the steps): in "crash" one reader meets the publications of two networks
and a death of the builder, while one evidence file is replaced twice; in "evidence" two
evidence files are replaced up to three times each and come back to earlier contents under
verified reads of one network's product, and no builder dies.

Fairness: a builder that holds the lock goes on (`WF(BuilderStep)`: it is straight-line
code without waits), and builds keep being requested (`WF(AcquireLock)`): recovery is
promised only to the next explicit build. Deaths are bounded by `MaxCrashes`, collectors
by `MaxVersion`.

Finding (run `recovery_stuck`): `_clear_recovery` unlinks the copies before `commit.json`. After a
rollback the public files are whole but are not the generation the journal announces; a
death between the first unlink and the journal's leaves a journal whose copies are
gone, and `_recover` raises "Missing recovery artifact" in every later build. Readers are
unaffected (the restored generation stays readable). `RecoveredOrStuck` shows that this
is the only way not to recover.

Not modelled: power loss (the `.restore` copies are renamed without fsync), staging
directories leaked by a kill, contents of rows, multi-source composition.

### What is proved

`UnifiedPublication_proofs` proves, for any numbers of inputs, artifacts, networks,
versions and crashes:

- `TypeCorrect`: `Spec => []TypeOK`;
- `MixNeedsJournal`: files of different generations coexist only under a journal;
- `CommittedStoreImplemented`: `Spec => CommittedIsStored`;
- `PublishedSnapshotConsistent`: a readable generation's evidence was cached together;
- `PublicationInvariant`: `Spec => []Inv`, the invariant the others follow from.

None of the first four is inductive. The strengthening is `Inv`, in two parts. `DiskInv` says what each
phase of the builder has established (`PhaseSound`) and what the recovery directory
guarantees to whoever finds it (`RecoverySound`): above all `JournalSound`: under a
journal the old files were all there or none was, copies go missing first copy first
and only once the product is whole, and until the announced generation is in place
the report is still the old one. It is what makes both branches of
`_recover` safe after any sequence of deaths. `EvidenceInv` is about the two rounds of
`_recheck`: what a builder captured is bracketed by a vector that was all cached
(`Bracketed`), because versions only grow; a round of rechecks that passes pins the capture
to that vector. `TypeOK /\ DiskInv` is proved first, then `EvidenceInv` relative to it. The
run `publication` checks `Inv` with TLC. The assumptions are the module's own: positive
numbers of inputs, artifacts and digests, and that the constants `Absent` and `None` are
no report, generation or journal.

The same module, which extends `UnifiedReaders`, proves, for any number of readers beside that, `ReadsAreAtomic`
(`ReadAtomic`: a read that succeeds returns a report whose generation was whole at some moment
of the read) and `VerifiedReadsAreCurrent` (`VerifiedReadCurrent`: with `verify_inputs`, its
evidence was then what was cached). Readers change nothing the builders use, so
`TypeOK /\ DiskInv` holds beside them. `ReadersInv` adds what is left to a read that has not
yet seen its report's generation whole: while a publication replaces files under that report,
a file the reader has yet to read is replaced already; once only a rollback can go on, the
final recheck has before it everything that is not yet restored; and a verified read that has
read the report again was either current then or has younger evidence before it. So the final
recheck, which goes over the evidence and the artifacts after the report, catches every
other interleaving.

Only model-checked: `RecoveredOrStuck`, the liveness of recovery (fairness is out of the
prover's reach).

## 4. Background jobs

`WebJobs` models the three kinds of background job of the web server: snapshot refreshes
(`_dispatch_long_cost`), health processing (`handle_health_process_dataset_api`) and device
actions. All the code runs on one event loop, so one action is what the loop runs between
two suspension points; what can happen in between is what can happen while a task is
suspended. `status` is what a client polls, `task` where the coroutine is suspended,
`cancels` the tasks with a pending CancelledError, `process` the `td_cli` subprocess,
`holder` and `waiters` the FIFO `asyncio.Lock` of each source, `runtime` the runtime
handles, `healthJob` the registration of each dataset.

| code | actions |
|---|---|
| dispatch of the three kinds | `Submit` (a duplicate request changes nothing) |
| `_run_job`, `_run_health_job`, `_run_action` | `BeginLocked`, `BeginQueued`, `NeverBegins`, `LockGranted`, `CancelledInQueue`, `Returned` |
| `run_td_cli`, `run_device_action_cli` | `Deadline`, `CancelledRunning`, `CancelledAwaitingExit`, `GraceExpires`, `Stopped` |
| the subprocess (environment) | `ProcessExits` |
| done callbacks | `TaskDone` |
| `_cancel_generic_job`, `_cancel_device_action_job` | `Cancel`, `CancelAll` |
| `_cleanup_job_registry_loop` | `Sweep`; the clock is `Ages` |

The spawn is merged with the run: a cancellation during the spawn ends the same way.
Python before 3.12 may drop a cancellation that arrives when `wait_for`'s future is
already done (`Returned` with a pending cancellation); a device action, which does not look
at its status again, is then reported done, which `VerdictsStand` therefore does not
exclude and `test_cancel_marks_action_terminal_and_discards_late_success` pins only for the
normal case. A single DELETE needs an id that was answered to a client, by when the task has
begun; the bulk DELETE does not.

Properties (`jobs`): `JobsExclude` is `TypeOK`, `SourceSerialized` (a live subprocess holds
the lock of its source), `OneRunningJobPerFile` and `SettledHoldsNothing` (what has ended
has neither lock nor process nor a place in a queue); `VerdictsStand`: a terminal status
is final but for eviction, and a job whose cancellation was accepted is not done after
all; `LiveJobsSettle`: every job that has begun ends (`StartedJobsSettle`, for the
part with fairness).

Bounds (`MCJobs`): the part "safety" has a snapshot and a device action that share a source
and a health job with its own, three jobs in all, so that one holds, one waits and one is
submitted anew, and one job outlives the TTL; "liveness" has two jobs of one source that
may both expire. Deadlock checking is off: the model stops when `MaxJobs` jobs are settled.

Fairness: weak fairness of every step of a job's task (`Advance`: the event loop runs
ready tasks, timers fire, a lock is handed on in FIFO order), and of the death of a process
that was sent SIGKILL. Nothing is assumed of a process that was only sent SIGTERM, nor
of clients or the cleanup loop.

Finding (run `jobs_orphan`): a cancellation while a timed-out device action is in its grace
period releases the source lock while the process may still run.

`WebJobsRefuted.cfg` refutes two more things that are said of the jobs: a bulk cancel that is
handled between the creation of a task and its first step leaves the job in `cancelling` for
ever (which is why `StartedJobsSettle` is about jobs that have begun), and evicting an old
health job drops the registration of a live one, so that a second one is started beside it.

Without a run: the TTL counts from creation (`Sweep` goes by `aged`), so a job that ran longer
than it is evicted by the first sweep after it ends, before its client polls the result;
`doc/codebase_webpage_web_server_data_flow.md:512` says that results are retained.

Not modelled: the list limit of 500. Short requests on the same locks and the shutdown are
in `WebRequests` (section 6).

### What is proved

`WebJobs_proofs` proves, for any numbers of jobs, files, datasets, devices and sources, under
`JobsAssumption`:

- `SourcesAreSerialized` (`SourceSerialized`: the lock of a source is never granted twice,
  lost, or released by a job that does not have it while a subprocess lives) and
  `RefreshesAreDeduplicated` (`OneRunningJobPerFile`);
- `JobsExcludeAndRelease` (`JobsExclude`), which adds `TypeOK` and that a settled job has no
  task, lock, place in a queue or live subprocess;
- `VerdictsAreFinal` (`VerdictsStand`): a terminal status stands until it is evicted, and a
  cancelled snapshot or health job is never reported done.

The inductive invariant has two layers. The first adds to the first two properties that a
subprocess nobody told to stop is awaited by its task (`AliveIsAwaited`), so that a lock is
never given away over a live process, and that what is not created yet does nothing
(`Registry`). The second, `Orderly`, says that a lock's holder is suspended behind it, that a
queue holds exactly the jobs suspended in it, each once, and for each status where the task
can be; a cancellation takes a job out of the middle of a queue, for which a lemma says what
is left of a sequence without one element.

Only model-checked: liveness.

## 5. Health roster

`HealthRoster` is the health store of one network and one dataset. Every operation of the
store is one `BEGIN IMMEDIATE` transaction, hence one action. Health processing is not: it
reads the evidence, then the roster (with what is retained of earlier collections), and
saves in a transaction of its own, so it is three steps with anything in between.

| state | code |
|---|---|
| `snapshot`, `newest` | the evidence files; an observation is numbered by `observed_at` |
| `ingested`, `samples` | `observations`, `device_samples` |
| `assessments`, `preferred`, `current` | `assessments`, `health_assessment_preferences`, `current_assessments` |
| `roster`, `revision`, `receipts` | `expected_devices`, `network_roster_revisions`, `roster_mutation_receipts` |
| `sent`, `process` | the dialog's request in a browser, the locals of a running `process_health` |
| `birth`, `acted` | history: which enrolment a row is, how often a request changed the roster |

| code | actions |
|---|---|
| a collector, a restored backup | `Collect` |
| `build_processing_result`, `process_health`, `save_processing_result` | `StartProcessing`, `ReadRoster`, `Save`, `SaveStale`, `SaveFails` |
| `submitRosterAction` (`js/tdash-ui.js`), `apply_browser_roster_action` | `Send`, `ApplyAction` (as often as the request arrives) |
| `set_cli_roster_device`, `add_expected_devices_from_label_map` | `SetDevice`, `ImportDevices` |
| `purge_before`, `purge_device`, `purge_all` | `PurgeBefore`, `PurgeDevice`, `PurgeAll` |

`_reassess_network` is part of every action that changes the roster (`Reassess`), and
pruning of every `Save`.

Abstractions. The outcome of the evaluation is left out; what is kept of an assessment is
what its id is a digest of (observation, devices seen, roster records and revision, prior
absences), its time, and as history the evidence it rests on. All collections are
complete and of one unified dataset, so each counts as a witness of absence. Times of
processing are ticks of `clock` that advance with every assessment; an epoch
(`expectedSince`) is the number of the next collection. Labels stand behind a change of
`SetDevice` that keeps the state. A request id is never reused with another body
(`request-id-reused` changes nothing). A request refused changes nothing, so only admitted
ones are actions. Samples of an old format, baselines that cannot be reassessed,
comparisons, device facts and preparation have modules of their own (section 12).

Bounds: two or three observations, a device always seen and one that appears in the last,
one processing and one request, three or four assessments in all (`MaxClock`): enough
for two roster changes around a processing, for an action and its retry, and for a device
to be enrolled, purged and enrolled again. A second processing would add no
change that the other actions do not make between `ReadRoster` and `Save`. `roster`
has the browser's requests and purges of devices, and every second observation prunes; the
part "purges" of `operations` has all three purges and no requests, and two of three
observations are retained, so that the latest is not the only one; its
`CurrentThroughPurges` is `TypeOK`, `CurrentIsLatest` (the current assessment is the preferred
one of the newest assessed observation) and `MutationReassessesCurrent` (a change of the roster
that succeeds leaves a current assessment of the new roster). A processing
that meets a stale roster starts over when asked again; its bound of three attempts only
turns the third into an error. Deadlock checking is off: the clock is bounded.

Finding (run `roster_reprocess`): `purge_device` removes samples and keeps the observation;
processing the same evidence again and reassessment then differ in the devices they see.
At one roster revision they collide in a UNIQUE constraint, which INSERT OR IGNORE
hides, and the save fails with "Native preference candidate is missing".

What the properties leave out, because the code does it (each reproduced with the
program):

- after `purge_all` the network's revision starts again from 0, and a result in flight
  passes the comparison of revisions: `SavedAgainstCurrentRoster` and `ContextsAreLive` are
  for the other purges;
- after `purge_device` and a new enrolment the device's revision is 1 again and the receipts
  are gone, so an old request acts again, or on an enrolment it never saw:
  `ActsOnWhatWasShown` is about one enrolment, and what holds of retries is
  `ActsOncePerEnrolment`: a request acts at most once for every time its device was enrolled.
  That is proved and in no run, because the receipt and the device revision each protect it
  and no single change of the code breaks it;
- pruning goes by ingestion and comes after the pointer was set by observation time: the
  current assessment can be the one that is pruned, and then there is none until the
  next save; `CurrentIsLatest` does not say that there is one;
- the collection that brings a device back is processed twice with two results, since only
  the second time it is itself among the retained evidence (`PriorAbsences`).

### What is proved

`HealthRoster_proofs` proves, for any finite set of devices and any numbers of observations,
processings and requests:

- `ResultsAreOfTheirRoster` (`SavedAgainstCurrentRoster`) and
  `PurgedEnrolmentsAreForgotten` (`ContextsAreLive`), if `purge_all` is not used;
- `StaleActionsAreRefused` (`ActsOnWhatWasShown`), whatever is purged;
- `RetriesActOncePerEnrolment` (`ActsOncePerEnrolment`), whatever is purged;
- `CurrentStaysLatest` (`TypeOK` and `CurrentIsLatest`) and `MutationsReassess`
  (`MutationReassessesCurrent`), whatever is purged. `PurgesKeepCurrent` in `Operations_proofs`
  carries both to the part "purges" (`CurrentThroughPurges`), lemma by lemma from the operators
  of one instance of the module to those of the other.

The first two follow from `RosterInv`: a result that was computed at the current revision
is of the current roster and of the same enrolments (`ResultsCurrent`), because every change
of a row advances the revision, `purge_device` included; and what is stored names only
live enrolments. The third needs `RequestsShown`: within the enrolment a request saw, the
revision it names is at most the row's, and equal only if the row is still the one it saw.
The fourth needs `ReceiptsKept`: where the device of a request is enrolled and the request has no
receipt, it has acted less often than the device was enrolled. Acting writes the receipt, a new
enrolment counts one more, and whatever drops a receipt (`purge_device`, `purge_all`) drops the
enrolment in the same transaction.

The last two need `LatestInv`, which relates the pointer to what the pointer was
computed from. Stored assessments differ in their times (`TimesApart`): the clock advances with each,
and a processing's time is nobody else's. Of each observation the preferred one is stored,
and none that is stored is preferable to it (`StoreFits`); the current one is
`Latest(preferred)`; no stored revision is above the roster's; and what a processing carries
is what the code could have computed from the rows it read (`ProcessesFit`). A reassessment
then has the newest revision and the newest time, so it is preferred over all there are and becomes
the current one. `PurgeBefore` and `PurgeDevice` keep whole observations, and the latest of those
kept is recomputed; a save prunes after it set the pointer, and loses it if it is not
retained. The assumptions are `NoneAssumption` (`None` is neither a row nor an assessment) and
`RosterAssumption` (finitely many devices, the ranges of the constants).

## 6. Short requests and source capabilities

`WebRequests` is `GET /api/data/...` for the files of one source whose collection is short
enough to be waited for, and the server's shutdown. `at` is where a handler is suspended,
`joined` the task it awaits (`_active_processes`, here `active`), `holder` and `queue` the
source lock, which a background job may hold too.

| code | actions |
|---|---|
| `handle_data_api`, `_should_regenerate`, `_dispatch_short_cost` | `Request`, `Granted`, `Returns`, `Joins` |
| `run_td_cli` | `Exits`, `Kill` |
| a background job of the source | `JobTakes`, `JobReleases` |
| `on_shutdown`, then aiohttp | `Shutdown`, `ShutdownEnds`, `Drain`, `ServerExits` |

`RequestsSound` is `TypeOK`, `AnswersAreFresh` and `OneTaskAtATime`. The first is about the
two decisions: whether to collect is decided with the client's age before the wait for the lock and
with the catalog's age after it (so a client that asks for a smaller age may get a file
that is as old as the catalog allows; the property says so). The second is about
shutdown, which cancels the tasks it sees while those that wait for the lock have none
yet: they may begin during it, and are cancelled by the drain. A second cancellation of a task
that is already ending is merged with the first. Two requests, two ages and three ticks
are enough for a file to be fresh at the first decision and stale at the second, and for a
request to begin during shutdown.

`SourceCapabilities` reads signatures and contents of a source's files one by one in a
thread, beside collectors that replace them, and shares inspections and probes among callers.
`ProbesSound` is `TypeOK`, `PresentFilesAreSnapshot` (the files a caller is told of were on disk
together, at a moment of the inspection it awaited, also when they come from the cache, except
for a file that was absent at some moment of that inspection) and
`ProbeIsRecent` (no result is told that looked longer ago than the TTL and the length of a
probe). The signature of a present file (inode, size, times) is taken never to return.
Awaiters of a shared probe that are cancelled are left out: the server does not cancel handlers.

The exception is what the code does. `_file_signature` (`td_source_capabilities.py:139-142`) gives
`None` for every absence, so a file that is written after the first signature and removed
before the second leaves both equal: what was read of it is stored under the signature of
its absence (line 378) and told again by later inspections (line 372), although the file is
never there while they run. It was reproduced with the program, by writing a file in
`_read_files` and removing it before the second signature. The test
`test_changing_inputs_are_not_cached_as_stable`
(`tests/test_td_source_capabilities.py:555`) covers changes that leave another signature only. What
the property keeps is that nothing else is mixed: of a file that was there throughout, or
changed from one version to another, what is told is of the one moment.

### What is proved

`Operations_proofs` proves, for any requests, files, ages, callers and numbers of source files
and replacements:

- `RequestsAreServed` (`RequestsSound`). `RequestsInv` says who may write: a handler that runs a
  task holds the lock, one that waits is in the queue, one that joins awaits a task for the
  file it wants (`LockGuards`), and a task that has succeeded leaves the file written since its
  request (`TasksWrite`); with that, `AnswersAreFresh` is inductive.
- `CapabilitiesAreConsistent` (`ProbesSound`). A version of a present file that is gone never returns,
  so a version that is found again was there in between; absence proves nothing. `CacheTrails` and
  `ReadsTrail` follow that through the two passes of an inspection: the versions of the files its
  signatures show present were on disk at one moment of it (`Together`), or some file differs in a
  way that the rest of the pass will notice (`Differs`), and a file whose signature is absence was
  absent at a moment of this very inspection (`Lacked`). What was read of a file is its version
  by the signature unless that is absence, in the cache as in the thread. `ProbesInTime` bounds the
  age of what is stored.

The assumptions (`RequestsAssumption`, `CapabilitiesAssumption`) are that the bounds are
numbers and that the constants `Job` and `None` are none of the things they stand beside.

## 7. The HA Matter client and its collectors

`MatterWsClient` is one WebSocket shared by concurrent requests, a task in `next_event` and the
reader task. One action is what the event loop runs between two suspension points; frames
arrive in order, the server answers in any order, late, twice, never, or what nobody asked.

| code | actions |
|---|---|
| `request` | `Request`, `SendDone`, `SendFails`, `Resume`, `Timeout`, `CancelCall` |
| `_receive_frame`, `_reader_loop`, `_fail_pending` | `ReadFrame`, `TooManyFrames`, `ReaderLoses`, `ReaderCancelled` |
| `next_event` | `StartWait`, `Wake`, `WaitTimeout` |
| `close` | `Close`, `Joined`, `CloseSocket` |
| the server and the network (environment) | `Deliver`, `LoseConnection` |

`OwnAnswer`, `HonestServerKeepsSession`, `NobodyWaitsInVain` and `EveryRequestEnds` are the
promises. The second says exactly when an answer may be taken for an error: `_MAX_LATE_RESPONSE_IDS`
abandoned requests are remembered, and an answer to one that was forgotten ends the
session. Bounds: two requests, one id nobody asked, one remembered id instead of 100, so that
forgetting happens; three frames sent, two read.

Fairness (`FairSpec`): the event loop runs ready tasks and fires the timers of requests, and a
send ends or fails. Nothing is assumed of the server, of events or of who closes the client;
`EveryRequestEnds` therefore rests on the request's own timeout.

### What is proved

`MatterWsClient_proofs` proves, for any numbers of requests, frames and stray ids:

- `AnswersReachTheirRequests` (`OwnAnswer`), from an invariant on where an answer can be:
  what was counted as answered was sent, what is on the wire was answered, and a future or an
  outcome that holds an answer holds its own;
- `NobodyIsLeftWaiting` (`NobodyWaitsInVain`), which is inductive once the domains of the
  registers are added: each event and each end of the reader notifies the waiter in the step
  that makes it ready, and `close` fails what is pending in the step that ends it, after which
  `request` refuses;
- `HonestSessionsLast` (`HonestServerKeepsSession`): while the server answers each request at
  most once and no abandoned id was forgotten, the session does not fail on an answer. `HInv`
  adds that an answer the reader has yet to read is that of a request still pending or of
  one remembered as late, and that no two frames on the wire answer the same request.

Only model-checked: liveness.

### Collectors

`MatterSnapshot` is `fetch_node_snapshot`: events that overtake or follow the answer of
`start_listening` are applied over it. `SnapshotIsServerState`: what is returned is what the
server had when it sent the last frame received. An attribute that a node lost may remain, since
`_merge_node` only adds; the property leaves that out. Three changes of two nodes with two
attributes.

`MatterDiagnostics` is `thread diagnostics get` and `list`: batches of one network as an
answer and as events in any order, checkpoints, then the final file, the removal of the
checkpoint and the outcome as separate steps, with a death between any two.
`DiagnosticsKept`: the newest batch is the one that is kept, and the outcome says what the
files hold. Two commands, two events, two batches of the same time. A result written to an
explicit `--output` path (`ha_matter_ws_cli.py:958`, 1034-1041) is left out: it
takes the place of the final file, and no other part reads it.

`MatterFiles` is every other command: `all`, the single fetches and the native products,
with `.partial` files, sidecars and outcomes. `AcceptedIsOfItsOutcome` states both
directions: what the Unified build accepts of them was written by the command its outcome
reports, and a command that succeeds leaves all it wrote accepted. Three commands, two
artifacts, one native product.

`Collectors_proofs` proves all three, for any numbers of nodes, attributes, changes, commands,
events, artifacts and products:

- `FetchedNodesAreTheServers` (`SnapshotIsServerState`). What applying the events over the
  answer gives is a recursive function of the list of events. `SnapInv` says of each node and
  attribute that, over whatever base the events are applied, it comes out as it was there or
  as the last frame received had it (`FoldsTraced`), and that frames lead from one state of the
  server to the next (`FramesLead`).
- `CollectedDiagnosticsAreKept` (`DiagnosticsKept`). `GetInv` says what each stage of `get` and
  `list` has left in the two files, that nothing consumed is newer than what was accepted
  last (`NewestIsLatest`), and that a command reports once.
- `AcceptedFilesAreOfTheirRun` (`AcceptedIsOfItsOutcome`). `FilesInv` rests on the clock: a time
  of observation tells the run (`ObservedOnce`), and the intervals that outcomes report are
  disjoint (`IntervalsDisjoint`).

## 8. OTBR REST

Every diagnostic over the REST API is an action the border router queues: an enqueue that
cannot be confirmed, a poll that runs out of time and an action that disappears leave one
that may still run.

`RestSweep` is the discovery, the sweep over the listed devices (routers are asked with fewer
and fewer types, children likewise or in a fast and a detail pass, each tried twice) and the
expansion of child tables by RLOC16, then
`reconcile_rest_diagnostics` as definitions over the result. `SweepIsSound` has three
parts: `NothingBesideUnresolved` (nothing is asked beside an action of the same request
that may still run, and in the expansion nothing at all), `ExpandedAreIdentified` (a row
collected by RLOC16 is of that RLOC16 and of nobody else, although RLOC16s change hands)
and `CompleteMeansHeard` (an outcome that is reconciled to complete hides nothing). The instance
has two routers, a listed and a guarded child and two RLOC16s of children; answers come without a
table, for another router, or from another device than the one asked.

`RestMesh` is the sweep for mesh tables, with its fallback to single fields and to a basic
request, the further request to silent routers, and the classification of each.
`MeshExplained`: a sweep that qualifies leaves no table unexplained.

`RestFiles` is the order in which a run writes its outcome, its rows and their sidecars, beside
earlier runs that died, and the reader that binds them. `RecoveredIsOfItsRun`.

Abstractions: an enqueue whose answer is malformed counts as refused, and the border
router is assumed to give none; an answer of the wrong identity counts as an unresolved action
in the base sweep, because the code goes by the names of errors; the expansion is always on;
conflicting child modes are left out; the network a mesh sweep is in is observed at its
begin and end only, as the code does.

### What is proved

`Collectors_proofs` proves all three, for any numbers of routers, children, guarded children,
RLOC16s, fields and runs:

- `SweepsHideNothing` (`SweepIsSound`). `SweepInv` says where the sweep is with every target
  (`Progress`), that a pass that counts has left its row (`RowsAreKept`), and of every action
  that may still run that it is the one awaited, or was asked of a target that is left with
  an unresolved error on its record (`ActiveAreAccounted`): so what is reconciled to complete
  has nothing running behind it.
- `MeshGapsAreExplained` (`MeshExplained`), from `MeshAlone`: an action that may still run is the
  only one of its router, which is not asked again.
- `RecoveredRowsAreOfTheRun` (`RecoveredIsOfItsRun`), from `CreatedOnce`: a row's time of creation
  tells its run, in whichever file it is found.

`SweepAssumption` says that routers, listed and guarded children are apart from each other and
from RLOC16s, and that a device that is asked lists RLOC16s of its own children only.

## 9. OTBR command line

`CliAttribution`: one collection asks the mesh four times with ever smaller sets of TLVs, and
then single devices. The output of a command holds what arrived while it ran. `Ask`,
`Capture`, `Finish` are the commands and the parser; `Answer` is a device. `AttributionSound` is
two invariants: an answer attributed by its query id or its set of types is attributed to
the request it answered, and the history in a record is what the collection knows now
(`HistoryCurrent`), although attributions are revised later. Two devices, of which one has all
the TLVs, and three frames.

`CliCollection`: `networkdiag fetch-all`, from the router table through the multicast to
the direct queries of routers and children with two policies and a final ping; records are
kept by RLOC16, with a second map from addresses. `AnsweredAreKept` is three invariants
(nobody who was heard of is dropped; an answer is not taken back by a later silence;
`CheckpointIsCurrent`: between two queries the checkpoint on disk has every record of the map and
no other, with the same device and verdict, and is the map but for what routers that were
known already have added by their direct answers). A direct answer of a known router is
saved only if it changed a response history (`otbr_cli_networkdiag_topology.py:1546`), and the
upsert at line 1532 has usually merged the history before line 1535 compares it; its TLVs and
children then reach the disk with the next save, or not at all if the collector is killed first.
The model leaves `changed` open at every such place. `AnsweredAreKept` needs what the model assumes: an RLOC16 that was vacated is not
used again within the collection, the consolidated record of a multicast keeps the first
RLOC16, at most one late answer comes into the output of a direct command, no record is
satisfied before its own detail level, and an offline router leaves no status. With two
moves, `RecordsRefuted.cfg` shows that one device can be named by two records (`NamedOnce`),
which the docstring of `_upsert_device_record` says is prevented.

`CliTables`: the three per-router tables. Every router of the router table is asked and, if
that fails, pinged; results are checkpointed and saved at the end if anything succeeded.
`AllFailedRetains` (`doc/codebase_overview.md`): a snapshot is replaced by records only
of a run in which a router answered with its table. `RecordsRefuted.cfg` shows that a router
table command that was not answered is parsed as an empty table instead of raising
(`RetrievalFailureRaises`).

### What is proved

`Records_proofs` proves, for any numbers of routers, runs, devices and frames:

- `FailedRunsRetain` (`AllFailedRetains`). The invariant it needs is that a router that is
  ambiguous in the router table is recorded as failed, whatever the collection does next.
- `AttributionsAreSound` (`AttributionSound`). `AttributionInv` says that a frame answers a
  request that was sent with types that request asked for (`FramesAnswer`), so that a type only
  one request asks for identifies it; that what is known of a query id is right and has
  reached every observation of that query (`AttributionsHold`); and that records hold
  observations of their own device, of which those that a later refresh does not look up
  have no query id and so cannot be revised any more (`RecordsOwn`).

- `AnsweredStayKnown` (`AnsweredAreKept`). The invariant speaks of an owner of every RLOC16
  (`Owners`), the only device that ever had it: what is on its way, what was consolidated and
  what a query has received is of the owner of its slot (`MeshFits`, `HeardFits`), and at every
  slot the map names its owner or a placeholder, and names a device that has a place there
  (`MapFits`). Beyond that, `CollectionInv` needs that up to the direct queries of the routers a
  device is named nowhere but in its place, by no placeholder either (`Exact`: otherwise putting
  the record of a router that is known well back into the map could move another, and an answer
  that is not saved would change whom a record names), that no frame carries a verdict (`FrameFits`,
  `NoVerdict`), so that an unsaved answer adds fields and children only (`AnswerAdds`, `Current`), that the record put aside for a
  router is still the one in the map when the query ends (`TryFits`; the frames caught meanwhile
  are of other slots, `Foreign`), that a query only gives up on a child where no record says
  answered, and that who has answered is at a record that says so (`Sticks`). Upserting many
  records is a recursive function over their order; that it keeps all this is proved for every
  number of them (`FramesUpserted`), and the step takes them in any order.

`TablesAssumption`, `AttributionAssumption` and `CollectionAssumption` are assumed: `None` is
different from every request, device, slot, record and frame, the placeholder identity is no
device, the devices are finitely many, and no two of them start at one RLOC16.

## 10. Record merge

`MergeRecords` merges rows of files, in the order of their precedence, into devices: the
strong identities first, RLOC16 only where none of them matches, devices joined
when a row matches several. `mode` is one of the two of `merge_dataset`
("strict", "guard") or the builder's ("cached"). `RecordsSound` is `IdentitiesApart`,
`RowsKept` and `SummaryIsBest`. The rows of the instance share some keys and contradict each
other in others; at most four are read from three files.

`MergeFields` merges route and child tables. Sequences are of 3 bits instead of 8
(`Width`), so that they wrap. `FieldsSound`: the routes are of one version and of one partition
(`RoutesOfOneVersion`); if all versions lie within half the range, they are the newest's
(`NewestRoutes`); children are neither lost, doubled nor mixed (`ChildrenApart`). Left out
are single entries that name another partition than the device's, which the code drops
(`eligible`, `merge_policy_relationship.py:106-117`): all entries of a table are of its partition.

### What is proved

`Records_proofs` proves both properties, for any rows, files, widths, versions and children.

- `MergedRecordsAreSound` (`RecordsSound`). A device has the number of the row that created it,
  as in the code, and keeps it when others are merged into it. `RecordsInv` says of every device
  that its sources are those of its rows and its summary is the best of them, under the rank
  the summary has been given (`Summed`); that its keys do not contradict each other
  (`Coherent`); that the rows are apart (`RowsApart`); and, in the default mode, the addresses
  too (`AddressesApart`). Absorbing a device keeps `Summed` (`AbsorbSummed`), so that the
  oldest of the candidates, when it has absorbed the others, has all of their keys and rows
  (`GatheredJoins`, an induction over the numbers of the devices); it is `Coherent` since
  the candidates are compared with each other and not only with the row (`JoinedFits`).
- `MergedFieldsAreSound` (`FieldsSound`). The wrapped difference of two wrapped versions is that of
  the versions (`WrappedDifference`), so that of two versions within half the range the
  later one is found to be newer (`NewerIsLater`); and a child put into the list adds its
  address without losing or doubling one (`PutFits`, for every list `MergedFits`).

`RecordsAssumption` says that a row has at most one extended address and one Matter identity, and
`FieldsAssumption` that the sequences have at least two values; of both, that `None` is no number.

Refuted, and therefore not among the properties: `ScalarIsBest` ("Scalars retain the
highest-priority non-empty observation", `doc/merge_thread_device_info.md`): when devices are
joined, the scalar of the device found first stays. Children without an extended address
that share an RLOC16 multiply when the same tables are merged again; `ChildrenApart` is about
children that have one.

## 11. Backups, schema upgrade, policy migration

`SystemBackups` is `create_backup` and `restore_backup`. A restore either renames the
directory (`SetAside`, `Activate`, `PutBack`) or, when the directory is a mount point, moves its
children out and in one by one (`StartMoving` to `MoveBack`), and may fail or be killed at each of
them. `NothingLost`: every child of the replaced directory is in place or set aside beside
it, unless all of the restored data is in place. That holds for a kill too, but the
directory may then be incomplete and the rest be in `.previous-...`, for an operator to put
back: nothing does it at the next start. The database check at the begin of a restore releases
its lock before anything is moved (`td_system_backups.py:264`); writers in between are
not modelled, nor are a copy instead of a rename between file systems (EXDEV), the ping log and
the status command.

`SchemaUpgrade`: processes that open the store at the same time plan, lock, copy, verify,
migrate and commit; any may be killed, and a writer writes. `UpgradeHasBackup`: the step that
changes the schema finds a described copy of the very content it replaces on disk.

`HealthMigration`: a preview, reservations and one transaction per cohort, beside others
that process and prune. `Lineage`: an assessment preferred over the native one is the
upgrade of the very native one that would be preferred without it. `UndisturbedSucceeds`: it
is not ended by its own writes. `CommitsAreBackedUp`, checked with `UpgradeHasBackup` as
`ChangesHaveBackup`: what a commit changes was backed up and announced, and stays within what
the store retains. Three observations of two cohorts, two revisions, two comparisons
retained, so that the limit is reached.

### What is proved

`Operations_proofs` proves, for any finite set of files, any processes, cohorts, observations,
revisions and limits:

- `RestoresLoseNothing` (`NothingLost`). The invariant says, for every stage of a restore, where
  each child of the replaced directory is: staged beside it, aside, split between the
  directory and `previous` while children move out, replaced by the staged one while they
  move in, and so on; `KilledSafe` is what is left of it after a death.
- `MigrationsAreSound` (`MigrationSound`: `Lineage` and `UndisturbedSucceeds`). `MigrationInv` adds to
  `Lineage` that the comparisons a migration found and those it reserved fit the limit
  together (`WithinLimit`), that its backup holds what it found and what it added
  (`BackupHolds`), and that, if nobody else wrote, the store is what it was at the preview but
  for the cohorts that are done (`Untouched`).
- `ChangesAreBackedUp` (`ChangesHaveBackup`), from `MigrationInv` and `UpgradeInv`: whoever is
  between the lock and its end holds it, what it planned from is still there, and once it
  migrates, a described copy of the present content is among the backups.

Assumed are `FilesAssumption`, `UpgradeAssumption` (versions are numbers, `Nobody` is no process) and
`MigrationAssumption` (every observation has one of finitely many cohorts, and the store has at
least one revision).

## 12. Health history

`HealthAbsences`: when is an expected device Offline? Collections are processed into
observations once, twice, late, out of order or by different datasets, while the roster
changes; each assessment counts prior absences from the retained rows
(`_qualified_absence_groups`, `_count_qualified_absences`). `OfflineIsAbsence`: only a device that
none of the last two collections since it is expected has seen is Offline, and a Strong
network has its absences decided. The converse (`OfflineIsIndependent`, "independent of
other roster devices") does not hold: for a dataset of one file, another observation
of the collection that has seen one missing device makes the history unavailable for all
of them. It is stated in the module and is no property of a run.

`HealthComparisons`: the comparisons a save and a roster change make on their own, those that
are requested, the prepared bodies and pairs, the paged `prepare-history`, prunings and purges.
`PreparedIsCurrent` joins four: a prepared row is of the samples there are;
`StoredIsDerived`, a stored comparison of observations that were kept since says what deriving
it again would;
`PreparedWhenDone`, the pages leave nothing out; and `RemovalsAreWitnessed`, a link is only
"removed" if a file that reported it was collected again and reported all but it. Left out:
comparisons of two assessments of one observation, metric items (counters are never
comparable), the advance of the device's revision by `purge_device` (in `HealthRoster`),
and a cursor over an inventory that changed, which is refused. Retained references are all or
none. A device purged from an observation stays in the comparisons with observations that were
pruned. The attempt to prove `StoredIsDerived` of all comparisons of retained assessments found that
a comparison outlives the observation it is of: `_prune_observations`
(`td_health_sqlite.py:3422`) deletes none. So a device is purged from an observation, a later one is
compared with what is left, the first is pruned and then processed again: its samples, the
purged ones among them, are back under the same ids, and `_auto_compare` keeps the comparison it
knows. TLC confirms it with one more assessment than the run has; the premise `Kept` is that
neither observation was stored again after the comparison was made (`at`, its `created_at`).
Four observations, of which two are retained, two comparisons and three prepared rows at most.

`RosterFacts`: what the source files of an observation state of a device, the last-known row
of every field, the alias conflicts and the names shown on a page. `FactsSound`:
`LastKnownUndisputed`, `CollisionsAreReal` (though conflicts are stored and rows expire),
`NamesApart`. `FactsAdvance`: `CollisionsAreMarked`, `KnownNeverGoesBack`. `device_identity_conflicts`
keeps one partner for each device, the least, whose own age nothing limits but its expiry
(`td_health_sqlite.py:1082`); a read shows a conflict only with a recent partner
(`td_health_read.py:393`). So of three devices of one value, of a field that does not expire
(`eui`), an old row of the first hides the recent collision of the other two.
The attempt to prove `CollisionsAreMarked` found this, TLC confirms it with three devices, and the property has
the premise that no row that shares the value is older than the window; the instance has two
devices. Rows of an older policy digest are never replaced by rows that are not newer; a device seen
only in incomplete observations has no fields. In the instance no file contradicts itself. Between
files of one time the code takes the greater `observation_id` (`td_health_sqlite.py:1050`), the
model the later observation.

`MeshGraph` is the depth-first search of `analyze_undirected_graph`, one neighbour at a time;
`PathsFound` compares what it reports with the definition of a bridge and an articulation point
in `Connectivity`: at every moment it reports only true ones, at the end all. Checked for
every graph of five devices.

`NetworkVerdict` is the rules, the coverage pillars and the status as operators
(`Evaluation`), and the reassessment, which keeps the findings of all rules but those of
`ROSTER_REASSESSMENT_RULE_IDS`. `VerdictSound`: `ReassessmentIsEvaluation` (a reassessment
says what evaluating the observation under the present roster would), `PoorHasGrounds`,
`GapsCap`. An observation differs from the usual one in at most `MaxUnusual` = 2 respects.
The shipped profiles all have `externalRouting` at "limited", so `strong` cannot be
reached with the shipped manifest; the instance has a profile that judges everything.
Of the material rules, two that can only be moderate are left out: the ratios of observed link
quality (`network.observed-link-quality-ratios`, `td_health_evaluator.py:1686-1730`) and queued
messages (`relationship.queued-messages`, 1309-1346).
`SufficientHasEvidence` ("evidence actually present") is refuted: a pillar whose rules found
nothing to judge is sufficient. It is stated in the module only.

### What is proved

`HealthHistory_proofs` proves the six properties of the run, over `MCHealthHistory`, for every
value of the constants of the parts they are about:

- `OfflineWereAbsent` (`OfflineIsAbsence`). `AbsencesInv` is small: what a device is said to be
  is recomputed from the retained rows whenever one is processed. A history is cut off at the newest `Required` qualified
  collections; `LastOnes` says what such a cut of a sequence of numbers keeps, by the argument
  of the least number (section 13).
- `VerdictsAreSound` (`VerdictSound`). The assessment is always `Evaluation(obs, inputs)`, which a
  reassessment reaches from the stored findings because the findings of
  `ROSTER_REASSESSMENT_RULE_IDS` are those of rules that an observation's own findings never
  name (`RulesApart`). That a "Poor" link cuts a part off needs what a bridge is: `Reachable`
  is the least set closed under the edges (`ReachableIsLeastShut`), so the ends of a bridge do
  not reach each other without it (`BridgeSeparates`).
- `FactsAreSound` (`FactsSound`). `FactsInv` adds to the parts themselves that no row and no sample
  is from the future. `NextRowIs` says what a row that replaces another one comes from: the
  best of the dated candidates of an undisputed field, which all say the same.
- `FactsGoOn` (`FactsAdvance`), from the same invariant, one lemma for each of the two.
- `ComparisonsAreCurrent` (`PreparedIsCurrent`, all four). `ComparisonsInv` says of every prepared pair
  that its ends are assessed, and that its items are those of the samples left under the versions
  its key names (`IsPair`); of every comparison that it is not of the future, that its items are derived from
  some samples, and from those there are while it is `Kept` (`IsComparison`); and that a cursor's pairs
  are prepared (`CursorInv`). A page needs that the cursor's inventory did not change: a step that leaves the
  assessments alone drops no pair unless the table is full (`CursorStays`). For the saving of an
  observation that rests on `Roomy`: a retained observation has a place among the newest, so one
  that is processed again is not pruned at once. `SetToSeq` is what the library of finite
  sets says of an injection of equal size (`SequenceOfSet`).

Assumed are the modules' own assumptions, which the run evaluates: numbers are numbers, at least two
collections are required, ranks are positive, devices are finitely many, a link has a router at
one end (children do not report links to each other), an expected device is a router or a
child, the partition is one of the six values of the schema, the intervals of a comparison are finitely
many numbers, and at least one observation is retained; the nodes of a mesh are a finite set of numbers,
in the order of their ids.

## 13. What is not modelled

- The browser, but for `submitRosterAction`: loading sessions, rendering, filters. A poll's answer
  for a session that was replaced (`js/tdash-dataset.js:328`) is a hazard without a property.
- One-shot conversions and collectors without concurrency: mDNS, Eve, label map, catalog,
  conversions, the text parsers, argument parsing, packaging.
- Read endpoints: routing, headers, redaction, paging.
- In what is modelled: power loss (the `.restore` copies of a recovery are renamed without
  fsync), staging directories left by a kill, multi-source composition, contents of rows.

Hazards of the code that no property covers and that are known from modelling it: a
max-age smaller than the catalog's is forgotten while a request waits (section 6); a job's TTL
counts from its creation (section 4); the previous directory of a killed restore is
left to the operator (section 11).

Every invariant and every action property of the passing runs is a theorem. Only model-checked is
the liveness under fairness, which is out of the prover's reach, as is ENABLED:
`RecoveredOrStuck` (section 3), `LiveJobsSettle` (section 4), `EveryRequestEnds` (section 7).
What folds over sequences and sets compute is beyond the library, whose induction theorems take
operators as parameters. Where the step is one fixed operator, an induction is possible nevertheless: that every set of numbers has a least one is a theorem without such a parameter, and
the least index at which something fails cannot exist. `Collectors_proofs` does that for the
events of `MatterSnapshot` (`LeastNumber`, `UpTo`, `OneWay`), `Records_proofs` for the records
that join the map of `CliCollection` (`WayExists`, `FramesUpserted`), for the devices that
become one and for the children of a list (`AbsorbingExists`, `PuttingExists`).

## 14. Running

`tlc -config X.cfg M.tla` for a row of the tables of section 2, with the community modules on
the path; `tlapm M_proofs.tla` for each of the eight proof modules. No cfg replaces a definition.
