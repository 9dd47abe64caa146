# Verification of the ShakeMap service

TLA+ models of the service under `src/shakemap_service/` and of the operator's
commands and scripts around it, the TLC configurations that check them on small instances, and TLAPS proofs.

The service accepts earthquake calculations over HTTP, queues them as
directories on disk, runs the external ShakeMap program for them on a bounded
number of threads, and publishes products.  Everything that must survive is a
file: there is no database, and atomicity is made of `rename`, `fsync`, `flock`
and one journal per calculation.  What a unit test hardly reaches is an
operation that fails, or a process that dies, between two of these.  That is
what is modelled.

## Inventory

| Component | State it keeps | Operations | What makes it correct |
|---|---|---|---|
| Submission (`submission.py`) | `input/<event>`, private `.accept-*` trees, `queue/<sequence>`, the sequence counter | publish uploads with one rollback, snapshot, allocate a sequence, publish the entry by one rename | a sequence is never used twice; an entry is complete; the caller's bytes are not lost; nothing is published while the service is not ready |
| Lifecycle records (`status.py`) | `status.json` of a record, QUEUED, RUNNING, SUCCESS or FAILED | atomic replacement under the directory's flock, transitions, scans | only allowed transitions; a scan tells malformed from absent |
| Scheduler (`scheduler.py`, `queue.py`, `worker.py`) | worker slots, event reservations, errors (memory) | `tick`, `_run_calculation`, `_ensure_terminal`, `_release` | per-event order and exclusion, capacity, nothing started twice, everything accepted ends |
| Recalculation (`recalculation.py`) | `transaction.json`, private stage, archive, private native tree, `products/<event>`, `events/<event>` | prepare, finalize, reconcile | preceding products archived or removed as requested, never lost or halved; an interrupted transaction is always completed |
| Startup recovery (`startup_recovery.py`) | none | fail every RUNNING record, in order | nothing RUNNING is left, nothing is run again |
| Calculation (`calculation.py`, `calculation_finalization.py`, `product_manifest.py`, `provenance.py`, `calculation_log.py`) | phase, manifest, provenance and logs of the current record | the phases from preparation to the terminal record | SUCCESS only with complete, matching evidence |
| Runner and shutdown (`runner.py`, `main.py`) | launch gate, active native processes, shutdown flags | launch, terminate, kill, drain | no child is missed, no second life beside a running thread |
| Readiness and finalization (`readiness.py`, `finalization.py`, the admission task of `main.py`; `finalize-`, `start-`, `stop-`, `verify-` scripts) | readiness record, bootstrap marker, provisional grant (memory), coordination lock, the canonical container | begin, arm, consume, record ready or failed, admit; the scripts' steps | work is admitted only on readiness that was earned; a marker serves one process; data change only while nothing runs; a finalization ends |
| Public views (`public_views.py`, `status.py` scans) | none | scan queue, scan current records, look for journals, list archives, read evidence, merge | no calculation disappears, none is shown in a state it has left, evidence belongs to its row |
| Preparation (`preparation.py`) | active and staged operator data files | provision, stage, activate | the operator's own file is never replaced unasked; a refused activation changes nothing |
| Verification package (`prepare-shakemap-verification-data.py`) | the package at its destination, preserved legacy packages | prepare, migrate | what is installed was validated; nobody's tree is destroyed |
| The rest | configuration, profiles, product inspection, identities, paths, CLI, permission repair | | sequential and without protocol: not modelled |

Who calls whom: the HTTP endpoint calls submission in a thread pool; an
admission task calls `Scheduler.tick` once a second under the coordination lock;
a worker thread calls `execute_calculation`, which prepares the trees
(recalculation), runs the native program (runner), publishes evidence and
writes the terminal record; when it raises, the worker reconciles.  At startup,
before the scheduler exists, recovery reconciles every RUNNING record.  Queue
scans take a shared flock on the queue directory, which promotion does not
take.  The HTTP views read the same directories in the server's thread pool.
Submission and admission ask readiness, which the finalization script changes
from processes of its own, with the coordination lock and two files in common;
the script also runs activation of staged data and uses the verification
package.  Hard are: failure and death between two directory operations, a second
failure during recovery, an unreadable entry in the queue, an error that leaves
a slot or a reservation behind, the order of calculations of one event, a view
that reads while records move, and commands that meet without a lock.

## Modules

| Module | Models |
|---|---|
| `Recalculation` | the transaction of one event, step by step, with faults, kills and power failures |
| `RecalculationInv` | its inductive invariant |
| `RecalculationProofs` | the theorems about it and their TLAPS proofs |
| `Scheduler` | queue, scan, admission, workers, startup recovery, for all events together |
| `CalculationQueue` | abstract: what the queue promises a caller; `Scheduler` implements it |
| `RecordMoves` | abstract: how records move under the eyes of a reader; `Scheduler` implements it, `PublicViews` reads it |
| `Execution` | the phases of a calculation with their evidence, the native processes, shutdown and the next life of the application |
| `Submission` | concurrent requests for one event, from the uploads to the queue entry |
| `OutcomeEvidence` | the durability of one calculation's evidence and status, with kills and power failures |
| `Readiness` | readiness, the marker, admission, and the finalize, start and verify scripts, step by step |
| `PublicViews` | a view as a sequence of directory reads between the moves of `RecordMoves` |
| `DataAssets` | provisioning, staging and activation of the global data files |
| `VerificationPackage` | preparation and migration of the verification package |
| `SchedulerProofs`, `SubmissionProofs`, `ExecutionProofs`, `ReadinessProofs`, `PublicViewsProofs`, `DataAssetsProofs`, `VerificationPackageProofs` | the inductive invariants of these modules, the theorems and their proofs; those about `OutcomeEvidence` are the last part of `RecalculationProofs` |
| `MC...` | symmetry sets and constant values for TLC |

Definitions named `...Variant` in their comments ("Variant: ...") are plausible
mistakes, one for each property: substituted for the definition that follows
them they make TLC report that property violated.

### Recalculation

`disk` is what the kernel shows of one event: the two public trees
(`products/<event>` and `events/<event>`), the private stage, the archive, the
private native tree and its files, the record's status and the journal.
`survivors` are the images a power failure may leave.  `actor`, `at` and `phase`
say who works (the calculation's preparation, the calculation itself, or
reconciliation), at which named operation, and whether it is at the directory
operation, its fsyncs, the checkpoint, or the checkpoint's fsync.

Every directory operation of `prepare_calculation` and `reconcile_transaction`
is an action.  `rmtree` is not atomic: a tree is torn before it is gone, and the
native tree loses file after file.  `Abort` is an exception in the calculation,
`Fault` one in reconciliation (with and without the evidence reaching the
journal), `Kill` the end of the process, `PowerLoss` the end of the machine,
`Restart` what startup recovery does, `NextCalculation` the next claim of the
same event, which starts from whatever the last one left.

The file system is assumed to be ordered, as journaling ones are: operations
reach the medium in the order they were made, and an fsync makes all earlier
ones durable.  A missing fsync is therefore noticed only where something that
must not be undone depends on it.

Abstracted: bytes, names, timestamps, identities (the code compares them; a
mismatch would be damage from outside), and the text of warnings and failures.

### Scheduler and CalculationQueue

A calculation is a sequence number with an event, a status and a place (queue,
current, retired).  `tick` holds the scheduler's lock over several steps, as
the code does: list the queue, read entry after entry, then consider the
records in order.  Workers do not hold the lock while they run, so promotion,
terminal writes and journal removal happen between any two steps of a scan.
`pc[s]` follows `_run_calculation` for the record `s` through the callback, the
reconciliation after an exception, and the terminal checks; `"kept"` is a
worker that returned without releasing.  Waiting entries may become unreadable
and be repaired (external).  Any operation may raise and the process may die.

`CalculationQueue` knows only events and statuses: `Start` requires that every
earlier calculation of the event is terminal and that fewer than
`MaxConcurrent` run.  `QueueRefined` says that the scheduler does nothing else.

`RecordMoves` is a second abstraction of the same module, for readers: the
status, the place and the journal of each record and which transactions hold
their flocks, without threads, memory, faults and crashes.  `MovesRefined` maps
`held` to the records whose worker is inside its transaction.  It is what makes
the interleavings of `PublicViews` those of the scheduler and not invented ones.

### Execution

`pc[c]` is the step of `execute_calculation` the worker of `c` is at; the four
phases and the failure path are functions from a step to the next.  `evidence[c]`
holds what the terminal finalizers look for: the manifest (partial or complete),
the provenance (of a failure or a success) and the two logs.  Every step may
raise, before or after its effect; the writers of evidence also raise when the
record on disk is not RUNNING any more.  `tracked`, `abandoned` and `signalled`
are `_active_processes` and the two flags of its entries.

The native program is external: it runs as long as it likes, ends in three ways,
survives SIGTERM if it likes, and ends after SIGKILL.  `_shutdown_scheduler` is
four actions; its waits have a time limit, so each of the next steps may come at
any time.  A process that ends while it is being polled and signalled may be
counted as terminated by the service.  `Reopen` is the next lifespan in the same
process, as the tests and an embedding server start it.

The trees, the journal and crashes are left to `Recalculation`, reservations and
slots to `Scheduler`; `Begin`, `Finalize` and `Reconcile` stand for them.

### Submission

`pc[r]` follows `accept_request` for the request `r`.  `disk` holds, for one
event, the input directory (whose bytes each file holds), the tree of each
request (private, in the queue, current, ended), the private links to bytes an
upload is replacing (`hold`), the snapshots, the sequence written into each
record, and the counter; `survivors` are the images of a power failure, as in
`Recalculation`.  Each rename, link, unlink and fsync that another step depends
on is an action; what a failing one leads to (the one rollback, keeping the
private tree, the cleanup) is what the code does in its `except` clauses.

The caller shares the input directory with the service and takes no lock: new
files appear at any time.  That the caller changes or removes a file while the
service works on it is excluded; the code excludes it too ("hold this event's
input stable").  The consumer of the queue and the operator's finalization are
reduced to what submission can see of them.

Four variables are only there for the properties: the bytes each input must keep
(`settled`), what was rolled back, the sequence each entry was visible under,
and who was acknowledged before a request began.

### OutcomeEvidence

`Execution` has the phases of a calculation among threads; this module follows
one calculation to the disk.  `now` is what the file system shows, `medium` what a
power failure leaves.  Manifest, provenance and status are written, synced,
renamed, and their directory synced (`Replace`, then `Sync`); products and
`shake.log` are written by the native program and reach the disk whenever the
kernel likes (`Flush`).  `Writes`, `OnReturn` and `OnError` are the success path,
the failure path and the reconciliation as functions of the step.

### Readiness

`disk` is the readiness record and the bootstrap marker, `survivors` the images
of a power failure.  What the code does under the coordination lock is one step,
with the outcomes a failure in its middle leaves: the record not replaced,
replaced and not synced, the marker removed and not synced.  `container` says
which image runs and which image id its environment claims; `service` is the
process in it with `_provisional_ready`.  The finalization script is followed
command by command (`FLoad` to `FHealth("confirm")`), with its failure handler, beside the
start and the verify script; it may be killed between any two commands.
`Submit`, `Admit` and `Finish` are the work the service accepts, admits and
ends, for one caller and for the verification request.

Docker and the operator are the environment: the tag may move (`make build`),
the container may be stopped or die, the machine may lose power.  A
`docker start` by hand happens only when no finalization is running.  The verify
script talks to the published port and does not see an isolated container.

Five variables exist for the properties: how many lives each marker granted, what
was verified, whether a failure was recorded, whether the gate refused, and
`overtaken`: a start was between its check of readiness and its container when
the marker was last armed.  The last one is an exception the code has.
`start-shakemap-docker.sh` takes no lock.  When it has passed `check-ready`, a
finalization arms its marker and is killed, and the next one removes the
container, the delayed start creates a published container, which uses up the
marker that was left and is provisionally ready: it admits work on a record that
says `finalizing`, beside a finalization at work.  It takes three finalizations,
the first of which made the deployment ready.  `AdmissionIsEarned` and
`IdleWhileDataChanges` say that nothing else leads there.

### PublicViews

`read` is one request being answered: list the queue, open and read entry after
entry, list `events/`, open and read the records, look twice at the directory of
each waiting event for a journal, and, for one event, list the archive and read
provenance and manifest.  A listed name may be gone, or lead to another record,
when it is opened; a descriptor follows a directory that is moved.  The shared
flock of the queue keeps only submission out.  Reading a record or the archive
waits for the transaction that holds its flock.  `Shown`, `Rows` and `Reason`
are the merge and the projection; each error path is an answer of its own.
Of the evidence only what is read with its identity is modelled (provenance and
the manifest's contents).  The paths of manifest and logs, which
`_optional_regular_file` attaches to a row without looking whose files they are,
are left out, and so is a malformed tree in the archive, which is answered with an
error and nothing else.

A view is not a snapshot, and the properties say what remains: the collection
may show a replaced calculation RUNNING beside its successor and then counts
more running calculations than `maximum_running`; one sequence may be among the
jobs and among the archives; a record that an interrupted transaction left in
its private stage is in no view.

### DataAssets

`dir` holds, for each asset, the file under the active and under the staged
name; `disk` is what a power failure leaves of it.  `run[h]` follows a command:
`provision` (check, fetch, validate, link), `stage` (fetch, validate, replace,
sync), `activate` (validate all, then replace and sync one after the other).  No
lock keeps two commands or the operator apart.  A fetched file is `"unflushed"`
until the kernel writes it back, since nobody syncs its bytes.

The operator may put a file, a directory, a symbolic link that leads somewhere or
one that leads nowhere under an active name.  Activation refuses a directory and
a link it can follow when it scans; `exists()` does not see a link that leads
nowhere, and what is made after the scan is not looked at.  `os.replace` then
replaces a link as it replaces a file, and only a directory stops it.  `OwnIsKept`
says this: nothing but the activation of a valid staged file takes what the
operator has put there, and nothing takes a directory.

### VerificationPackage

`dest` is the tree at the destination.  Both commands look at it, build for
minutes in a directory of their own, validate, and only then move; the migration
verifies the legacy package first, moves whatever stands at the destination
aside, moves the new one in and rewrites its manifest inside it.  A private
staging tree a kill leaves behind is never looked at again and is not kept in the
state.  The operator puts trees at a free destination and moves trees aside at any
time, between two steps of a migration too.  The rollback is two steps, the test
that the destination is vacant and the `os.replace`; a temporary manifest that an
interrupted `write_text` leaves in the package stays there, goes aside with it and
comes back with it (`stray`, `carried`).

Two things the lack of a lock does are in the properties as exceptions.

- `NothingDestroyed`, for any number of preparations.  A migration loads the
  manifest by its name and replaces it by its name.  A tree that comes to the
  destination in between, put there by the operator or by the rollback of another
  migration, gets the manifest of the package (`Overtaken`).  No other tree of the
  operator's, and no legacy package, suffers from any order of steps, error or kill.
- `LeftIsValid`, for two preparations.  The operator may act at any time except
  on a destination whose migration is between its first move and its end
  (`meddled` records that he did).  With three preparations it fails without any
  error: one migration installs its package, a second one moves that aside,
  installs its own and reads its manifest, a third one moves that aside too, the
  first rolls the legacy package back to the vacant destination, and the second
  writes its manifest into the legacy package (`MCVerificationPackageThree`).

`LeftIsValid` is about the package's own files.  That no temporary manifest is
left in the package does not hold for two migrations either: one writes its
temporary manifest, the other moves the package aside with it; the first cannot
replace the manifest and rolls the legacy package back, so that the second cannot
move its package in; the first migrates once more and the second, whose test of
the destination fell between these moves, restores the package with the extra
file, which every later validation refuses.

## Runs

| Run | Bounds | Distinct states | Shows |
|---|---|---|---|
| `recalculation` | 2 request files; interruptions unbounded | 71 819 | `PrecedingConserved`, `DestructionDeclared`, `NeverContradicts`, `PublishedWhole`, `ArchiveWhole`, that an outcome never flips, and that calculation and recovery end (`NeverHangs`, `RecoveryCompletes`) |
| `scheduler` | 3 calculations of 1 to 3 events, 2 workers, 2 faults, 1 crash | 1 783 000 | exclusion and ownership, and both refinements |
| `scheduler_live` | 3 calculations of 1 or 2 events, 1 worker, 1 fault, 1 crash | 157 436 | `EveryoneIsServed`, `CapacityReturns` |
| `execution` | 2 calculations, symmetric, 2 faults; shutdowns unbounded | 1 823 244 | evidence, registration, signalling, blame, the next life |
| `execution_live` | 1 calculation, 2 faults | 8 662 | `ShutdownSettles` |
| `submission` | 2 requests, symmetric, 2 files, 2 faults; crashes unbounded | 1 858 178 | sequences, snapshots, the caller's bytes, durability, finalization |
| `outcome_evidence` | 2 failing writes, 2 crashes | 4 434 | a SUCCESS keeps its manifest and provenance through any crash; one failed write leaves no contradiction |
| `readiness` | 2 images of one release, 1 caller, 3 finalizations, 1 fault | 731 064 | `AdmissionIsEarned`, `OneLifePerMarker`, `IdleWhileDataChanges`, `FinalizationEnds` |
| `readiness_waiting` | the same, 1 fault; expects a violation | | the gate asks to wait for what nobody admits |
| `public_views` | 2 records of 1 or 2 events, one of which may be unreadable | 4 349 028 | `NothingVanishes`, `FinishedStaysFinished`, `EvidenceBelongs` |
| `data_assets` | 2 commands at a time, 2 assets, the operator at one of them, 1 fault | 2 740 905 | `OwnIsKept`, `RefusedChangesNothing` |
| `verification_package` | 2 commands at a time, 2 faults; the operator at any time | 650 583 | `LeftIsValid`, `NothingDestroyed` |

Further configurations are kept for those who change a module.  They hold what
the runs above do not need every time:

| Configuration | Shows |
|---|---|
| `MCRecalculationInvariant` | `IInv` and the two proved invariants that no run lists |
| `MCSubmissionLive` | `TypeOK`, `EveryoneIsAnswered` (2 requests, 1 file, 1 fault) |
| `MCExecutionNatives` | `TypeOK`, `NativesEnd` (1 calculation, 2 faults) |
| `MCReadinessLive` | `TypeOK`, `RevokedIsNotReady`, `GrantEnds` (1 fault) |
| `SchedulerProofs`, `SubmissionProofs`, `ExecutionProofs`, `ReadinessProofs`, `PublicViewsProofs`, `DataAssetsProofs`, `VerificationPackageProofs` | the inductive invariants that are proved, on small instances (2.1 million, 3.7 million, 3.6 million, 454 thousand, 383 thousand, 83 thousand and 11 million states), with `CurrentIsNewest`, `RetainedIsTerminal`, `BlockedIsSaid`, `OnlyPinnedIsInstalled` and the liveness property `ReadEnds`, which no run lists |
| `MCVerificationPackageThree` | the counterexample with three migrations, see `VerificationPackage` |
| `MCReadinessImage`, `MCPublicViewsMalformed`, `MCPublicViewsUnknown`, `MCDataAssetsAtomic`, `MCVerificationPackageLegacy`, `MCOutcomeEvidenceProducts` | counterexamples, see "Where code and documentation disagree" |

Bounds.  One event is enough for the transaction: it touches nothing of other
events.  Two files let a copy and a removal stop half way; the proofs cover
every set of files.  Calculations of an event may follow each other for ever
and interruptions are not counted, so the state space of the transaction is
complete.  In the scheduler three sequences are the fewest in which an entry
waits behind another of its event while a third event runs, and in which a
barrier has something on both sides; two faults let a reconciliation fail after
a failed callback; one crash reaches startup from every state.  For its liveness one
worker is enough: the one fault that costs its slot stops admission.
In the execution two calculations meet in the launch lock, the registry and the
two signalling rounds; the second fault is needed for a failure of the failure
path.
In the submission two requests meet in both locks and in the
counter, two files let a request fail between them, and two faults let the
rollback fail after the replacement.
In the readiness the second finalization meets what the first left, the third
what a killed second one left of a deployment the first had made ready, and two
images are what a rebuild needs; a second fault, which interrupts the recovery
from the first, is in `ReadinessProofs.cfg`, with one image.  In the views two records are the fewest of which one replaces the
other, and the events of the instance let them be of one event or of two.  In the
data two commands meet in one directory, and a second asset is what a refusal
must leave alone.  Two commands meet at the destination of the package; that three may damage it is
known.  Both runs use a `VIEW` that takes states for equal which differ only in
what no later step and no property of the run asks for: the medium after the last
fault, and which of the names a tree that was put aside has.  In the outcome the second fault
makes the failure path fail and the second crash interrupts recovery.

Fairness.  Threads run (`WF` of the work steps), a stopped service is started
again (the container's restart policy), and the scheduler's lock is granted to a
waiting worker sooner or later: admission sleeps a second between two ticks, so
the lock is free again and again, which is why `SF` and not only `WF` is assumed
for workers.  A step of a calculation is assumed to end; that the native program
does not is the subject of `execution_live`.  Nothing is assumed of faults, kills
and power failures: where a step of `Scheduler` or `Execution` may succeed or fail,
fairness is of the step that does not fail (`faults' = faults`), so that nothing is
resolved by an exception nobody guarantees.
In `execution_live` threads run, shutdown proceeds once begun (its waits have a
limit), and a process that was sent SIGKILL ends.  Nothing makes the native
program end by itself, and nobody has to begin a shutdown.
In `readiness` the scripts and the service run, the admission task ticks (`SF` of
`Admit`: it is possible again and again, once a second), and a stopped container is
started again.  An admitted calculation is assumed to end; the deadlines of the
script, which bound its waits besides, are among the faults, of which nothing is
assumed.
In `MCSubmissionLive` the locks are flocks, which the kernel grants to waiting
threads, hence `SF`; the upload stream is assumed to end, as `accept_request`
reads it from a form that has been received completely.  In `PublicViewsProofs.cfg`
a transaction ends (`NeverHangs`) and a released flock goes to who waits for it.

Liveness is stated with the exceptions the code has.  A service that stays down
or a reconciliation that fails leaves its record (`NeverHangs`).  An accepted
calculation ends unless it is obstructed from some moment on for ever
(`EveryoneIsServed`).  `Obstructed` lists what the code leaves in its way, and
without each of its parts TLC finds a counterexample:

- a journal beside a finished current record.  A crash between the terminal status
  and the removal of the journal leaves one that startup does not look at, since
  the record is no longer RUNNING; the event accepts no further calculation until
  an operator acts.  `tests/test_scheduler.py` expects this.  The journal of a
  calculation at work is no obstruction: one that hung would violate the property;
- the reservation of a thread that has given up on its record;
- no worker slot left, because such threads kept theirs;
- an entry that cannot be read, before it in the queue or at startup.

`CapacityReturns` says that a slot comes back unless its thread could not establish
that its record is finished (`Lost`), and that one failing operation costs one slot
at most.

## Proofs

Every safety property the runs check is proved for all values of the constants.
Each module of proofs states an inductive
invariant as a conjunction of named parts, proves it action by action, and
derives the properties from it.  The invariants were checked with TLC before
they were proved, with the configurations of the same names.

| Module | For every | Theorem | States |
|---|---|---|---|
| `RecalculationProofs` | set of request files | `RecalculationInvariant` | `IInv` |
| | | `TypeCorrect` | `TypeOK` |
| | | `NothingLost` | `PrecedingConserved` |
| | | `NothingDamagedUndeclared` | `DestructionDeclared` |
| | | `ReconciliationNeverRefuses` | `NeverContradicts` |
| | | `PublicationIsWhole` | `PublishedWhole` |
| | | `ArchiveIsWhole` | `ArchiveWhole` |
| | | `RunningJournaled` | `RunningIsJournaled` |
| | | `SettledClean` | `SettledIsClean` |
| | | `OutcomeStays` | `OutcomeNeverFlips` |
| | number of faults and of crashes of `OutcomeEvidence` | `SuccessKeepsEvidence` | `SuccessHasEvidence` |
| | | `OneFailureIsToldRight` | `EvidenceAgrees` |
| `SchedulerProofs` | set of events, number of calculations, of workers, of faults and of crashes | `SchedulerTyped` | `TypeOK` |
| | | `OneTransactionAlways` | `OneTransaction` |
| | | `WorkersAlwaysOwn` | `WorkersOwnTheirEvent` |
| | | `CurrentAlwaysNewest` | `CurrentIsNewest` |
| | | `RetainedAlwaysTerminal` | `RetainedIsTerminal` |
| | | `SchedulerImplementsQueue` | `QueueRefined` |
| | | `SchedulerImplementsMoves` | `MovesRefined` |
| `SubmissionProofs` | finite set of requests, set of file names, number of faults | `SubmissionTyped` | `TypeOK` |
| | | `SequencesNeverReused` | `SequenceNeverReused` |
| | | `AcknowledgedAlwaysFirst` | `AcknowledgedFirst` |
| | | `EntriesAreWhole` | `EntryIsWhole` |
| | | `BytesAlwaysKept` | `BytesAreKept` |
| | | `AcceptedStaysDurable` | `AcceptedIsDurable` |
| | | `QuietDuringFinalization` | `QuietWhileFinalizing` |
| `ExecutionProofs` | finite set of calculations, number of faults | `ExecutionTyped` | `TypeOK` |
| | | `SuccessAlwaysBacked` | `SuccessIsBacked` |
| | | `ChildrenAlwaysAccounted` | `ChildrenAccounted` |
| | | `NoneEverMissed` | `NoneMissed` |
| | | `BlameAlwaysRight` | `BlameIsRight` |
| | | `SecondLifeAlwaysAlone` | `SecondLifeIsAlone` |
| `ReadinessProofs` | set of images, of requests, number of finalizations and of faults | `ReadinessTyped` | `TypeOK` |
| | | `AdmissionAlwaysEarned` | `AdmissionIsEarned` |
| | | `OneLifeForAMarker` | `OneLifePerMarker` |
| | | `AlwaysIdleWhileDataChanges` | `IdleWhileDataChanges` |
| | | `RevokedStaysClosed` | `RevokedIsNotReady` |
| `PublicViewsProofs` | set of events, number of records, of workers, set of records that may become unreadable | `ViewsTyped` | `TypeOK` |
| | | `NothingEverVanishes` | `NothingVanishes` |
| | | `FinishedAlwaysShown` | `FinishedStaysFinished` |
| | | `EvidenceAlwaysBelongs` | `EvidenceBelongs` |
| | | `BlockedAlwaysSaid` | `BlockedIsSaid` |
| `DataAssetsProofs` | set of helpers, number of assets and of faults | `AssetsTyped` | `TypeOK` |
| | | `InstalledIsPinned` | `OnlyPinnedIsInstalled` |
| | | `RefusalChangesNothing` | `RefusedChangesNothing` |
| | | `OwnFileIsKept` | `OwnIsKept` |
| `VerificationPackageProofs` | one or two helpers (`TwoAtMost`), number of faults | `PreparationsLeaveValid` | `LeftIsValid` |
| | set of helpers, number of faults | `NothingIsDestroyed` | `NothingDestroyed` |

The invariants, and why they are needed:

- `IInv` of the recalculation.  What a step may find on disk depends on the
  checkpoints the journal holds, and the journal may be older than the
  directories.  `IInv` says which images are possible: untouched, staging,
  removing, archived (before promotion), or current with its stage of the native
  tree; each is tied to what the journal says in the image.  To this it adds what
  the acting thread knows at its step, and that every surviving image is possible
  too.  The lemmas `Moved`, `Still` and `Synced` reduce an action to three cases:
  it changed the disk to another possible image, it changed only the thread's
  position, or it synced.
- Scheduler.  A record has one of nine shapes of status, place and journal
  (`Shapes`), and each step of a thread determines which (`Threads`).  `Ordered`
  is the order of an event: a calculation begins when all earlier ones are
  terminal and have no journal.  It survives admission only because of what the
  scan knows (`Scanned`): every QUEUED record it has passed over is behind the
  barrier or of an event already seen.  `Owned` ties threads to reservations and
  slots while the service is up, `Resting` says what recovery may find.  Both
  refinements follow step by step from this invariant; the crash is a stutter
  of the queue and a release of flocks in the moves.
- Submission.  `Local(r)` says what holds of one request at each of its steps
  (locks, uploads still to publish, the private link of the bytes it replaces,
  its tree, its snapshot, its sequence) in every image a power failure may leave.
  A request's own step is proved to keep its own part; that it keeps the others'
  is one lemma (`Frame`) about what a step leaves alone.  That no sequence is
  reused rests on the counter being synced before the entry is renamed:
  `used[r] < d.counter` in every image `d`.  `Kept` names who keeps the bytes the
  input directory has lost for a moment.
- Execution.  `ThreadOK(c)` ties the step of a thread to its native process: a
  process that may run is registered; between its verdict and SUCCESS it is
  registered no more and was not signalled, so that no later shutdown can touch
  it.  `ShutdownOK` is the launch gate.
- OutcomeEvidence.  `BothEvident`: what the file system shows and what a power
  failure leaves both have the evidence of a SUCCESS, since a crash puts one in
  the place of the other.  `Agreement`: which outcome and which provenance stand
  at each step of the success path and of the failure path, with at most one
  failed write and no crash.
- Readiness.  `RecordsOK`: a ready record was earned, and it never stands
  beside a marker in any image.  `ClaimsOK` and `FinalizerOK` follow the scripts;
  `MarkersOK` says that a marker that is left has granted nothing, and `GrantsOK`
  that a grant stays in the isolated container unless a start was overtaken.
- PublicViews.  The moves come first: `Advance` says that every record goes
  through queue, `events/` and the stage one place at a time and that an outcome
  is final, and `Alone` that an event has no current record while its
  predecessor is in the stage.  The request is then followed between two moves.
  `KnownAt(s)` says of a calculation accepted before it began: it is still to be
  read, was seen, or has gone where the scans to come will find it.  That it
  moves only forward, and that the queue is read first, is what makes the second
  scan find it; `Awaited(s)` adds that a listed name leads to the record itself,
  or it has been replaced.  When another record of the event was read in
  `events/`, an unseen calculation has been disposed of: the archive, read under
  its lock, has it unless it was deleted.  `FinishedOK` is the same argument for
  a finished record, whose status no later move changes, and `BlockedOK` for a
  journal, which must be found or have been removed since the request began.
- DataAssets.  `Coherent` says what a command holds at each of its steps;
  `Picks`, that no candidate it validated is torn; `Names`, what may stand under
  the names, in the directory and on the disk.
- VerificationPackage.  `Beside(h)`: while a migration that has landed may write
  its manifest, the destination holds a package, or is vacant and nobody else can
  put anything but a package back.  This is what a third migration breaks, and what
  the operator breaks who acts there; `Undamaged` is therefore claimed of two
  preparations and without `meddled`.  `Typed` and `Sound` hold in general, and
  `NothingDestroyed` needs no more.

What is assumed.  The file system is ordered, as described under Recalculation.
The constants are what their names say: `MaxConcurrent` is positive and the
bounds are natural numbers, requests and calculations are finite sets, the marks
that stand for nobody, no file and the caller are not requests
(`RequestsAreNoMarks`), and the mark for no image is not one (`NoImageIsNone`).
No bound on faults, crashes or finalizations is needed by a proof.  The one
hypothesis that restricts the system is `TwoAtMost`, of `PreparationsLeaveValid`.

Only model-checked: every liveness property (`NeverHangs`, `RecoveryCompletes`,
`EveryoneIsServed`, `CapacityReturns`, `ShutdownSettles`, `FinalizationEnds` and
those of the further configurations), since the prover knows neither fairness nor
`ENABLED`.

## Where code and documentation disagree

Each of these is a counterexample TLC finds.  The first is a run of the project,
the others are reproduced with the configuration named.

| Configuration | Says | Does |
|---|---|---|
| `MCReadinessWaiting` | "accepted calculations are unfinished (...); wait for them to finish" (`finalization.py:136`) | a power failure after the verification request was accepted leaves it QUEUED, the record `finalizing` and the marker used up: no process admits the request, and every further finalization is refused |
| `MCReadinessImage` | "Changing the image or runtime requires finalization." (`docs/quick-start.md:57`) | containers are created from the tag and given the id that was looked up at the start; a build in between publishes an image that was not verified |
| `MCPublicViewsMalformed` | "Durable calculation state is malformed" (`main.py:242`) | an entry promoted between listing and opening counts as malformed, and the view answers 500 |
| `MCPublicViewsUnknown` | "Current, queued, and retained calculation details" (`docs/rest-api.md:14`) | an event whose records are between two places during both scans is answered 404 |
| `MCDataAssetsAtomic` | "Atomically activate each fully validated staged global asset." (`preparation.py:441`) | the bytes are never synced: a power failure leaves an active name with missing bytes |
| `MCVerificationPackageLegacy` | "Preserve and replace only the checksum-verified generated v1 package" (`prepare-shakemap-verification-data.py:781`) | what stands at the destination after the download is moved aside, whatever it is, and kept under the preserved name |
| `MCOutcomeEvidenceProducts` | "Success requires validated core products, provenance, a product manifest, and both required logs." (`docs/execution-workflow.md:20`) | products and `shake.log` are not synced before SUCCESS is |

## Plan

1. Done: `Recalculation`, its invariant and proofs; `Scheduler`, `CalculationQueue`.
2. Done: `Execution`, `OutcomeEvidence`.
3. Done: `Submission`.
4. Done: `Readiness` with the operator's scripts.
5. Done: `RecordMoves` and its refinement, `PublicViews`.
6. Done: `DataAssets`, `VerificationPackage`.
7. Done: proofs about `Scheduler` with its two refinements, `Submission`,
   `Execution`, `OutcomeEvidence`, `Readiness`, `DataAssets` and
   `VerificationPackage`.
8. Done: proofs about `PublicViews`, over the moves of `RecordMoves`.

## Not modelled

Native profiles, product inspection, the contents of build and release identity
(readiness compares an image id and a release), paths and settings, the command
line, permission repair, and the support files of the image: sequential code over
text and files of other programs, without a protocol that TLC could explore.
Regional seeds (`prepare_runtime`) are part of a step of the finalization
script.  The sanitising and ordering of the rows of a view is data.  The JSON
schemas of records and journals are data; that the service's own records always
satisfy them is assumed.
