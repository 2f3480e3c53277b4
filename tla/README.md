# DiffPype in TLA+

Specifications, model-checking runs and machine-checked proofs for DiffPype, a
difference-imaging pipeline: a FastAPI service and a management CLI over
PostgreSQL, Celery workers fed through Redis, and S3 or local storage. The
modules model the code under `src/` (FastAPI, services and workers live in
`src/src`), read with its tests and with `src/docs/architecture`.

## 1. Inventory

| Component | State | Operations | Talks to |
|---|---|---|---|
| **Tracked job lifecycle**: `services/ingest_service.py`, `services/mosaic_service.py`, `worker/tasks.py`, `worker/base_task.py`, `services/job_service.py` | `status`, `updated_at` of `ingest_batches` and `level3_mosaics`; per run, the status its session has loaded | create a row and dispatch; `begin_tracked_job`; the two task bodies; except block, autoretry, `on_failure`; `reconcile_stuck_jobs` | broker (publish, deliver, ack), database, storage listing |
| **Broker and worker pool**: `worker/celery_app.py`, `docker-compose.yml` | messages in Redis, unacknowledged deliveries | late ack, requeue of a lost worker's message, visibility timeout, soft and hard time limits, routing | workers, Beat |
| **Domain catalogue**: `services/ingest_service.py`, `tile_service.py`, `epoch_service.py`, `mosaic_service.py`, `db/models.py` | images, calibrations, tiles, epochs, mosaics, two association tables | bulk upsert, `create_tiles`, `create_epochs`, `create_mosaic` | API, CLI, ingest task |
| **Projects**: `services/project_service.py` | one row per slug | `create_project` | API, CLI |
| **Storage and staging sync**: `services/storage_service.py` | files of a bucket | list, fetch, upload; `mc mirror` with a kill on the soft limit | ingest task, light queue |
| **Beat and its seed**: `db/seed.py`, `worker/celery_app.py` | schedule rows | seed once, enqueue the periodic tasks | light queue |
| **Tessellation, clustering**: `tile_service.py`, `epoch_service.py` | none | grid of tiles over a region; MJD intervals | catalogue |
| **HEALPix range types**: `db/spatial_types.py` | none | MOC to and from ranges, cell of a point | catalogue |
| **Management CLI**: `cli.py` | a demo run: where it is, what it has polled | demo coordinator (create, poll, tile, cluster, request); thin wrappers | every service |
| **API routes, schemas** | none | one service call each | every service |
| **Admin, untracked tasks, configuration, migrations, web UI, prototype** | little or none | see section 7 | |

How they interact. A client call creates a row PENDING, commits it, and
publishes a task that carries only the row's id. A `worker_heavy` child takes
the message, asks the row whether it is still worth running
(`begin_tracked_job`), works, and commits COMPLETE or FAILED; the message is
acknowledged only when the task is over. Beat, the API and the CLI may run the
watchdog at any time. What an ingest stores is what tiles, epochs and mosaics
are later built from, each by one transaction of an API or CLI session. All of
them meet in database rows only: no lock, no version column, no conditional
UPDATE. Who overwrites whom is decided by the order of the commits.

Behaviours that are hard, and what makes each component correct:

- **Tracked job.** Duplicated and redelivered messages, a guard that reads once,
  updates without conditions, retries of a row that has already been marked, a
  watchdog acting on an older view, processes dying between commit and publish,
  a heartbeat that resets the watchdog's clock, an ORM session that emits no
  UPDATE for an unchanged value. Correct when COMPLETE means stored, a resolved
  row stays resolved, a PENDING row still has a message, and every row that was
  started is resolved in the end.
- **Catalogue.** Several statements per transaction, each with a snapshot of its
  own (READ COMMITTED); results of one call used by a later one; ids combined
  by the client. Correct when the associations are what the rows say, no row is
  committed without its own, and the footprint stored in a mosaic agrees with
  the associations the drizzle will read.
- **Bulk upsert.** Two ingests that insert the same images in different orders
  wait for each other's unique index entries. Correct when only opposite
  orders can form a cycle, and a committed upsert misses no row.
- **Staging sync and Beat.** Mirrors of up to 30 minutes enqueued every 5
  minutes on the queue of the watchdog; a listing taken during a mirror.
- **Coordinator.** A deadline that passes while the job still runs, and an
  identity that a FAILED mosaic keeps.
- **Algorithms.** Boundaries of grids, intervals and half-open ranges.

`PROJECT.json` lists the hazards one by one, with their lines and the
properties that cover them.

## 2. Modules

| Module | Content |
|---|---|
| `JobStatus` | the status values of `db/enums.py`, and which are resolved |
| `TrackedJob` | the life of a tracked row: creator, broker, worker slots, watchdog |
| `JobContract` | what a client wants to assume of a status: the abstract specification for a quiet environment |
| `JobRow` | what a reader of a row may rely on whatever fails: the abstract specification for every environment |
| `MCTrackedJob` | fault sets and symmetry for the runs of `TrackedJob` |
| `TrackedJob_proofs` | theorems about `TrackedJob` |
| `JobContract_proofs` | the theorem that `TrackedJob` implements `JobContract` in a quiet environment |
| `Catalog` | the domain graph and the transactions that build it |
| `MCCatalog` | images, bands, shapes and intervals for the runs of `Catalog` |
| `Catalog_proofs` | theorems about `Catalog` |
| `BulkUpsert` | the bulk upsert of concurrent ingests, row by row: a refinement of one step of `Catalog` |
| `MCBulkUpsert` | listings and symmetry for its run |
| `BulkUpsert_proofs` | theorems about `BulkUpsert` |
| `DemoRun` | the coordinator of `cli.py`, over `JobRow` and one step per service call |
| `MCDemoRun`, `DemoRun_proofs` | its run and its theorems |
| `LightWorker` | Beat's schedule and its seed, the light queue, the mirrors and the sweeps |
| `MCLightWorker`, `LightWorker_proofs` | its run and its theorems |
| `SkyGrid`, `EpochClusters`, `HealpixRanges` | the pure algorithms: tile grid, epochs, footprints as ranges |
| `SkyAndTime` | one call of one of them with one input, and what must be true of it |
| `MCSkyAndTime`, `SkyAlgorithms_proofs` | the inputs of its run; its theorems |
| `FiniteLemmas` | facts about finite sets and sums that the proofs share |

### TrackedJob

One step per database transaction, or per part of one where another actor can
act in between. `status` and `age` are the two columns the watchdog looks at;
`age` says whether `updated_at` is older than the staleness threshold.
`stored` holds the ingests whose images and calibrations are committed.
`creator` is the program counter of the request that made the row, `queue` the
messages per attempt, `exec` what each child runs, `doomed` what each
concurrent sweep has marked in its session and not committed, `fate` the ends of
messages that were not a return (history, read by properties only).

| Code | Actions |
|---|---|
| `create_ingest_batch`, `create_mosaic` | `CreateRow`, `Dispatch`, `DispatchRaises`, `RecordDispatchFailure`, `CreatorCrash` |
| broker and pool | `Deliver`, `Ack`, `Redeliver` (visibility timeout), `WorkerLost` (requeue), `HardKill` (hard `time_limit`) |
| `begin_tracked_job` | `BeginRead` (the SELECT and the guard), `BeginCommit` |
| `run_ingest_batch` | `ListPrefix`, `ReadFile` (heartbeat), `Upsert`, `UpsertNothing`, `MarkComplete`, `Return` |
| `run_mosaic_drizzle` | `MarkComplete` (it only sleeps), `Return` |
| except block, autoretry, `on_failure` | `Catch`, `HandlerRead`, `HandlerCommit`, `HandlerFails`, `Retry`, `OnFailure` |
| `reconcile_stuck_jobs` | `Scan`, `CommitSweep`, `AbortSweep`; `GoStale` is the passing of the threshold |

Sessions are created with `autoflush=False` and expire their objects on commit.
An assignment to an expired attribute always emits an UPDATE, and one equal to
the loaded value emits none: `Save` models this with the status the session has
loaded (`seen`). It matters: a redelivered run finds IN_PROCESS, assigns
IN_PROCESS, writes nothing, and inherits the clock of the run it replaces.

What the environment may do wrong is the constant `Faults`, so that a run or a
theorem says which failures it is about.

Simplifications. A message handed to Redis is delivered at least once: Redis
losing data, and a retry whose own publish fails, are left out. After a
redelivery an acknowledgement removes the slot's own delivery only. The two
SELECTs of a sweep are one `Scan`, as the tables share no row. The staleness
override per job is left out: it is read from `job_kwargs`, which no code gives
one. What an ingest stores is one flag; `Catalog` has the rows. Time is
abstract: unless `slow_run` is allowed, the threshold cannot pass while a run
that has itself written the row is still going.

### JobContract

A row appears PENDING, becomes IN_PROCESS, resolves once. `TrackedJob`
implements it, with the identity as refinement mapping, under `CalmFaults`
only: every fault that is left out there breaks it alone. It is what the
documentation wants of a status and what only a quiet environment grants.

### JobRow

What is left of that contract under every fault: a row once inserted stays,
never goes back to PENDING, and is COMPLETE, if it is an ingest, only after its
rows were stored. `TrackedJob` implements it under all fault sets, and it is all
that `DemoRun` knows of the workers: a component that depends on jobs is checked
against `JobRow` and need not be composed with the whole of `TrackedJob`.

### Catalog

One step per statement. `cals` are the committed calibrations; images are
folded into them, because the two are committed together. `tiles` and `epochs`
hold each row with its associations (`links`), the stage of the transaction it
is in, and the session that runs it (`by`); other sessions see committed rows
only. `draft` is what `create_mosaic` has computed and not inserted. A
footprint is the set of calibrations it is the union of. Two fields are history:
`owed`, what overlapped a tile when it was inserted, and `known`, whether the tile
and the epoch of a mosaic were committed when its footprint was computed.

| Code | Actions |
|---|---|
| `bulk_upsert_images_and_calibrations` | `IngestCommit` |
| `create_tiles` | `InsertTiles`, `LinkTile` per turn of the loop, `CommitTiles` |
| `create_epochs` | `InsertEpochs`, `LinkEpoch` per turn of the loop, `CommitEpochs` |
| `create_mosaic`, up to its commit | `ReadConstituents`, `InsertMosaic` (an IntegrityError when the identity is taken, or the tile or epoch is not there yet) |
| `get_db` closing a session that failed | `Abort` |

Inputs are as free as the API leaves them: any shapes, any bands and intervals,
an epoch for a tile of another project, a mosaic of any tile and any epoch, also
of one that is not committed yet: the SELECT of `create_mosaic` asks for no row to
exist, and only the foreign keys of its INSERT do. The geometry is the constant `Covers`. Simplifications: rows are never deleted (the
only code that does is the CLI's `reset-db`, on everything); ids of rolled-back
rows are used again, which nothing observes; a tile without a footprint is one
whose shape covers nothing, and an image without `mjd_avg` one outside of every
interval; the job configuration and the dispatch of a mosaic are `TrackedJob`'s.

### BulkUpsert

One step per row of the two INSERTs, because that is where transactions meet:
on the unique indexes of `level2_images.base_filename` and
`(level2_image_id, project_id)`. `tx` holds, for each run, where it is, its
listing (base names in the order of the keys), and the rows it has inserted and
not committed.

| Code | Actions |
|---|---|
| start of `bulk_upsert_images_and_calibrations` | `Begin` |
| INSERT of images, ON CONFLICT DO NOTHING | `InsertImage` |
| SELECT of the ids, building the calibration rows | `LookUpIds` (`"lost"` is a KeyError) |
| INSERT of calibrations | `InsertCal` |
| `db.commit()` | `Commit` |
| any error of the session; the except block's `db.rollback()` | `Raise`, `Rollback` |
| PostgreSQL (external) | the waits (`WaitsFor`), `DeadlockVictim`, `Crash` |

A run may begin again with another listing: after a rollback as a redelivery,
after a commit as a second ingest. The retry of a failed run is `TrackedJob`'s.
Every step that changes the committed calibrations is one
`Catalog!IngestCommit` (`UpsertIsOneStep`), which is what lets `Catalog` treat
an ingest as one step; and a committed run has stored its whole listing, which
is what `TrackedJob` calls `stored`.

### DemoRun

One step per service call of `cmd_populate_demo_project`, for several runs of
the command under one project name. `pc` says where a run is or how it ended;
`promised` is history: the files that lay under the prefix when the run created
its batch.

| Code | Actions |
|---|---|
| `create_project` | `CreateProject` |
| `create_ingest_batch`, `create_mosaic` | `CreateIngest`, `RequestMosaic` (an IntegrityError when the identity is taken) |
| `_poll_until_terminal` | `PollIngest`, `PollMosaic`, `Deadline` |
| tessellation, `create_tiles` | `BuildTiles` |
| `tile_with_most_calibrations` | `PickTile` |
| `cluster_epochs`, `create_epochs` | `BuildEpochs` |
| any exception, or Ctrl-C | `Raises` |
| workers, watchdog | `StoreListing`, `WriteStatus`: the steps of `JobRow` |
| mirrors, other clients | `FileArrives`, `OtherIngest`, `RequestRival` |

A listing is taken page by page while files may be arriving: it has every file
that was there before it and any of the later ones. Polling reads the committed
status. (In the code that depends on the command keeping no reference to the
row: `Session.get` would return the object it still holds.) What a call does
while an ingest commits beside it is `Catalog`'s; here each call is one step.

### LightWorker

Time advances in ticks of Beat's interval, 300 s for both schedules. `left`
counts down the soft limit of the mirror a child is running, `mc` the mirror
processes alive. Two clocks run for one tracked row whose worker has died as a
whole: `age` counts the ticks since the last write to the row, from which the
watchdog reckons, and `lead` those from the taking of its message, from which the
broker does, to that write. An ingest writes a heartbeat per file, so `lead` may be
anything up to its time limit.

| Code | Actions |
|---|---|
| `_seed_periodic_tasks` | `SeedRead` (the count), `SeedCommit` (the inserts; names are unique) |
| `_configure_beat_schedule` | `BeatSetsUp` |
| `PeriodicTaskAdmin` of `api/admin.py` | `AdminEdit` |
| Beat | `Tick` (the tasks that are due, in either order), by `Route` |
| `sync_staging_to_canonical` | `QuickMirror`, `SlowMirror`, `MirrorEnds`, `SoftLimit` (kill, wait, raise), `MirrorRaises` (any other exception, which leaves `mc` alive) |
| `reconcile_stuck_jobs_cron` | `Sweep` |
| `sync-staging` of API and CLI | `ManualSync` |
| a child killed while mirroring | `ChildLost` (requeue at the head), `OrphanExits` |

Simplifications. A free child takes a message, and a run that is not slow ends,
within a tick. Of the tracked rows there is one at a time, followed while the
watchdog is on; its message comes back by the visibility timeout, because nobody
is left to reject it. (The message of a single child that is lost is requeued at
once: that is `TrackedJob`'s, and finding 1.) The autoretry of a mirror that failed,
a light worker that is down as a whole, and the hard limit are left out. So is
Celery Beat's failure to run: it is a service of `docker-compose.yml`.

### SkyGrid, EpochClusters, HealpixRanges

Definitions without state. `SkyGrid` is one axis of `generate_tile_tessellation`
in exact fractions: declinations, or the right ascensions of one declination,
which are laid out by the same formulas, except that right ascension comes round
(`wraps`): the western half of the first tile's overlap covers the end of the axis.
`EpochClusters` is `_cluster_mjds` and
the association by interval, in half days: `find_peaks` and `KMeans` are stated
by their results, the latter as any partition in which every time is nearest to
the centre of its own cluster. `HealpixRanges` is `db/spatial_types.py` with the
range operators of PostgreSQL that the queries use, and the UPDATE that the
session leaves out for a footprint that compares as unchanged; a MOC is its set
of cells.
`SkyAndTime` calls one of the algorithms once with an input from its constants;
`MCSkyAndTime` gives it every small one, hence one state per input.

## 3. Runs

| Run | Specification and instance | Shows |
|---|---|---|
| `job_overlap` | `Spec`; one ingest, two slots, one sweep, `OverlapFaults`; 1.3 million states | `TypeOK`, `CompleteMeansStored`, `PendingHasCarrier`, `GivenUpIsFinal`, `FinishedIsFinal`; `RowSpec`: the refinement of `JobRow` |
| `job_contract` | `Spec`; an ingest and a mosaic, two slots, two sweeps, `CalmFaults` | `ContractSpec`: the refinement of `JobContract` |
| `mosaic_liveness` | `FairSpec`; one mosaic, one slot, one sweep, two retries, `RecurringFaults` | `StuckJobsAreResolved`, `DispatchedJobsSettle` |
| `catalog` | `Spec`; two projects, images, tiles and clients, one epoch, two bands; 1.5 million states | `TypeOK`, `GapsAreLate`, `EpochIsExact`, `MosaicIsItsConstituents`, `MosaicIsSound` |
| `bulk_upsert` | `Spec`; three runs, two projects, two images, listings in both orders and with a repeated name; 0.3 million states | `TypeOK`, `NoImageIsLost`, `WaitsAscend`, `OrderedRunsProceed`, `UpsertIsOneStep` |
| `demo_run` | `FairSpec`; two runs of one name, three files, one of them in the band, two overlapping tiles; 0.2 million states | `TypeOK`, `BuiltOnStored`, `AbortsAreHonest`, `MosaicHasBandData`, `OneBuilderPerSlug`, `DemosEnd` |
| `light_worker` | `Spec`; two children, two seeds, mirrors that hang; 1.2 million states | `TypeOK`, `MirrorsAreReaped`, `LateForHangsOnly`, `SweepsKeepUp`, `WatchdogComesFirst`, `WatchdogIsSeeded` |
| `sky_and_time` | every input up to the bounds; 9 thousand states | `GridMissesOnlyTheSeam` (and so finding 5), `ClustersAreFeasible`, `SeparatedVisitsGetOwnEpochs`, `FootprintsSurvive`, `OverlapIsSharedCell` |
| `redelivered_run` | `Spec`; `OnlyLostWorkers` | `FailedIsNeverRevived` fails: finding 1 |
| `retry_skipped` | `Spec`; `OnlyTaskErrors` | `RetryFindsWork` fails: finding 2 |
| `ingest_crash_loop` | `FairSpec`; `OnlyLostWorkers` | `StuckJobsAreResolved` fails for an ingest: finding 3 |
| `preprovisioned_tile` | `FairSpec`; one tile, two images | `ProvisionedTilesFill` fails: finding 4 |

Bounds, and why they are enough.

- One row has every interleaving of one row: jobs share slots and sweeps only,
  and `job_contract` has two. Two slots let two runs overlap, which is what a
  redelivery makes. A third would repeat a role already played.
- `MaxRetries` (3 in the settings) is 1 or 2: a first attempt, a retry, and an
  exhausted retry all occur.
- `MaxFiles` is 1: no file, a file left, no file left. `MaxCopies` is 1: beyond
  it copies of one retry that overlapping runs publish are merged.
  Redeliveries and first publishes are not bounded, yet the queue is: a
  redelivery moves a message from a slot to the queue, and the slots are two.
- `MaxMosaics` is 1. A second request for the same identity is still tried,
  because a draft may be read while another is inserted. `MaxEarly` is 1: one
  request at a time names rows that are not committed. `Prefixes` are the listings
  an ingest may have: the second image, later both, as files are only added.
- Two images of one band and two nights, one shape with both and one with the
  second only, and an interval with the first night only: an epoch can go wrong
  by tile, by band, by time and by project. Two projects and two clients mix
  ids and interleave statements.

- Three runs: one that is waited for, one that waits for it, and one that waits
  for the latter, which is what `WaitsAscend` is about, and a circle of three, which
  `OrderedRunsProceed` excludes for one order. Two images are enough to
  list in opposite orders, and the one listing with a repeated name has an own
  row as its conflict.

- Two runs of `populate-demo-project`: one that owns the slug, and one that comes
  beside it or after it. Three files and two tiles give tiles with the most
  calibrations but none in the band, and tiles in the band with fewer.
- `light_worker`: a limit of 3 ticks and two children, one and a half times what
  they have when a mirror hangs in every tick, as with the 6 ticks and four children
  of the settings; `MaxSlow` (6) lets a queue build up beyond what `SweepsKeepUp`
  allows for. Staleness and visibility (2 and 11 ticks; 12 and 24 in the settings)
  put the premise of `WatchdogComesFirst` on either side of its limit, by `lead`
  (`MaxLead`, 1) and by extra mirrors. `MaxRare` is 1: one mirror by hand, or one
  child lost, or one error in reading, or one edit; the theorems have any number.
- `sky_and_time`: cells 0 to 4 have every shape of two runs with a gap of one or
  more; up to three times in six days, with one or two calibrations each and
  thresholds of one to two days, have clusters that merge, touch and stand
  apart. A threshold below one day is refused by `find_peaks`. Sides and steps
  on an axis of 24 units include one tile wider than the range, whole numbers of
  steps and every remainder.

Deadlock is checked in `light_worker`, where Beat never stops. It is off in the
others: a job that is resolved and acknowledged leaves nothing to do, and
clients need not call again.

Fairness. Safety runs assume none. `TrackedJob!FairSpec` assumes that a healthy
process goes on (weak fairness of the creator, of `Deliver` and of the work);
that bookkeeping, which is a handful of milliseconds against hours of work, is
not killed every single time it is attempted (strong fairness of the guard's
read and commit, the except block, the return, the retry, `on_failure`, the
acknowledgement); that wall-clock time passes (`GoStale`); and that Beat runs
the sweep, whose commit succeeds in the end (strong fairness of `CommitSweep`).
`docker-compose.yml` restarts nothing by itself but runs Beat and a worker for
the light queue as services, and `seed.py` schedules the sweep every interval.
That the sweep is then not only enqueued but run is `LightWorker!SweepsKeepUp`, and
in time, `WatchdogComesFirst`. The schedule must exist: a Beat that starts with the
backup schedule before `seed-db` writes a row of its own, the seed finds a row and
adds nothing, and nothing sweeps until somebody adds the schedule by hand
(`WatchdogIsSeeded` excepts it). That mirrors hang often is no obstacle. One that
hangs every five minutes for half an hour asks for more than four children can
give, and the queue grows; but Beat enqueues sweeps and mirrors in turn, the queue is
first in, first out, and a sweep costs a child next to nothing, so a sweep waits for
the mirrors of its own age and not for those of later ones. The delay is at most
`Limit * (N + 2 + M + L) / N` ticks, for `N` children, `M` mirrors asked for by hand and
`L` put back: 9 with the settings, and 1.5 more for each extra mirror. Nothing is
assumed of the work under crashes: a kill that repeats may repeat for ever.
`DemoRun!FairSpec` assumes that the command, and with it its clock, goes on, and
nothing of the workers: they may be down.
`Catalog!FairSpec` assumes that a call in progress goes on, and not that
clients call.

## 4. Findings

1. **A FAILED job can become COMPLETE** (`redelivered_run`). `base_task.py`
   says that the guard prevents a redelivery from reviving a job the watchdog
   gave up. A worker lost under a run has its message requeued at once, the next
   run finds IN_PROCESS, writes nothing and keeps the old clock, the watchdog
   fails the row under it, and the run then writes COMPLETE.
   `GivenUpIsFinal` is what does hold: once no run is past the guard, nothing
   brings the job back.
2. **A transient error fails a job at once** (`retry_skipped`). The except block
   commits FAILED before the error reaches `autoretry_for`, so the retry is
   turned away by the guard; doc 21 wants transient errors retried.
3. **A crash loop hides from the watchdog** (`ingest_crash_loop`). Each run of
   an ingest writes a heartbeat before it is killed; doc 30 wants such rows
   failed. Mosaics have no heartbeat and are resolved (`mosaic_liveness`).
4. **Provisioned tiles stay empty** (`preprovisioned_tile`). Doc 30 and
   `tile_service.py` offer `overlap_only=False` to provision tiles ahead of
   data; associations are made when a tile is created and never again.

5. **The grid leaves strips uncovered** (`sky_and_time`). A tile's side is taken off
   the range of each axis beside the threshold, so a strip nearly as wide as a tile
   before RA 360 and Dec +90 is in no tile. `tile_service.py` has the grid cover the
   region it is given. `GridMissesOnlyTheSeam` is an equivalence: it says that this
   strip is missed, as well as that nothing else is.

Further disagreements, which the properties that hold state as exceptions or
premises:

- Doc 30, line 49, has the watchdog reliably fail a crashed job before the broker can
  redeliver it. The two timeouts do not start together: an ingest whose last
  heartbeat came more than the difference of the two (an hour) after its message was
  taken is redelivered first. The premise of `WatchdogComesFirst` is the condition under
  which the document is right; with the settings it is `4 * (11 - lead) >= 6 * (6 + M + L)`
  in ticks: at most one extra mirror, or a lead of two ticks and none.
- `mosaic_service.py:45-49` has the query for a footprint mirror the one for the
  drizzle's input. A request that names an epoch before it is committed, and is
  inserted after, has an empty footprint and a full input. `MosaicIsItsConstituents`
  says that this is the only way for the two to differ.
- `job_service.py:54` has the sweep fail stuck jobs. Its UPDATE has no condition, so a
  run that finishes between its SELECT and its commit ends FAILED.
  `FinishedIsFinal` excepts it.
- `storage_service.py:253` kills and reaps an `mc` that hangs. One whose output cannot be
  read is left alive: the code handles the soft limit only. `MirrorsAreReaped` counts them.

## 5. Proofs

TLAPS checks every theorem for all values of the constants: any set of jobs,
slots, sweepers, clients, projects, images and ids, any retry limit, any set of
faults, any number of runs, children and listings, any footprints, observations
and axes. The assumptions are
`ConstantsAssumption`, `CatalogAssumption`, `ListingsAssumption`, `DemoAssumption`,
`LightAssumption` and `SkyAssumption`: the
constants have the types their comments give them, and the "none" values are
not among the real ones, finite sets are finite, a limit is not zero and the
staleness timeout below the visibility timeout. `SkyAssumption` says of the
inputs of the algorithms what the code guarantees: a footprint has finitely many
cells, a tile and band that is clustered has been observed, a threshold is no
less than a day (`find_peaks` refuses a distance below one bin), and an axis is no
shorter than its threshold and a tile. TLC evaluates them in every run.

Every invariant and action property that a passing run checks, and both
refinements, are theorems. One has a hypothesis beyond the assumptions:
`ContractImplemented`, that the faults are calm.

`TrackedJob_proofs`:

- `TypeCorrect` (`TypeOK`). The inductive invariant is `TypeInv`: `TypeOK` and
  `SlotInv`, by which a slot that is not idle runs a job. Without it no write of
  a busy slot can be shown to hit a row.
- `GivenUpStays` (`GivenUpIsFinal`) adds `Undispatched`: before its publish a row
  is absent or PENDING and no message, slot or sweep has it, so the creator's
  insert cannot write PENDING over a verdict.
- `FinishedStays` (`FinishedIsFinal`) from the same two. The proof goes over the
  actions that can disturb the row (`SaveLocal`, `WorksLocal`, `CreatorLocal`
  say which cannot).
- `CompleteIsStored` (`CompleteMeansStored`) adds `FinishingMeansStored`: a run
  about to report has stored, and what is stored stays.
- `PendingIsCarried` (`PendingHasCarrier`) adds `BegunMeansStarted`: a run past
  its first commit left PENDING behind it, so its end owes the row nothing.
  `CarrierPassesOn` is the heart: whatever takes a message gives a carrier back,
  a run that starts the row, or an end recorded in `fate`.
- `RowImplemented` (`RowSpec`): each step is a step of `JobRow` or a stutter, under
  any set of faults. It needs `Inserted`, by which whatever a message, a slot or
  a sweep knows of is a row that exists: an UPDATE otherwise could insert.

`JobContract_proofs`:

- `ContractImplemented` (`ContractSpec`) assumes `Calm`: none of the six faults that
  put two actors on one row. `CalmInv` says that a row is then always with one of
  its creator, one message, one run or the sweeps (`WithCreator`, `WithMessage`,
  `WithRun`, `WithSweep`), and `Fits` what the run may be doing by the status of
  the row. The clock matters in it: a row is stale in IN_PROCESS only when nobody
  runs it, because a run that has written the row keeps it fresh. `OwnStep` and
  `UntouchedKeeps` reduce each action to the one job it is about.

`Catalog_proofs`:

- `CatalogTypeCorrect` (`TypeOK`): one conjunct ties each row to its open
  transaction.
- `Frozen`: no step changes a committed tile or epoch, or removes a calibration
  or a mosaic. The other theorems lean on it.
- `TilesMissNothingOld` (`GapsAreLate`) by `TileInv`: from its insert on, what a
  tile is owed is among the calibrations that overlap it, and, once linked, in
  its links; they are calibrations of its project under its shape.
- `EpochsAreExact` (`EpochIsExact`) by `EpochInv`: a linked epoch has a committed
  tile, whose links cannot change, hence neither can what is in its range. This
  is why later ingests do not make an epoch stale.
- `MosaicsKeepTheirConstituents`, `MosaicsAreSound` by `MosaicInv`: a draft that was
  computed when its tile and epoch were committed holds what they have in common,
  both frozen; one computed earlier holds nothing, because at least one of the two
  had no association that others see. A mosaic is such a draft.

`BulkUpsert_proofs`:

- `UpsertTypeCorrect` (`TypeOK`).
- `UpsertInv`: what a run has inserted it has come past, what it has come past is
  in the table, committed or its own (`RunInv`), and no uncommitted row is in two
  transactions (`Exclusive`). From it follow `ImagesAreFound`
  (`NoImageIsLost`) and `UpsertImplementsIngest` (`UpsertIsOneStep`).
- `UpsertsWaitForward` (`WaitsAscend`). A run that waits has not passed the row
  it waits for, and has passed every row that others wait on it for; when its
  listing follows an order of the images, the former lies ahead of the latter.
  So along a chain of waits the position rises strictly.
- `OrderedRunsNeverDeadlock` (`OrderedRunsProceed`): among any runs whose listings
  agree on an order, one waits for none of the others. Suppose each waits for
  another. A run at its calibrations waits for one at its calibrations, so these
  would wait among themselves; but there are finitely many, one of them is the
  furthest on (`GreatestExists`), and it waits for one that is further still. So
  there are none, all are at their images, and the same argument applies to them.
  The run has deadlocks, all among listings in conflicting orders.

`DemoRun_proofs`:

- `DemoTypeCorrect` (`TypeOK`).
- `DemoInv` is `TypeOK` and `RunInv` for each run, which says what is true of its
  batch, its grid, its tile and its mosaic wherever it is. The batch of a run that
  is past the wait is stored: the poll has seen COMPLETE, `JobRow` has an ingest
  COMPLETE only when it is stored, and what is stored stays when the status is
  overwritten. This is where `RowImplemented` is used. From it follow `RunsBuildOnStored`
  (`BuiltOnStored`), `ReasonsAreTrue` (`AbortsAreHonest`), `RequestsHaveData`
  (`MosaicHasBandData`) and `SlugDecides` (`OneBuilderPerSlug`).

`LightWorker_proofs`:

- `LightTypeCorrect` (`TypeOK`) and `MirrorsReaped` (`MirrorsAreReaped`), from their
  conjunction `LightInv`: the count of mirrors is at least that of the busy children,
  and only the counts show that it is never taken below zero. The lemmas say what
  a step of one child does to the number of busy ones.
- `SeedsLeaveAWatchdog` (`WatchdogIsSeeded`) by `PairInv`: without an edit and a backup
  schedule the table has both rows or neither, and a seed that saw it empty may
  add both or finds both there.
- `OnlyHangsDelay` (`LateForHangsOnly`) by `KeepUpInv`. `Ahead` is the time that mirrors can
  still keep children busy: what those that hang have left, and a whole limit for
  each that may still hang. An overdue row has a sweep waiting, and `Ahead` and what
  the row's lateness has cost (`Paid`, a tick of every child for each tick) never
  exceed what there was at first. A tick that leaves a message in the queue finds
  every child busy and takes one tick from each (`HangTimeDrains`); starting a mirror
  moves its limit from the reserve to what is left; nothing else adds. The remaining
  time is counted as a set of pairs of a child and a tick, so that the library's
  theorems on cardinality do the sums.
- `SweepsAlwaysKeepUp` (`SweepsKeepUp`) is the bound without the number of hangs in it. By
  `BlocksInv` a sweep is never far behind in the queue: among any mirrors in a row
  are at most two of Beat's, those of two neighbouring ticks, and the extra ones. When the row becomes overdue
  the nearest sweep has so many mirrors in front of it (`FrontBegins`), and from then
  on each mirror that starts leaves the front (`FrontTaken`), while what comes is put
  behind, but for a message that a lost child gives back. So the hangs in progress, a
  limit for each mirror in front and what has been paid never exceed the bound
  (`FrontInv`).
- `WatchdogIsFirst` (`WatchdogComesFirst`): a row old enough to be redelivered would be
  later than `SweepsAlwaysKeepUp` allows.

`SkyAlgorithms_proofs`, for all inputs where the run has small ones. That an input
is one of `SkyAssumption` is `InputsInvariant`; the rest is about the operators:

- `OverlapFindsSharedCells` (`OverlapIsSharedCell`) and `FootprintsComeBack`
  (`FootprintsSurvive`). The ranges of a set of cells hold its cells and no
  others: each lies in the range from the least cell to the greatest that it is
  joined to without a gap (`RangesMakeUp`). Two half-open ranges
  that are not empty overlap exactly when they share a cell (`OverlapIsSharing`).
- `GridCoversTheRest` (`GridMissesOnlyTheSeam`). The last tile that begins before a
  place covers it or ends before it; between neighbours there is no gap
  (`GridHasNoGap`), and the last one ends half an overlap past the range
  (`GridEndsWithTheRange`). An axis with one tile is its own case. Round the end of
  the right ascensions, the first tile reaches back half an overlap
  (`FirstTileReachesBack`), and no other reaches further.
- `ClusteringIsPossible` (`ClustersAreFeasible`), in two halves. The number of
  clusters: every peak that `find_peaks` may keep is a stretch of bins higher than
  their neighbours, each stretch holds a time of its own, so there are no more
  peaks than times (`PeaksAreFew`). Thinning by distance is defined by what it keeps:
  a peak is kept when no higher one that is kept is near; that there is such a set is
  `SomeAreKept`, by a minimal set of peaks without one and the peak looked at last
  in it. A histogram without a peak makes one cluster. And that `KMeans` has an answer: of all partitions
  into that many clusters, finitely many, take one for which the sum over the
  clusters of the squared sum of times over the weight is greatest; the weights are
  brought to a common multiple to stay with integers. If a time were nearer to the
  centre of another cluster, moving it there would raise the sum (`MovingGains`),
  unless it is alone in its own, and then it is its centre.
- `VisitsGetTheirEpochs` (`SeparatedVisitsGetOwnEpochs`). Times a threshold and a day
  apart lie in bins that are not neighbours and far enough apart for the distance
  filter to keep every one (`SeparatedBins`, `KeptAreKept`). A partition into as many
  clusters as times has one time in each, and the interval of one such cluster
  reaches no other time, rounding included (`LinksItsOwn`).
- `NearTimesAreLinked`, which holds of every clustering: rounding to days only widens
  an epoch.

`FiniteLemmas` has what these proofs need of finite sets. The library states
induction over a finite set for a predicate, which the provers at hand cannot
instantiate; `SetInduction` states it for a family of sets, which they can. From it
come the existence of greatest and least elements, of common multiples, and the
sums: `SumFunctionOnSet` is defined by a recursive fold, and `SumTakesOut` and
`SumPutsIn` say of it what a sum is.

Only model-checked: liveness under fairness (`StuckJobsAreResolved`,
`DispatchedJobsSettle`, `DemosEnd`), which is beyond this prover. Which of the
results that the definitions allow scipy and scikit-learn do return is external:
the theorems hold for each of them.

## 6. Plan

Built, in the order of their weight: **TrackedJob** with `JobContract` and
`JobRow`, **Catalog**, **BulkUpsert**, **DemoRun**, **LightWorker**, and the
algorithms, with the proofs of section 5. No invariant, action property or
refinement of a passing run is left without a theorem. Left to do: a light worker
that is down as a whole and comes back, and the autoretry of its mirrors, in
`LightWorker`; visits that last longer than an instant, and neighbours nearer than a
threshold and a day, in `EpochClusters`; and the grid on both axes at once.

## 7. Not modelled, and why

- API routes and schemas: each route is one service call and a conversion. Their
  inputs are the free inputs of the actions.
- Admin views and authentication: declarative views, no protocol. What an
  administrator does to the schedule is `LightWorker!AdminEdit`.
- `execute_cli_tool`, `db_backup_cron`, `dlq_dump`: one subprocess or one log
  line; no tracked row. The first is dispatched by no code, and the first two have
  no route and would wait on a queue no worker consumes.
- The other commands of `cli.py`: one service call and printing each.
- Storage: fetching and uploading single files, and the local backend's
  translation of keys: calls without state of their own.
- Configuration, logging, tracing: settings appear as constants.
- Migrations: they create the schema the models declare.
- Web UI: static pages. Prototype: notebooks and scripts that the system was
  developed from; nothing imports them. They are four fifths of the lines of the
  repository, which is why the mapped share of all lines is small.
- Spherical geometry (mocpy, astropy): external numerics. What the catalogue needs
  of it is `Covers` and `Intervals`. The filter of grid points by their distance
  from the barycentre of a region is left out with it.
