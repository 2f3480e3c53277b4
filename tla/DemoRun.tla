-------------------------------- MODULE DemoRun --------------------------------
(***************************************************************************)
(* The coordinator of cli.py, populate-demo-project: create a project,     *)
(* ingest a storage prefix and wait, tile a region, choose a tile, cluster *)
(* its epochs, request a mosaic of the first and wait again.  Several runs *)
(* of the command may use one project name, at once or one after another,  *)
(* and other clients use the same project through the API.                 *)
(*                                                                         *)
(* The workers are known here by what JobRow says of a row, which is what  *)
(* TrackedJob implements under every fault: the status that was polled may *)
(* be overwritten a moment later.  How a call tiles or clusters while an   *)
(* ingest commits is Catalog's; here each of these calls is one step.      *)
(***************************************************************************)
EXTENDS JobStatus, Naturals, FiniteSets

CONSTANTS
    Demos,      \* runs of the command with one project name
    Files,      \* FITS files that may lie under the storage prefix
    BandFiles,  \* those taken in the band the command is given
    Tiles,      \* cells the grid may have
    Covers,     \* Covers[t]: files whose footprint overlaps tile t
    Nobody      \* no run

ASSUME DemoAssumption ==
    /\ BandFiles \subseteq Files
    /\ Covers \in [Tiles -> SUBSET Files]
    /\ IsFiniteSet(Files)
    /\ Nobody \notin Demos

VARIABLES
    pc,        \* where each run is, or how it ended
    owner,     \* the run whose project has the slug
    status,    \* of the rows in Jobs
    stored,    \* batches that have been stored
    bucket,    \* files under the prefix now
    promised,  \* files that were there when the run created its batch
    cals,      \* files ingested into the run's project
    grid,      \* tiles it has created
    links,     \* calibrations associated with each of them
    chosen,    \* the tile it goes on with, as a set of at most one
    clustered  \* runs whose epochs are in the database

rowVars == <<status, stored>>
skyVars == <<cals, grid, links, chosen, clustered>>
vars == <<pc, owner, status, stored, bucket, promised, cals, grid, links, chosen,
          clustered>>

\* The rows: each run's batch, its mosaic, and one that another client of the
\* API requests for the same tile, epoch, band, instrument and project.
Batch(d) == <<"batch", d>>
Mosaic(d) == <<"mosaic", d>>
Rival(d) == <<"rival", d>>

Ingests == {Batch(d) : d \in Demos}
Jobs == {"batch", "mosaic", "rival"} \X Demos

Row == INSTANCE JobRow

\* Ways a run ends: "raised" is an uncaught exception, a TimeoutError included.
Aborts == {"ingest_failed", "no_tiles", "no_overlap", "no_epochs"}
Ends == Aborts \cup {"rejected", "raised", "done"}

Polling == {"ingesting", "drizzling"}

PCs == Polling \cup Ends \cup {"new", "created", "ingested", "tiled", "picked",
                               "clustered"}

\* The grid is in the database.
Tiled == {"tiled", "no_overlap", "picked", "no_epochs", "clustered", "drizzling",
          "done"}

TypeOK ==
    /\ pc \in [Demos -> PCs]
    /\ owner \in Demos \cup {Nobody}
    /\ status \in [Jobs -> RowStatus]
    /\ stored \subseteq Ingests
    /\ bucket \subseteq Files
    /\ promised \in [Demos -> SUBSET Files]
    /\ cals \in [Demos -> SUBSET Files]
    /\ grid \in [Demos -> SUBSET Tiles]
    /\ links \in [Demos -> [Tiles -> SUBSET Files]]
    /\ chosen \in [Demos -> SUBSET Tiles]
    /\ clustered \subseteq Demos

Init ==
    /\ pc = [d \in Demos |-> "new"]
    /\ owner = Nobody
    /\ Row!Init
    /\ bucket \in SUBSET Files
    /\ promised = [d \in Demos |-> {}]
    /\ cals = [d \in Demos |-> {}]
    /\ grid = [d \in Demos |-> {}]
    /\ links = [d \in Demos |-> [t \in Tiles |-> {}]]
    /\ chosen = [d \in Demos |-> {}]
    /\ clustered = {}

Goto(d, l) == pc' = [pc EXCEPT ![d] = l]

At(d, l) == pc[d] = l

--------------------------------------------------------------------------------
(* The coordinator *)

\* Variant: get or create.
ReuseProject(d) ==
    /\ At(d, "new")
    /\ Goto(d, "created")
    /\ owner' = IF owner = Nobody THEN d ELSE owner
    /\ UNCHANGED <<rowVars, bucket, promised, skyVars>>

\* create_project: the INSERT waits for a concurrent one of the same slug and
\* then raises the IntegrityError that becomes a ValueError.
CreateProject(d) ==
    /\ At(d, "new")
    /\ IF owner = Nobody THEN owner' = d /\ Goto(d, "created")
                         ELSE UNCHANGED owner /\ Goto(d, "rejected")
    /\ UNCHANGED <<rowVars, bucket, promised, skyVars>>

\* create_ingest_batch; when its publish raises, the run Raises here.
CreateIngest(d) ==
    /\ At(d, "created")
    /\ Row!Create(Batch(d))
    /\ promised' = [promised EXCEPT ![d] = bucket]
    /\ Goto(d, "ingesting")
    /\ UNCHANGED <<owner, bucket, skyVars>>

\* Variant: the wait ends as soon as a worker has begun.
IsResolvedOrStarted(st) == st # "PENDING"

IsResolved(st) == st \in {"COMPLETE", "FAILED"}

\* _poll_until_terminal returns a status; any other reading is followed by a
\* pause and another reading.  What it returns is what the row said then.
PollIngest(d) ==
    /\ At(d, "ingesting")
    /\ IsResolved(status[Batch(d)])
    /\ Goto(d, IF status[Batch(d)] = "FAILED" THEN "ingest_failed" ELSE "ingested")
    /\ UNCHANGED <<owner, rowVars, bucket, promised, skyVars>>

\* The mosaic's status is printed and the command is through, either way.
PollMosaic(d) ==
    /\ At(d, "drizzling")
    /\ IsResolved(status[Mosaic(d)])
    /\ Goto(d, "done")
    /\ UNCHANGED <<owner, rowVars, bucket, promised, skyVars>>

\* Variant: the time is only looked at while the job waits for a worker.
DeadlineWhilePending(d) ==
    /\ \/ At(d, "ingesting") /\ status[Batch(d)] = "PENDING"
       \/ At(d, "drizzling") /\ status[Mosaic(d)] = "PENDING"
    /\ Goto(d, "raised")
    /\ UNCHANGED <<owner, rowVars, bucket, promised, skyVars>>

\* The deadline passes first: TimeoutError.
Deadline(d) ==
    /\ pc[d] \in Polling
    /\ Goto(d, "raised")
    /\ UNCHANGED <<owner, rowVars, bucket, promised, skyVars>>

\* generate_tessellation_for_region, create_tiles: the grid is whatever the
\* region gives, and each tile is associated with what overlaps it by now.
BuildTiles(d) ==
    /\ At(d, "ingested")
    /\ \E g \in SUBSET Tiles :
         /\ grid' = [grid EXCEPT ![d] = g]
         /\ links' = [links EXCEPT ![d] =
                        [t \in Tiles |-> IF t \in g THEN cals[d] \cap Covers[t]
                                                    ELSE {}]]
         /\ Goto(d, IF g = {} THEN "no_tiles" ELSE "tiled")
    /\ UNCHANGED <<owner, rowVars, bucket, promised, cals, chosen, clustered>>

\* Variant: the first tile of the grid, as in the first draft of the command.
AnyTile(d) == grid[d]

\* Variant: the missing tile of an empty result is used as one.
BestOrNobody(d) == IF \A t \in grid[d] : links[d][t] = {} THEN {Nobody} ELSE grid[d]

Overlapping(d) == {t \in grid[d] : links[d][t] # {}}

\* The tiles with most calibrations, of all bands.
BestTiles(d) ==
    {t \in Overlapping(d) :
        \A u \in grid[d] : Cardinality(links[d][u]) <= Cardinality(links[d][t])}

\* tile_with_most_calibrations.
PickTile(d) ==
    /\ At(d, "tiled")
    /\ \/ Overlapping(d) = {} /\ UNCHANGED chosen /\ Goto(d, "no_overlap")
       \/ \E t \in BestTiles(d) : /\ chosen' = [chosen EXCEPT ![d] = {t}]
                                 /\ Goto(d, "picked")
    /\ UNCHANGED <<owner, rowVars, bucket, promised, cals, grid, links, clustered>>

\* Variant: the filter by band forgotten.
AnyBandData(d) == UNION {links[d][t] : t \in chosen[d]}

\* What cluster_epochs and the mosaic select from: the tile's calibrations in
\* the band.
BandData(d) == UNION {links[d][t] \cap BandFiles : t \in chosen[d]}

\* cluster_epochs, create_epochs: no epoch exactly when there is nothing to
\* cluster.  The run takes epochs[0], whose interval may hold any part of it.
BuildEpochs(d) ==
    /\ At(d, "picked")
    /\ IF BandData(d) = {}
       THEN UNCHANGED clustered /\ Goto(d, "no_epochs")
       ELSE clustered' = clustered \cup {d} /\ Goto(d, "clustered")
    /\ UNCHANGED <<owner, rowVars, bucket, promised, cals, grid, links, chosen>>

\* uq_level3_mosaic_identity: a row keeps the identity, whatever its status.
IdentityTaken(d) ==
    \E j \in {Mosaic(d), Rival(d)} : status[j] # "ABSENT"

\* create_mosaic: an IntegrityError goes through the whole command.
RequestMosaic(d) ==
    /\ At(d, "clustered")
    /\ IF IdentityTaken(d)
       THEN Goto(d, "raised") /\ UNCHANGED rowVars
       ELSE Goto(d, "drizzling") /\ Row!Create(Mosaic(d))
    /\ UNCHANGED <<owner, bucket, promised, skyVars>>

\* Any call fails, or the command is interrupted.
Raises(d) ==
    /\ pc[d] \notin Ends
    /\ Goto(d, "raised")
    /\ UNCHANGED <<owner, rowVars, bucket, promised, skyVars>>

Step(d) ==
    \/ CreateProject(d)
    \/ CreateIngest(d)
    \/ PollIngest(d)
    \/ BuildTiles(d)
    \/ PickTile(d)
    \/ BuildEpochs(d)
    \/ RequestMosaic(d)
    \/ PollMosaic(d)
    \/ Deadline(d)

--------------------------------------------------------------------------------
(* Everybody else *)

\* A mirror or an upload adds a file; neither removes any.
FileArrives(f) ==
    /\ bucket' = bucket \cup {f}
    /\ UNCHANGED <<pc, owner, rowVars, promised, skyVars>>

\* A run of the batch stores a listing, taken page by page at some time since
\* the batch was created, while files may have been arriving.
StoreListing(d) ==
    /\ Row!Store(Batch(d))
    /\ \E listing \in SUBSET bucket :
         /\ promised[d] \subseteq listing
         /\ cals' = [cals EXCEPT ![d] = @ \cup listing]
    /\ UNCHANGED <<pc, owner, bucket, promised, grid, links, chosen, clustered>>

\* The workers, the watchdog and the creator's except block write statuses.
WriteStatus ==
    /\ \E js \in SUBSET Jobs, new \in Status \ {"PENDING"} : Row!Rewrite(js, new)
    /\ UNCHANGED <<pc, owner, bucket, promised, skyVars>>

\* Another client ingests into the project.
OtherIngest(d, f) ==
    /\ owner = d
    /\ cals' = [cals EXCEPT ![d] = @ \cup {f}]
    /\ UNCHANGED <<pc, owner, rowVars, bucket, promised, grid, links, chosen,
                   clustered>>

\* Another client requests the mosaic of an epoch it finds in the database.
RequestRival(d) ==
    /\ d \in clustered
    /\ ~IdentityTaken(d)
    /\ Row!Create(Rival(d))
    /\ UNCHANGED <<pc, owner, bucket, promised, skyVars>>

Next ==
    \/ \E d \in Demos : \/ Step(d)
                        \/ Raises(d)
                        \/ StoreListing(d)
                        \/ RequestRival(d)
                        \/ \E f \in Files : OtherIngest(d, f)
    \/ \E f \in Files : FileArrives(f)
    \/ WriteStatus

Spec == Init /\ [][Next]_vars

\* The command goes on; its clock does too.  Nothing is assumed of the workers.
FairSpec == Spec /\ \A d \in Demos : WF_vars(Step(d))

--------------------------------------------------------------------------------
(* Safety *)

\* What the wait is for: from its grid on, a run works on an ingest that has
\* been stored, and no tile of it misses a file that was under the prefix when
\* the batch was created, also when a mirror was filling the prefix during the
\* listing, and when the status it polled has been overwritten since
\* (cmd_populate_demo_project over run_ingest_batch and create_tiles).
BuiltOnStored ==
    \A d \in Demos : pc[d] \in Tiled =>
        /\ Batch(d) \in stored
        /\ \A t \in grid[d] : promised[d] \cap Covers[t] \subseteq links[d][t]

\* A run that gives up gives the reason: without overlap there is nothing of
\* the prefix under any tile of the grid, and without epochs the best tile has
\* data, none of them in the band (the messages of cmd_populate_demo_project).
AbortsAreHonest ==
    \A d \in Demos :
        /\ pc[d] = "no_overlap" =>
               \A t \in grid[d] : promised[d] \cap Covers[t] = {}
        /\ pc[d] = "no_epochs" =>
               \E t \in chosen[d] : links[d][t] # {} /\ links[d][t] \cap BandFiles = {}

\* No mosaic is requested of a tile without data in its band, by the command or
\* by a client that follows it: the drizzle would have no input at all.
MosaicHasBandData ==
    \A d \in Demos : IdentityTaken(d) =>
        \E t \in chosen[d] : links[d][t] \cap BandFiles # {}

\* One run owns the slug, and with it every row, calibration and tile there is:
\* a loser of the race, or a second attempt after a failure, leaves nothing
\* behind (create_project).
OneBuilderPerSlug ==
    \A d \in Demos : d # owner =>
        /\ \A j \in {Batch(d), Mosaic(d), Rival(d)} : status[j] = "ABSENT"
        /\ cals[d] = {} /\ grid[d] = {}

--------------------------------------------------------------------------------
(* Liveness *)

\* The command ends, whatever becomes of its jobs: a worker pool that is down
\* or a job that is never resolved costs it the two timeouts.
DemosEnd == \A d \in Demos : <>(pc[d] \in Ends)

================================================================================
