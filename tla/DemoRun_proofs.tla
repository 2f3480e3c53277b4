----------------------------- MODULE DemoRun_proofs ----------------------------
(***************************************************************************)
(* Theorems about DemoRun, for every set of runs, files and tiles, every   *)
(* geometry, and every behaviour of the workers that JobRow allows.        *)
(***************************************************************************)
EXTENDS DemoRun, TLAPS

RowsOf(d) == {Batch(d), Mosaic(d), Rival(d)}

\* The rows of two runs are different rows.
LEMMA RowsDiffer ==
    ASSUME NEW d \in Demos, NEW e \in Demos
    PROVE  /\ Batch(d) \in Jobs /\ Mosaic(d) \in Jobs /\ Rival(d) \in Jobs
           /\ Batch(d) \in Ingests
           /\ Mosaic(d) \notin Ingests /\ Rival(d) \notin Ingests
           /\ Batch(d) # Mosaic(e) /\ Batch(d) # Rival(e) /\ Mosaic(d) # Rival(e)
           /\ d # e => /\ Batch(d) # Batch(e) /\ Mosaic(d) # Mosaic(e)
                       /\ Rival(d) # Rival(e)
BY DEF Batch, Mosaic, Rival, Jobs, Ingests

--------------------------------------------------------------------------------
(* Types *)

\* Nothing has happened.
LEMMA TypeInit == Init => TypeOK
BY DemoAssumption DEF Init, Row!Init, TypeOK, PCs, Polling, Ends, Aborts, RowStatus

\* A label of the coordinator.
LEMMA GotoType ==
    ASSUME TypeOK, NEW d \in Demos, NEW l \in PCs, Goto(d, l)
    PROVE  pc' \in [Demos -> PCs]
BY DEF TypeOK, Goto

\* A row that is inserted.
LEMMA CreateType ==
    ASSUME TypeOK, NEW j \in Jobs, Row!Create(j)
    PROVE  status' \in [Jobs -> RowStatus] /\ stored' = stored
BY DEF TypeOK, Row!Create, RowStatus, Status

\* Each step of a run keeps the types.
LEMMA StepType == ASSUME TypeOK, NEW d \in Demos, Step(d) PROVE TypeOK'
<1> USE DEF TypeOK, rowVars, skyVars
<1> DEFINE Labels == {"created", "rejected", "ingesting", "ingested",
                      "ingest_failed", "done", "raised", "no_tiles", "tiled",
                      "no_overlap", "picked", "no_epochs", "clustered",
                      "drizzling"}
<1>1. \A l \in Labels : l \in PCs
  BY DEF PCs, Polling, Ends, Aborts
<1>2. CASE CreateProject(d)
  BY <1>1, <1>2, GotoType DEF CreateProject
<1>3. CASE CreateIngest(d)
  BY <1>1, <1>3, GotoType, CreateType, RowsDiffer DEF CreateIngest
<1>4. CASE PollIngest(d)
  BY <1>1, <1>4, GotoType DEF PollIngest
<1>5. CASE BuildTiles(d)
  <2>1. PICK g \in SUBSET Tiles :
          /\ grid' = [grid EXCEPT ![d] = g]
          /\ links' = [links EXCEPT ![d] =
                         [t \in Tiles |-> IF t \in g THEN cals[d] \cap Covers[t]
                                                     ELSE {}]]
          /\ Goto(d, IF g = {} THEN "no_tiles" ELSE "tiled")
    BY <1>5 DEF BuildTiles
  <2>2. pc' \in [Demos -> PCs]
    BY <1>1, <2>1, GotoType
  <2>3. [t \in Tiles |-> IF t \in g THEN cals[d] \cap Covers[t] ELSE {}]
            \in [Tiles -> SUBSET Files]
    OBVIOUS
  <2>4. links' \in [Demos -> [Tiles -> SUBSET Files]]
    BY <2>1, <2>3
  <2>5. grid' \in [Demos -> SUBSET Tiles]
    BY <2>1
  <2>6. QED
    BY <1>5, <2>2, <2>4, <2>5 DEF BuildTiles
<1>6. CASE PickTile(d)
  <2>1. BestTiles(d) \subseteq Tiles
    BY DEF BestTiles, Overlapping
  <2>2. chosen' \in [Demos -> SUBSET Tiles]
    BY <1>6, <2>1 DEF PickTile
  <2>3. pc' \in [Demos -> PCs]
    BY <1>1, <1>6, GotoType DEF PickTile
  <2>4. QED
    BY <1>6, <2>2, <2>3 DEF PickTile
<1>7. CASE BuildEpochs(d)
  BY <1>1, <1>7, GotoType DEF BuildEpochs
<1>8. CASE RequestMosaic(d)
  BY <1>1, <1>8, GotoType, CreateType, RowsDiffer DEF RequestMosaic
<1>9. CASE PollMosaic(d) \/ Deadline(d)
  BY <1>1, <1>9, GotoType DEF PollMosaic, Deadline
<1>10. QED
  BY <1>2, <1>3, <1>4, <1>5, <1>6, <1>7, <1>8, <1>9 DEF Step

\* So does everything else.
LEMMA TypeStep == TypeOK /\ [Next]_vars => TypeOK'
<1> SUFFICES ASSUME TypeOK, [Next]_vars PROVE TypeOK'
  OBVIOUS
<1>1. ASSUME NEW d \in Demos, Step(d) PROVE TypeOK'
  BY <1>1, StepType
<1>2. ASSUME NEW d \in Demos, Raises(d) PROVE TypeOK'
  <2>1. "raised" \in PCs
    BY DEF PCs, Ends
  <2>2. QED
    BY <1>2, <2>1, GotoType DEF Raises, TypeOK, rowVars, skyVars
<1>3. ASSUME NEW d \in Demos, StoreListing(d) PROVE TypeOK'
  <2>1. stored' \subseteq Ingests
    BY <1>3, RowsDiffer DEF StoreListing, Row!Store, TypeOK
  <2>2. cals' \in [Demos -> SUBSET Files]
    BY <1>3 DEF StoreListing, TypeOK
  <2>3. QED
    BY <1>3, <2>1, <2>2 DEF StoreListing, Row!Store, TypeOK
<1>4. ASSUME NEW d \in Demos, RequestRival(d) PROVE TypeOK'
  BY <1>4, CreateType, RowsDiffer DEF RequestRival, TypeOK, skyVars
<1>5. ASSUME NEW d \in Demos, NEW f \in Files, OtherIngest(d, f) PROVE TypeOK'
  BY <1>5 DEF OtherIngest, TypeOK, rowVars
<1>6. ASSUME NEW f \in Files, FileArrives(f) PROVE TypeOK'
  BY <1>6 DEF FileArrives, TypeOK, rowVars, skyVars
<1>7. ASSUME WriteStatus PROVE TypeOK'
  <2>1. PICK js \in SUBSET Jobs, new \in Status \ {"PENDING"} : Row!Rewrite(js, new)
    BY <1>7 DEF WriteStatus
  <2>2. status' \in [Jobs -> RowStatus] /\ stored' = stored
    BY <2>1 DEF Row!Rewrite, TypeOK, RowStatus
  <2>3. QED
    BY <1>7, <2>2 DEF WriteStatus, TypeOK, skyVars
<1>8. CASE UNCHANGED vars
  BY <1>8 DEF vars, TypeOK
<1>9. QED
  BY <1>1, <1>2, <1>3, <1>4, <1>5, <1>6, <1>7, <1>8 DEF Next

\* The variables of DemoRun keep their types.
THEOREM DemoTypeCorrect == Spec => []TypeOK
BY TypeInit, TypeStep, PTL DEF Spec

--------------------------------------------------------------------------------
(* One run at a time *)

\* A run that does not own the slug has nothing.
Penniless(d) ==
    /\ pc[d] \in {"new", "rejected", "raised"}
    /\ \A j \in RowsOf(d) : status[j] = "ABSENT"
    /\ cals[d] = {} /\ grid[d] = {} /\ d \notin clustered

\* What is known of the batch.
BatchInv(d) ==
    /\ status[Batch(d)] = "COMPLETE" => Batch(d) \in stored
    /\ Batch(d) \in stored => /\ status[Batch(d)] # "ABSENT"
                              /\ promised[d] \subseteq cals[d]
    /\ pc[d] \in Tiled \cup {"ingested", "no_tiles"} => Batch(d) \in stored

\* What is known of the grid, the tile and the epochs.
SkyInv(d) ==
    /\ pc[d] \in Tiled =>
           \A t \in grid[d] : promised[d] \cap Covers[t] \subseteq links[d][t]
    /\ pc[d] = "no_overlap" => \A t \in grid[d] : links[d][t] = {}
    /\ pc[d] \in {"picked", "no_epochs"} => \E t \in chosen[d] : links[d][t] # {}
    /\ pc[d] = "no_epochs" => BandData(d) = {}
    /\ pc[d] \in {"clustered", "drizzling", "done"} => d \in clustered
    /\ d \in clustered => /\ pc[d] \in {"clustered", "drizzling", "raised", "done"}
                          /\ BandData(d) # {}

\* What is known of the mosaics.
MosaicInv(d) ==
    /\ IdentityTaken(d) => d \in clustered
    /\ "ABSENT" \in {status[Mosaic(d)], status[Rival(d)]}

RunInv(d) ==
    /\ d # owner => Penniless(d)
    /\ BatchInv(d) /\ SkyInv(d) /\ MosaicInv(d)

DemoInv == TypeOK /\ \A d \in Demos : RunInv(d)

\* Nothing that belongs to run d has changed.
Untouched(d) ==
    /\ pc'[d] = pc[d] /\ promised'[d] = promised[d] /\ cals'[d] = cals[d]
    /\ grid'[d] = grid[d] /\ links'[d] = links[d] /\ chosen'[d] = chosen[d]
    /\ d \in clustered' <=> d \in clustered
    /\ \A j \in RowsOf(d) : /\ status'[j] = status[j]
                            /\ j \in stored' <=> j \in stored
    /\ d # owner' => d # owner

LEMMA UntouchedRun ==
    ASSUME NEW d \in Demos, RunInv(d), Untouched(d) PROVE RunInv(d)'
BY DEF RunInv, Penniless, BatchInv, SkyInv, MosaicInv, Untouched, RowsOf, BandData,
       IdentityTaken

\* A step of one run, or about one run, leaves the others untouched.
LEMMA OthersUntouched ==
    ASSUME TypeOK, NEW d \in Demos, NEW e \in Demos, d # e,
           \/ Step(d) \/ Raises(d) \/ StoreListing(d) \/ RequestRival(d)
           \/ \E f \in Files : OtherIngest(d, f)
    PROVE  Untouched(e)
<1> USE DEF TypeOK, rowVars, skyVars, Goto, RowsOf, Untouched
<1>1. CASE CreateProject(d) \/ PollIngest(d) \/ PollMosaic(d) \/ Deadline(d)
           \/ Raises(d)
  BY <1>1, DemoAssumption
     DEF CreateProject, PollIngest, PollMosaic, Deadline, Raises, At
<1>2. CASE CreateIngest(d) \/ RequestMosaic(d) \/ RequestRival(d)
  BY <1>2, RowsDiffer DEF CreateIngest, RequestMosaic, RequestRival, Row!Create
<1>3. CASE BuildTiles(d)
  BY <1>3 DEF BuildTiles
<1>4. CASE PickTile(d) \/ BuildEpochs(d)
  BY <1>4 DEF PickTile, BuildEpochs
<1>5. CASE StoreListing(d)
  BY <1>5, RowsDiffer DEF StoreListing, Row!Store
<1>6. CASE \E f \in Files : OtherIngest(d, f)
  BY <1>6 DEF OtherIngest
<1>7. QED
  BY <1>1, <1>2, <1>3, <1>4, <1>5, <1>6 DEF Step

\* At the start there is nothing.
LEMMA DemoInit == Init => DemoInv
<1> SUFFICES ASSUME Init PROVE DemoInv
  OBVIOUS
<1>1. TypeOK
  BY TypeInit
<1>2. ASSUME NEW d \in Demos PROVE RunInv(d)
  <2>1. \A j \in RowsOf(d) : status[j] = "ABSENT" /\ j \notin stored
    BY RowsDiffer DEF Init, Row!Init, RowsOf
  <2>2. pc[d] = "new" /\ d \notin clustered /\ cals[d] = {} /\ grid[d] = {}
    BY DEF Init
  <2>3. QED
    BY <2>1, <2>2 DEF RunInv, Penniless, BatchInv, SkyInv, MosaicInv, RowsOf,
       IdentityTaken, Tiled
<1>3. QED
  BY <1>1, <1>2 DEF DemoInv

--------------------------------------------------------------------------------
(* The steps of a run *)

\* Only the owner of the slug gets past the first step.
LEMMA OwnerOnly ==
    ASSUME NEW d \in Demos, RunInv(d), pc[d] \notin {"new", "rejected", "raised"}
    PROVE  d = owner
BY DEF RunInv, Penniless

\* A label changes and nothing else; the grid stages are excluded.
LEMMA LabelStep ==
    ASSUME TypeOK, NEW d \in Demos, RunInv(d), NEW l, Goto(d, l),
           UNCHANGED <<owner, rowVars, promised, skyVars>>,
           d # owner => l = "raised",
           l \in {"ingested", "done"} => Batch(d) \in stored,
           l = "done" => pc[d] = "drizzling",
           l \in {"ingest_failed", "raised", "ingested", "done"},
           l \in {"ingest_failed", "ingested"} => pc[d] = "ingesting"
    PROVE  RunInv(d)'
<1>1. pc'[d] = l
  BY DEF Goto, TypeOK
<1>2. /\ owner' = owner /\ status' = status /\ stored' = stored
      /\ promised' = promised /\ cals' = cals /\ grid' = grid /\ links' = links
      /\ chosen' = chosen /\ clustered' = clustered
  BY DEF rowVars, skyVars
<1>3. (d # owner => Penniless(d))'
  BY <1>1, <1>2 DEF RunInv, Penniless, RowsOf
<1>4. BatchInv(d)'
  BY <1>1, <1>2 DEF RunInv, BatchInv, Tiled
<1>5. SkyInv(d)'
  BY <1>1, <1>2 DEF RunInv, SkyInv, BandData, Tiled
<1>6. MosaicInv(d)'
  BY <1>1, <1>2 DEF RunInv, MosaicInv, IdentityTaken
<1>7. QED
  BY <1>3, <1>4, <1>5, <1>6 DEF RunInv

LEMMA CreateProjectRun ==
    ASSUME TypeOK, NEW d \in Demos, RunInv(d), CreateProject(d) PROVE RunInv(d)'
<1>1. /\ pc[d] = "new" /\ pc'[d] \in {"created", "rejected"}
      /\ owner' = d \/ (owner' = owner /\ pc'[d] = "rejected")
      /\ status' = status /\ stored' = stored
      /\ promised' = promised /\ cals' = cals /\ grid' = grid /\ links' = links
      /\ chosen' = chosen /\ clustered' = clustered
  BY DEF CreateProject, At, Goto, TypeOK, rowVars, skyVars
<1>2. QED
  BY <1>1 DEF RunInv, Penniless, RowsOf, BatchInv, SkyInv, BandData, MosaicInv,
     IdentityTaken, Tiled

LEMMA CreateIngestRun ==
    ASSUME TypeOK, NEW d \in Demos, RunInv(d), CreateIngest(d) PROVE RunInv(d)'
<1>1. /\ pc[d] = "created" /\ pc'[d] = "ingesting" /\ d = owner
      /\ owner' = owner /\ stored' = stored
      /\ status[Batch(d)] = "ABSENT" /\ status'[Batch(d)] = "PENDING"
      /\ status'[Mosaic(d)] = status[Mosaic(d)]
      /\ status'[Rival(d)] = status[Rival(d)]
      /\ cals' = cals /\ grid' = grid /\ links' = links
      /\ chosen' = chosen /\ clustered' = clustered
  BY OwnerOnly, RowsDiffer DEF CreateIngest, At, Goto, TypeOK, skyVars, Row!Create
<1>2. QED
  BY <1>1 DEF RunInv, BatchInv, SkyInv, BandData, MosaicInv, IdentityTaken, Tiled

LEMMA PollRun ==
    ASSUME TypeOK, NEW d \in Demos, RunInv(d),
           PollIngest(d) \/ PollMosaic(d) \/ Deadline(d) \/ Raises(d)
    PROVE  RunInv(d)'
<1>1. CASE PollIngest(d)
  <2>1. d = owner /\ pc[d] = "ingesting"
    BY <1>1, OwnerOnly DEF PollIngest, At
  <2>2. CASE status[Batch(d)] = "FAILED"
    BY <1>1, <2>1, <2>2, LabelStep DEF PollIngest
  <2>3. CASE status[Batch(d)] # "FAILED"
    <3>1. Batch(d) \in stored
      BY <1>1, <2>3 DEF PollIngest, IsResolved, RunInv, BatchInv
    <3>2. QED
      BY <1>1, <2>1, <2>3, <3>1, LabelStep DEF PollIngest
  <2>4. QED
    BY <2>2, <2>3
<1>2. CASE PollMosaic(d)
  <2>1. d = owner /\ pc[d] = "drizzling" /\ Batch(d) \in stored
    BY <1>2, OwnerOnly DEF PollMosaic, At, RunInv, BatchInv, Tiled
  <2>2. QED
    BY <1>2, <2>1, LabelStep DEF PollMosaic
<1>3. CASE Deadline(d) \/ Raises(d)
  BY <1>3, LabelStep DEF Deadline, Raises
<1>4. QED
  BY <1>1, <1>2, <1>3

LEMMA BuildTilesRun ==
    ASSUME TypeOK, NEW d \in Demos, RunInv(d), BuildTiles(d) PROVE RunInv(d)'
<1>1. PICK g \in SUBSET Tiles :
        /\ grid' = [grid EXCEPT ![d] = g]
        /\ links' = [links EXCEPT ![d] =
                       [t \in Tiles |-> IF t \in g THEN cals[d] \cap Covers[t]
                                                   ELSE {}]]
        /\ Goto(d, IF g = {} THEN "no_tiles" ELSE "tiled")
  BY DEF BuildTiles
<1>2. /\ pc[d] = "ingested" /\ pc'[d] \in {"no_tiles", "tiled"} /\ d = owner
      /\ grid'[d] = g
      /\ owner' = owner /\ status' = status /\ stored' = stored
      /\ promised' = promised /\ cals' = cals
      /\ chosen' = chosen /\ clustered' = clustered
  BY <1>1, OwnerOnly DEF BuildTiles, At, Goto, TypeOK, rowVars
<1>3. \A t \in g : links'[d][t] = cals[d] \cap Covers[t]
  BY <1>1 DEF TypeOK
<1>4. promised[d] \subseteq cals[d] /\ Batch(d) \in stored /\ d \notin clustered
  BY <1>2 DEF RunInv, BatchInv, SkyInv
<1>5. BatchInv(d)' /\ MosaicInv(d)'
  BY <1>2, <1>4 DEF RunInv, BatchInv, MosaicInv, IdentityTaken
<1>6. SkyInv(d)'
  BY <1>2, <1>3, <1>4 DEF SkyInv
<1>7. QED
  BY <1>2, <1>5, <1>6 DEF RunInv

LEMMA PickTileRun ==
    ASSUME TypeOK, NEW d \in Demos, RunInv(d), PickTile(d) PROVE RunInv(d)'
<1>1. /\ pc[d] = "tiled" /\ d = owner
      /\ owner' = owner /\ status' = status /\ stored' = stored
      /\ promised' = promised /\ cals' = cals /\ grid' = grid /\ links' = links
      /\ clustered' = clustered
  BY OwnerOnly DEF PickTile, At, rowVars
<1>2. \/ /\ pc'[d] = "no_overlap" /\ \A t \in grid[d] : links[d][t] = {}
      \/ /\ pc'[d] = "picked" /\ \E t \in chosen'[d] : links[d][t] # {}
  BY DEF PickTile, Goto, TypeOK, BestTiles, Overlapping
<1>3. BatchInv(d)' /\ MosaicInv(d)'
  BY <1>1, <1>2 DEF RunInv, BatchInv, MosaicInv, IdentityTaken, Tiled
<1>4. SkyInv(d)'
  BY <1>1, <1>2 DEF RunInv, SkyInv, Tiled
<1>5. QED
  BY <1>1, <1>3, <1>4 DEF RunInv

LEMMA BuildEpochsRun ==
    ASSUME TypeOK, NEW d \in Demos, RunInv(d), BuildEpochs(d) PROVE RunInv(d)'
<1>1. /\ pc[d] = "picked" /\ d = owner
      /\ owner' = owner /\ status' = status /\ stored' = stored
      /\ promised' = promised /\ cals' = cals /\ grid' = grid /\ links' = links
      /\ chosen' = chosen
  BY OwnerOnly DEF BuildEpochs, At, rowVars
<1>2. \/ pc'[d] = "no_epochs" /\ BandData(d) = {} /\ clustered' = clustered
      \/ /\ pc'[d] = "clustered" /\ BandData(d) # {}
         /\ clustered' = clustered \cup {d}
  BY DEF BuildEpochs, Goto, TypeOK
<1>3. BatchInv(d)' /\ MosaicInv(d)'
  BY <1>1, <1>2 DEF RunInv, BatchInv, MosaicInv, IdentityTaken, Tiled
<1>4. SkyInv(d)'
  BY <1>1, <1>2 DEF RunInv, SkyInv, BandData, Tiled
<1>5. QED
  BY <1>1, <1>3, <1>4 DEF RunInv

\* A request that is granted takes an identity nobody has.
LEMMA RequestRun ==
    ASSUME TypeOK, NEW d \in Demos, RunInv(d), RequestMosaic(d) \/ RequestRival(d)
    PROVE  RunInv(d)'
<1>1. CASE RequestMosaic(d) /\ IdentityTaken(d)
  BY <1>1, LabelStep DEF RequestMosaic
<1>2. CASE ~(RequestMosaic(d) /\ IdentityTaken(d))
  <2>1. /\ ~IdentityTaken(d)
        /\ Row!Create(Mosaic(d)) \/ Row!Create(Rival(d))
        /\ d \in clustered /\ d = owner
        /\ pc'[d] = pc[d] \/ (pc[d] = "clustered" /\ pc'[d] = "drizzling")
        /\ owner' = owner /\ promised' = promised /\ cals' = cals
        /\ grid' = grid /\ links' = links /\ chosen' = chosen
        /\ clustered' = clustered
    BY <1>2 DEF RequestMosaic, RequestRival, At, Goto, TypeOK, skyVars, RunInv,
       Penniless, SkyInv
  <2>2. /\ status'[Batch(d)] = status[Batch(d)] /\ stored' = stored
        /\ "ABSENT" \in {status'[Mosaic(d)], status'[Rival(d)]}
    BY <2>1, RowsDiffer DEF Row!Create, IdentityTaken, TypeOK
  <2>3. BatchInv(d)' /\ MosaicInv(d)'
    BY <2>1, <2>2 DEF RunInv, BatchInv, MosaicInv, Tiled
  <2>4. SkyInv(d)'
    BY <2>1 DEF RunInv, SkyInv, BandData, Tiled
  <2>5. QED
    BY <2>1, <2>3, <2>4 DEF RunInv
<1>3. QED
  BY <1>1, <1>2

--------------------------------------------------------------------------------
(* The steps of everybody else *)

\* A listing holds what was promised, and what is ingested stays.
LEMMA StoreRun ==
    ASSUME TypeOK, NEW d \in Demos, RunInv(d),
           StoreListing(d) \/ \E f \in Files : OtherIngest(d, f)
    PROVE  RunInv(d)'
<1>1. /\ pc' = pc /\ owner' = owner /\ promised' = promised /\ grid' = grid
      /\ links' = links /\ chosen' = chosen /\ clustered' = clustered
      /\ status' = status
  BY DEF StoreListing, OtherIngest, Row!Store, rowVars
<1>2. d = owner
  BY DEF StoreListing, OtherIngest, Row!Store, RunInv, Penniless, RowsOf
<1>3. cals[d] \subseteq cals'[d] /\ stored \subseteq stored'
  BY DEF StoreListing, OtherIngest, Row!Store, TypeOK, rowVars
<1>4. Batch(d) \in stored' =>
        status[Batch(d)] # "ABSENT" /\ promised[d] \subseteq cals'[d]
  <2>1. CASE StoreListing(d)
    BY <2>1 DEF StoreListing, Row!Store, TypeOK
  <2>2. CASE \E f \in Files : OtherIngest(d, f)
    BY <1>3, <2>2 DEF OtherIngest, rowVars, RunInv, BatchInv
  <2>3. QED
    BY <2>1, <2>2
<1>5. BatchInv(d)'
  BY <1>1, <1>3, <1>4 DEF RunInv, BatchInv
<1>6. SkyInv(d)' /\ MosaicInv(d)'
  BY <1>1 DEF RunInv, SkyInv, MosaicInv, BandData, IdentityTaken
<1>7. QED
  BY <1>1, <1>2, <1>5, <1>6 DEF RunInv

\* Statuses are written to rows that are there, COMPLETE to stored batches only.
LEMMA WriteStatusRun ==
    ASSUME TypeOK, NEW d \in Demos, RunInv(d), WriteStatus PROVE RunInv(d)'
<1>1. PICK js \in SUBSET Jobs, new \in Status \ {"PENDING"} : Row!Rewrite(js, new)
  BY DEF WriteStatus
<1>2. /\ pc' = pc /\ owner' = owner /\ promised' = promised /\ grid' = grid
      /\ links' = links /\ chosen' = chosen /\ clustered' = clustered
      /\ stored' = stored /\ cals' = cals
  BY <1>1 DEF WriteStatus, skyVars, Row!Rewrite
<1>3. \A j \in Jobs : /\ status'[j] = "ABSENT" <=> status[j] = "ABSENT"
                      /\ status'[j] = "COMPLETE" /\ j \in Ingests
                             => status[j] = "COMPLETE" \/ j \in stored
  BY <1>1 DEF Row!Rewrite, Status
<1>4. BatchInv(d)' /\ MosaicInv(d)'
  BY <1>2, <1>3, RowsDiffer DEF RunInv, BatchInv, MosaicInv, IdentityTaken
<1>5. SkyInv(d)'
  BY <1>2 DEF RunInv, SkyInv, BandData
<1>6. (d # owner => Penniless(d))'
  BY <1>2, <1>3, RowsDiffer DEF RunInv, Penniless, RowsOf
<1>7. QED
  BY <1>4, <1>5, <1>6 DEF RunInv

\* The invariant, by whose step it is.
LEMMA DemoStep == DemoInv /\ [Next]_vars => DemoInv'
<1> SUFFICES ASSUME TypeOK, \A d \in Demos : RunInv(d), [Next]_vars,
                    NEW e \in Demos
             PROVE  RunInv(e)'
  BY TypeStep DEF DemoInv
<1>1. ASSUME NEW d \in Demos,
             \/ Step(d) \/ Raises(d) \/ StoreListing(d) \/ RequestRival(d)
             \/ \E f \in Files : OtherIngest(d, f)
      PROVE  RunInv(e)'
  <2>1. CASE d # e
    BY <1>1, <2>1, OthersUntouched, UntouchedRun
  <2>2. CASE d = e
    <3>1. CASE Step(e)
      BY <3>1, CreateProjectRun, CreateIngestRun, PollRun, BuildTilesRun,
         PickTileRun, BuildEpochsRun, RequestRun DEF Step
    <3>2. CASE Raises(e) \/ RequestRival(e)
      BY <3>2, PollRun, RequestRun
    <3>3. CASE StoreListing(e) \/ \E f \in Files : OtherIngest(e, f)
      BY <3>3, StoreRun
    <3>4. QED
      BY <1>1, <2>2, <3>1, <3>2, <3>3
  <2>3. QED
    BY <2>1, <2>2
<1>2. CASE \E f \in Files : FileArrives(f)
  BY <1>2, UntouchedRun DEF FileArrives, Untouched, rowVars, skyVars
<1>3. CASE WriteStatus
  BY <1>3, WriteStatusRun
<1>4. CASE UNCHANGED vars
  BY <1>4, UntouchedRun DEF vars, Untouched
<1>5. QED
  BY <1>1, <1>2, <1>3, <1>4 DEF Next

LEMMA DemoInvariant == Spec => []DemoInv
BY DemoInit, DemoStep, PTL DEF Spec, DemoInv

--------------------------------------------------------------------------------
(* Theorems *)

\* Past its wait a run works on an ingest that was stored and misses none of
\* the files the batch was created over, whatever the status has become since.
THEOREM RunsBuildOnStored == Spec => []BuiltOnStored
<1>1. DemoInv => BuiltOnStored
  BY DEF DemoInv, RunInv, BatchInv, SkyInv, BuiltOnStored
<1>2. QED
  BY <1>1, DemoInvariant, PTL

\* The reasons a run gives for its end are the true ones.
THEOREM ReasonsAreTrue == Spec => []AbortsAreHonest
<1>1. ASSUME DemoInv, NEW d \in Demos, pc[d] = "no_overlap"
      PROVE  \A t \in grid[d] : promised[d] \cap Covers[t] = {}
  BY <1>1 DEF DemoInv, RunInv, SkyInv, Tiled
<1>2. ASSUME DemoInv, NEW d \in Demos, pc[d] = "no_epochs"
      PROVE  \E t \in chosen[d] : links[d][t] # {} /\ links[d][t] \cap BandFiles = {}
  BY <1>2 DEF DemoInv, RunInv, SkyInv, BandData
<1>3. DemoInv => AbortsAreHonest
  BY <1>1, <1>2 DEF AbortsAreHonest
<1>4. QED
  BY <1>3, DemoInvariant, PTL

\* Every mosaic that is requested has something to be built from.
THEOREM RequestsHaveData == Spec => []MosaicHasBandData
<1>1. DemoInv => MosaicHasBandData
  BY DEF DemoInv, RunInv, SkyInv, MosaicInv, MosaicHasBandData, BandData
<1>2. QED
  BY <1>1, DemoInvariant, PTL

\* The slug decides who builds, and the others leave nothing behind.
THEOREM SlugDecides == Spec => []OneBuilderPerSlug
<1>1. DemoInv => OneBuilderPerSlug
  BY DEF DemoInv, RunInv, Penniless, RowsOf, OneBuilderPerSlug
<1>2. QED
  BY <1>1, DemoInvariant, PTL

================================================================================
