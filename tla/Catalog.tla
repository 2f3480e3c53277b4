-------------------------------- MODULE Catalog --------------------------------
(***************************************************************************)
(* The domain graph in PostgreSQL and the transactions that build it:      *)
(*                                                                         *)
(*   ingest runs        add calibrations (one per project and image);      *)
(*   create_tiles       inserts tiles, links each to the calibrations it   *)
(*                      overlaps, commits;                                 *)
(*   create_epochs      inserts epochs, links each to the calibrations of  *)
(*                      its tile and band inside its MJD range, commits;   *)
(*   create_mosaic      reads the calibrations two rows have in common,    *)
(*                      then inserts a row with their union.               *)
(*                                                                         *)
(* One action is one statement.  Isolation is READ COMMITTED: a statement  *)
(* sees what was committed when it began, and a transaction its own rows.  *)
(* A row that is not committed is known to the client that inserts it      *)
(* only.  A request may name any id, of a row that is committed or not:    *)
(* reads then find nothing, and foreign keys refuse the INSERT.  No code   *)
(* deletes or updates these rows, a mosaic's status apart (TrackedJob).    *)
(***************************************************************************)
EXTENDS Naturals, FiniteSets

CONSTANTS
    Files,        \* base file names, one Level2Image each
    Prefixes,     \* what a prefix may list: sets of files
    Projects,
    Bands,
    Instruments,
    Shapes,       \* tile footprints
    Intervals,    \* MJD intervals of epochs: records with lo and hi
    TileIds,
    EpochIds,
    Clients,      \* sessions of API and CLI processes
    MaxMosaics,   \* bound: no mosaic is asked for once there are this many
    MaxEarly,     \* bound: requests at a time that name rows not yet committed
    Nil,
    MjdOf,        \* image |-> mjd_avg
    BandOf,       \* image |-> band_id
    Covers        \* shape |-> images whose footprint it overlaps (&&)

ASSUME CatalogAssumption ==
    /\ Prefixes \subseteq SUBSET Files
    /\ Intervals \subseteq [lo : Nat, hi : Nat]
    /\ MjdOf \in [Files -> Nat]
    /\ BandOf \in [Files -> Bands]
    /\ Covers \in [Shapes -> SUBSET Files]
    /\ MaxMosaics \in Nat
    /\ MaxEarly \in Nat
    /\ Nil \notin Clients

VARIABLES
    cals,      \* committed calibrations
    tiles,     \* the tiles table, with the links of each tile
    epochs,    \* the epochs table, with the links of each epoch
    mosaics,   \* the level3_mosaics table
    draft      \* the mosaic a create_mosaic call is about to insert

vars == <<cals, tiles, epochs, mosaics, draft>>

--------------------------------------------------------------------------------
(* Types *)

Calibrations == [project : Projects, file : Files]

Stages == {"free", "inserted", "linked", "committed"}

\* `by' is the open transaction the row is of; `owed' is history: what it overlapped by then.
TileRows ==
    [stage : Stages, by : Clients \cup {Nil}, project : Projects \cup {Nil},
     shape : Shapes \cup {Nil}, owed : SUBSET Calibrations,
     links : SUBSET Calibrations]

EpochRows ==
    [stage : Stages, by : Clients \cup {Nil}, project : Projects \cup {Nil},
     tile : TileIds \cup {Nil}, band : Bands \cup {Nil},
     interval : Intervals \cup {Nil}, links : SUBSET Calibrations]

NoTile == [stage |-> "free", by |-> Nil, project |-> Nil, shape |-> Nil,
           owed |-> {}, links |-> {}]

NoEpoch == [stage |-> "free", by |-> Nil, project |-> Nil, tile |-> Nil,
            band |-> Nil, interval |-> Nil, links |-> {}]

Identities == [project : Projects, tile : TileIds, epoch : EpochIds,
               band : Bands, instrument : Instruments]

\* A mosaic's footprint is the union of its constituents': here, their set.
\* `known' is history: tile and epoch were committed when it was computed.
Mosaics == [of : Identities, footprint : SUBSET Calibrations, known : BOOLEAN]

NoDraft == [of |-> Nil, footprint |-> {}, known |-> FALSE]

\* A row belongs to an open transaction until it is committed or gone.
Owned(row, empty) ==
    /\ row.by # Nil <=> row.stage \in {"inserted", "linked"}
    /\ row.stage = "free" => row = empty

TypeOK ==
    /\ cals \subseteq Calibrations
    /\ tiles \in [TileIds -> TileRows]
    /\ \A t \in TileIds : Owned(tiles[t], NoTile)
    /\ epochs \in [EpochIds -> EpochRows]
    /\ \A e \in EpochIds : Owned(epochs[e], NoEpoch)
    /\ mosaics \subseteq Mosaics
    /\ draft \in [Clients -> Mosaics \cup {NoDraft}]

Init ==
    /\ cals = {}
    /\ tiles = [t \in TileIds |-> NoTile]
    /\ epochs = [e \in EpochIds |-> NoEpoch]
    /\ mosaics = {}
    /\ draft = [c \in Clients |-> NoDraft]

--------------------------------------------------------------------------------
(* What statements see *)

Visible(row) == row.stage = "committed"

\* The SELECT of _associate_tiles_with_overlapping_calibrations.
Overlapping(row) ==
    {x \in cals : x.project = row.project /\ x.file \in Covers[row.shape]}

\* The SELECT of _associate_epochs_with_calibrations_in_range.
InRange(row) ==
    {x \in cals \cap tiles[row.tile].links :
        /\ x.project = row.project
        /\ BandOf[x.file] = row.band
        /\ MjdOf[x.file] \in row.interval.lo .. row.interval.hi}

\* The associations of a row that others see: they are committed with it.
LinksOf(row) == IF Visible(row) THEN row.links ELSE {}

\* Variant without the filter on the project.
ConstituentsOfAll(m) ==
    {x \in cals \cap LinksOf(tiles[m.tile]) \cap LinksOf(epochs[m.epoch]) :
        BandOf[x.file] = m.band}

\* The SELECT of _fetch_constituent_footprints.
Constituents(m) ==
    {x \in cals \cap LinksOf(tiles[m.tile]) \cap LinksOf(epochs[m.epoch]) :
        /\ x.project = m.project
        /\ BandOf[x.file] = m.band}

\* The rows that the foreign keys of a mosaic ask for.
Referable(m) == Visible(tiles[m.tile]) /\ Visible(epochs[m.epoch])

\* The bounds on requests.
MayRequest(m) ==
    /\ Cardinality(mosaics) < MaxMosaics
    /\ \/ Referable(m)
       \/ Cardinality({d \in Clients : draft[d] # NoDraft /\ ~draft[d].known})
              < MaxEarly

\* Inserted by the transaction of c, which has not committed.
Open(row, c) == row.by = c

\* A session works on one call at a time.
Ready(c) ==
    /\ \A t \in TileIds : ~Open(tiles[t], c)
    /\ \A e \in EpochIds : ~Open(epochs[e], c)
    /\ draft[c] = NoDraft

--------------------------------------------------------------------------------
(* Ingest *)

\* bulk_upsert_images_and_calibrations commits: ON CONFLICT DO NOTHING keeps
\* the rows that are there.
IngestCommit(p, fs) ==
    /\ cals' = cals \cup [project : {p}, file : fs]
    /\ UNCHANGED <<tiles, epochs, mosaics, draft>>

--------------------------------------------------------------------------------
(* create_tiles *)

InsertTiles(c, p) ==
    /\ Ready(c)
    /\ \E ts \in SUBSET {t \in TileIds : tiles[t].stage = "free"} :
         /\ ts # {}
         /\ \E shape \in [ts -> Shapes] :
              tiles' = [t \in TileIds |->
                  IF t \in ts
                  THEN [stage |-> "inserted", by |-> c, project |-> p,
                        shape |-> shape[t], links |-> {},
                        owed |-> Overlapping([project |-> p, shape |-> shape[t]])]
                  ELSE tiles[t]]
    /\ UNCHANGED <<cals, epochs, mosaics, draft>>

\* Variant: the loop ends after its first tile.
LinkFirstTile(c, t) ==
    /\ Open(tiles[t], c)
    /\ tiles[t].stage = "inserted"
    /\ tiles' = [u \in TileIds |->
           IF u = t
           THEN [tiles[u] EXCEPT !.stage = "linked", !.links = Overlapping(tiles[u])]
           ELSE IF Open(tiles[u], c) THEN [tiles[u] EXCEPT !.stage = "linked"]
           ELSE tiles[u]]
    /\ UNCHANGED <<cals, epochs, mosaics, draft>>

\* One turn of the loop: a SELECT of its own, hence a snapshot of its own.
LinkTile(c, t) ==
    /\ Open(tiles[t], c)
    /\ tiles[t].stage = "inserted"
    /\ tiles' = [tiles EXCEPT ![t].stage = "linked",
                              ![t].links = Overlapping(tiles[t])]
    /\ UNCHANGED <<cals, epochs, mosaics, draft>>

CommitTiles(c) ==
    /\ \E t \in TileIds : Open(tiles[t], c)
    /\ \A t \in TileIds : Open(tiles[t], c) => tiles[t].stage = "linked"
    /\ tiles' = [t \in TileIds |->
           IF Open(tiles[t], c)
           THEN [tiles[t] EXCEPT !.stage = "committed", !.by = Nil]
           ELSE tiles[t]]
    /\ UNCHANGED <<cals, epochs, mosaics, draft>>

--------------------------------------------------------------------------------
(* create_epochs *)

\* Intervals come from cluster_epochs or from the client; the foreign key asks
\* for a committed tile, of any project.
InsertEpochs(c, p) ==
    /\ Ready(c)
    /\ \E es \in SUBSET {e \in EpochIds : epochs[e].stage = "free"} :
         /\ es # {}
         /\ \E tile \in [es -> {t \in TileIds : Visible(tiles[t])}],
               band \in [es -> Bands], interval \in [es -> Intervals] :
              epochs' = [e \in EpochIds |->
                  IF e \in es
                  THEN [stage |-> "inserted", by |-> c, project |-> p,
                        tile |-> tile[e], band |-> band[e],
                        interval |-> interval[e], links |-> {}]
                  ELSE epochs[e]]
    /\ UNCHANGED <<cals, tiles, mosaics, draft>>

\* Variant: by project and MJD only, as the first draft of epoch_service did.
LinkEpochLoosely(c, e) ==
    /\ Open(epochs[e], c)
    /\ epochs[e].stage = "inserted"
    /\ epochs' = [epochs EXCEPT
           ![e].stage = "linked",
           ![e].links = {x \in cals :
               /\ x.project = epochs[e].project
               /\ MjdOf[x.file] \in epochs[e].interval.lo .. epochs[e].interval.hi}]
    /\ UNCHANGED <<cals, tiles, mosaics, draft>>

LinkEpoch(c, e) ==
    /\ Open(epochs[e], c)
    /\ epochs[e].stage = "inserted"
    /\ epochs' = [epochs EXCEPT ![e].stage = "linked",
                                ![e].links = InRange(epochs[e])]
    /\ UNCHANGED <<cals, tiles, mosaics, draft>>

CommitEpochs(c) ==
    /\ \E e \in EpochIds : Open(epochs[e], c)
    /\ \A e \in EpochIds : Open(epochs[e], c) => epochs[e].stage = "linked"
    /\ epochs' = [e \in EpochIds |->
           IF Open(epochs[e], c)
           THEN [epochs[e] EXCEPT !.stage = "committed", !.by = Nil]
           ELSE epochs[e]]
    /\ UNCHANGED <<cals, tiles, mosaics, draft>>

--------------------------------------------------------------------------------
(* create_mosaic *)

\* Variant: the join with the epoch's associations is left out.
ReadWithoutEpoch(c, m) ==
    /\ Ready(c)
    /\ MayRequest(m)
    /\ draft' = [draft EXCEPT ![c] =
           [of |-> m, known |-> Referable(m),
            footprint |-> {x \in cals \cap LinksOf(tiles[m.tile]) :
                /\ x.project = m.project
                /\ BandOf[x.file] = m.band}]]
    /\ UNCHANGED <<cals, tiles, epochs, mosaics>>

\* The ids are the client's: nothing asks that the rows exist, that the epoch
\* be of the tile, or either of the project.
ReadConstituents(c, m) ==
    /\ Ready(c)
    /\ MayRequest(m)
    /\ draft' = [draft EXCEPT ![c] =
           [of |-> m, known |-> Referable(m), footprint |-> Constituents(m)]]
    /\ UNCHANGED <<cals, tiles, epochs, mosaics>>

\* INSERT and commit.  A tile or epoch that is not there yet, and a second row
\* of one identity, is an IntegrityError: the request fails, nothing is
\* dispatched and no row is left.
InsertMosaic(c) ==
    /\ draft[c] # NoDraft
    /\ \/ /\ Referable(draft[c].of)
          /\ \A m \in mosaics : m.of # draft[c].of
          /\ mosaics' = mosaics \cup {draft[c]}
       \/ /\ \/ ~Referable(draft[c].of)
             \/ \E m \in mosaics : m.of = draft[c].of
          /\ UNCHANGED mosaics
    /\ draft' = [draft EXCEPT ![c] = NoDraft]
    /\ UNCHANGED <<cals, tiles, epochs>>

--------------------------------------------------------------------------------
(* The system *)

\* Variant: the rows of the session outlive it.
AbortKeepsRows(c) ==
    /\ ~Ready(c)
    /\ tiles' = [t \in TileIds |->
           IF Open(tiles[t], c) THEN [tiles[t] EXCEPT !.by = Nil] ELSE tiles[t]]
    /\ draft' = [draft EXCEPT ![c] = NoDraft]
    /\ UNCHANGED <<cals, epochs, mosaics>>

\* An error or a crash: the session is closed and its transaction rolled back.
Abort(c) ==
    /\ ~Ready(c)
    /\ tiles' = [t \in TileIds |-> IF Open(tiles[t], c) THEN NoTile ELSE tiles[t]]
    /\ epochs' = [e \in EpochIds |->
                     IF Open(epochs[e], c) THEN NoEpoch ELSE epochs[e]]
    /\ draft' = [draft EXCEPT ![c] = NoDraft]
    /\ UNCHANGED <<cals, mosaics>>

Next ==
    \/ \E p \in Projects, fs \in Prefixes : IngestCommit(p, fs)
    \/ \E c \in Clients :
         \/ \E p \in Projects : InsertTiles(c, p) \/ InsertEpochs(c, p)
         \/ \E t \in TileIds : LinkTile(c, t)
         \/ \E e \in EpochIds : LinkEpoch(c, e)
         \/ CommitTiles(c)
         \/ CommitEpochs(c)
         \/ \E m \in Identities : ReadConstituents(c, m)
         \/ InsertMosaic(c)
         \/ Abort(c)

Spec == Init /\ [][Next]_vars

\* A call in progress goes on; that clients call again is not assumed.
FairSpec ==
    /\ Spec
    /\ \A c \in Clients :
         /\ WF_vars(\E t \in TileIds : LinkTile(c, t))
         /\ WF_vars(\E e \in EpochIds : LinkEpoch(c, e))
         /\ WF_vars(CommitTiles(c) \/ CommitEpochs(c) \/ InsertMosaic(c))

--------------------------------------------------------------------------------
(* Safety *)

\* A committed tile lacks an overlapping calibration only if that calibration
\* was committed after the tile was inserted: whichever tiles one call of
\* create_tiles inserts, none misses what was there before the call.
GapsAreLate ==
    \A t \in TileIds :
        Visible(tiles[t]) => tiles[t].owed \subseteq tiles[t].links

\* An epoch's links are the calibrations of its tile, band and interval, and
\* stay so whatever is ingested, tiled or clustered later (doc 28, section 5).
EpochIsExact ==
    \A e \in EpochIds :
        Visible(epochs[e]) => epochs[e].links = InRange(epochs[e])

\* The footprint and barycenter create_mosaic computed in one statement and
\* stored in another are those of the calibrations the association tables will
\* give the drizzle, whatever is ingested, tiled or clustered before and after
\* the INSERT.  A request that named a row before it was committed stores none,
\* although the drizzle will find some (mosaic_service.py:45-49 has the two
\* queries alike).
MosaicIsItsConstituents ==
    \A m \in mosaics :
        m.footprint = IF m.known THEN Constituents(m.of) ELSE {}

\* Whatever ids a client combines, a mosaic holds only calibrations of its own
\* project and band, inside its tile and inside its epoch's interval.
MosaicIsSound ==
    \A m \in mosaics : \A x \in m.footprint :
        /\ x.project = m.of.project
        /\ BandOf[x.file] = m.of.band
        /\ x.file \in Covers[tiles[m.of.tile].shape]
        /\ MjdOf[x.file] \in
               epochs[m.of.epoch].interval.lo .. epochs[m.of.epoch].interval.hi

--------------------------------------------------------------------------------
(* A claim of the documentation that the code does not keep *)

\* doc 30, line 24, and tile_service.py:51-54: with overlap_only=False tiles are
\* provisioned ahead of incoming survey data.  The links of a tile are made
\* when it is created and by nothing else, so data that comes in afterwards is
\* never linked to it.
ProvisionedTilesFill ==
    \A t \in TileIds, x \in Calibrations :
        (Visible(tiles[t]) /\ x \in cals /\ x \in Overlapping(tiles[t]))
            ~> x \in tiles[t].links

================================================================================
