------------------------------ MODULE BulkUpsert -------------------------------
(***************************************************************************)
(* bulk_upsert_images_and_calibrations, run by several ingest tasks at a   *)
(* time.  One transaction inserts the images of its listing, row by row    *)
(* and ON CONFLICT DO NOTHING, looks up the ids of all of them, inserts    *)
(* one calibration per image for its project in the same way, and commits. *)
(*                                                                         *)
(* PostgreSQL (external) decides each row by the unique index: a committed *)
(* row of the same key, or an own one, is a conflict and the insert does   *)
(* nothing; a row that another transaction has not committed makes the     *)
(* insert wait until that transaction ends.  Transactions that wait for    *)
(* each other in a circle are found, and one of them is aborted.           *)
(*                                                                         *)
(* A listing is the base names of a prefix's keys, in the order of the     *)
(* keys: two prefixes may list the same images in different orders.        *)
(***************************************************************************)
EXTENDS Integers, Sequences, FiniteSets, Functions

CONSTANTS
    Batches,    \* ingest runs that may overlap
    Files,      \* base file names
    Projects,
    Listings,   \* what the prefixes list
    Nil

ASSUME ListingsAssumption ==
    /\ IsFiniteSet(Batches)
    /\ Listings \subseteq Seq(Files) \ {<<>>}
    /\ Nil \notin Projects

VARIABLES
    images,   \* committed rows of level2_images
    cals,     \* committed rows of level2_calibrations
    tx        \* the transaction of each run

vars == <<images, cals, tx>>

--------------------------------------------------------------------------------
(* Types *)

Calibrations == [project : Projects, file : Files]

\* "lost" is the KeyError of an image without an id.
Phases == {"idle", "images", "cals", "raised", "lost", "done"}

\* `at' is the row being inserted; `images' and `cals' are its own new rows.
Transactions ==
    [phase : Phases, project : Projects \cup {Nil}, list : Listings \cup {<<>>},
     at : Nat \ {0}, images : SUBSET Files, cals : SUBSET Calibrations]

NoTransaction ==
    [phase |-> "idle", project |-> Nil, list |-> <<>>, at |-> 1,
     images |-> {}, cals |-> {}]

TypeOK ==
    /\ images \subseteq Files
    /\ cals \subseteq Calibrations
    /\ tx \in [Batches -> Transactions]
    /\ \A b \in Batches :
         /\ tx[b].phase \in {"images", "cals", "done"} =>
              tx[b].list # <<>> /\ tx[b].project # Nil
         /\ tx[b].at <= Len(tx[b].list) + 1
         /\ tx[b].phase \in {"idle", "done"} =>
              tx[b].images = {} /\ tx[b].cals = {}

Init ==
    /\ images = {}
    /\ cals = {}
    /\ tx = [b \in Batches |-> NoTransaction]

--------------------------------------------------------------------------------
(* The unique indexes *)

Inserting(b, phase) == tx[b].phase = phase /\ tx[b].at <= Len(tx[b].list)

\* Variant: the calibrations in the order the ids were returned in, here from
\* the last image to the first.
RowOfIds(b) ==
    tx[b].list[IF tx[b].phase = "cals" THEN Len(tx[b].list) + 1 - tx[b].at
                                       ELSE tx[b].at]

Row(b) == tx[b].list[tx[b].at]

CalRow(b, f) == [project |-> tx[b].project, file |-> f]

\* The row b inserts is one c has inserted and not committed.
WaitsFor(b, c) ==
    /\ c # b
    /\ \/ Inserting(b, "images") /\ Row(b) \in tx[c].images
       \/ Inserting(b, "cals") /\ CalRow(b, Row(b)) \in tx[c].cals

Waiting(b) == \E c \in Batches : WaitsFor(b, c)

\* b is one of a circle of transactions that wait for each other.
Deadlocked(b) ==
    \E W \in SUBSET Batches :
        /\ b \in W
        /\ \A c \in W : /\ \E d \in W : WaitsFor(c, d)
                        /\ \E d \in W : WaitsFor(d, c)

--------------------------------------------------------------------------------
(* The upsert *)

\* Variant: the session is used again without the rollback.
BeginAgain(b, p, l) ==
    /\ tx[b].phase \in {"idle", "done", "raised"}
    /\ tx' = [tx EXCEPT ![b] = [phase |-> "images", project |-> p, list |-> l, at |-> 1,
                                images |-> tx[b].images, cals |-> tx[b].cals]]
    /\ UNCHANGED <<images, cals>>

\* The DataFrame has a row per key.  With no rows the function returns before
\* any statement (TrackedJob!UpsertNothing).
Begin(b, p, l) ==
    /\ tx[b].phase \in {"idle", "done"}
    /\ tx' = [tx EXCEPT ![b] = [phase |-> "images", project |-> p, list |-> l,
                                at |-> 1, images |-> {}, cals |-> {}]]
    /\ UNCHANGED <<images, cals>>

InsertImage(b) ==
    /\ Inserting(b, "images")
    /\ ~Waiting(b)
    /\ tx' = [tx EXCEPT
           ![b].at = @ + 1,
           ![b].images = IF Row(b) \in images THEN @ ELSE @ \cup {Row(b)}]
    /\ UNCHANGED <<images, cals>>

\* Variant: the ids that the INSERT itself would return.
Returned(b) == tx[b].images

\* SELECT id, base_filename, a statement and a snapshot of its own.
Found(b) == images \cup tx[b].images

\* Look the ids up and build the calibration rows.
LookUpIds(b) ==
    /\ tx[b].phase = "images"
    /\ tx[b].at > Len(tx[b].list)
    /\ tx' = [tx EXCEPT
           ![b].phase = IF Range(tx[b].list) \subseteq Found(b) THEN "cals"
                                                               ELSE "lost",
           ![b].at = 1]
    /\ UNCHANGED <<images, cals>>

\* Variant: a conflict on the image alone, as before doc 27.
AnyProjects(b, f) == \E x \in cals : x.file = f

\* uq_level2_calibration_image_project.
Conflicts(b, f) == CalRow(b, f) \in cals

InsertCal(b) ==
    /\ Inserting(b, "cals")
    /\ ~Waiting(b)
    /\ tx' = [tx EXCEPT
           ![b].at = @ + 1,
           ![b].cals = IF Conflicts(b, Row(b)) THEN @
                       ELSE @ \cup {CalRow(b, Row(b))}]
    /\ UNCHANGED <<images, cals>>

\* Variant: the session goes on as if its rows were still its own.
CommitKeepsRows(b) ==
    /\ tx[b].phase = "cals"
    /\ tx[b].at > Len(tx[b].list)
    /\ images' = images \cup tx[b].images
    /\ cals' = cals \cup tx[b].cals
    /\ tx' = [tx EXCEPT ![b].phase = "done"]

Commit(b) ==
    /\ tx[b].phase = "cals"
    /\ tx[b].at > Len(tx[b].list)
    /\ images' = images \cup tx[b].images
    /\ cals' = cals \cup tx[b].cals
    /\ tx' = [tx EXCEPT ![b].phase = "done", ![b].images = {}, ![b].cals = {}]

--------------------------------------------------------------------------------
(* Failures *)

\* An unknown instrument or band, a soft time limit, a lost connection: the
\* error reaches run_ingest_batch, the transaction is still open.
Raise(b) ==
    /\ tx[b].phase \in {"images", "cals"}
    /\ tx' = [tx EXCEPT ![b].phase = "raised"]
    /\ UNCHANGED <<images, cals>>

\* The server aborts one transaction of the circle, and the error is raised.
DeadlockVictim(b) ==
    /\ Deadlocked(b)
    /\ tx' = [tx EXCEPT ![b].phase = "raised", ![b].images = {}, ![b].cals = {}]
    /\ UNCHANGED <<images, cals>>

\* Variant: no rollback, the commit of FAILED takes the rows with it.
CommitInstead(b) ==
    /\ tx[b].phase \in {"raised", "lost"}
    /\ images' = images \cup tx[b].images
    /\ cals' = cals \cup tx[b].cals
    /\ tx' = [tx EXCEPT ![b] = NoTransaction]

\* db.rollback() at the head of the except block.
Rollback(b) ==
    /\ tx[b].phase \in {"raised", "lost"}
    /\ tx' = [tx EXCEPT ![b] = NoTransaction]
    /\ UNCHANGED <<images, cals>>

\* The worker is gone: the server rolls the transaction back.
Crash(b) ==
    /\ tx[b].phase \in {"images", "cals"}
    /\ tx' = [tx EXCEPT ![b] = NoTransaction]
    /\ UNCHANGED <<images, cals>>

Next ==
    \E b \in Batches :
        \/ \E p \in Projects, l \in Listings : Begin(b, p, l)
        \/ InsertImage(b)
        \/ LookUpIds(b)
        \/ InsertCal(b)
        \/ Commit(b)
        \/ Raise(b)
        \/ DeadlockVictim(b)
        \/ Rollback(b)
        \/ Crash(b)

Spec == Init /\ [][Next]_vars

--------------------------------------------------------------------------------
(* Safety *)

\* Every image of the listing has an id when the calibrations are built, also
\* those another transaction inserted while this one waited for it: the SELECT
\* is a statement after the INSERT (image_ids[...] raises KeyError otherwise).
NoImageIsLost == \A b \in Batches : tx[b].phase # "lost"

\* The catalogue, of which an upsert is one step.
Domain == INSTANCE Catalog WITH
    Bands <- {Nil}, Instruments <- {}, Shapes <- {}, Intervals <- {},
    TileIds <- {}, EpochIds <- {}, Clients <- {}, MaxMosaics <- 0, MaxEarly <- 0,
    Prefixes <- SUBSET Files,
    MjdOf <- [f \in Files |-> 0], BandOf <- [f \in Files |-> Nil],
    Covers <- <<>>, tiles <- <<>>, epochs <- <<>>, mosaics <- {}, draft <- <<>>

\* What other sessions see of an upsert is all of its rows or none: calibrations
\* change only when some run ends, and then by the whole of its listing, for
\* its project, whatever others inserted, committed or rolled back meanwhile.
UpsertIsOneStep ==
    [][\E b \in Batches :
           /\ tx[b].phase = "cals" /\ tx'[b].phase = "done"
           /\ Domain!IngestCommit(tx[b].project, Range(tx[b].list))]_cals

\* Orders of the files, without ties.
Ranks ==
    {rank \in [Files -> 1 .. Cardinality(Files)] :
        \A f, g \in Files : rank[f] = rank[g] => f = g}

Sorted(list, rank) ==
    \A i, j \in 1 .. Len(list) : i <= j => rank[list[i]] <= rank[list[j]]

\* The images come before the calibrations, and either in the listing's order.
Ahead(b, c, rank) ==
    \/ tx[b].phase = "images" /\ tx[c].phase = "cals"
    \/ tx[b].phase = tx[c].phase /\ rank[Row(b)] < rank[Row(c)]

\* A transaction that waits, and is itself waited for, is further on than the
\* one that waits for it, if its listing follows the order.
WaitsAscend ==
    \A rank \in Ranks, b, c \in Batches :
        WaitsFor(b, c) /\ Waiting(c) /\ Sorted(tx[c].list, rank)
            => Ahead(b, c, rank)

\* Among any runs whose listings agree on one order of the images, one waits for
\* none of the others: no circle closes among them, however many they are.  Only
\* runs of prefixes that list their images in conflicting orders can deadlock.
OrderedRunsProceed ==
    \A rank \in Ranks, W \in (SUBSET Batches) \ {{}} :
        (\A c \in W : Sorted(tx[c].list, rank))
            => \E c \in W : \A d \in W : ~WaitsFor(c, d)

================================================================================
