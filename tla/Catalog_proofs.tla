---------------------------- MODULE Catalog_proofs -----------------------------
(***************************************************************************)
(* Proofs about Catalog.  Everything rests on two facts: a committed tile  *)
(* or epoch never changes (Frozen), and calibrations are only ever added.  *)
(* What a statement computed from committed rows therefore stays what it   *)
(* would compute now, although it was stored by a later statement.         *)
(***************************************************************************)
EXTENDS Catalog, TLAPS

--------------------------------------------------------------------------------
(* Types *)

\* The rows of the empty tables.
LEMMA EmptyRows ==
    /\ NoTile \in TileRows /\ Owned(NoTile, NoTile)
    /\ NoEpoch \in EpochRows /\ Owned(NoEpoch, NoEpoch)
BY DEF NoTile, NoEpoch, TileRows, EpochRows, Stages, Owned

\* What the statements select are calibrations.
LEMMA Selections ==
    ASSUME TypeOK
    PROVE  /\ \A row : Overlapping(row) \subseteq cals
           /\ \A row : InRange(row) \subseteq cals
           /\ \A m : Constituents(m) \subseteq cals
           /\ cals \subseteq Calibrations
BY DEF TypeOK, Overlapping, InRange, Constituents

\* The tables have their types at the start.
LEMMA TypeInit == Init => TypeOK
BY EmptyRows DEF Init, TypeOK

\* An INSERT of tiles, with what they overlap by then.
LEMMA InsertTilesTypes ==
    ASSUME TypeOK, NEW c \in Clients, NEW p \in Projects, InsertTiles(c, p)
    PROVE  TypeOK'
<1>1. PICK ts \in SUBSET {t \in TileIds : tiles[t].stage = "free"} :
        \E shape \in [ts -> Shapes] :
           tiles' = [t \in TileIds |->
             IF t \in ts
             THEN [stage |-> "inserted", by |-> c, project |-> p,
                   shape |-> shape[t], links |-> {},
                   owed |-> Overlapping([project |-> p, shape |-> shape[t]])]
             ELSE tiles[t]]
  BY DEF InsertTiles
<1>2. PICK shape \in [ts -> Shapes] :
           tiles' = [t \in TileIds |->
             IF t \in ts
             THEN [stage |-> "inserted", by |-> c, project |-> p,
                   shape |-> shape[t], links |-> {},
                   owed |-> Overlapping([project |-> p, shape |-> shape[t]])]
             ELSE tiles[t]]
  BY <1>1
<1>3. ASSUME NEW t \in TileIds
      PROVE  tiles'[t] \in TileRows /\ Owned(tiles'[t], NoTile)
  <2>1. CASE t \in ts
    <3>1. shape[t] \in Shapes
      BY <2>1
    <3>2. Overlapping([project |-> p, shape |-> shape[t]]) \in SUBSET Calibrations
      BY Selections
    <3>3. tiles'[t] = [stage |-> "inserted", by |-> c, project |-> p,
                       shape |-> shape[t], links |-> {},
                       owed |-> Overlapping([project |-> p, shape |-> shape[t]])]
      BY <1>2, <2>1
    <3>. QED BY <3>1, <3>2, <3>3, CatalogAssumption DEF TileRows, Stages, Owned
  <2>2. CASE t \notin ts
    BY <1>2, <2>2 DEF TypeOK
  <2>. QED BY <2>1, <2>2
<1>4. UNCHANGED <<cals, epochs, mosaics, draft>>
  BY DEF InsertTiles
<1>. QED BY <1>2, <1>3, <1>4 DEF TypeOK

\* An INSERT of epochs of committed tiles.
LEMMA InsertEpochsTypes ==
    ASSUME TypeOK, NEW c \in Clients, NEW p \in Projects, InsertEpochs(c, p)
    PROVE  TypeOK'
<1>1. PICK es \in SUBSET {e \in EpochIds : epochs[e].stage = "free"} :
        \E tile \in [es -> {t \in TileIds : Visible(tiles[t])}],
              band \in [es -> Bands], interval \in [es -> Intervals] :
           epochs' = [e \in EpochIds |->
             IF e \in es
             THEN [stage |-> "inserted", by |-> c, project |-> p,
                   tile |-> tile[e], band |-> band[e],
                   interval |-> interval[e], links |-> {}]
             ELSE epochs[e]]
  BY DEF InsertEpochs
<1>2. PICK tile \in [es -> {t \in TileIds : Visible(tiles[t])}],
           band \in [es -> Bands], interval \in [es -> Intervals] :
           epochs' = [e \in EpochIds |->
             IF e \in es
             THEN [stage |-> "inserted", by |-> c, project |-> p,
                   tile |-> tile[e], band |-> band[e],
                   interval |-> interval[e], links |-> {}]
             ELSE epochs[e]]
  BY <1>1
<1>3. ASSUME NEW e \in EpochIds
      PROVE  epochs'[e] \in EpochRows /\ Owned(epochs'[e], NoEpoch)
  <2>1. CASE e \in es
    <3>1. tile[e] \in TileIds /\ band[e] \in Bands /\ interval[e] \in Intervals
      BY <2>1
    <3>2. epochs'[e] = [stage |-> "inserted", by |-> c, project |-> p,
                        tile |-> tile[e], band |-> band[e],
                        interval |-> interval[e], links |-> {}]
      BY <1>2, <2>1
    <3>. QED BY <3>1, <3>2, CatalogAssumption DEF EpochRows, Stages, Owned
  <2>2. CASE e \notin es
    BY <1>2, <2>2 DEF TypeOK
  <2>. QED BY <2>1, <2>2
<1>4. UNCHANGED <<cals, tiles, mosaics, draft>>
  BY DEF InsertEpochs
<1>. QED BY <1>2, <1>3, <1>4 DEF TypeOK

\* Linking, committing and rolling back rows.
LEMMA RowStepTypes ==
    ASSUME TypeOK, NEW c \in Clients,
           \/ \E t \in TileIds : LinkTile(c, t)
           \/ \E e \in EpochIds : LinkEpoch(c, e)
           \/ CommitTiles(c) \/ CommitEpochs(c) \/ Abort(c)
    PROVE  TypeOK'
<1>1. ASSUME NEW t \in TileIds, LinkTile(c, t) PROVE TypeOK'
  <2>1. Overlapping(tiles[t]) \in SUBSET Calibrations
    BY Selections
  <2>. QED BY <1>1, <2>1 DEF LinkTile, Open, TypeOK, TileRows, Stages, Owned
<1>2. ASSUME NEW e \in EpochIds, LinkEpoch(c, e) PROVE TypeOK'
  <2>1. InRange(epochs[e]) \in SUBSET Calibrations
    BY Selections
  <2>. QED BY <1>2, <2>1 DEF LinkEpoch, Open, TypeOK, EpochRows, Stages, Owned
<1>3. CASE CommitTiles(c)
  <2>1. ASSUME NEW t \in TileIds
        PROVE  tiles'[t] \in TileRows /\ Owned(tiles'[t], NoTile)
    <3>1. tiles[t] \in TileRows /\ Owned(tiles[t], NoTile)
      BY DEF TypeOK
    <3>2. tiles'[t] = IF Open(tiles[t], c)
                      THEN [tiles[t] EXCEPT !.stage = "committed", !.by = Nil]
                      ELSE tiles[t]
      BY <1>3 DEF CommitTiles
    <3>3. CASE Open(tiles[t], c)
      BY <3>1, <3>2, <3>3 DEF TileRows, Stages, Owned
    <3>. QED BY <3>1, <3>2, <3>3
  <2>. QED BY <1>3, <2>1 DEF CommitTiles, TypeOK
<1>4. CASE CommitEpochs(c)
  <2>1. ASSUME NEW e \in EpochIds
        PROVE  epochs'[e] \in EpochRows /\ Owned(epochs'[e], NoEpoch)
    <3>1. epochs[e] \in EpochRows /\ Owned(epochs[e], NoEpoch)
      BY DEF TypeOK
    <3>2. epochs'[e] = IF Open(epochs[e], c)
                      THEN [epochs[e] EXCEPT !.stage = "committed", !.by = Nil]
                      ELSE epochs[e]
      BY <1>4 DEF CommitEpochs
    <3>3. CASE Open(epochs[e], c)
      BY <3>1, <3>2, <3>3 DEF EpochRows, Stages, Owned
    <3>. QED BY <3>1, <3>2, <3>3
  <2>. QED BY <1>4, <2>1 DEF CommitEpochs, TypeOK
<1>5. CASE Abort(c)
  BY <1>5, EmptyRows DEF Abort, TypeOK
<1>. QED BY <1>1, <1>2, <1>3, <1>4, <1>5

\* Every step keeps the types.
LEMMA TypeStep == TypeOK /\ [Next]_vars => TypeOK'
<1>. SUFFICES ASSUME TypeOK, [Next]_vars PROVE TypeOK'
  OBVIOUS
<1>1. ASSUME NEW p \in Projects, NEW fs \in Prefixes, IngestCommit(p, fs)
      PROVE  TypeOK'
  <2>1. fs \subseteq Files
    BY CatalogAssumption
  <2>. QED BY <1>1, <2>1 DEF IngestCommit, TypeOK, Calibrations
<1>2. ASSUME NEW c \in Clients, NEW m \in Identities, ReadConstituents(c, m)
      PROVE  TypeOK'
  <2>1. Constituents(m) \in SUBSET Calibrations
    BY Selections
  <2>2. [of |-> m, known |-> Referable(m), footprint |-> Constituents(m)] \in Mosaics
    BY <2>1 DEF Mosaics, Referable, Visible
  <2>. QED BY <1>2, <2>2 DEF ReadConstituents, TypeOK
<1>3. ASSUME NEW c \in Clients, InsertMosaic(c) PROVE TypeOK'
  BY <1>3 DEF InsertMosaic, TypeOK
<1>4. CASE UNCHANGED vars
  BY <1>4 DEF vars, TypeOK
<1>. QED
  BY <1>1, <1>2, <1>3, <1>4, InsertTilesTypes, InsertEpochsTypes, RowStepTypes
     DEF Next

\* The four tables and the drafts have their types, and a row belongs to an
\* open transaction exactly until it is committed or rolled back.
THEOREM CatalogTypeCorrect == Spec => []TypeOK
BY TypeInit, TypeStep, PTL DEF Spec

--------------------------------------------------------------------------------
(* What is committed stays *)

\* No step changes a committed tile or epoch or takes a calibration away.
LEMMA Frozen ==
    ASSUME TypeOK, [Next]_vars
    PROVE  /\ cals \subseteq cals'
           /\ \A t \in TileIds : Visible(tiles[t]) => tiles'[t] = tiles[t]
           /\ \A e \in EpochIds : Visible(epochs[e]) => epochs'[e] = epochs[e]
<1>. /\ \A t \in TileIds : Visible(tiles[t]) => tiles[t].by = Nil
     /\ \A e \in EpochIds : Visible(epochs[e]) => epochs[e].by = Nil
  BY DEF TypeOK, Owned, Visible
<1>1. ASSUME NEW p \in Projects, NEW fs \in Prefixes, IngestCommit(p, fs)
      PROVE  cals \subseteq cals' /\ UNCHANGED <<tiles, epochs>>
  BY <1>1 DEF IngestCommit
<1>2. ASSUME NEW c \in Clients, NEW p \in Projects, InsertTiles(c, p)
      PROVE  /\ UNCHANGED <<cals, epochs>>
             /\ \A t \in TileIds : Visible(tiles[t]) => tiles'[t] = tiles[t]
  BY <1>2 DEF InsertTiles, Visible
<1>3. ASSUME NEW c \in Clients, NEW p \in Projects, InsertEpochs(c, p)
      PROVE  /\ UNCHANGED <<cals, tiles>>
             /\ \A e \in EpochIds : Visible(epochs[e]) => epochs'[e] = epochs[e]
  BY <1>3 DEF InsertEpochs, Visible
<1>4. ASSUME NEW c \in Clients, NEW t \in TileIds, LinkTile(c, t)
      PROVE  /\ UNCHANGED <<cals, epochs>>
             /\ \A u \in TileIds : Visible(tiles[u]) => tiles'[u] = tiles[u]
  BY <1>4 DEF LinkTile, Visible, TypeOK
<1>5. ASSUME NEW c \in Clients, NEW e \in EpochIds, LinkEpoch(c, e)
      PROVE  /\ UNCHANGED <<cals, tiles>>
             /\ \A u \in EpochIds : Visible(epochs[u]) => epochs'[u] = epochs[u]
  BY <1>5 DEF LinkEpoch, Visible, TypeOK
<1>6. ASSUME NEW c \in Clients, CommitTiles(c) \/ CommitEpochs(c) \/ Abort(c)
      PROVE  /\ UNCHANGED cals
             /\ \A t \in TileIds : Visible(tiles[t]) => tiles'[t] = tiles[t]
             /\ \A e \in EpochIds : Visible(epochs[e]) => epochs'[e] = epochs[e]
  BY <1>6, CatalogAssumption DEF CommitTiles, CommitEpochs, Abort, Open
<1>7. ASSUME NEW c \in Clients,
             InsertMosaic(c) \/ \E m \in Identities : ReadConstituents(c, m)
      PROVE  UNCHANGED <<cals, tiles, epochs>>
  BY <1>7 DEF InsertMosaic, ReadConstituents
<1>8. CASE UNCHANGED vars
  BY <1>8 DEF vars
<1>. QED BY <1>1, <1>2, <1>3, <1>4, <1>5, <1>6, <1>7, <1>8 DEF Next

\* A tile is linked to overlapping calibrations only, and to all it owes.
TileInv ==
    \A t \in TileIds :
        /\ tiles[t].links \subseteq cals
        /\ tiles[t].stage # "free" =>
             /\ tiles[t].links \subseteq Overlapping(tiles[t])
             /\ tiles[t].owed \subseteq Overlapping(tiles[t])
        /\ tiles[t].stage \in {"linked", "committed"} =>
             tiles[t].owed \subseteq tiles[t].links

\* A tile's row after a step is its row before, or one of these.
LEMMA TileChanges ==
    ASSUME TypeOK, [Next]_vars, NEW t \in TileIds
    PROVE  \/ tiles'[t] = tiles[t]
           \/ tiles'[t] = NoTile
           \/ /\ cals' = cals
              /\ tiles'[t].stage = "inserted"
              /\ tiles'[t].links = {}
              /\ tiles'[t].owed = Overlapping(tiles'[t])
           \/ /\ cals' = cals
              /\ tiles[t].stage = "inserted"
              /\ tiles'[t] = [tiles[t] EXCEPT !.stage = "linked",
                                              !.links = Overlapping(tiles[t])]
           \/ /\ cals' = cals
              /\ tiles[t].stage = "linked"
              /\ tiles'[t] = [tiles[t] EXCEPT !.stage = "committed", !.by = Nil]
<1>1. ASSUME NEW c \in Clients, NEW p \in Projects, InsertTiles(c, p),
             tiles'[t] # tiles[t]
      PROVE  /\ cals' = cals
             /\ tiles'[t].stage = "inserted"
             /\ tiles'[t].links = {}
             /\ tiles'[t].owed = Overlapping(tiles'[t])
  <2>1. PICK ts \in SUBSET {u \in TileIds : tiles[u].stage = "free"} :
          \E shape \in [ts -> Shapes] :
             tiles' = [u \in TileIds |->
               IF u \in ts
               THEN [stage |-> "inserted", by |-> c, project |-> p,
                     shape |-> shape[u], links |-> {},
                     owed |-> Overlapping([project |-> p, shape |-> shape[u]])]
               ELSE tiles[u]]
    BY <1>1 DEF InsertTiles
  <2>2. PICK shape \in [ts -> Shapes] :
             tiles' = [u \in TileIds |->
               IF u \in ts
               THEN [stage |-> "inserted", by |-> c, project |-> p,
                     shape |-> shape[u], links |-> {},
                     owed |-> Overlapping([project |-> p, shape |-> shape[u]])]
               ELSE tiles[u]]
    BY <2>1
  <2>3. tiles'[t] =
          [stage |-> "inserted", by |-> c, project |-> p,
           shape |-> shape[t], links |-> {},
           owed |-> Overlapping([project |-> p, shape |-> shape[t]])]
    BY <1>1, <2>2
  <2>4. Overlapping(tiles'[t]) = Overlapping([project |-> p, shape |-> shape[t]])
    BY <2>3 DEF Overlapping
  <2>. QED BY <1>1, <2>3, <2>4 DEF InsertTiles
<1>2. ASSUME NEW c \in Clients, NEW u \in TileIds, LinkTile(c, u),
             tiles'[t] # tiles[t]
      PROVE  /\ cals' = cals
             /\ tiles[t].stage = "inserted"
             /\ tiles'[t] = [tiles[t] EXCEPT !.stage = "linked",
                                             !.links = Overlapping(tiles[t])]
  BY <1>2 DEF LinkTile, TypeOK, TileRows
<1>3. ASSUME NEW c \in Clients, CommitTiles(c), tiles'[t] # tiles[t]
      PROVE  /\ cals' = cals
             /\ tiles[t].stage = "linked"
             /\ tiles'[t] = [tiles[t] EXCEPT !.stage = "committed", !.by = Nil]
  BY <1>3 DEF CommitTiles
<1>4. ASSUME NEW c \in Clients, Abort(c), tiles'[t] # tiles[t]
      PROVE  tiles'[t] = NoTile
  BY <1>4 DEF Abort
<1>5. ASSUME NEW c \in Clients,
             \/ \E p \in Projects : InsertEpochs(c, p)
             \/ \E e \in EpochIds : LinkEpoch(c, e)
             \/ CommitEpochs(c)
             \/ \E m \in Identities : ReadConstituents(c, m)
             \/ InsertMosaic(c)
      PROVE  UNCHANGED tiles
  BY <1>5 DEF InsertEpochs, LinkEpoch, CommitEpochs, ReadConstituents, InsertMosaic
<1>6. ASSUME \/ \E p \in Projects, fs \in Prefixes : IngestCommit(p, fs)
             \/ UNCHANGED vars
      PROVE  UNCHANGED tiles
  BY <1>6 DEF IngestCommit, vars
<1>. QED BY <1>1, <1>2, <1>3, <1>4, <1>5, <1>6 DEF Next

\* Calibrations are only added, so what overlaps a row only grows.
LEMMA OverlapGrows ==
    ASSUME TypeOK, [Next]_vars, NEW t \in TileIds, tiles'[t] = tiles[t]
    PROVE  Overlapping(tiles[t]) \subseteq Overlapping(tiles[t])'
BY Frozen DEF Overlapping

\* TileInv is kept by every step.
LEMMA TileInvStep == TypeOK /\ TileInv /\ [Next]_vars => TileInv'
<1>. SUFFICES ASSUME TypeOK, TileInv, [Next]_vars, NEW t \in TileIds
              PROVE  /\ tiles'[t].links \subseteq cals'
                     /\ tiles'[t].stage # "free" =>
                          /\ tiles'[t].links \subseteq Overlapping(tiles[t])'
                          /\ tiles'[t].owed \subseteq Overlapping(tiles[t])'
                     /\ tiles'[t].stage \in {"linked", "committed"} =>
                          tiles'[t].owed \subseteq tiles'[t].links
  BY DEF TileInv
<1>. cals \subseteq cals'
  BY Frozen
<1>1. CASE tiles'[t] = tiles[t]
  BY <1>1, OverlapGrows DEF TileInv
<1>2. CASE tiles'[t] = NoTile
  BY <1>2 DEF NoTile
<1>3. CASE /\ cals' = cals
           /\ tiles'[t].stage = "inserted"
           /\ tiles'[t].links = {}
           /\ tiles'[t].owed = Overlapping(tiles'[t])
  BY <1>3 DEF Overlapping
<1>4. CASE /\ cals' = cals
           /\ tiles[t].stage = "inserted"
           /\ tiles'[t] = [tiles[t] EXCEPT !.stage = "linked",
                                           !.links = Overlapping(tiles[t])]
  <2>1. tiles[t] \in TileRows
    BY DEF TypeOK
  <2>2. /\ tiles'[t].links = Overlapping(tiles[t])
        /\ tiles'[t].owed = tiles[t].owed
        /\ tiles'[t].project = tiles[t].project
        /\ tiles'[t].shape = tiles[t].shape
    BY <1>4, <2>1 DEF TileRows
  <2>3. Overlapping(tiles[t])' = Overlapping(tiles[t])
    BY <1>4, <2>2 DEF Overlapping
  <2>. QED BY <1>4, <2>2, <2>3, Selections DEF TileInv
<1>5. CASE /\ cals' = cals
           /\ tiles[t].stage = "linked"
           /\ tiles'[t] = [tiles[t] EXCEPT !.stage = "committed", !.by = Nil]
  <2>1. tiles[t] \in TileRows
    BY DEF TypeOK
  <2>2. /\ tiles'[t].links = tiles[t].links
        /\ tiles'[t].owed = tiles[t].owed
        /\ tiles'[t].project = tiles[t].project
        /\ tiles'[t].shape = tiles[t].shape
    BY <1>5, <2>1 DEF TileRows
  <2>3. Overlapping(tiles[t])' = Overlapping(tiles[t])
    BY <1>5, <2>2 DEF Overlapping
  <2>. QED BY <1>5, <2>2, <2>3 DEF TileInv
<1>. QED BY <1>1, <1>2, <1>3, <1>4, <1>5, TileChanges

\* TypeOK and TileInv hold together.
LEMMA TileInvariant == Spec => [](TypeOK /\ TileInv)
<1>1. Init => TypeOK /\ TileInv
  BY TypeInit DEF Init, TileInv, NoTile
<1>. QED BY <1>1, TypeStep, TileInvStep, PTL DEF Spec

\* A call of create_tiles misses no calibration that was there before it,
\* whichever of its tiles is linked first and whatever commits in between.
THEOREM TilesMissNothingOld == Spec => []GapsAreLate
<1>1. TileInv => GapsAreLate
  BY DEF TileInv, GapsAreLate, Visible
<1>. QED BY <1>1, TileInvariant, PTL

--------------------------------------------------------------------------------
(* Epochs *)

\* An epoch names a committed tile, and once linked is linked to exactly the
\* calibrations its query would return now.
EpochInv ==
    \A e \in EpochIds :
        /\ epochs[e].stage # "free" =>
             epochs[e].tile \in TileIds /\ Visible(tiles[epochs[e].tile])
        /\ epochs[e].stage \in {"linked", "committed"} =>
             epochs[e].links = InRange(epochs[e])

\* The query of an epoch reads nothing that changes.
LEMMA RangeStays ==
    ASSUME TypeOK, TileInv, [Next]_vars, NEW t \in TileIds, Visible(tiles[t])
    PROVE  /\ tiles'[t] = tiles[t]
           /\ cals' \cap tiles'[t].links = cals \cap tiles[t].links
BY Frozen DEF TileInv

\* An epoch's row after a step is its row before, or one of these.
LEMMA EpochChanges ==
    ASSUME TypeOK, [Next]_vars, NEW e \in EpochIds
    PROVE  \/ epochs'[e] = epochs[e]
           \/ epochs'[e] = NoEpoch
           \/ /\ UNCHANGED <<cals, tiles>>
              /\ epochs'[e].stage = "inserted"
              /\ epochs'[e].tile \in TileIds
              /\ Visible(tiles[epochs'[e].tile])
           \/ /\ UNCHANGED <<cals, tiles>>
              /\ epochs[e].stage = "inserted"
              /\ epochs'[e] = [epochs[e] EXCEPT !.stage = "linked",
                                                !.links = InRange(epochs[e])]
           \/ /\ UNCHANGED <<cals, tiles>>
              /\ epochs[e].stage = "linked"
              /\ epochs'[e] = [epochs[e] EXCEPT !.stage = "committed", !.by = Nil]
<1>1. ASSUME NEW c \in Clients, NEW p \in Projects, InsertEpochs(c, p),
             epochs'[e] # epochs[e]
      PROVE  /\ UNCHANGED <<cals, tiles>>
             /\ epochs'[e].stage = "inserted"
             /\ epochs'[e].tile \in TileIds
             /\ Visible(tiles[epochs'[e].tile])
  <2>1. PICK es \in SUBSET {u \in EpochIds : epochs[u].stage = "free"} :
          \E tile \in [es -> {t \in TileIds : Visible(tiles[t])}],
                band \in [es -> Bands], interval \in [es -> Intervals] :
             epochs' = [u \in EpochIds |->
               IF u \in es
               THEN [stage |-> "inserted", by |-> c, project |-> p,
                     tile |-> tile[u], band |-> band[u],
                     interval |-> interval[u], links |-> {}]
               ELSE epochs[u]]
    BY <1>1 DEF InsertEpochs
  <2>2. PICK tile \in [es -> {t \in TileIds : Visible(tiles[t])}],
             band \in [es -> Bands], interval \in [es -> Intervals] :
             epochs' = [u \in EpochIds |->
               IF u \in es
               THEN [stage |-> "inserted", by |-> c, project |-> p,
                     tile |-> tile[u], band |-> band[u],
                     interval |-> interval[u], links |-> {}]
               ELSE epochs[u]]
    BY <2>1
  <2>3. e \in es /\ epochs'[e].stage = "inserted" /\ epochs'[e].tile = tile[e]
    BY <1>1, <2>2
  <2>. QED BY <1>1, <2>3 DEF InsertEpochs
<1>2. ASSUME NEW c \in Clients, NEW u \in EpochIds, LinkEpoch(c, u),
             epochs'[e] # epochs[e]
      PROVE  /\ UNCHANGED <<cals, tiles>>
             /\ epochs[e].stage = "inserted"
             /\ epochs'[e] = [epochs[e] EXCEPT !.stage = "linked",
                                               !.links = InRange(epochs[e])]
  BY <1>2 DEF LinkEpoch, TypeOK, EpochRows
<1>3. ASSUME NEW c \in Clients, CommitEpochs(c), epochs'[e] # epochs[e]
      PROVE  /\ UNCHANGED <<cals, tiles>>
             /\ epochs[e].stage = "linked"
             /\ epochs'[e] = [epochs[e] EXCEPT !.stage = "committed", !.by = Nil]
  BY <1>3 DEF CommitEpochs
<1>4. ASSUME NEW c \in Clients, Abort(c), epochs'[e] # epochs[e]
      PROVE  epochs'[e] = NoEpoch
  BY <1>4 DEF Abort
<1>5. ASSUME NEW c \in Clients,
             \/ \E p \in Projects : InsertTiles(c, p)
             \/ \E t \in TileIds : LinkTile(c, t)
             \/ CommitTiles(c)
             \/ \E m \in Identities : ReadConstituents(c, m)
             \/ InsertMosaic(c)
      PROVE  UNCHANGED epochs
  BY <1>5 DEF InsertTiles, LinkTile, CommitTiles, ReadConstituents, InsertMosaic
<1>6. ASSUME \/ \E p \in Projects, fs \in Prefixes : IngestCommit(p, fs)
             \/ UNCHANGED vars
      PROVE  UNCHANGED epochs
  BY <1>6 DEF IngestCommit, vars
<1>. QED BY <1>1, <1>2, <1>3, <1>4, <1>5, <1>6 DEF Next

\* EpochInv is kept by every step.
LEMMA EpochInvStep == TypeOK /\ TileInv /\ EpochInv /\ [Next]_vars => EpochInv'
<1>. SUFFICES ASSUME TypeOK, TileInv, EpochInv, [Next]_vars, NEW e \in EpochIds
              PROVE  /\ epochs'[e].stage # "free" =>
                          /\ epochs'[e].tile \in TileIds
                          /\ Visible(tiles'[epochs'[e].tile])
                     /\ epochs'[e].stage \in {"linked", "committed"} =>
                          epochs'[e].links = InRange(epochs[e])'
  BY DEF EpochInv, Visible
<1>1. CASE epochs'[e] = epochs[e]
  <2>1. CASE epochs[e].stage = "free"
    BY <1>1, <2>1
  <2>2. CASE epochs[e].stage # "free"
    <3>1. epochs[e].tile \in TileIds /\ Visible(tiles[epochs[e].tile])
      BY <2>2 DEF EpochInv
    <3>2. /\ tiles'[epochs[e].tile] = tiles[epochs[e].tile]
          /\ cals' \cap tiles'[epochs[e].tile].links
               = cals \cap tiles[epochs[e].tile].links
      BY <3>1, RangeStays
    <3>3. InRange(epochs[e])' = InRange(epochs[e])
      BY <1>1, <3>2 DEF InRange
    <3>. QED BY <1>1, <3>1, <3>2, <3>3 DEF EpochInv, Visible
  <2>. QED BY <2>1, <2>2
<1>2. CASE epochs'[e] = NoEpoch
  BY <1>2 DEF NoEpoch
<1>3. CASE /\ UNCHANGED <<cals, tiles>>
           /\ epochs'[e].stage = "inserted"
           /\ epochs'[e].tile \in TileIds
           /\ Visible(tiles[epochs'[e].tile])
  BY <1>3
<1>4. CASE /\ UNCHANGED <<cals, tiles>>
           /\ epochs[e].stage = "inserted"
           /\ epochs'[e] = [epochs[e] EXCEPT !.stage = "linked",
                                             !.links = InRange(epochs[e])]
  <2>1. epochs[e] \in EpochRows
    BY DEF TypeOK
  <2>2. /\ epochs'[e].links = InRange(epochs[e])
        /\ epochs'[e].tile = epochs[e].tile
        /\ epochs'[e].project = epochs[e].project
        /\ epochs'[e].band = epochs[e].band
        /\ epochs'[e].interval = epochs[e].interval
    BY <1>4, <2>1 DEF EpochRows
  <2>3. InRange(epochs[e])' = InRange(epochs[e])
    BY <1>4, <2>2 DEF InRange
  <2>. QED BY <1>4, <2>2, <2>3 DEF EpochInv
<1>5. CASE /\ UNCHANGED <<cals, tiles>>
           /\ epochs[e].stage = "linked"
           /\ epochs'[e] = [epochs[e] EXCEPT !.stage = "committed", !.by = Nil]
  <2>1. epochs[e] \in EpochRows
    BY DEF TypeOK
  <2>2. /\ epochs'[e].links = epochs[e].links
        /\ epochs'[e].tile = epochs[e].tile
        /\ epochs'[e].project = epochs[e].project
        /\ epochs'[e].band = epochs[e].band
        /\ epochs'[e].interval = epochs[e].interval
    BY <1>5, <2>1 DEF EpochRows
  <2>3. InRange(epochs[e])' = InRange(epochs[e])
    BY <1>5, <2>2 DEF InRange
  <2>. QED BY <1>5, <2>2, <2>3 DEF EpochInv
<1>. QED BY <1>1, <1>2, <1>3, <1>4, <1>5, EpochChanges

\* The three invariants hold together.
LEMMA EpochInvariant == Spec => [](TypeOK /\ TileInv /\ EpochInv)
<1>1. Init => EpochInv
  BY DEF Init, EpochInv, NoEpoch
<1>. QED BY <1>1, EpochInvStep, TileInvariant, PTL DEF Spec

\* An epoch is linked to the calibrations of its tile, band and interval, and
\* to no others, for as long as it exists.
THEOREM EpochsAreExact == Spec => []EpochIsExact
<1>1. EpochInv => EpochIsExact
  BY DEF EpochInv, EpochIsExact, Visible
<1>. QED BY <1>1, EpochInvariant, PTL

--------------------------------------------------------------------------------
(* Mosaics *)

\* A mosaic, inserted or about to be, that was computed over committed rows has
\* the calibrations its query would return now; any other has none.
Faithful(m) ==
    /\ m \in Mosaics
    /\ m.known => Referable(m.of)
    /\ m.footprint = IF m.known THEN Constituents(m.of) ELSE {}

MosaicInv ==
    /\ \A m \in mosaics : Faithful(m)
    /\ \A c \in Clients : draft[c] # NoDraft => Faithful(draft[c])

\* A row that is not committed shows no associations.
LEMMA EarlyReadsFindNothing ==
    ASSUME NEW m, ~Referable(m)
    PROVE  Constituents(m) = {}
BY DEF Referable, Constituents, LinksOf

\* The query of a mosaic reads nothing that changes.
LEMMA FaithfulStays ==
    ASSUME TypeOK, TileInv, [Next]_vars, NEW m, Faithful(m)
    PROVE  Faithful(m)'
<1>1. m \in Mosaics /\ m.of.tile \in TileIds /\ m.of.epoch \in EpochIds
  BY DEF Faithful, Mosaics, Identities
<1>2. CASE m.known
  <2>1. Visible(tiles[m.of.tile]) /\ Visible(epochs[m.of.epoch])
    BY <1>2 DEF Faithful, Referable
  <2>2. /\ tiles'[m.of.tile] = tiles[m.of.tile]
        /\ epochs'[m.of.epoch] = epochs[m.of.epoch]
        /\ cals' \cap tiles'[m.of.tile].links = cals \cap tiles[m.of.tile].links
    BY <1>1, <2>1, Frozen, RangeStays
  <2>3. Constituents(m.of)' = Constituents(m.of)
    BY <2>1, <2>2 DEF Constituents, LinksOf, Visible
  <2>4. Referable(m.of)'
    BY <2>1, <2>2 DEF Referable, Visible
  <2>. QED BY <1>1, <1>2, <2>3, <2>4 DEF Faithful
<1>3. CASE ~m.known
  BY <1>1, <1>3 DEF Faithful
<1>. QED BY <1>2, <1>3

\* MosaicInv is kept by every step.
LEMMA MosaicInvStep == TypeOK /\ TileInv /\ MosaicInv /\ [Next]_vars => MosaicInv'
<1>. SUFFICES ASSUME TypeOK, TileInv, MosaicInv, [Next]_vars PROVE MosaicInv'
  OBVIOUS
<1>1. \A m : Faithful(m) => Faithful(m)'
  BY FaithfulStays
<1>2. ASSUME NEW c \in Clients, NEW m \in Identities, ReadConstituents(c, m)
      PROVE  MosaicInv'
  <2>. DEFINE read ==
          [of |-> m, known |-> Referable(m), footprint |-> Constituents(m)]
  <2>0. read \in Mosaics
    BY Selections DEF Mosaics, Referable, Visible
  <2>1. Faithful(read)
    BY <2>0, EarlyReadsFindNothing DEF Faithful
  <2>2. /\ mosaics' = mosaics
        /\ draft' = [draft EXCEPT ![c] = read]
    BY <1>2 DEF ReadConstituents
  <2>. HIDE DEF read
  <2>3. \A k \in mosaics' : Faithful(k)'
    BY <1>1, <2>2 DEF MosaicInv
  <2>4. \A d \in Clients : draft'[d] # NoDraft => Faithful(draft'[d])
    BY <2>1, <2>2 DEF MosaicInv, TypeOK
  <2>. QED BY <1>1, <2>3, <2>4 DEF MosaicInv
<1>3. ASSUME NEW c \in Clients, InsertMosaic(c) PROVE MosaicInv'
  <2>1. Faithful(draft[c])
    BY <1>3 DEF InsertMosaic, MosaicInv
  <2>2. \A k \in mosaics' : Faithful(k)
    BY <1>3, <2>1 DEF InsertMosaic, MosaicInv
  <2>3. \A d \in Clients : draft'[d] # NoDraft => Faithful(draft'[d])
    BY <1>3 DEF InsertMosaic, MosaicInv, TypeOK
  <2>. QED BY <1>1, <2>2, <2>3 DEF MosaicInv
<1>4. ASSUME UNCHANGED mosaics,
             \A d \in Clients : draft'[d] \in {draft[d], NoDraft}
      PROVE  MosaicInv'
  <2>1. \A k \in mosaics' : Faithful(k)
    BY <1>4 DEF MosaicInv
  <2>2. \A d \in Clients : draft'[d] # NoDraft => Faithful(draft'[d])
    BY <1>4 DEF MosaicInv
  <2>. QED BY <1>1, <2>1, <2>2 DEF MosaicInv
<1>5. ASSUME NEW c \in Clients, Abort(c) PROVE MosaicInv'
  BY <1>4, <1>5 DEF Abort, TypeOK
<1>6. ASSUME \/ \E p \in Projects, fs \in Prefixes : IngestCommit(p, fs)
             \/ \E c \in Clients :
                  \/ \E p \in Projects : InsertTiles(c, p) \/ InsertEpochs(c, p)
                  \/ \E t \in TileIds : LinkTile(c, t)
                  \/ \E e \in EpochIds : LinkEpoch(c, e)
                  \/ CommitTiles(c) \/ CommitEpochs(c)
             \/ UNCHANGED vars
      PROVE  MosaicInv'
  <2>1. UNCHANGED <<mosaics, draft>>
    BY <1>6 DEF IngestCommit, InsertTiles, InsertEpochs, LinkTile, LinkEpoch,
                CommitTiles, CommitEpochs, vars
  <2>. QED BY <1>4, <2>1
<1>. QED BY <1>2, <1>3, <1>5, <1>6 DEF Next

\* All of the invariants hold together.
LEMMA CatalogInvariant == Spec => [](TypeOK /\ TileInv /\ EpochInv /\ MosaicInv)
<1>1. Init => MosaicInv
  BY DEF Init, MosaicInv
<1>. QED BY <1>1, MosaicInvStep, EpochInvariant, PTL DEF Spec

\* A footprint create_mosaic computed over committed rows is for ever the one
\* that the association tables give; one computed earlier is empty.
THEOREM MosaicsKeepTheirConstituents == Spec => []MosaicIsItsConstituents
<1>1. MosaicInv => MosaicIsItsConstituents
  BY DEF MosaicInv, MosaicIsItsConstituents, Faithful
<1>. QED BY <1>1, CatalogInvariant, PTL

\* Whatever ids clients combine, no mosaic has a calibration of another project
\* or band, outside its tile or outside its epoch.
THEOREM MosaicsAreSound == Spec => []MosaicIsSound
<1>1. TypeOK /\ TileInv /\ EpochInv /\ MosaicInv => MosaicIsSound
  <2>. SUFFICES ASSUME TypeOK, TileInv, EpochInv, MosaicInv,
                       NEW m \in mosaics, NEW x \in m.footprint
                PROVE  /\ x.project = m.of.project
                       /\ BandOf[x.file] = m.of.band
                       /\ x.file \in Covers[tiles[m.of.tile].shape]
                       /\ MjdOf[x.file] \in
                            epochs[m.of.epoch].interval.lo
                              .. epochs[m.of.epoch].interval.hi
    BY DEF MosaicIsSound
  <2>1. /\ m.of.tile \in TileIds /\ m.of.epoch \in EpochIds
        /\ Visible(tiles[m.of.tile]) /\ Visible(epochs[m.of.epoch])
        /\ x \in Constituents(m.of)
    BY DEF MosaicInv, Faithful, Mosaics, Identities, Referable
  <2>2. x \in Overlapping(tiles[m.of.tile])
    BY <2>1 DEF Constituents, LinksOf, TileInv, Visible
  <2>3. x \in InRange(epochs[m.of.epoch])
    BY <2>1 DEF Constituents, LinksOf, EpochInv, Visible
  <2>. QED BY <2>1, <2>2, <2>3 DEF Constituents, Overlapping, InRange
<1>. QED BY <1>1, CatalogInvariant, PTL

================================================================================
