--------------------------- MODULE BulkUpsert_proofs ---------------------------
(***************************************************************************)
(* Theorems about BulkUpsert, for every set of runs, projects, images and  *)
(* listings.                                                               *)
(***************************************************************************)
EXTENDS BulkUpsert, FiniteLemmas

\* What a run has inserted it has come past, and what it has come past is in
\* the table, committed or its own.
Passed(b) == {tx[b].list[i] : i \in 1 .. (tx[b].at - 1)}

RunInv(b) ==
    /\ tx[b].phase = "images" =>
         /\ tx[b].images \subseteq Passed(b)
         /\ Passed(b) \subseteq images \cup tx[b].images
         /\ tx[b].cals = {}
    /\ tx[b].phase = "cals" =>
         /\ tx[b].cals \subseteq {CalRow(b, f) : f \in Passed(b)}
         /\ {CalRow(b, f) : f \in Passed(b)} \subseteq cals \cup tx[b].cals
    /\ tx[b].phase # "lost"

\* A row that is not committed is of one transaction.
Exclusive ==
    \A b, c \in Batches : b # c =>
        tx[b].images \cap tx[c].images = {} /\ tx[b].cals \cap tx[c].cals = {}

UpsertInv == Exclusive /\ \A b \in Batches : RunInv(b)

--------------------------------------------------------------------------------
(* Types *)

\* The fields of a transaction have the types Transactions gives them.
LEMMA Fields ==
    ASSUME TypeOK, NEW b \in Batches
    PROVE  /\ tx[b].phase \in Phases
           /\ tx[b].project \in Projects \cup {Nil}
           /\ tx[b].list \in Listings \cup {<<>>}
           /\ tx[b].list \in Seq(Files)
           /\ tx[b].at \in Nat \ {0}
           /\ tx[b].at <= Len(tx[b].list) + 1
           /\ tx[b].images \subseteq Files
           /\ tx[b].cals \subseteq Calibrations
           /\ tx[b].phase \in {"images", "cals", "done"} =>
                tx[b].list # <<>> /\ tx[b].project # Nil
           /\ tx[b].phase \in {"idle", "done"} =>
                tx[b].images = {} /\ tx[b].cals = {}
<1>1. tx[b] \in Transactions
  BY DEF TypeOK
<1>2. tx[b].list \in Seq(Files)
  <2>1. tx[b].list \in Listings \cup {<<>>}
    BY <1>1 DEF Transactions
  <2>2. <<>> \in Seq(Files)
    OBVIOUS
  <2>. QED BY <2>1, <2>2, ListingsAssumption
<1>3. /\ tx[b].phase \in Phases
      /\ tx[b].project \in Projects \cup {Nil}
      /\ tx[b].list \in Listings \cup {<<>>}
      /\ tx[b].at \in Nat \ {0}
      /\ tx[b].images \subseteq Files
      /\ tx[b].cals \subseteq Calibrations
  BY <1>1 DEF Transactions
<1>. QED BY <1>2, <1>3 DEF TypeOK

\* A step of one run that leaves the others alone keeps the types if its own
\* transaction stays one.
LEMMA OneTransaction ==
    ASSUME TypeOK, NEW b \in Batches, NEW t \in Transactions,
           images' \subseteq Files, cals' \subseteq Calibrations,
           tx' = [tx EXCEPT ![b] = t],
           t.phase \in {"images", "cals", "done"} =>
               t.list # <<>> /\ t.project # Nil,
           t.at <= Len(t.list) + 1,
           t.phase \in {"idle", "done"} => t.images = {} /\ t.cals = {}
    PROVE  TypeOK'
<1>1. tx' \in [Batches -> Transactions]
  BY DEF TypeOK
<1>2. \A c \in Batches : tx'[c] = IF c = b THEN t ELSE tx[c]
  BY DEF TypeOK
<1>. QED BY <1>1, <1>2 DEF TypeOK

\* The transaction of a run that is not there is a transaction.
LEMMA NothingOpen ==
    /\ NoTransaction \in Transactions
    /\ NoTransaction.phase = "idle"
    /\ NoTransaction.at <= Len(NoTransaction.list) + 1
    /\ NoTransaction.images = {} /\ NoTransaction.cals = {}
BY DEF NoTransaction, Transactions, Phases

\* The row being inserted is a file, and its calibration a calibration.
LEMMA RowTypes ==
    ASSUME TypeOK, NEW b \in Batches,
           Inserting(b, "images") \/ Inserting(b, "cals")
    PROVE  /\ Row(b) \in Files
           /\ tx[b].at \in 1 .. Len(tx[b].list)
           /\ CalRow(b, Row(b)) \in Calibrations
<1>1. tx[b].at \in 1 .. Len(tx[b].list)
  BY Fields DEF Inserting
<1>2. Row(b) \in Files
  BY <1>1, Fields DEF Row
<1>. QED BY <1>1, <1>2, Fields DEF Inserting, CalRow, Calibrations

\* Every step keeps the types.
LEMMA TypeStep == TypeOK /\ [Next]_vars => TypeOK'
<1>. SUFFICES ASSUME TypeOK, [Next]_vars PROVE TypeOK'
  OBVIOUS
<1>1. CASE UNCHANGED vars
  BY <1>1 DEF vars, TypeOK
<1>2. ASSUME NEW b \in Batches, NEW p \in Projects, NEW l \in Listings,
             Begin(b, p, l)
      PROVE  TypeOK'
  <2>. DEFINE t == [phase |-> "images", project |-> p, list |-> l, at |-> 1,
                    images |-> {}, cals |-> {}]
  <2>1. t \in Transactions /\ t.list = l /\ t.project = p /\ t.at = 1
        /\ t.phase = "images"
    BY DEF Transactions, Phases
  <2>2. l # <<>> /\ l \in Seq(Files) /\ p # Nil
    BY ListingsAssumption
  <2>3. tx' = [tx EXCEPT ![b] = t] /\ UNCHANGED <<images, cals>>
    BY <1>2 DEF Begin
  <2>4. images' \subseteq Files /\ cals' \subseteq Calibrations
    BY <2>3 DEF TypeOK
  <2>5. 1 <= Len(l) + 1
    BY <2>2
  <2>. HIDE DEF t
  <2>. QED BY <2>1, <2>2, <2>3, <2>4, <2>5, OneTransaction
<1>3. ASSUME NEW b \in Batches, InsertImage(b) PROVE TypeOK'
  <2>. DEFINE rows == IF Row(b) \in images THEN tx[b].images
                      ELSE tx[b].images \cup {Row(b)}
              t == [tx[b] EXCEPT !.at = tx[b].at + 1, !.images = rows]
  <2>1. tx[b] \in Transactions
    BY DEF TypeOK
  <2>2. Inserting(b, "images") /\ Row(b) \in Files
        /\ tx[b].at \in 1 .. Len(tx[b].list)
    BY <1>3, RowTypes DEF InsertImage
  <2>6. rows \in SUBSET Files /\ tx[b].at + 1 \in Nat \ {0}
    BY <2>2, Fields
  <2>7. t.at = tx[b].at + 1 /\ t.at <= Len(tx[b].list) + 1
    BY <2>1, <2>2, Fields DEF Transactions
  <2>3. t \in Transactions /\ t.phase = "images" /\ t.list = tx[b].list
        /\ t.project = tx[b].project
    <3>. HIDE DEF rows
    <3>. QED BY <2>1, <2>2, <2>6 DEF Transactions, Inserting
  <2>4. tx' = [tx EXCEPT ![b] = t] /\ UNCHANGED <<images, cals>>
    BY <1>3 DEF InsertImage, TypeOK
  <2>5. images' \subseteq Files /\ cals' \subseteq Calibrations
    BY <2>4 DEF TypeOK
  <2>. HIDE DEF t, rows
  <2>. QED BY <2>2, <2>3, <2>4, <2>5, <2>7, Fields, OneTransaction DEF Inserting
<1>4. ASSUME NEW b \in Batches, LookUpIds(b) PROVE TypeOK'
  <2>. DEFINE t == [tx[b] EXCEPT
                      !.phase = IF Range(tx[b].list) \subseteq Found(b)
                                THEN "cals" ELSE "lost",
                      !.at = 1]
  <2>0. {"cals", "lost"} \subseteq Phases /\ 1 \in Nat \ {0}
    BY DEF Phases
  <2>1. tx[b] \in Transactions /\ tx[b].phase = "images"
    BY <1>4 DEF TypeOK, LookUpIds
  <2>2. t \in Transactions /\ t.phase \in {"cals", "lost"}
        /\ t.list = tx[b].list /\ t.at = 1 /\ t.project = tx[b].project
    <3>1. CASE Range(tx[b].list) \subseteq Found(b)
      <4>1. t = [tx[b] EXCEPT !.phase = "cals", !.at = 1]
        BY <3>1
      <4>2. [tx[b] EXCEPT !.phase = "cals", !.at = 1] \in Transactions
        BY <2>1, <2>0 DEF Transactions
      <4>. QED BY <2>1, <4>1, <4>2 DEF Transactions
    <3>2. CASE ~(Range(tx[b].list) \subseteq Found(b))
      <4>1. t = [tx[b] EXCEPT !.phase = "lost", !.at = 1]
        BY <3>2
      <4>2. [tx[b] EXCEPT !.phase = "lost", !.at = 1] \in Transactions
        BY <2>1, <2>0 DEF Transactions
      <4>. QED BY <2>1, <4>1, <4>2 DEF Transactions
    <3>. QED BY <3>1, <3>2
  <2>3. tx' = [tx EXCEPT ![b] = t] /\ UNCHANGED <<images, cals>>
    BY <1>4 DEF LookUpIds, TypeOK
  <2>4. images' \subseteq Files /\ cals' \subseteq Calibrations
    BY <2>3 DEF TypeOK
  <2>. HIDE DEF t
  <2>5. 1 <= Len(tx[b].list) + 1
    BY Fields
  <2>. QED BY <2>1, <2>2, <2>3, <2>4, <2>5, Fields, OneTransaction
<1>5. ASSUME NEW b \in Batches, InsertCal(b) PROVE TypeOK'
  <2>. DEFINE rows == IF Conflicts(b, Row(b)) THEN tx[b].cals
                      ELSE tx[b].cals \cup {CalRow(b, Row(b))}
              t == [tx[b] EXCEPT !.at = tx[b].at + 1, !.cals = rows]
  <2>1. tx[b] \in Transactions
    BY DEF TypeOK
  <2>2. Inserting(b, "cals") /\ CalRow(b, Row(b)) \in Calibrations
        /\ tx[b].at \in 1 .. Len(tx[b].list)
    BY <1>5, RowTypes DEF InsertCal
  <2>6. rows \in SUBSET Calibrations /\ tx[b].at + 1 \in Nat \ {0}
    BY <2>2, Fields
  <2>7. t.at = tx[b].at + 1 /\ t.at <= Len(tx[b].list) + 1
    BY <2>1, <2>2, Fields DEF Transactions
  <2>3. t \in Transactions /\ t.phase = "cals" /\ t.list = tx[b].list
        /\ t.project = tx[b].project
    <3>. HIDE DEF rows
    <3>. QED BY <2>1, <2>2, <2>6 DEF Transactions, Inserting
  <2>4. tx' = [tx EXCEPT ![b] = t] /\ UNCHANGED <<images, cals>>
    BY <1>5 DEF InsertCal, TypeOK
  <2>5. images' \subseteq Files /\ cals' \subseteq Calibrations
    BY <2>4 DEF TypeOK
  <2>. HIDE DEF t, rows
  <2>. QED BY <2>2, <2>3, <2>4, <2>5, <2>7, Fields, OneTransaction DEF Inserting
<1>6. ASSUME NEW b \in Batches, Commit(b) PROVE TypeOK'
  <2>. DEFINE t == [tx[b] EXCEPT !.phase = "done", !.images = {}, !.cals = {}]
  <2>1. tx[b] \in Transactions /\ tx[b].phase = "cals"
    BY <1>6 DEF TypeOK, Commit
  <2>2. t \in Transactions /\ t.list = tx[b].list /\ t.at = tx[b].at
        /\ t.project = tx[b].project /\ t.images = {} /\ t.cals = {}
    BY <2>1 DEF Transactions, Phases
  <2>3. tx' = [tx EXCEPT ![b] = t]
    BY <1>6 DEF Commit, TypeOK
  <2>4. images' \subseteq Files /\ cals' \subseteq Calibrations
    BY <1>6, Fields DEF TypeOK, Commit
  <2>. HIDE DEF t
  <2>. QED BY <2>1, <2>2, <2>3, <2>4, Fields, OneTransaction
<1>7. ASSUME NEW b \in Batches, Raise(b) \/ DeadlockVictim(b) PROVE TypeOK'
  <2>1. PICK ti \in SUBSET Files, tc \in SUBSET Calibrations :
          tx' = [tx EXCEPT ![b] = [tx[b] EXCEPT !.phase = "raised",
                                                !.images = ti, !.cals = tc]]
    <3>1. CASE Raise(b)
      <4>1. tx[b] \in Transactions
        BY DEF TypeOK
      <4>2. [tx[b] EXCEPT !.phase = "raised"]
              = [tx[b] EXCEPT !.phase = "raised", !.images = tx[b].images,
                              !.cals = tx[b].cals]
        BY <4>1 DEF Transactions
      <4>3. tx' = [tx EXCEPT ![b] = [tx[b] EXCEPT !.phase = "raised"]]
        BY <3>1 DEF Raise, TypeOK
      <4>4. tx[b].images \in SUBSET Files /\ tx[b].cals \in SUBSET Calibrations
        BY Fields
      <4>. QED BY <4>2, <4>3, <4>4
    <3>2. CASE DeadlockVictim(b)
      BY <3>2 DEF DeadlockVictim, TypeOK
    <3>. QED BY <1>7, <3>1, <3>2
  <2>. DEFINE t == [tx[b] EXCEPT !.phase = "raised", !.images = ti, !.cals = tc]
  <2>2. t \in Transactions /\ t.phase = "raised" /\ t.list = tx[b].list
        /\ t.at = tx[b].at
    BY DEF TypeOK, Transactions, Phases
  <2>3. images' \subseteq Files /\ cals' \subseteq Calibrations
    BY <1>7 DEF TypeOK, Raise, DeadlockVictim
  <2>4. tx' = [tx EXCEPT ![b] = t]
    BY <2>1
  <2>. HIDE DEF t
  <2>. QED BY <2>2, <2>3, <2>4, Fields, OneTransaction
<1>8. ASSUME NEW b \in Batches, Rollback(b) \/ Crash(b) PROVE TypeOK'
  <2>1. images' \subseteq Files /\ cals' \subseteq Calibrations
    BY <1>8 DEF TypeOK, Rollback, Crash
  <2>2. tx' = [tx EXCEPT ![b] = NoTransaction]
    BY <1>8 DEF Rollback, Crash
  <2>. QED BY <2>1, <2>2, NothingOpen, OneTransaction
<1>. QED BY <1>1, <1>2, <1>3, <1>4, <1>5, <1>6, <1>7, <1>8 DEF Next

\* Type correctness, and that a run that is over has no rows of its own left.
THEOREM UpsertTypeCorrect == Spec => []TypeOK
<1>1. Init => TypeOK
  <2>. SUFFICES ASSUME Init PROVE TypeOK
    OBVIOUS
  <2>1. tx \in [Batches -> Transactions]
    BY NothingOpen DEF Init
  <2>2. \A b \in Batches : tx[b] = NoTransaction
    BY DEF Init
  <2>. QED BY <2>1, <2>2, NothingOpen DEF Init, TypeOK
<1>. QED BY <1>1, TypeStep, PTL DEF Spec

--------------------------------------------------------------------------------
(* The course of a run *)

\* Each step is of one run, and nothing committed is lost.
LEMMA OneRun ==
    ASSUME TypeOK, Next
    PROVE  /\ \E b \in Batches : \A c \in Batches \ {b} : tx'[c] = tx[c]
           /\ images \subseteq images' /\ cals \subseteq cals'
BY DEF Next, TypeOK, Begin, InsertImage, LookUpIds, InsertCal, Commit, Raise,
       DeadlockVictim, Rollback, Crash

\* What a run has passed depends on its own transaction only, and what was in
\* the tables still is.
LEMMA OthersKeep ==
    ASSUME NEW c \in Batches, RunInv(c), tx'[c] = tx[c],
           images \subseteq images', cals \subseteq cals'
    PROVE  RunInv(c)'
<1>1. Passed(c)' = Passed(c) /\ \A f : CalRow(c, f)' = CalRow(c, f)
  BY DEF Passed, CalRow
<1>2. {CalRow(c, f) : f \in Passed(c)}' = {CalRow(c, f) : f \in Passed(c)}
  BY <1>1
<1>. QED BY <1>1, <1>2 DEF RunInv

\* A row that is added to one transaction is in no other, and nothing else is
\* added.
LEMMA ExclusiveStep == TypeOK /\ Exclusive /\ [Next]_vars => Exclusive'
<1>. SUFFICES ASSUME TypeOK, Exclusive, [Next]_vars PROVE Exclusive'
  OBVIOUS
<1>1. CASE UNCHANGED vars
  BY <1>1 DEF vars, Exclusive
<1>2. ASSUME NEW b \in Batches, InsertImage(b) PROVE Exclusive'
  <2>1. \A c \in Batches : tx'[c].cals = tx[c].cals
    BY <1>2, Fields DEF InsertImage, TypeOK, Transactions
  <2>2. \A c \in Batches \ {b} :
          tx'[c].images = tx[c].images /\ Row(b) \notin tx[c].images
    BY <1>2 DEF InsertImage, TypeOK, Waiting, WaitsFor
  <2>3. tx'[b].images \subseteq tx[b].images \cup {Row(b)}
    BY <1>2 DEF InsertImage, TypeOK, Transactions
  <2>. QED BY <2>1, <2>2, <2>3 DEF Exclusive
<1>3. ASSUME NEW b \in Batches, InsertCal(b) PROVE Exclusive'
  <2>1. \A c \in Batches : tx'[c].images = tx[c].images
    BY <1>3, Fields DEF InsertCal, TypeOK, Transactions
  <2>2. \A c \in Batches \ {b} :
          tx'[c].cals = tx[c].cals /\ CalRow(b, Row(b)) \notin tx[c].cals
    BY <1>3 DEF InsertCal, TypeOK, Waiting, WaitsFor
  <2>3. tx'[b].cals \subseteq tx[b].cals \cup {CalRow(b, Row(b))}
    BY <1>3 DEF InsertCal, TypeOK, Transactions
  <2>. QED BY <2>1, <2>2, <2>3 DEF Exclusive
<1>4. ASSUME NEW b \in Batches,
             \/ \E p \in Projects, l \in Listings : Begin(b, p, l)
             \/ LookUpIds(b) \/ Commit(b) \/ Raise(b) \/ DeadlockVictim(b)
             \/ Rollback(b) \/ Crash(b)
      PROVE  Exclusive'
  <2>1. \A c \in Batches \ {b} : tx'[c] = tx[c]
    BY <1>4 DEF TypeOK, Begin, LookUpIds, Commit, Raise, DeadlockVictim,
                Rollback, Crash
  <2>2. tx'[b].images \in {tx[b].images, {}} /\ tx'[b].cals \in {tx[b].cals, {}}
    BY <1>4, NothingOpen DEF TypeOK, Transactions, Begin, LookUpIds, Commit, Raise,
                DeadlockVictim, Rollback, Crash
  <2>. QED BY <2>1, <2>2 DEF Exclusive
<1>. QED BY <1>1, <1>2, <1>3, <1>4 DEF Next

\* A run that has come to the end of its listing has passed all of it.
LEMMA AllPassed ==
    ASSUME TypeOK, NEW b \in Batches, tx[b].at > Len(tx[b].list)
    PROVE  Passed(b) = Range(tx[b].list)
<1>1. tx[b].at - 1 = Len(tx[b].list)
  BY Fields
<1>2. DOMAIN tx[b].list = 1 .. Len(tx[b].list)
  BY Fields
<1>. QED BY <1>1, <1>2 DEF Passed, Range

\* One more row has been passed.
LEMMA OneMorePassed ==
    ASSUME TypeOK, NEW b \in Batches, tx'[b].list = tx[b].list,
           tx'[b].at = tx[b].at + 1
    PROVE  Passed(b)' = Passed(b) \cup {Row(b)}
<1>1. tx[b].at \in Nat \ {0}
  BY Fields
<1>2. 1 .. (tx'[b].at - 1) = 1 .. (tx[b].at - 1) \cup {tx[b].at}
  BY <1>1
<1>. QED BY <1>2 DEF Passed, Row

\* The invariant of a run is kept by its own steps.
LEMMA OwnStep ==
    ASSUME TypeOK, NEW b \in Batches, RunInv(b),
           \/ \E p \in Projects, l \in Listings : Begin(b, p, l)
           \/ InsertImage(b) \/ LookUpIds(b) \/ InsertCal(b) \/ Commit(b)
           \/ Raise(b) \/ DeadlockVictim(b) \/ Rollback(b) \/ Crash(b)
    PROVE  RunInv(b)'
<1>1. CASE \E p \in Projects, l \in Listings : Begin(b, p, l)
  <2>1. tx'[b].at = 1 /\ tx'[b].phase = "images" /\ tx'[b].images = {}
        /\ tx'[b].cals = {}
    BY <1>1 DEF Begin, TypeOK
  <2>2. Passed(b)' = {}
    BY <2>1 DEF Passed
  <2>. QED BY <2>1, <2>2 DEF RunInv
<1>2. CASE InsertImage(b)
  <2>1. /\ tx'[b].list = tx[b].list /\ tx'[b].at = tx[b].at + 1
        /\ tx[b].phase = "images" /\ tx'[b].phase = "images"
        /\ tx'[b].cals = tx[b].cals /\ images' = images
        /\ tx'[b].images = IF Row(b) \in images THEN tx[b].images
                           ELSE tx[b].images \cup {Row(b)}
    BY <1>2 DEF InsertImage, Inserting, TypeOK, Transactions
  <2>2. Passed(b)' = Passed(b) \cup {Row(b)}
    BY <2>1, OneMorePassed
  <2>. QED BY <2>1, <2>2 DEF RunInv
<1>3. CASE LookUpIds(b)
  <2>1. Range(tx[b].list) \subseteq Found(b)
    BY <1>3, AllPassed DEF LookUpIds, RunInv, Found
  <2>2. tx'[b].phase = "cals" /\ tx'[b].at = 1 /\ tx'[b].cals = tx[b].cals
        /\ tx[b].phase = "images"
    BY <1>3, <2>1 DEF LookUpIds, TypeOK, Transactions
  <2>3. Passed(b)' = {}
    BY <2>2 DEF Passed
  <2>. QED BY <2>2, <2>3 DEF RunInv
<1>4. CASE InsertCal(b)
  <2>1. /\ tx'[b].list = tx[b].list /\ tx'[b].at = tx[b].at + 1
        /\ tx[b].phase = "cals" /\ tx'[b].phase = "cals"
        /\ tx'[b].project = tx[b].project /\ cals' = cals
        /\ tx'[b].cals = IF CalRow(b, Row(b)) \in cals THEN tx[b].cals
                         ELSE tx[b].cals \cup {CalRow(b, Row(b))}
    BY <1>4 DEF InsertCal, Inserting, Conflicts, TypeOK, Transactions
  <2>2. Passed(b)' = Passed(b) \cup {Row(b)}
    BY <2>1, OneMorePassed
  <2>3. \A f : CalRow(b, f)' = CalRow(b, f)
    BY <2>1 DEF CalRow
  <2>4. {CalRow(b, f) : f \in Passed(b)}'
          = {CalRow(b, f) : f \in Passed(b)} \cup {CalRow(b, Row(b))}
    BY <2>2, <2>3
  <2>. QED BY <2>1, <2>4 DEF RunInv
<1>5. CASE Commit(b) \/ Raise(b) \/ DeadlockVictim(b) \/ Rollback(b) \/ Crash(b)
  <2>1. tx'[b].phase \in {"done", "raised", "idle"}
    BY <1>5, NothingOpen DEF TypeOK, Transactions, Commit, Raise, DeadlockVictim,
                             Rollback, Crash
  <2>. QED BY <2>1 DEF RunInv
<1>. QED BY <1>1, <1>2, <1>3, <1>4, <1>5

\* Every step keeps the invariant of every run.
LEMMA UpsertInvStep == TypeOK /\ UpsertInv /\ [Next]_vars => UpsertInv'
<1>. SUFFICES ASSUME TypeOK, UpsertInv, [Next]_vars,
                     NEW c \in Batches
              PROVE  RunInv(c)'
  BY ExclusiveStep DEF UpsertInv
<1>1. RunInv(c)
  BY DEF UpsertInv
<1>2. CASE UNCHANGED vars
  BY <1>1, <1>2, OthersKeep DEF vars
<1>3. CASE Next
  <2>1. PICK b \in Batches :
             \/ \E p \in Projects, l \in Listings : Begin(b, p, l)
             \/ InsertImage(b) \/ LookUpIds(b) \/ InsertCal(b) \/ Commit(b)
             \/ Raise(b) \/ DeadlockVictim(b) \/ Rollback(b) \/ Crash(b)
    BY <1>3 DEF Next
  <2>2. CASE b = c
    BY <1>1, <2>1, <2>2, OwnStep
  <2>3. CASE b # c
    <3>1. tx'[c] = tx[c]
      BY <2>1, <2>3 DEF TypeOK, Begin, InsertImage, LookUpIds, InsertCal, Commit,
                        Raise, DeadlockVictim, Rollback, Crash
    <3>2. images \subseteq images' /\ cals \subseteq cals'
      BY <1>3, OneRun
    <3>. QED BY <1>1, <3>1, <3>2, OthersKeep
  <2>. QED BY <2>2, <2>3
<1>. QED BY <1>2, <1>3

\* Types and the course of every run hold together in every state.
LEMMA UpsertInvariant == Spec => [](TypeOK /\ UpsertInv)
<1>1. Init => UpsertInv
  BY NothingOpen DEF Init, UpsertInv, Exclusive, RunInv
<1>. QED BY <1>1, UpsertInvStep, UpsertTypeCorrect, PTL DEF Spec

--------------------------------------------------------------------------------
(* The theorems *)

\* No KeyError: every image of the listing has an id when it is looked up,
\* whoever inserted it (bulk_upsert_images_and_calibrations).
THEOREM ImagesAreFound == Spec => []NoImageIsLost
<1>1. UpsertInv => NoImageIsLost
  BY DEF UpsertInv, RunInv, NoImageIsLost
<1>. QED BY <1>1, UpsertInvariant, PTL

\* A step that changes the committed calibrations commits one run's listing.
LEMMA CommitIsIngest ==
    ASSUME TypeOK, UpsertInv, [Next]_vars, cals' # cals
    PROVE  \E b \in Batches :
               /\ tx[b].phase = "cals" /\ tx'[b].phase = "done"
               /\ Domain!IngestCommit(tx[b].project, Range(tx[b].list))
<1>1. PICK b \in Batches : Commit(b)
  BY DEF Next, vars, Begin, InsertImage, LookUpIds, InsertCal, Raise,
         DeadlockVictim, Rollback, Crash
<1>2. tx[b].phase = "cals" /\ tx'[b].phase = "done"
      /\ cals' = cals \cup tx[b].cals
  BY <1>1 DEF Commit, TypeOK, Transactions
<1>3. Passed(b) = Range(tx[b].list)
  BY <1>1, AllPassed DEF Commit
<1>4. {CalRow(b, f) : f \in Passed(b)}
        = [project : {tx[b].project}, file : Range(tx[b].list)]
  <2>. DEFINE whole == [project : {tx[b].project}, file : Range(tx[b].list)]
  <2>1. ASSUME NEW f \in Passed(b) PROVE CalRow(b, f) \in whole
    BY <1>3 DEF CalRow
  <2>2. ASSUME NEW x \in whole PROVE x = CalRow(b, x.file) /\ x.file \in Passed(b)
    BY <1>3 DEF CalRow
  <2>. QED BY <2>1, <2>2
<1>5. cals' = cals \cup [project : {tx[b].project}, file : Range(tx[b].list)]
  BY <1>2, <1>4 DEF UpsertInv, RunInv
<1>. QED BY <1>2, <1>5 DEF Domain!IngestCommit

\* Other sessions see all of an upsert or nothing of it: each change of the
\* calibrations is one IngestCommit of the catalogue.
THEOREM UpsertImplementsIngest == Spec => UpsertIsOneStep
<1>1. TypeOK /\ UpsertInv /\ [Next]_vars =>
        [\E b \in Batches :
            /\ tx[b].phase = "cals" /\ tx'[b].phase = "done"
            /\ Domain!IngestCommit(tx[b].project, Range(tx[b].list))]_cals
  BY CommitIsIngest
<1>. QED BY <1>1, UpsertInvariant, PTL DEF Spec, UpsertIsOneStep

\* Waits lead forward in any order of the images that the listing of the run
\* waited for follows.
LEMMA WaitLeadsForward ==
    ASSUME TypeOK, UpsertInv, NEW rank \in Ranks,
           NEW b \in Batches, NEW c \in Batches, NEW d \in Batches,
           WaitsFor(b, c), WaitsFor(c, d), Sorted(tx[c].list, rank)
    PROVE  Ahead(b, c, rank)
<1>1. RunInv(c) /\ c # d
      /\ tx[c].images \cap tx[d].images = {} /\ tx[c].cals \cap tx[d].cals = {}
  BY DEF UpsertInv, Exclusive, WaitsFor
<1>2. /\ Row(b) \in Files /\ Row(c) \in Files
      /\ tx[c].at \in 1 .. Len(tx[c].list)
      /\ \A f \in Files : rank[f] \in Int
      /\ \A f, g \in Files : rank[f] = rank[g] => f = g
  BY RowTypes DEF WaitsFor, Ranks
<1>3. ASSUME Row(b) \in Passed(c), Row(b) # Row(c)
      PROVE  rank[Row(b)] < rank[Row(c)]
  <2>1. PICK i \in 1 .. (tx[c].at - 1) : Row(b) = tx[c].list[i]
    BY <1>3 DEF Passed
  <2>2. i \in 1 .. Len(tx[c].list) /\ i <= tx[c].at
    BY <1>2, <2>1, Fields
  <2>3. rank[Row(b)] <= rank[Row(c)]
    BY <1>2, <2>1, <2>2 DEF Sorted, Row
  <2>. QED BY <1>2, <1>3, <2>3
<1>4. CASE tx[c].phase = "images"
  <2>1. tx[b].phase = "images" /\ Row(b) \in tx[c].images
        /\ Row(c) \in tx[d].images
    BY <1>1, <1>4 DEF WaitsFor, Inserting, RunInv
  <2>2. Row(b) \in Passed(c) /\ Row(b) # Row(c)
    BY <1>1, <1>4, <2>1 DEF RunInv
  <2>. QED BY <1>3, <1>4, <2>1, <2>2 DEF Ahead
<1>5. CASE tx[c].phase = "cals" /\ tx[b].phase = "images"
  BY <1>5 DEF Ahead
<1>6. CASE tx[c].phase = "cals" /\ tx[b].phase = "cals"
  <2>1. CalRow(b, Row(b)) \in tx[c].cals /\ CalRow(c, Row(c)) \in tx[d].cals
    BY <1>6 DEF WaitsFor, Inserting
  <2>2. PICK f \in Passed(c) : CalRow(b, Row(b)) = CalRow(c, f)
    BY <1>1, <1>6, <2>1 DEF RunInv
  <2>3. f = Row(b) /\ tx[b].project = tx[c].project
    BY <2>2 DEF CalRow
  <2>4. Row(b) # Row(c)
    BY <1>1, <2>1, <2>2, <2>3
  <2>. QED BY <1>3, <1>6, <2>2, <2>3, <2>4 DEF Ahead
<1>. QED BY <1>4, <1>5, <1>6 DEF WaitsFor, Inserting

\* A run that waits and is waited for is ahead of the one that waits for it,
\* so runs whose listings agree on an order never deadlock.
THEOREM UpsertsWaitForward == Spec => []WaitsAscend
<1>1. TypeOK /\ UpsertInv => WaitsAscend
  BY WaitLeadsForward DEF WaitsAscend, Waiting
<1>. QED BY <1>1, UpsertInvariant, PTL

--------------------------------------------------------------------------------
(* No circle *)

\* Where each of a set of runs waits for another of the set, and all are at the
\* images or all at the calibrations, none is the furthest on.
LEMMA NoneIsFurthest ==
    ASSUME TypeOK, WaitsAscend, NEW rank \in Ranks,
           NEW W \in SUBSET Batches, NEW phase,
           \A c \in W : Sorted(tx[c].list, rank) /\ tx[c].phase = phase,
           \A c \in W : \E d \in W : WaitsFor(c, d)
    PROVE  W = {}
<1>. SUFFICES ASSUME W # {} PROVE FALSE
  OBVIOUS
<1>. DEFINE place == [c \in W |-> rank[Row(c)]]
            P == {place[c] : c \in W}
<1>1. \A c \in W : place[c] \in Int
  BY RowTypes DEF Ranks, WaitsFor
<1>2. \A c \in W : \E d \in W : place[c] < place[d]
  BY DEF WaitsAscend, Waiting, Ahead
<1>3. place \in Surjection(W, P)
  BY DEF Surjection
<1>. HIDE DEF place
<1>4. IsFiniteSet(W)
  BY ListingsAssumption, FS_Subset
<1>5. P \in SUBSET Int /\ P # {} /\ IsFiniteSet(P)
  BY <1>1, <1>3, <1>4, FS_Surjection
<1>6. PICK m \in P : \A x \in P : x <= m
  BY <1>5, GreatestExists
<1>7. PICK c \in W : m = place[c]
  BY <1>6
<1>8. PICK d \in W : place[c] < place[d]
  BY <1>2
<1>9. place[d] <= place[c]
  BY <1>6, <1>7
<1>. QED BY <1>1, <1>8, <1>9

\* A wait leads from the images to the calibrations or stays where it is.
LEMMA WaitsByPhase ==
    ASSUME NEW b, NEW c, WaitsFor(b, c)
    PROVE  tx[b].phase \in {"images", "cals"}
  BY DEF WaitsFor, Inserting

\* Runs whose listings agree on an order never deadlock, however many there are
\* and whatever the listings of the others (bulk_upsert_images_and_calibrations).
THEOREM OrderedRunsNeverDeadlock == Spec => []OrderedRunsProceed
<1>1. ASSUME TypeOK, WaitsAscend PROVE OrderedRunsProceed
  <2>. SUFFICES ASSUME NEW rank \in Ranks, NEW W \in SUBSET Batches, W # {},
                       \A c \in W : Sorted(tx[c].list, rank),
                       \A c \in W : \E d \in W : WaitsFor(c, d)
                PROVE  FALSE
    BY DEF OrderedRunsProceed
  <2>. DEFINE Late == {c \in W : tx[c].phase = "cals"}
  <2>1. ASSUME NEW c \in Late PROVE \E d \in Late : WaitsFor(c, d)
    <3>1. PICK d \in W : WaitsFor(c, d)
      OBVIOUS
    <3>2. PICK e \in W : WaitsFor(d, e)
      OBVIOUS
    <3>3. Ahead(c, d, rank)
      BY <1>1, <3>1, <3>2 DEF WaitsAscend, Waiting
    <3>. QED BY <3>1, <3>3 DEF Ahead
  <2>2. Late = {}
    BY <1>1, <2>1, NoneIsFurthest
  <2>3. \A c \in W : tx[c].phase = "images"
    BY <2>2, WaitsByPhase
  <2>. QED BY <1>1, <2>3, NoneIsFurthest
<1>. QED BY <1>1, UpsertTypeCorrect, UpsertsWaitForward, PTL

================================================================================
