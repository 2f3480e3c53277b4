--------------------------- MODULE LightWorker_proofs ---------------------------
(***************************************************************************)
(* What LightWorker guarantees for any number of children and seeders and  *)
(* any limits.  Mirrors are counted: a step that makes a child busy starts *)
(* one mc and a step that frees it ends one, but for a child that is       *)
(* killed and an error that nothing catches, which are counted in spent.   *)
(* Time is counted too: a tick that leaves a sweep waiting takes a tick of *)
(* every child from the hangs, and few mirrors are in front of the sweep.  *)
(***************************************************************************)
EXTENDS LightWorker, FiniteSetTheorems, TLAPS

\* The constants, one by one.
LEMMA Numbers ==
    /\ Limit \in Nat /\ Staleness \in Nat /\ MaxLead \in Nat /\ MaxSlow \in Nat
    /\ Limit > 0 /\ Staleness > 0
    /\ IsFiniteSet(Children) /\ Cardinality(Children) \in Nat
  BY LightAssumption, FS_CardinalityType DEF LightAssumption

\* And the numbers of a state.
LEMMA StateNumbers ==
    ASSUME TypeOK
    PROVE  /\ age \in Nat /\ queue \in Seq(Messages)
           /\ \A b \in Budgets : spent[b] \in Nat
           /\ \A c \in Children : left[c] \in 0..(Limit + 1)
  BY DEF TypeOK

\* The shape of what Spend does, whichever bound it draws on.
LEMMA SpendType ==
    ASSUME TypeOK, NEW b \in Budgets, Spend(b)
    PROVE  /\ spent' \in [Budgets -> Nat]
           /\ \A a \in Budgets : spent'[a] = IF a = b THEN spent[a] + 1 ELSE spent[a]
  BY DEF TypeOK, Spend, Budgets

\* A message that is taken leaves a queue of messages.
LEMMA TakenType ==
    ASSUME TypeOK, NEW c \in Children, NEW m, Taken(c, m)
    PROVE  queue' \in Seq(Messages)
  BY DEF TypeOK, Taken

\* Beat appends messages.
LEMMA OrdersType ==
    ASSUME NEW S \in SUBSET Messages, NEW q \in Orders(S)
    PROVE  q \in Seq(Messages)
  <1>1. PICK n \in 0..Cardinality(S) : q \in [1..n -> S]
    BY DEF Orders
  <1>2. n \in Nat
    <2>1. IsFiniteSet({"mirror"})
      BY FS_Singleton
    <2>2. IsFiniteSet({"mirror"} \cup {"sweep"})
      BY <2>1, FS_AddElement
    <2>3. Messages = {"mirror"} \cup {"sweep"}
      BY DEF Messages
    <2>4. IsFiniteSet(S)
      BY <2>2, <2>3, FS_Subset
    <2> QED BY <1>1, <2>4, FS_CardinalityType
  <1>3. q \in [1..n -> Messages]
    BY <1>1
  <1> QED BY <1>2, <1>3

\* A child that takes a slow mirror is one more that is busy.
LEMMA OneMoreBusy ==
    ASSUME TypeOK, NEW c \in Children, left[c] = 0, NEW k \in 1..(Limit + 1),
           left' = [left EXCEPT ![c] = k]
    PROVE  Cardinality(Busy') = Cardinality(Busy) + 1
  <1>1. IsFiniteSet(Busy)
    BY FS_Subset, Numbers DEF Busy
  <1>2. Busy' = Busy \cup {c} /\ c \notin Busy
    BY DEF Busy, TypeOK
  <1> QED BY <1>1, <1>2, FS_AddElement

\* A child that is freed is one fewer.
LEMMA OneFewerBusy ==
    ASSUME TypeOK, NEW c \in Children, left[c] > 0, left' = [left EXCEPT ![c] = 0]
    PROVE  Cardinality(Busy') = Cardinality(Busy) - 1
  <1>1. IsFiniteSet(Busy)
    BY FS_Subset, Numbers DEF Busy
  <1>2. Busy' = Busy \ {c} /\ c \in Busy
    BY DEF Busy, TypeOK
  <1> QED BY <1>1, <1>2, FS_RemoveElement

\* The number of busy children is a number, and one is busy when another is freed.
LEMMA BusyCount ==
    ASSUME TypeOK
    PROVE  /\ Cardinality(Busy) \in Nat
           /\ \A c \in Children : left[c] > 0 => Cardinality(Busy) >= 1
  <1>1. IsFiniteSet(Busy)
    BY FS_Subset, Numbers DEF Busy
  <1>2. ASSUME NEW c \in Children, left[c] > 0
        PROVE  Cardinality(Busy) >= 1
    <2>1. c \in Busy
      BY <1>2 DEF Busy
    <2>2. Cardinality(Busy) # 0 /\ Cardinality(Busy) \in Nat
      BY <1>1, <2>1, FS_EmptySet, FS_CardinalityType
    <2> QED BY <2>2
  <1> QED BY <1>1, <1>2, FS_CardinalityType

--------------------------------------------------------------------------------

\* What is kept about the mirrors: they are counted.
LightInv == TypeOK /\ MirrorsAreReaped

LEMMA LightInit == Init => LightInv
  <1> SUFFICES ASSUME Init PROVE LightInv
    OBVIOUS
  <1>1. TypeOK
    BY LightAssumption DEF LightAssumption, Init, TypeOK, Rows, Budgets
  <1>2. Busy = {}
    BY DEF Busy, Init
  <1> QED BY <1>1, <1>2, FS_EmptySet DEF LightInv, MirrorsAreReaped, Init, Budgets

\* The schedule, the row and the budgets change; no child does.
LEMMA BeatSteps ==
    ASSUME LightInv,
           \/ \E s \in Seeders : SeedRead(s) \/ SeedCommit(s)
           \/ BeatSetsUp
           \/ \E r \in Rows : AdminEdit(r)
           \/ RowOrphaned
    PROVE  LightInv'
  <1> USE DEF LightInv, beatVars, workVars, rowVars
  <1>1. CASE \E s \in Seeders : SeedRead(s) \/ SeedCommit(s)
    <2>1. PICK s \in Seeders : SeedRead(s) \/ SeedCommit(s)
      BY <1>1
    <2>2. /\ seeder' \in [Seeders -> {"new", "saw_empty", "done"}]
          /\ schedule' \in [Rows -> {"absent", "on", "off"}]
      BY <2>1 DEF SeedRead, SeedCommit, TypeOK, Rows
    <2>3. UNCHANGED <<queue, left, mc, age, lead, spent>>
      BY <2>1 DEF SeedRead, SeedCommit
    <2> QED BY <2>2, <2>3 DEF TypeOK, MirrorsAreReaped, Busy
  <1>2. CASE BeatSetsUp
    BY <1>2 DEF BeatSetsUp, TypeOK, MirrorsAreReaped, Busy, Rows
  <1>3. ASSUME NEW r \in Rows, AdminEdit(r)
        PROVE  LightInv'
    <2>1. Spend("edits") /\ "edits" \in Budgets
      BY <1>3 DEF AdminEdit, Budgets
    <2>2. /\ spent' \in [Budgets -> Nat]
          /\ spent'["lost"] = spent["lost"] /\ spent'["errors"] = spent["errors"]
      BY <2>1, SpendType DEF Budgets
    <2>3. /\ schedule' \in [Rows -> {"absent", "on", "off"}]
          /\ age' \in Nat /\ lead' \in 0..MaxLead
      BY <1>3, Numbers DEF AdminEdit, Forget, rowVars, TypeOK
    <2>4. UNCHANGED <<seeder, queue, left, mc>>
      BY <1>3 DEF AdminEdit
    <2> QED BY <2>2, <2>3, <2>4 DEF TypeOK, MirrorsAreReaped, Busy
  <1>4. CASE RowOrphaned
    BY <1>4 DEF RowOrphaned, TypeOK, MirrorsAreReaped, Busy
  <1> QED BY <1>1, <1>2, <1>3, <1>4

\* A message that keeps no child busy past the tick.
LEMMA QuickSteps ==
    ASSUME LightInv, NEW c \in Children, Sweep(c) \/ QuickMirror(c)
    PROVE  LightInv'
  <1>1. queue' \in Seq(Messages)
    BY TakenType DEF LightInv, Sweep, QuickMirror
  <1>2. /\ UNCHANGED <<schedule, seeder, left, mc, spent>>
        /\ age' \in {0, age} /\ lead' \in {0, lead}
    BY DEF Sweep, QuickMirror, Forget, beatVars, rowVars
  <1>3. lead' \in 0..MaxLead /\ age' \in Nat
    BY <1>2, Numbers DEF LightInv, TypeOK
  <1> QED BY <1>1, <1>2, <1>3 DEF LightInv, TypeOK, MirrorsAreReaped, Busy

\* One child more, one mc more.
LEMMA SlowStep ==
    ASSUME LightInv, NEW c \in Children, SlowMirror(c)
    PROVE  LightInv'
  <1>1. queue' \in Seq(Messages)
    BY TakenType DEF LightInv, SlowMirror
  <1>2. "slow" \in Budgets /\ Spend("slow")
    BY DEF SlowMirror, Budgets
  <1>3. /\ spent' \in [Budgets -> Nat]
        /\ spent'["lost"] = spent["lost"] /\ spent'["errors"] = spent["errors"]
    BY <1>2, SpendType DEF LightInv, Budgets
  <1>4. Limit + 1 \in 1..(Limit + 1)
    BY Numbers
  <1>5. left[c] = 0 /\ left' = [left EXCEPT ![c] = Limit + 1]
    BY DEF SlowMirror, Taken
  <1>6. Cardinality(Busy') = Cardinality(Busy) + 1
    BY <1>4, <1>5, OneMoreBusy DEF LightInv
  <1>7. UNCHANGED <<schedule, seeder, age, lead>> /\ mc' = mc + 1
    BY DEF SlowMirror, beatVars, rowVars
  <1>8. left' \in [Children -> 0..(Limit + 1)]
    BY <1>4, <1>5 DEF LightInv, TypeOK
  <1>9. Cardinality(Busy) \in Nat /\ spent["lost"] \in Nat /\ spent["errors"] \in Nat
    BY BusyCount DEF LightInv, TypeOK, Budgets
  <1>10. TypeOK'
    BY <1>1, <1>3, <1>7, <1>8 DEF LightInv, TypeOK
  <1>11. mc \in Nat
    BY DEF LightInv, TypeOK
  <1> QED BY <1>3, <1>6, <1>7, <1>9, <1>10, <1>11 DEF LightInv, MirrorsAreReaped

\* One child fewer, one mc fewer.
LEMMA EndSteps ==
    ASSUME LightInv, NEW c \in Children, MirrorEnds(c) \/ SoftLimit(c)
    PROVE  LightInv'
  <1>1. left[c] > 0 /\ left' = [left EXCEPT ![c] = 0] /\ mc' = mc - 1
    <2>1. left[c] \in Nat
      BY Numbers DEF LightInv, TypeOK
    <2> QED BY <2>1 DEF MirrorEnds, SoftLimit
  <1>2. Cardinality(Busy') = Cardinality(Busy) - 1
    BY <1>1, OneFewerBusy DEF LightInv
  <1>3. UNCHANGED <<schedule, seeder, queue, age, lead, spent>>
    BY DEF MirrorEnds, SoftLimit, beatVars, rowVars
  <1>4. Cardinality(Busy) \in Nat /\ Cardinality(Busy) >= 1 /\ spent["lost"] \in Nat /\ spent["errors"] \in Nat
    BY <1>1, BusyCount DEF LightInv, TypeOK, Budgets
  <1>5. left' \in [Children -> 0..(Limit + 1)]
    BY <1>1, Numbers DEF LightInv, TypeOK
  <1>6. mc \in Nat /\ Cardinality(Busy) <= mc
    BY DEF LightInv, TypeOK, MirrorsAreReaped
  <1>7. TypeOK'
    BY <1>1, <1>3, <1>4, <1>5, <1>6 DEF LightInv, TypeOK
  <1> QED BY <1>1, <1>2, <1>3, <1>4, <1>6, <1>7 DEF LightInv, MirrorsAreReaped

\* One child fewer, and one mc more that is counted as lost or left by an error.
LEMMA LostStep ==
    ASSUME LightInv, NEW c \in Children, ChildLost(c) \/ MirrorRaises(c)
    PROVE  LightInv'
  <1>1. left[c] > 0 /\ left' = [left EXCEPT ![c] = 0] /\ mc' = mc
    BY DEF ChildLost, MirrorRaises
  <1>2. Cardinality(Busy') = Cardinality(Busy) - 1
    BY <1>1, OneFewerBusy DEF LightInv
  <1>3. PICK b \in {"lost", "errors"} : Spend(b)
    BY DEF ChildLost, MirrorRaises
  <1>4. /\ spent' \in [Budgets -> Nat]
        /\ \A d \in Budgets : spent'[d] = IF d = b THEN spent[d] + 1 ELSE spent[d]
    BY <1>3, SpendType DEF LightInv, Budgets
  <1>5. queue' \in Seq(Messages)
    <2>1. queue' = queue \/ queue' = <<"mirror">> \o queue
      BY DEF ChildLost, MirrorRaises
    <2>2. queue \in Seq(Messages) /\ <<"mirror">> \in Seq(Messages)
      BY DEF LightInv, TypeOK, Messages
    <2> QED BY <2>1, <2>2
  <1>6. Cardinality(Busy) \in Nat /\ spent["lost"] \in Nat /\ spent["errors"] \in Nat
    BY BusyCount DEF LightInv, TypeOK, Budgets
  <1>7. left' \in [Children -> 0..(Limit + 1)]
    BY <1>1, Numbers DEF LightInv, TypeOK
  <1>8. UNCHANGED <<schedule, seeder, age, lead>>
    BY DEF ChildLost, MirrorRaises, beatVars, rowVars
  <1>9. spent'["lost"] + spent'["errors"] = spent["lost"] + spent["errors"] + 1
    BY <1>3, <1>4, <1>6 DEF Budgets
  <1>10. TypeOK'
    BY <1>1, <1>4, <1>5, <1>7, <1>8 DEF LightInv, TypeOK
  <1>11. spent'["lost"] \in Nat /\ spent'["errors"] \in Nat /\ mc \in Nat
    BY <1>4 DEF LightInv, TypeOK, Budgets
  <1> QED BY <1>1, <1>2, <1>6, <1>9, <1>10, <1>11 DEF LightInv, MirrorsAreReaped

\* An mc that belongs to no child goes away.
LEMMA OrphanStep == ASSUME LightInv, OrphanExits PROVE LightInv'
  <1>1. Cardinality(Busy) \in Nat /\ spent["lost"] \in Nat /\ spent["errors"] \in Nat
    BY BusyCount DEF LightInv, TypeOK, Budgets
  <1> QED BY <1>1 DEF LightInv, TypeOK, MirrorsAreReaped, OrphanExits, beatVars, rowVars, Busy

\* An operator asks for a mirror.
LEMMA ManualStep == ASSUME LightInv, ManualSync PROVE LightInv'
  <1>1. "manual" \in Budgets /\ Spend("manual")
    BY DEF ManualSync, Budgets
  <1>2. /\ spent' \in [Budgets -> Nat]
        /\ spent'["lost"] = spent["lost"] /\ spent'["errors"] = spent["errors"]
    BY <1>1, SpendType DEF LightInv, Budgets
  <1>3. queue' \in Seq(Messages)
    BY DEF ManualSync, LightInv, TypeOK, Messages
  <1> QED BY <1>2, <1>3 DEF ManualSync, LightInv, TypeOK, MirrorsAreReaped, Busy,
                         beatVars, rowVars

\* No child is at its limit, so none becomes free when time passes.
LEMMA TickStep == ASSUME LightInv, Tick PROVE LightInv'
  <1>1. PICK q \in Orders({Route[r] : r \in Due}) : queue' = queue \o q
    BY DEF Tick
  <1>2. {Route[r] : r \in Due} \subseteq Messages
    BY DEF Due, Route, Messages
  <1>3. q \in Seq(Messages)
    BY <1>1, <1>2, OrdersType
  <1>4. queue' \in Seq(Messages)
    BY <1>1, <1>3 DEF LightInv, TypeOK
  <1>5. left' \in [Children -> 0..(Limit + 1)] /\ Busy' = Busy
    <2>1. left' = [c \in Children |-> IF left[c] > 0 THEN left[c] - 1 ELSE 0]
      BY DEF Tick
    <2>2. \A c \in Children : left[c] \in 0..(Limit + 1) /\ left[c] # 1
      BY StateNumbers DEF Tick, Settled, LightInv
    <2> QED BY <2>1, <2>2, Numbers DEF Busy
  <1>6. age' \in Nat
    BY DEF Tick, LightInv, TypeOK
  <1> QED BY <1>4, <1>5, <1>6 DEF Tick, LightInv, TypeOK, MirrorsAreReaped, beatVars

THEOREM LightInvariant == Spec => []LightInv
  <1>1. ASSUME LightInv, [Next]_vars PROVE LightInv'
    <2>1. CASE \/ \E s \in Seeders : SeedRead(s) \/ SeedCommit(s)
               \/ BeatSetsUp
               \/ \E r \in Rows : AdminEdit(r)
               \/ RowOrphaned
      BY <1>1, <2>1, BeatSteps
    <2>2. ASSUME NEW c \in Children,
                 Works(c) \/ MirrorEnds(c) \/ MirrorRaises(c) \/ ChildLost(c)
          PROVE  LightInv'
      BY <1>1, <2>2, QuickSteps, SlowStep, EndSteps, LostStep DEF Works
    <2>3. CASE OrphanExits
      BY <1>1, <2>3, OrphanStep
    <2>4. CASE Tick
      BY <1>1, <2>4, TickStep
    <2>5. CASE ManualSync
      BY <1>1, <2>5, ManualStep
    <2>6. CASE UNCHANGED vars
      BY <1>1, <2>6 DEF vars, LightInv, TypeOK, MirrorsAreReaped, Busy
    <2> QED BY <1>1, <2>1, <2>2, <2>3, <2>4, <2>5, <2>6 DEF Next
  <1> QED BY LightInit, <1>1, PTL DEF Spec

\* The types of the light queue, its children and its schedule are kept.
THEOREM LightTypeCorrect == Spec => []TypeOK
  <1>1. LightInv => TypeOK
    BY DEF LightInv
  <1> QED BY <1>1, LightInvariant, PTL

\* No mirror outlives its task, for any number of children and any limit, but
\* for those that killed children and errors in reading mc's output leave.
THEOREM MirrorsReaped == Spec => []MirrorsAreReaped
  <1>1. LightInv => MirrorsAreReaped
    BY DEF LightInv
  <1> QED BY <1>1, LightInvariant, PTL

\* Without an administrator the two schedules come together, the sweep's on.
PairInv ==
    spent["edits"] = 0 =>
        /\ schedule["sweep"] # "off"
        /\ schedule["sync"] # "absent" <=> schedule["sweep"] # "absent"

\* Seeds and Beats add to the table; everyone else leaves it, or is counted.
LEMMA ScheduleSteps ==
    ASSUME TypeOK, [Next]_vars
    PROVE  \/ UNCHANGED <<schedule, seeder>> /\ spent'["edits"] = spent["edits"]
           \/ spent'["edits"] > 0
           \/ (\E s \in Seeders : SeedRead(s) \/ SeedCommit(s)) /\ spent' = spent
           \/ BeatSetsUp /\ spent' = spent
  <1>1. ASSUME NEW r \in Rows, AdminEdit(r) PROVE spent'["edits"] > 0
    BY <1>1, SpendType DEF AdminEdit, Budgets, TypeOK
  <1>2. ASSUME NEW c \in Children,
               Works(c) \/ MirrorEnds(c) \/ MirrorRaises(c) \/ ChildLost(c)
        PROVE  UNCHANGED <<schedule, seeder>> /\ spent'["edits"] = spent["edits"]
    BY <1>2, SpendType DEF Works, Sweep, QuickMirror, SlowMirror, SoftLimit, MirrorEnds,
                           MirrorRaises, ChildLost, beatVars, Budgets
  <1>3. ASSUME OrphanExits \/ Tick \/ ManualSync \/ RowOrphaned \/ UNCHANGED vars
        PROVE  UNCHANGED <<schedule, seeder>> /\ spent'["edits"] = spent["edits"]
    BY <1>3, SpendType DEF OrphanExits, Tick, ManualSync, RowOrphaned, vars, beatVars, Budgets
  <1>4. ASSUME NEW s \in Seeders, SeedRead(s) \/ SeedCommit(s) PROVE spent' = spent
    BY <1>4 DEF SeedRead, SeedCommit
  <1>5. ASSUME BeatSetsUp PROVE spent' = spent
    BY <1>5 DEF BeatSetsUp
  <1> QED BY <1>1, <1>2, <1>3, <1>4, <1>5 DEF Next

LEMMA PairStep == TypeOK /\ PairInv /\ WatchdogIsSeeded /\ [Next]_vars
                    => PairInv' /\ WatchdogIsSeeded'
  <1> SUFFICES ASSUME TypeOK, PairInv, WatchdogIsSeeded, [Next]_vars
               PROVE  PairInv' /\ WatchdogIsSeeded'
    OBVIOUS
  <1>1. CASE UNCHANGED <<schedule, seeder>> /\ spent'["edits"] = spent["edits"]
    BY <1>1 DEF PairInv, WatchdogIsSeeded
  <1>2. CASE spent'["edits"] > 0
    BY <1>2 DEF PairInv, WatchdogIsSeeded
  <1>3. ASSUME spent' = spent, NEW s \in Seeders, SeedRead(s)
        PROVE  PairInv' /\ WatchdogIsSeeded'
    <2>1. schedule' = schedule
      BY <1>3 DEF SeedRead
    <2>2. ASSUME seeder'[s] = "done", spent["edits"] = 0
          PROVE  schedule["sweep"] = "on" \/ schedule["backup"] # "absent"
      <3>1. Present # {}
        BY <1>3, <2>2 DEF SeedRead, TypeOK
      <3> QED BY <2>2, <3>1 DEF Present, PairInv, TypeOK, Rows
    <2>3. \A u \in Seeders : u # s => seeder'[u] = seeder[u]
      BY <1>3 DEF SeedRead, TypeOK
    <2> QED BY <1>3, <2>1, <2>2, <2>3 DEF PairInv, WatchdogIsSeeded
  <1>4. ASSUME spent' = spent, NEW s \in Seeders, SeedCommit(s)
        PROVE  PairInv' /\ WatchdogIsSeeded'
    <2>1. CASE NamesFree /\ schedule' # schedule
      BY <1>4, <2>1 DEF SeedCommit, NamesFree, PairInv, WatchdogIsSeeded, TypeOK, Rows
    <2>2. CASE NamesFree /\ schedule' = schedule
      <3>1. schedule'["sweep"] = "on"
        BY <1>4, <2>2 DEF SeedCommit, TypeOK, Rows
      <3> QED BY <1>4, <2>2, <3>1 DEF PairInv, WatchdogIsSeeded
    <2>3. CASE ~NamesFree
      <3>1. schedule' = schedule
        BY <1>4, <2>3 DEF SeedCommit
      <3>2. schedule["sync"] # "absent" \/ schedule["sweep"] # "absent"
        BY <2>3 DEF NamesFree, Present
      <3> QED BY <1>4, <3>1, <3>2 DEF PairInv, WatchdogIsSeeded, TypeOK, Rows
    <2> QED BY <2>1, <2>2, <2>3
  <1>5. ASSUME BeatSetsUp, spent' = spent
        PROVE  PairInv' /\ WatchdogIsSeeded'
    BY <1>5 DEF BeatSetsUp, PairInv, WatchdogIsSeeded, TypeOK, Rows
  <1> QED BY <1>1, <1>2, <1>3, <1>4, <1>5, ScheduleSteps

LEMMA PairInvariant == Spec => [](TypeOK /\ PairInv /\ WatchdogIsSeeded)
  <1>1. Init => PairInv /\ WatchdogIsSeeded
    BY DEF Init, PairInv, WatchdogIsSeeded, Rows
  <1> QED BY <1>1, PairStep, LightTypeCorrect, PTL DEF Spec

\* However many seeds count the rows at once, and whichever of them fails on the
\* rows of another, the watchdog is on when one is done with a table that nobody
\* else wrote to.
THEOREM SeedsLeaveAWatchdog == Spec => []WatchdogIsSeeded
  BY PairInvariant, PTL

--------------------------------------------------------------------------------
(***************************************************************************)
(* Why the sweeps keep up.  Ahead is the time that mirrors can still keep  *)
(* children busy, in ticks of a child: what the children that hang have    *)
(* left, and a full Limit for each mirror that may still hang.  No step    *)
(* adds to it, and a tick that leaves a message waiting takes one tick of  *)
(* every child off it, for such a tick finds all of them busy.  While a    *)
(* row is overdue a sweep is waiting, so each tick of the row's lateness   *)
(* has been paid for.                                                      *)
(***************************************************************************)

\* What is left of every hang, tick by tick; a child at 1 is at its limit.
HangTime == {w \in Children \X (1..Limit) : w[2] < left[w[1]]}

\* The time of the mirrors that may still hang.
Reserve == Limit * (MaxSlow - spent["slow"])

Ahead == Cardinality(HangTime) + Reserve

\* The ticks since the row became overdue, and what they took of the children's time.
Late == IF age > Staleness THEN age - Staleness - 1 ELSE 0
Paid == Late * Cardinality(Children)

KeepUpInv ==
    /\ spent["slow"] <= MaxSlow
    /\ age > 0 => schedule["sweep"] = "on"
    /\ age > Staleness => \E i \in DOMAIN queue : queue[i] = "sweep"
    /\ Ahead + Paid <= Limit * MaxSlow

LEMMA HangTimeFinite ==
    /\ IsFiniteSet(Children \X (1..Limit)) /\ IsFiniteSet(HangTime)
    /\ Cardinality(HangTime) \in Nat /\ Cardinality(Children) \in Nat
  <1>1. IsFiniteSet(1..Limit)
    BY FS_Interval, Numbers
  <1>2. IsFiniteSet(Children \X (1..Limit))
    BY <1>1, FS_Product, Numbers
  <1>3. HangTime \in SUBSET (Children \X (1..Limit))
    BY DEF HangTime
  <1>4. IsFiniteSet(HangTime)
    BY <1>2, <1>3, FS_Subset
  <1> QED BY <1>2, <1>4, FS_CardinalityType, Numbers

\* Where no child has longer to go than before, no more time is left.
LEMMA HangTimeShrinks ==
    ASSUME HangTime' \subseteq HangTime
    PROVE  Cardinality(HangTime') \in Nat /\ Cardinality(HangTime') <= Cardinality(HangTime)
  BY HangTimeFinite, FS_Subset, FS_CardinalityType

\* A mirror that hangs has at most Limit ticks to go.
LEMMA HangTimeGrows ==
    ASSUME TypeOK, NEW c \in Children, left[c] = 0, left' = [left EXCEPT ![c] = Limit + 1]
    PROVE  /\ Cardinality(HangTime') \in Nat
           /\ Cardinality(HangTime') <= Cardinality(HangTime) + Limit
  <1> DEFINE New == {c} \X (1..Limit)
  <1>1. /\ IsFiniteSet({c}) /\ Cardinality({c}) = 1
        /\ IsFiniteSet(1..Limit) /\ Cardinality(1..Limit) = Limit
    <2>1. 1 \in Int /\ Limit \in Int /\ ~(1 > Limit) /\ Limit - 1 + 1 = Limit
      BY Numbers
    <2>2. IsFiniteSet(1..Limit) /\ Cardinality(1..Limit) = Limit
      BY <2>1, FS_Interval
    <2> QED BY <2>2, FS_Singleton
  <1>2. IsFiniteSet(New) /\ Cardinality(New) = Limit
    BY <1>1, FS_Product, Numbers
  <1>3. HangTime' \subseteq HangTime \cup New
    <2>1. ASSUME NEW w \in Children \X (1..Limit), w[2] < left'[w[1]], w[1] # c
          PROVE  w \in HangTime
      BY <2>1 DEF HangTime, TypeOK
    <2>2. ASSUME NEW w \in Children \X (1..Limit), w[1] = c
          PROVE  w \in New
      BY <2>2
    <2> QED BY <2>1, <2>2 DEF HangTime
  <1> HIDE DEF New
  <1>4. /\ IsFiniteSet(HangTime \cup New)
        /\ Cardinality(HangTime \cup New)
             = Cardinality(HangTime) + Cardinality(New) - Cardinality(HangTime \cap New)
    BY <1>2, HangTimeFinite, FS_Union
  <1>5. Cardinality(HangTime \cap New) \in Nat
    BY HangTimeFinite, FS_Intersection, FS_CardinalityType
  <1>6. IsFiniteSet(HangTime') /\ Cardinality(HangTime') <= Cardinality(HangTime \cup New)
    BY <1>3, <1>4, FS_Subset
  <1>7. Cardinality(HangTime') \in Nat
    BY <1>6, FS_CardinalityType
  <1> QED BY <1>2, <1>4, <1>5, <1>6, <1>7, HangTimeFinite, Numbers

\* A tick that finds every child busy takes a tick off the time of each.
LEMMA HangTimeDrains ==
    ASSUME TypeOK, Settled, Busy = Children,
           left' = [c \in Children |-> IF left[c] > 0 THEN left[c] - 1 ELSE 0]
    PROVE  /\ Cardinality(HangTime') \in Nat
           /\ Cardinality(HangTime') + Cardinality(Children) = Cardinality(HangTime)
  <1> DEFINE f == [c \in Children |-> <<c, left[c] - 1>>]
             Gone == {f[c] : c \in Children}
  <1>1. \A c \in Children : left[c] \in 2..(Limit + 1) /\ left'[c] = left[c] - 1
    BY Numbers DEF TypeOK, Settled, Busy
  <1>2. f \in Bijection(Children, Gone)
    BY Zenon DEF Bijection, Injection, Surjection, IsInjective
  <1>3. IsFiniteSet(Gone) /\ Cardinality(Gone) = Cardinality(Children)
    BY <1>2, FS_Bijection, Numbers DEF ExistsBijection
  <1>4. HangTime = HangTime' \cup Gone
    <2>1. Gone \subseteq HangTime
      BY <1>1, Numbers DEF HangTime
    <2>2. HangTime' \subseteq HangTime
      BY <1>1 DEF HangTime
    <2>3. ASSUME NEW w \in HangTime, w \notin HangTime'
          PROVE  w \in Gone
      <3>1. w \in Children \X (1..Limit) /\ w[2] < left[w[1]] /\ ~(w[2] < left'[w[1]])
        BY <2>3 DEF HangTime
      <3>2. w[1] \in Children /\ w[2] = left[w[1]] - 1 /\ w = <<w[1], w[2]>>
        BY <1>1, <3>1
      <3> QED BY <3>2
    <2> QED BY <2>1, <2>2, <2>3
  <1>5. HangTime' \cap Gone = {}
    <2>1. ASSUME NEW c \in Children PROVE f[c] \notin HangTime'
      BY <1>1 DEF HangTime
    <2> QED BY <2>1
  <1> HIDE DEF Gone
  <1>6. IsFiniteSet(HangTime')
    BY <1>4, HangTimeFinite, FS_Subset
  <1>7. Cardinality(HangTime)
          = Cardinality(HangTime') + Cardinality(Gone) - Cardinality(HangTime' \cap Gone)
    BY <1>3, <1>4, <1>6, FS_Union
  <1>8. Cardinality(HangTime' \cap Gone) = 0
    BY <1>5, FS_EmptySet
  <1>9. Cardinality(HangTime') \in Nat
    BY <1>6, FS_CardinalityType
  <1> QED BY <1>3, <1>7, <1>8, <1>9, HangTimeFinite

\* What Spend does to the mirrors that may still hang.
LEMMA SpendSlow ==
    ASSUME TypeOK, NEW b \in Budgets, Spend(b)
    PROVE  spent'["slow"] = IF b = "slow" THEN spent["slow"] + 1 ELSE spent["slow"]
  BY DEF TypeOK, Spend, Budgets

LEMMA ProductOfNats == ASSUME NEW a \in Nat, NEW b \in Nat PROVE a * b \in Nat
  OBVIOUS

\* All of it is counted in whole ticks.
LEMMA AheadTypes ==
    ASSUME TypeOK, KeepUpInv
    PROVE  /\ Cardinality(HangTime) \in Nat /\ Cardinality(Children) \in Nat
           /\ Reserve \in Nat /\ Late \in Nat /\ Paid \in Nat /\ Limit * MaxSlow \in Nat
  <1>1. Limit \in Nat /\ MaxSlow \in Nat /\ Limit * MaxSlow \in Nat
    BY ProductOfNats, Numbers
  <1>2. MaxSlow - spent["slow"] \in Nat
    BY <1>1 DEF KeepUpInv, TypeOK, Budgets
  <1>3. Late \in Nat
    BY Numbers, StateNumbers DEF Late
  <1> QED BY <1>1, <1>2, <1>3, HangTimeFinite, ProductOfNats DEF Reserve, Paid

\* Nothing is added to the time ahead by a step that starts no mirror, and nothing
\* is owed for it when the row is no later or not overdue.
LEMMA AheadKept ==
    ASSUME TypeOK, KeepUpInv, HangTime' \subseteq HangTime,
           spent'["slow"] = spent["slow"], Late' = Late \/ Late' = 0
    PROVE  /\ spent'["slow"] <= MaxSlow
           /\ Ahead' + Paid' <= Limit * MaxSlow
  <1>1. Cardinality(HangTime') \in Nat /\ Cardinality(HangTime') <= Cardinality(HangTime)
    BY HangTimeShrinks
  <1>2. Reserve' = Reserve
    BY DEF Reserve
  <1>3. Paid' = Paid \/ Paid' = 0
    BY AheadTypes DEF Paid
  <1> QED BY <1>1, <1>2, <1>3, AheadTypes DEF KeepUpInv, Ahead

\* The sweep that an overdue row waits for stays where it is unless it is taken.
LEMMA SweepStays ==
    ASSUME TypeOK, NEW c \in Children, Taken(c, "mirror"),
           \E i \in DOMAIN queue : queue[i] = "sweep"
    PROVE  \E i \in DOMAIN queue' : queue'[i] = "sweep"
  <1>1. PICK i \in DOMAIN queue : queue[i] = "sweep"
    OBVIOUS
  <1>2. queue \in Seq(Messages) /\ queue # <<>> /\ queue' = Tail(queue) /\ queue[1] = "mirror"
    BY DEF TypeOK, Taken
  <1>3. i \in 2..Len(queue)
    BY <1>1, <1>2
  <1>4. i - 1 \in DOMAIN queue' /\ queue'[i - 1] = queue[i]
    BY <1>2, <1>3
  <1> QED BY <1>1, <1>4

LEMMA KeepUpInit == Init => KeepUpInv
  <1> SUFFICES ASSUME Init PROVE KeepUpInv
    OBVIOUS
  <1>1. HangTime = {}
    BY DEF Init, HangTime
  <1>2. Ahead = Limit * MaxSlow
    BY <1>1, FS_EmptySet, Numbers DEF Ahead, Reserve, Init, Budgets
  <1>3. Paid = 0
    BY HangTimeFinite, Numbers DEF Init, Late, Paid
  <1>4. Limit * MaxSlow \in Int
    BY Numbers
  <1> QED BY <1>2, <1>3, <1>4, Numbers DEF KeepUpInv, Init, Budgets

\* seed-db adds a sweep or leaves it; only an administrator takes it away, and
\* then no row is followed.
LEMMA KeepUpBeat ==
    ASSUME TypeOK, KeepUpInv,
           \/ \E s \in Seeders : SeedRead(s) \/ SeedCommit(s)
           \/ BeatSetsUp
           \/ \E r \in Rows : AdminEdit(r)
           \/ RowOrphaned
    PROVE  KeepUpInv'
  <1>1. left' = left /\ queue' = queue
    BY DEF SeedRead, SeedCommit, BeatSetsUp, AdminEdit, RowOrphaned, workVars, rowVars
  <1>2. HangTime' \subseteq HangTime
    BY <1>1 DEF HangTime
  <1>3. CASE \/ \E s \in Seeders : SeedRead(s) \/ SeedCommit(s)
             \/ BeatSetsUp
    <2>1. age' = age /\ spent' = spent
      BY <1>3 DEF SeedRead, SeedCommit, BeatSetsUp, rowVars
    <2>2. schedule["sweep"] = "on" => schedule'["sweep"] = "on"
      BY <1>3 DEF SeedRead, SeedCommit, BeatSetsUp, TypeOK, Rows, NamesFree
    <2> QED BY <1>1, <1>2, <2>1, <2>2, AheadKept DEF KeepUpInv, Late
  <1>4. ASSUME NEW r \in Rows, AdminEdit(r)
        PROVE  KeepUpInv'
    <2>1. Spend("edits") /\ "edits" \in Budgets
      BY <1>4 DEF AdminEdit, Budgets
    <2>2. spent'["slow"] = spent["slow"]
      BY <2>1, SpendSlow
    <2>3. CASE r = "sweep"
      <3>1. age' = 0
        BY <1>4, <2>3 DEF AdminEdit, Forget
      <3>2. ~(age' > Staleness) /\ ~(age' > 0)
        BY <3>1, Numbers
      <3> QED BY <1>2, <2>2, <3>2, AheadKept DEF KeepUpInv, Late
    <2>4. CASE r # "sweep"
      <3>1. age' = age /\ schedule'["sweep"] = schedule["sweep"]
        BY <1>4, <2>4 DEF AdminEdit, TypeOK, Rows, rowVars
      <3> QED BY <1>1, <1>2, <2>2, <3>1, AheadKept DEF KeepUpInv, Late
    <2> QED BY <2>3, <2>4
  <1>5. CASE RowOrphaned
    <2>1. age' = 1 /\ spent' = spent /\ schedule' = schedule /\ schedule["sweep"] = "on"
      BY <1>5 DEF RowOrphaned, beatVars
    <2>2. ~(age' > Staleness)
      BY <2>1, Numbers
    <2> QED BY <1>1, <1>2, <2>1, <2>2, AheadKept DEF KeepUpInv, Late
  <1> QED BY <1>3, <1>4, <1>5

\* A sweep fails the row that is overdue.
LEMMA KeepUpSweep ==
    ASSUME TypeOK, KeepUpInv, NEW c \in Children, Sweep(c)
    PROVE  KeepUpInv'
  <1>1. UNCHANGED <<schedule, left, spent>> /\ age' = IF age > Staleness THEN 0 ELSE age
    BY DEF Sweep, Forget, beatVars, rowVars
  <1>2. HangTime' \subseteq HangTime
    BY <1>1 DEF HangTime
  <1>3. ~(age' > Staleness)
    BY <1>1, Numbers, StateNumbers
  <1>4. age' > 0 => age > 0
    BY <1>1
  <1> QED BY <1>1, <1>2, <1>3, <1>4, AheadKept DEF KeepUpInv, Late

\* A mirror that is taken leaves the sweep that waits behind it.
LEMMA KeepUpMirror ==
    ASSUME TypeOK, KeepUpInv, NEW c \in Children, QuickMirror(c) \/ SlowMirror(c)
    PROVE  KeepUpInv'
  <1>1. Taken(c, "mirror") /\ age' = age /\ schedule' = schedule
    BY DEF QuickMirror, SlowMirror, beatVars, rowVars
  <1>2. age' > Staleness => \E i \in DOMAIN queue' : queue'[i] = "sweep"
    BY <1>1, SweepStays DEF KeepUpInv
  <1>3. CASE QuickMirror(c)
    <2>1. left' = left /\ spent' = spent
      BY <1>3 DEF QuickMirror
    <2>2. HangTime' \subseteq HangTime
      BY <2>1 DEF HangTime
    <2> QED BY <1>1, <1>2, <2>1, <2>2, AheadKept DEF KeepUpInv, Late
  <1>4. CASE SlowMirror(c)
    <2>1. left[c] = 0 /\ left' = [left EXCEPT ![c] = Limit + 1]
      BY <1>4 DEF SlowMirror, Taken
    <2>2. spent["slow"] < MaxSlow /\ spent'["slow"] = spent["slow"] + 1
      BY <1>4, SpendSlow DEF SlowMirror, Spend, Budgets
    <2>3. /\ Cardinality(HangTime') \in Nat
          /\ Cardinality(HangTime') <= Cardinality(HangTime) + Limit
      BY <2>1, HangTimeGrows
    <2>4. Reserve' = Reserve - Limit
      <3>1. Limit \in Nat /\ MaxSlow \in Nat /\ spent["slow"] \in Nat
        BY Numbers, StateNumbers DEF Budgets
      <3>2. Limit * (MaxSlow - (spent["slow"] + 1)) = Limit * (MaxSlow - spent["slow"]) - Limit
        BY <3>1
      <3> QED BY <2>2, <3>2 DEF Reserve
    <2>5. Paid' = Paid
      BY <1>1 DEF Paid, Late
    <2>6. spent'["slow"] <= MaxSlow
      BY <2>2, Numbers, StateNumbers DEF Budgets
    <2>7. Ahead' + Paid' <= Limit * MaxSlow
      BY <2>3, <2>4, <2>5, AheadTypes, Numbers DEF KeepUpInv, Ahead
    <2> QED BY <1>1, <1>2, <2>6, <2>7 DEF KeepUpInv
  <1> QED BY <1>3, <1>4

\* A child that is freed has no time to go.
LEMMA KeepUpFreed ==
    ASSUME TypeOK, KeepUpInv, NEW c \in Children,
           MirrorEnds(c) \/ SoftLimit(c) \/ MirrorRaises(c) \/ ChildLost(c)
    PROVE  KeepUpInv'
  <1>1. left' = [left EXCEPT ![c] = 0] /\ age' = age /\ schedule' = schedule
    BY DEF MirrorEnds, SoftLimit, MirrorRaises, ChildLost, beatVars, rowVars
  <1>2. HangTime' \subseteq HangTime
    BY <1>1, Numbers, StateNumbers DEF HangTime
  <1>3. spent'["slow"] = spent["slow"]
    BY SpendSlow DEF MirrorEnds, SoftLimit, MirrorRaises, ChildLost, Budgets
  <1>4. queue' = queue \/ queue' = <<"mirror">> \o queue
    BY DEF MirrorEnds, SoftLimit, MirrorRaises, ChildLost
  <1>5. (\E i \in DOMAIN queue : queue[i] = "sweep")
          => \E i \in DOMAIN queue' : queue'[i] = "sweep"
    <2> SUFFICES ASSUME NEW i \in DOMAIN queue, queue[i] = "sweep",
                        queue' = <<"mirror">> \o queue
                 PROVE  \E j \in DOMAIN queue' : queue'[j] = "sweep"
      BY <1>4
    <2>1. i + 1 \in DOMAIN queue' /\ queue'[i + 1] = queue[i]
      BY DEF TypeOK
    <2> QED BY <2>1
  <1> QED BY <1>1, <1>2, <1>3, <1>5, AheadKept DEF KeepUpInv, Late

\* An operator's mirror goes behind the sweep.
LEMMA KeepUpQuiet ==
    ASSUME TypeOK, KeepUpInv, OrphanExits \/ ManualSync
    PROVE  KeepUpInv'
  <1>1. UNCHANGED <<schedule, left, age>>
    BY DEF OrphanExits, ManualSync, beatVars, rowVars
  <1>2. HangTime' \subseteq HangTime
    BY <1>1 DEF HangTime
  <1>3. spent'["slow"] = spent["slow"]
    BY SpendSlow DEF OrphanExits, ManualSync, Budgets
  <1>4. queue' = queue \/ queue' = Append(queue, "mirror")
    BY DEF OrphanExits, ManualSync
  <1>5. (\E i \in DOMAIN queue : queue[i] = "sweep")
          => \E i \in DOMAIN queue' : queue'[i] = "sweep"
    <2> SUFFICES ASSUME NEW i \in DOMAIN queue, queue[i] = "sweep",
                        queue' = Append(queue, "mirror")
                 PROVE  \E j \in DOMAIN queue' : queue'[j] = "sweep"
      BY <1>4
    <2>1. i \in DOMAIN queue' /\ queue'[i] = queue[i]
      BY StateNumbers
    <2> QED BY <2>1
  <1> QED BY <1>1, <1>2, <1>3, <1>5, AheadKept DEF KeepUpInv, Late

\* Beat enqueues every message that is due.
LEMMA OrdersHold ==
    ASSUME NEW S \in SUBSET Messages, NEW q \in Orders(S), NEW m \in S
    PROVE  \E i \in DOMAIN q : q[i] = m
  <1>1. {q[i] : i \in DOMAIN q} = S
    BY DEF Orders
  <1> QED BY <1>1

LEMMA KeepUpTick ==
    ASSUME TypeOK, KeepUpInv, Tick
    PROVE  KeepUpInv'
  <1>1. /\ schedule' = schedule /\ spent' = spent /\ Settled
        /\ left' = [c \in Children |-> IF left[c] > 0 THEN left[c] - 1 ELSE 0]
        /\ age' = IF age > 0 THEN age + 1 ELSE 0
    BY DEF Tick, beatVars
  <1>2. HangTime' \subseteq HangTime
    BY <1>1, Numbers, StateNumbers DEF HangTime
  <1>3. age' > 0 => schedule'["sweep"] = "on"
    BY <1>1 DEF KeepUpInv, TypeOK
  <1>4. age' > Staleness => \E i \in DOMAIN queue' : queue'[i] = "sweep"
    <2> SUFFICES ASSUME age' > Staleness
                 PROVE  \E i \in DOMAIN queue' : queue'[i] = "sweep"
      OBVIOUS
    <2> DEFINE D == {Route[r] : r \in Due}
    <2>1. PICK q \in Orders(D) : queue' = queue \o q
      BY DEF Tick
    <2>2. D \in SUBSET Messages
      BY DEF Due, Route, Messages
    <2>3. age' > 0
      BY <1>1, Numbers, StateNumbers
    <2>4. "sweep" \in D
      BY <1>1, <1>3, <2>3 DEF Due, Route
    <2> HIDE DEF D
    <2>5. PICK j \in DOMAIN q : q[j] = "sweep"
      BY <2>1, <2>2, <2>4, OrdersHold
    <2>6. q \in Seq(Messages) /\ queue \in Seq(Messages)
      BY <2>1, <2>2, OrdersType DEF TypeOK
    <2>7. Len(queue) + j \in DOMAIN queue' /\ queue'[Len(queue) + j] = q[j]
      BY <2>1, <2>5, <2>6
    <2> QED BY <2>5, <2>7
  <1>5. CASE ~(age > Staleness)
    <2>1. Late' = 0
      BY <1>1, <1>5, Numbers, StateNumbers DEF Late
    <2> QED BY <1>1, <1>2, <1>3, <1>4, <2>1, AheadKept DEF KeepUpInv
  <1>6. CASE age > Staleness
    <2>1. Busy = Children
      BY <1>1, <1>6 DEF KeepUpInv, Settled
    <2>2. /\ Cardinality(HangTime') \in Nat
          /\ Cardinality(HangTime') + Cardinality(Children) = Cardinality(HangTime)
      BY <1>1, <2>1, HangTimeDrains
    <2>3. Late' = Late \/ Late' = Late + 1
      BY <1>1, <1>6, Numbers, StateNumbers DEF Late
    <2>4. Paid' = Paid \/ Paid' = Paid + Cardinality(Children)
      BY <2>3, AheadTypes DEF Paid
    <2>5. Reserve' = Reserve
      BY <1>1 DEF Reserve
    <2>6. Ahead' + Paid' <= Limit * MaxSlow
      BY <2>2, <2>4, <2>5, AheadTypes DEF KeepUpInv, Ahead
    <2> QED BY <1>1, <1>3, <1>4, <2>6 DEF KeepUpInv
  <1> QED BY <1>5, <1>6

LEMMA KeepUpInvariant == Spec => [](TypeOK /\ KeepUpInv)
  <1>1. ASSUME TypeOK, KeepUpInv, [Next]_vars PROVE KeepUpInv'
    <2>1. CASE \/ \E s \in Seeders : SeedRead(s) \/ SeedCommit(s)
               \/ BeatSetsUp
               \/ \E r \in Rows : AdminEdit(r)
               \/ RowOrphaned
      BY <1>1, <2>1, KeepUpBeat
    <2>2. ASSUME NEW c \in Children,
                 Works(c) \/ MirrorEnds(c) \/ MirrorRaises(c) \/ ChildLost(c)
          PROVE  KeepUpInv'
      BY <1>1, <2>2, KeepUpSweep, KeepUpMirror, KeepUpFreed DEF Works
    <2>3. CASE OrphanExits \/ ManualSync
      BY <1>1, <2>3, KeepUpQuiet
    <2>4. CASE Tick
      BY <1>1, <2>4, KeepUpTick
    <2>5. CASE UNCHANGED vars
      BY <1>1, <2>5 DEF vars, KeepUpInv, Ahead, HangTime, Reserve, Late, Paid
    <2> QED BY <1>1, <2>1, <2>2, <2>3, <2>4, <2>5 DEF Next
  <1> QED BY <1>1, KeepUpInit, LightTypeCorrect, PTL DEF Spec

\* A row whose worker has died waits for the watchdog no longer than staleness
\* and the share of each child in the hangs so far, for any number of children
\* and any limits.
THEOREM OnlyHangsDelay == Spec => []LateForHangsOnly
  <1>1. ASSUME TypeOK, KeepUpInv PROVE LateForHangsOnly
    <2>1. /\ Cardinality(HangTime) \in Nat /\ Paid \in Nat
          /\ Limit \in Nat /\ MaxSlow \in Nat /\ spent["slow"] \in Nat
      BY <1>1, AheadTypes, Numbers, StateNumbers DEF Budgets
    <2>2. Cardinality(HangTime) + Limit * (MaxSlow - spent["slow"]) + Paid <= Limit * MaxSlow
      BY <1>1 DEF KeepUpInv, Ahead, Reserve
    <2>3. Limit * (MaxSlow - spent["slow"]) = Limit * MaxSlow - Limit * spent["slow"]
      BY <2>1
    <2>4. Limit * MaxSlow \in Nat /\ Limit * spent["slow"] \in Nat
      BY <2>1, ProductOfNats
    <2>5. Paid <= Limit * spent["slow"]
      BY <2>1, <2>2, <2>3, <2>4
    <2> QED BY <2>5 DEF LateForHangsOnly, LateTime, Paid, Late
  <1> QED BY <1>1, KeepUpInvariant, PTL

--------------------------------------------------------------------------------
(***************************************************************************)
(* Why the sweeps are not delayed by what else is on the queue.  Beat puts *)
(* a sweep between the mirror of one tick and that of the next, so that    *)
(* only two mirrors in a row are Beat's.  From the tick at which a row     *)
(* becomes stale, the time ahead of the first sweep is that of the hangs   *)
(* in progress and of the mirrors in front of it, and nothing is put in    *)
(* front of it but by the loss of a child.                                 *)
(***************************************************************************)

Mirrors(q, i, j) == \A x \in i..j : q[x] = "mirror"

\* At most n mirrors in a row at the end of q, and n + 1 anywhere in it.
Blocks(q, n) ==
    /\ \A i \in DOMAIN q : \A j \in i..Len(q) : Mirrors(q, i, j) => j - i + 1 <= n + 1
    /\ \A i \in DOMAIN q : Mirrors(q, i, Len(q)) => Len(q) - i + 1 <= n

\* The mirrors that are not Beat's.
Slack == spent["manual"] + spent["lost"]

BlocksInv == spent["edits"] = 0 => Blocks(queue, 1 + Slack)

LEMMA BlocksWiden ==
    ASSUME NEW q \in Seq(Messages), NEW n \in Nat, NEW m \in Nat, n <= m, Blocks(q, n)
    PROVE  Blocks(q, m)
  <1>1. ASSUME NEW i \in DOMAIN q, NEW j \in i..Len(q), Mirrors(q, i, j)
        PROVE  j - i + 1 <= m + 1
    BY <1>1 DEF Blocks
  <1>2. ASSUME NEW i \in DOMAIN q, Mirrors(q, i, Len(q))
        PROVE  Len(q) - i + 1 <= m
    BY <1>2 DEF Blocks
  <1> QED BY <1>1, <1>2 DEF Blocks

LEMMA BlocksTail ==
    ASSUME NEW q \in Seq(Messages), NEW n \in Nat, q # <<>>, Blocks(q, n)
    PROVE  Blocks(Tail(q), n)
  <1> DEFINE t == Tail(q)
  <1>1. /\ t \in Seq(Messages) /\ Len(t) = Len(q) - 1
        /\ \A x \in DOMAIN t : x + 1 \in DOMAIN q /\ t[x] = q[x + 1]
    OBVIOUS
  <1> HIDE DEF t
  <1>2. ASSUME NEW i \in DOMAIN t, NEW j \in i..Len(t), Mirrors(t, i, j)
        PROVE  Mirrors(q, i + 1, j + 1) /\ i + 1 \in DOMAIN q /\ j + 1 \in (i + 1)..Len(q)
    <2>1. ASSUME NEW x \in (i + 1)..(j + 1) PROVE q[x] = "mirror"
      <3>1. x - 1 \in i..j /\ x - 1 \in DOMAIN t /\ (x - 1) + 1 = x
        BY <1>1
      <3> QED BY <1>1, <1>2, <3>1 DEF Mirrors
    <2> QED BY <1>1, <2>1 DEF Mirrors
  <1>3. ASSUME NEW i \in DOMAIN t, NEW j \in i..Len(t), Mirrors(t, i, j)
        PROVE  j - i + 1 <= n + 1
    <2>1. (j + 1) - (i + 1) + 1 <= n + 1
      BY <1>2, <1>3 DEF Blocks
    <2>2. i \in Int /\ j \in Int
      BY <1>1
    <2> QED BY <2>1, <2>2
  <1>4. ASSUME NEW i \in DOMAIN t, Mirrors(t, i, Len(t))
        PROVE  Len(t) - i + 1 <= n
    <2>1. Len(t) \in i..Len(t) /\ Len(t) + 1 = Len(q)
      BY <1>1
    <2>2. Mirrors(q, i + 1, Len(q)) /\ i + 1 \in DOMAIN q
      BY <1>2, <1>4, <2>1
    <2>3. Len(q) - (i + 1) + 1 <= n
      BY <2>2 DEF Blocks
    <2> QED BY <1>1, <2>1, <2>3
  <1> QED BY <1>3, <1>4 DEF Blocks, t

LEMMA OneBefore ==
    ASSUME NEW l \in Nat, NEW i \in 1..(l + 1), i # 1, NEW j \in Int
    PROVE  i - 1 \in 1..l /\ j - i + 1 <= (j - 1) - (i - 1) + 2
  OBVIOUS

\* A mirror put back at the head of the queue.
LEMMA BlocksPut ==
    ASSUME NEW q \in Seq(Messages), NEW n \in Nat, Blocks(q, n)
    PROVE  Blocks(<<"mirror">> \o q, n + 1)
  <1> DEFINE t == <<"mirror">> \o q
  <1>1. /\ t \in Seq(Messages) /\ Len(t) = Len(q) + 1
        /\ \A x \in DOMAIN q : x + 1 \in DOMAIN t /\ t[x + 1] = q[x]
    BY DEF Messages
  <1> HIDE DEF t
  <1>2. ASSUME NEW i \in DOMAIN t, NEW j \in i..Len(t), Mirrors(t, i, j), j > 1,
               NEW h \in 1..Len(q), h = i - 1 \/ (i = 1 /\ h = 1)
        PROVE  Mirrors(q, h, j - 1) /\ h \in DOMAIN q /\ j - 1 \in h..Len(q)
    <2>1. ASSUME NEW x \in h..(j - 1) PROVE q[x] = "mirror"
      <3>1. x + 1 \in i..j /\ x \in DOMAIN q
        BY <1>1, <1>2
      <3> QED BY <1>1, <1>2, <3>1 DEF Mirrors
    <2>2. j - 1 \in h..Len(q)
      BY <1>1, <1>2
    <2> QED BY <2>1, <2>2 DEF Mirrors
  <1>3. ASSUME NEW i \in DOMAIN t, NEW j \in i..Len(t), Mirrors(t, i, j), j > 1
        PROVE  \E h \in 1..Len(q) : j - i + 1 <= (j - 1) - h + 2 /\ Mirrors(q, h, j - 1)
                                    /\ h \in DOMAIN q /\ j - 1 \in h..Len(q)
    <2>1. CASE i = 1
      <3>1. 1 \in 1..Len(q) /\ j - i + 1 <= (j - 1) - 1 + 2
        BY <1>1, <1>3, <2>1
      <3> QED BY <1>2, <1>3, <2>1, <3>1
    <2>2. CASE i # 1
      <3>0. i \in 1..Len(t) /\ j \in Int /\ Len(q) \in Nat /\ Len(t) = Len(q) + 1
        BY <1>1
      <3>1. i - 1 \in 1..Len(q) /\ j - i + 1 <= (j - 1) - (i - 1) + 2
        BY <3>0, <2>2, OneBefore
      <3> QED BY <1>2, <1>3, <3>1
    <2> QED BY <2>1, <2>2
  <1>4. ASSUME NEW i \in DOMAIN t, NEW j \in i..Len(t), Mirrors(t, i, j)
        PROVE  j - i + 1 <= n + 2
    <2>1. CASE j > 1
      <3>1. PICK h \in 1..Len(q) : /\ j - i + 1 <= (j - 1) - h + 2 /\ Mirrors(q, h, j - 1)
                                   /\ h \in DOMAIN q /\ j - 1 \in h..Len(q)
        BY <1>3, <1>4, <2>1
      <3>2. (j - 1) - h + 1 <= n + 1
        BY <3>1 DEF Blocks
      <3>3. i \in Int /\ j \in Int /\ h \in Int
        BY <1>1
      <3> QED BY <3>1, <3>2, <3>3
    <2>2. CASE ~(j > 1)
      BY <1>1, <2>2
    <2> QED BY <2>1, <2>2
  <1>5. ASSUME NEW i \in DOMAIN t, Mirrors(t, i, Len(t))
        PROVE  Len(t) - i + 1 <= n + 1
    <2>0. Len(t) \in i..Len(t)
      BY <1>1
    <2>1. CASE Len(t) > 1
      <3>1. PICK h \in 1..Len(q) : /\ Len(t) - i + 1 <= (Len(t) - 1) - h + 2
                                   /\ Mirrors(q, h, Len(t) - 1) /\ h \in DOMAIN q
        BY <1>3, <1>5, <2>0, <2>1
      <3>2. Len(t) - 1 = Len(q)
        BY <1>1
      <3>3. Len(q) - h + 1 <= n
        BY <3>1, <3>2 DEF Blocks
      <3>4. i \in Int /\ h \in Int /\ Len(t) \in Int
        BY <1>1
      <3> QED BY <3>1, <3>2, <3>3, <3>4
    <2>2. CASE ~(Len(t) > 1)
      BY <1>1, <2>2
    <2> QED BY <2>1, <2>2
  <1> QED BY <1>4, <1>5 DEF Blocks, t

\* What is put behind a queue leaves the runs of mirrors that end in front of it.
LEMMA BlocksBefore ==
    ASSUME NEW q \in Seq(Messages), NEW r \in Seq(Messages), NEW n \in Nat, Blocks(q, n),
           NEW i \in 1..Len(q), NEW j \in Nat, i <= j, Mirrors(q \o r, i, j)
    PROVE  /\ j <= Len(q) => j - i + 1 <= n + 1
           /\ j >= Len(q) => Len(q) - i + 1 <= n
  <1>1. Len(q) \in Nat /\ DOMAIN q = 1..Len(q)
    OBVIOUS
  <1>2. \A x \in 1..Len(q) : (q \o r)[x] = q[x]
    OBVIOUS
  <1>3. ASSUME j <= Len(q) PROVE j - i + 1 <= n + 1
    <2>1. i..j \subseteq 1..Len(q) /\ j \in i..Len(q)
      BY <1>1, <1>3
    <2>2. Mirrors(q, i, j)
      BY <1>2, <2>1 DEF Mirrors
    <2> QED BY <1>1, <2>1, <2>2 DEF Blocks
  <1>4. ASSUME j >= Len(q) PROVE Len(q) - i + 1 <= n
    <2>1. i..Len(q) \subseteq 1..Len(q) /\ i..Len(q) \subseteq i..j
      BY <1>1, <1>4
    <2>2. Mirrors(q, i, Len(q))
      BY <1>2, <2>1 DEF Mirrors
    <2> QED BY <1>1, <2>2 DEF Blocks
  <1> QED BY <1>3, <1>4

\* An operator's mirror.
LEMMA BlocksAppend ==
    ASSUME NEW q \in Seq(Messages), NEW n \in Nat, Blocks(q, n)
    PROVE  Blocks(q \o <<"mirror">>, n + 1)
  <1> DEFINE r == <<"mirror">>
             t == q \o r
  <1>1. r \in Seq(Messages) /\ Len(q) \in Nat /\ DOMAIN t = 1..(Len(q) + 1) /\ Len(t) = Len(q) + 1
    BY DEF Messages
  <1> HIDE DEF r
  <1>2. ASSUME NEW i \in 1..(Len(q) + 1), NEW j \in i..(Len(q) + 1), Mirrors(t, i, j)
        PROVE  /\ j - i + 1 <= n + 2
               /\ j = Len(q) + 1 => j - i + 1 <= n + 1
    <2>1. CASE i = Len(q) + 1
      BY <1>1, <2>1
    <2>2. CASE i # Len(q) + 1
      <3>1. i \in 1..Len(q) /\ j \in Nat /\ i <= j
        BY <1>1, <2>2
      <3>2. /\ j <= Len(q) => j - i + 1 <= n + 1
            /\ j >= Len(q) => Len(q) - i + 1 <= n
        BY <1>1, <1>2, <3>1, BlocksBefore
      <3>3. j <= Len(q) \/ j = Len(q) + 1
        BY <1>1
      <3> QED BY <1>1, <3>1, <3>2, <3>3
    <2> QED BY <2>1, <2>2
  <1>3. ASSUME NEW i \in 1..(Len(q) + 1), Mirrors(t, i, Len(q) + 1)
        PROVE  Len(q) + 1 - i + 1 <= n + 1
    <2>1. Len(q) + 1 \in i..(Len(q) + 1)
      BY <1>1
    <2> QED BY <1>2, <1>3, <2>1
  <1> HIDE DEF t
  <1>4. ASSUME NEW i \in DOMAIN t, NEW j \in i..Len(t), Mirrors(t, i, j)
        PROVE  j - i + 1 <= (n + 1) + 1
    <2>1. j - i + 1 <= n + 2
      BY <1>1, <1>2, <1>4
    <2> QED BY <2>1
  <1>5. ASSUME NEW i \in DOMAIN t, Mirrors(t, i, Len(t))
        PROVE  Len(t) - i + 1 <= n + 1
    <2>1. i \in 1..(Len(q) + 1) /\ Mirrors(t, i, Len(q) + 1)
      BY <1>1, <1>5
    <2>2. Len(q) + 1 - i + 1 <= n + 1
      BY <1>3, <2>1
    <2> QED BY <1>1, <2>2
  <1>6. Blocks(t, n + 1)
    BY <1>4, <1>5 DEF Blocks
  <1> QED BY <1>6 DEF t, r

\* Positions i..j of l messages and m <= 2 more that leave out the k-th of those.
LEMMA TickArithmetic ==
    ASSUME NEW l \in Nat, NEW m \in 1..2, NEW k \in 1..m, NEW n \in Nat, n >= 1,
           NEW i \in 1..(l + m), NEW j \in i..(l + m), l + k < i \/ j < l + k,
           i <= l => /\ j <= l => j - i + 1 <= n + 1
                     /\ j >= l => l - i + 1 <= n
    PROVE  j - i + 1 <= n + 1 /\ (j = l + m => j - i + 1 <= n)
  OBVIOUS

\* What Beat adds in a tick: a sweep, with a mirror in front of it, behind it
\* or not at all, or nothing.
LEMMA BlocksTick ==
    ASSUME NEW q \in Seq(Messages), NEW n \in Nat, n >= 1, Blocks(q, n),
           NEW r \in Seq(Messages), Len(r) <= 2,
           r # <<>> => \E k \in DOMAIN r : r[k] = "sweep"
    PROVE  Blocks(q \o r, n)
  <1> DEFINE t == q \o r
  <1>1. CASE r = <<>>
    <2>1. t = q
      BY <1>1
    <2> QED BY <2>1
  <1>2. CASE r # <<>>
    <2>1. /\ Len(q) \in Nat /\ Len(r) \in 1..2 /\ Len(t) = Len(q) + Len(r)
          /\ DOMAIN t = 1..Len(t) /\ DOMAIN r = 1..Len(r)
      <3>1. Len(r) # 0 /\ Len(r) \in Nat /\ Len(q) \in Nat
        BY <1>2
      <3>2. Len(t) = Len(q) + Len(r) /\ DOMAIN t = 1..Len(t) /\ DOMAIN r = 1..Len(r)
        OBVIOUS
      <3> QED BY <3>1, <3>2
    <2>2. PICK k \in 1..Len(r) : r[k] = "sweep"
      BY <1>2, <2>1
    <2>3. k \in 1..2 /\ Len(q) + k \in 1..Len(t) /\ t[Len(q) + k] = "sweep"
      BY <2>1, <2>2
    <2> HIDE DEF t
    <2>4. ASSUME NEW i \in 1..Len(t), NEW j \in i..Len(t), Mirrors(t, i, j)
          PROVE  Len(q) + k < i \/ j < Len(q) + k
      <3>1. Len(q) + k \notin i..j
        BY <2>3, <2>4 DEF Mirrors
      <3>2. Len(q) + k \in Int /\ i \in Int /\ j \in Int
        BY <2>1
      <3> QED BY <3>1, <3>2
    <2>5. ASSUME NEW i \in 1..Len(t), NEW j \in i..Len(t), Mirrors(t, i, j)
          PROVE  /\ j - i + 1 <= n + 1
                 /\ j = Len(t) => j - i + 1 <= n
      <3>1. ASSUME i <= Len(q)
            PROVE  /\ j <= Len(q) => j - i + 1 <= n + 1
                   /\ j >= Len(q) => Len(q) - i + 1 <= n
        <4>1. i \in 1..Len(q) /\ j \in Nat /\ i <= j
          BY <2>1, <3>1
        <4> QED BY <2>5, <4>1, BlocksBefore DEF t
      <3> QED BY <2>1, <2>4, <2>5, <3>1, TickArithmetic
    <2>6. ASSUME NEW i \in 1..Len(t), Mirrors(t, i, Len(t))
          PROVE  Len(t) - i + 1 <= n
      <3>1. Len(t) \in i..Len(t)
        BY <2>1
      <3> QED BY <2>5, <2>6, <3>1
    <2>7. Blocks(t, n)
      BY <2>1, <2>5, <2>6 DEF Blocks
    <2> QED BY <2>7 DEF t
  <1> QED BY <1>1, <1>2

\* Where runs of mirrors are short and there is a sweep, one is near the head.
LEMMA SweepIsNear ==
    ASSUME NEW q \in Seq(Messages), NEW n \in Nat, Blocks(q, n),
           \E i \in DOMAIN q : q[i] = "sweep"
    PROVE  \E k \in 0..(n + 1) : k + 1 \in DOMAIN q /\ q[k + 1] = "sweep"
  <1>1. PICK i \in 1..Len(q) : q[i] = "sweep"
    OBVIOUS
  <1>2. Len(q) \in Nat /\ DOMAIN q = 1..Len(q) /\ \A x \in 1..Len(q) : q[x] \in {"mirror", "sweep"}
    BY DEF Messages
  <1>3. CASE i <= n + 2
    <2>1. i - 1 \in 0..(n + 1) /\ (i - 1) + 1 = i
      BY <1>2, <1>3
    <2> QED BY <1>1, <1>2, <2>1
  <1>4. CASE ~(i <= n + 2)
    <2>1. 1 \in DOMAIN q /\ n + 2 \in 1..Len(q) /\ ~(n + 2 - 1 + 1 <= n + 1)
      BY <1>2, <1>4
    <2>2. ~Mirrors(q, 1, n + 2)
      BY <2>1 DEF Blocks
    <2>3. PICK x \in 1..(n + 2) : q[x] # "mirror"
      BY <2>2 DEF Mirrors
    <2>4. x \in 1..Len(q) /\ x - 1 \in 0..(n + 1) /\ (x - 1) + 1 = x
      BY <1>2, <2>1
    <2> QED BY <1>2, <2>3, <2>4
  <1> QED BY <1>3, <1>4

\* The messages of a tick are one of each kind at most, and a sweep among them.
LEMMA OrdersShort ==
    ASSUME NEW S \in SUBSET Messages, S # {} => "sweep" \in S, NEW r \in Orders(S)
    PROVE  /\ r \in Seq(Messages) /\ Len(r) <= 2
           /\ r # <<>> => \E k \in DOMAIN r : r[k] = "sweep"
  <1>1. r \in Seq(Messages)
    BY OrdersType
  <1>2. PICK m \in 0..Cardinality(S) : r \in [1..m -> S]
    BY DEF Orders
  <1>3. Cardinality(S) \in Nat /\ Cardinality(S) <= 2
    <2>1. IsFiniteSet({"mirror"}) /\ Cardinality({"mirror"}) = 1
      BY FS_Singleton
    <2>2. /\ IsFiniteSet({"mirror"} \cup {"sweep"})
          /\ Cardinality({"mirror"} \cup {"sweep"}) = Cardinality({"mirror"}) + 1
      BY <2>1, FS_AddElement
    <2>3. Messages = {"mirror"} \cup {"sweep"}
      BY DEF Messages
    <2>4. /\ IsFiniteSet(S) /\ Cardinality(S) <= Cardinality(Messages)
      BY <2>2, <2>3, FS_Subset
    <2> QED BY <2>1, <2>2, <2>3, <2>4, FS_CardinalityType
  <1>4. m \in Nat /\ m <= 2 /\ DOMAIN r = 1..m
    BY <1>2, <1>3
  <1>5. Len(r) = m
    BY <1>1, <1>4
  <1>6. ASSUME r # <<>> PROVE \E k \in DOMAIN r : r[k] = "sweep"
    <2>1. 1 \in DOMAIN r
      BY <1>1, <1>6
    <2>2. S # {}
      BY <1>2, <2>1
    <2> QED BY <2>2, OrdersHold
  <1> QED BY <1>1, <1>4, <1>5, <1>6

LEMMA SlackType ==
    ASSUME TypeOK
    PROVE  Slack \in Nat /\ {spent["manual"], spent["lost"], spent["edits"]} \subseteq Nat
  <1>1. {spent["manual"], spent["lost"], spent["edits"]} \subseteq Nat
    BY DEF TypeOK, Budgets
  <1> QED BY <1>1 DEF Slack

\* Which bound a step draws on.
LEMMA SlackSteps ==
    ASSUME TypeOK, NEW b \in Budgets, Spend(b)
    PROVE  /\ Slack' = IF b \in {"manual", "lost"} THEN Slack + 1 ELSE Slack
           /\ b = "edits" => spent'["edits"] > 0
           /\ b # "edits" => spent'["edits"] = spent["edits"]
  <1>1. \A a \in Budgets : spent'[a] = IF a = b THEN spent[a] + 1 ELSE spent[a]
    BY SpendType
  <1>2. /\ spent'["manual"] = IF b = "manual" THEN spent["manual"] + 1 ELSE spent["manual"]
        /\ spent'["lost"] = IF b = "lost" THEN spent["lost"] + 1 ELSE spent["lost"]
        /\ spent'["edits"] = IF b = "edits" THEN spent["edits"] + 1 ELSE spent["edits"]
    BY <1>1 DEF Budgets
  <1>3. {spent["manual"], spent["lost"], spent["edits"]} \subseteq Nat
    BY SlackType
  <1>4. Slack' = IF b \in {"manual", "lost"} THEN Slack + 1 ELSE Slack
    BY <1>2, <1>3 DEF Slack
  <1> QED BY <1>2, <1>3, <1>4

\* What a step makes of the queue and of the mirrors that are not Beat's, while
\* no administrator edits the schedule.
LEMMA QueueSteps ==
    ASSUME TypeOK, [Next]_vars, spent'["edits"] = 0
    PROVE  /\ spent["edits"] = 0
           /\ \/ Slack' = Slack /\ queue' = queue
              \/ Slack' = Slack /\ queue # <<>> /\ queue' = Tail(queue)
              \/ Slack' = Slack + 1 /\ queue' = <<"mirror">> \o queue
              \/ Slack' = Slack + 1 /\ queue' = queue \o <<"mirror">>
              \/ Slack' = Slack /\ Tick
  <1>1. ASSUME \/ \E s \in Seeders : SeedRead(s) \/ SeedCommit(s)
               \/ BeatSetsUp \/ RowOrphaned \/ OrphanExits \/ UNCHANGED vars
        PROVE  queue' = queue /\ spent' = spent
    BY <1>1 DEF SeedRead, SeedCommit, BeatSetsUp, RowOrphaned, OrphanExits, vars, workVars
  <1>2. ASSUME NEW r \in Rows, AdminEdit(r) PROVE FALSE
    BY <1>2, SlackSteps, StateNumbers DEF AdminEdit, Budgets
  <1>3. ASSUME NEW c \in Children,
               Works(c) \/ MirrorEnds(c) \/ MirrorRaises(c) \/ ChildLost(c)
        PROVE  /\ spent["edits"] = 0
               /\ \/ Slack' = Slack /\ queue' = queue
                  \/ Slack' = Slack /\ queue # <<>> /\ queue' = Tail(queue)
                  \/ Slack' = Slack + 1 /\ queue' = <<"mirror">> \o queue
    <2>1. CASE Sweep(c) \/ QuickMirror(c)
      BY <2>1 DEF Sweep, QuickMirror, Taken, Slack
    <2>2. CASE SlowMirror(c)
      BY <2>2, SlackSteps DEF SlowMirror, Taken, Budgets
    <2>3. CASE MirrorEnds(c) \/ SoftLimit(c)
      BY <2>3 DEF MirrorEnds, SoftLimit, Slack
    <2>4. CASE MirrorRaises(c)
      BY <2>4, SlackSteps DEF MirrorRaises, Budgets
    <2>5. CASE ChildLost(c)
      BY <2>5, SlackSteps DEF ChildLost, Budgets
    <2> QED BY <1>3, <2>1, <2>2, <2>3, <2>4, <2>5 DEF Works
  <1>4. ASSUME ManualSync
        PROVE  /\ spent["edits"] = 0
               /\ Slack' = Slack + 1 /\ queue' = queue \o <<"mirror">>
    <2>1. Append(queue, "mirror") = queue \o <<"mirror">>
      BY StateNumbers DEF Messages
    <2> QED BY <1>4, <2>1, SlackSteps DEF ManualSync, Budgets
  <1>5. ASSUME Tick PROVE spent' = spent
    BY <1>5 DEF Tick
  <1> QED BY <1>1, <1>2, <1>3, <1>4, <1>5 DEF Next, Slack

LEMMA BlocksStep == TypeOK /\ TypeOK' /\ PairInv /\ BlocksInv /\ [Next]_vars => BlocksInv'
  <1> SUFFICES ASSUME TypeOK, TypeOK', PairInv, BlocksInv, [Next]_vars, spent'["edits"] = 0
               PROVE  Blocks(queue', 1 + Slack')
    BY DEF BlocksInv
  <1>1. spent["edits"] = 0 /\ Slack \in Nat /\ 1 + Slack \in Nat /\ queue \in Seq(Messages)
    <2>1. Slack \in Nat
      BY SlackType
    <2> QED BY <2>1, QueueSteps, StateNumbers
  <1>2. Blocks(queue, 1 + Slack)
    BY <1>1 DEF BlocksInv
  <1>3. CASE Slack' = Slack /\ queue' = queue
    BY <1>2, <1>3
  <1>4. CASE Slack' = Slack /\ queue # <<>> /\ queue' = Tail(queue)
    BY <1>1, <1>2, <1>4, BlocksTail
  <1>5. CASE Slack' = Slack + 1 /\ queue' = <<"mirror">> \o queue
    <2>1. Blocks(queue', (1 + Slack) + 1) /\ (1 + Slack) + 1 = 1 + Slack'
      BY <1>1, <1>2, <1>5, BlocksPut
    <2> QED BY <2>1
  <1>6. CASE Slack' = Slack + 1 /\ queue' = queue \o <<"mirror">>
    <2>1. Blocks(queue', (1 + Slack) + 1) /\ (1 + Slack) + 1 = 1 + Slack'
      BY <1>1, <1>2, <1>6, BlocksAppend
    <2> QED BY <2>1
  <1>7. CASE Slack' = Slack /\ Tick
    <2> DEFINE D == {Route[r] : r \in Due}
    <2>1. PICK r \in Orders(D) : queue' = queue \o r
      BY <1>7 DEF Tick
    <2>2. D \in SUBSET Messages
      BY DEF Due, Route, Messages
    <2>3. D # {} => "sweep" \in D
      <3>1. Due # {} => schedule["sweep"] = "on"
        BY <1>1 DEF Due, Route, PairInv, TypeOK, Rows
      <3> QED BY <3>1 DEF Due, Route
    <2> HIDE DEF D
    <2>4. /\ r \in Seq(Messages) /\ Len(r) <= 2
          /\ r # <<>> => \E k \in DOMAIN r : r[k] = "sweep"
      BY <2>1, <2>2, <2>3, OrdersShort
    <2>5. 1 + Slack >= 1
      BY <1>1
    <2> QED BY <1>1, <1>2, <1>7, <2>1, <2>4, <2>5, BlocksTick
  <1> QED BY <1>3, <1>4, <1>5, <1>6, <1>7, QueueSteps

LEMMA BlocksInvariant == Spec => [](TypeOK /\ PairInv /\ BlocksInv)
  <1>1. Init => BlocksInv
    BY DEF Init, BlocksInv, Blocks
  <1> QED BY <1>1, BlocksStep, PairInvariant, PTL DEF Spec

\* The row that is overdue waits for a sweep with k messages in front of it, and
\* the hangs in progress, those that these can make and the time it has waited
\* come to a bound that only Slack raises.
FrontInv ==
    spent["edits"] = 0 /\ age > Staleness =>
        \E k \in Nat :
            /\ k + 1 \in DOMAIN queue /\ queue[k + 1] = "sweep"
            /\ Cardinality(HangTime) + Limit * k + Paid
                 <= Limit * (Cardinality(Children) + 2 + Slack)

LEMMA PaidType == ASSUME TypeOK PROVE Late \in Nat /\ Paid \in Nat
  <1>1. Late \in Nat
    BY Numbers, StateNumbers DEF Late
  <1> QED BY <1>1, Numbers, ProductOfNats DEF Paid

\* All hangs in progress at once are a full limit for each child.
LEMMA HangTimeBound == Cardinality(HangTime) <= Limit * Cardinality(Children)
  <1>1. IsFiniteSet(1..Limit) /\ Cardinality(1..Limit) = Limit
    <2>1. 1 \in Int /\ Limit \in Int /\ ~(1 > Limit) /\ Limit - 1 + 1 = Limit
      BY Numbers
    <2> QED BY <2>1, FS_Interval
  <1>2. Cardinality(Children \X (1..Limit)) = Cardinality(Children) * Limit
    BY <1>1, Numbers, FS_Product
  <1>3. HangTime \subseteq Children \X (1..Limit)
    BY DEF HangTime
  <1>4. Cardinality(HangTime) <= Cardinality(Children \X (1..Limit))
    BY <1>3, HangTimeFinite, FS_Subset
  <1>5. Cardinality(Children) * Limit = Limit * Cardinality(Children)
    BY Numbers
  <1> QED BY <1>2, <1>4, <1>5

\* One more mirror, in front of the sweep or of those that are not Beat's, is one
\* limit more.
LEMMA OneLimitMore ==
    ASSUME NEW l \in Nat, NEW k \in Nat
    PROVE  l * (k + 1) = l * k + l /\ l * k \in Nat
  OBVIOUS

LEMMA BoundTypes ==
    ASSUME NEW n \in Nat, NEW k \in Nat
    PROVE  /\ Limit * (n + 2 + k) \in Nat
           /\ Limit * (n + 2 + (k + 1)) = Limit * (n + 2 + k) + Limit
           /\ Limit * (n + 2 + k) = Limit * n + Limit * (2 + k)
  <1>1. n + 2 + k \in Nat /\ n + 2 + (k + 1) = (n + 2 + k) + 1
    OBVIOUS
  <1>2. /\ Limit * ((n + 2 + k) + 1) = Limit * (n + 2 + k) + Limit
        /\ Limit * (n + 2 + k) \in Nat
    BY <1>1, Numbers, OneLimitMore
  <1>3. Limit * (n + 2 + k) = Limit * n + Limit * (2 + k)
    BY Numbers
  <1> QED BY <1>1, <1>2, <1>3

\* The tick at which the row becomes overdue.
LEMMA FrontBegins ==
    ASSUME TypeOK, TypeOK', KeepUpInv', BlocksInv', ~(age > Staleness),
           Tick, spent'["edits"] = 0, age' > Staleness
    PROVE  \E k \in Nat :
              /\ k + 1 \in DOMAIN queue' /\ queue'[k + 1] = "sweep"
              /\ Cardinality(HangTime') + Limit * k + Paid'
                   <= Limit * (Cardinality(Children) + 2 + Slack')
  <1>1. Slack \in Nat /\ Slack' = Slack
    BY SlackType DEF Tick, Slack
  <1>2. Paid' = 0
    <2>1. age' = age + 1 \/ age' = 0
      BY DEF Tick
    <2>2. Late' = 0
      BY <2>1, Numbers, StateNumbers DEF Late
    <2> QED BY <2>2, Numbers DEF Paid
  <1>3. PICK k \in 0..(1 + Slack' + 1) : k + 1 \in DOMAIN queue' /\ queue'[k + 1] = "sweep"
    <2>1. queue' \in Seq(Messages) /\ 1 + Slack' \in Nat
      BY <1>1 DEF TypeOK
    <2>2. Blocks(queue', 1 + Slack')
      BY DEF BlocksInv
    <2>3. \E i \in DOMAIN queue' : queue'[i] = "sweep"
      BY DEF KeepUpInv
    <2> QED BY <2>1, <2>2, <2>3, SweepIsNear
  <1>4. k \in Nat /\ Limit * k <= Limit * (2 + Slack) /\ {Limit * k, Limit * (2 + Slack)} \subseteq Nat
    <2>1. k \in Nat /\ k <= 2 + Slack /\ 2 + Slack \in Nat
      BY <1>1
    <2>2. 2 + Slack - k \in Nat /\ 2 + Slack = k + (2 + Slack - k)
      BY <1>1, <2>1
    <2>3. \A d \in Nat : Limit * (k + d) = Limit * k + Limit * d /\ Limit * d \in Nat
      BY <2>1, Numbers, ProductOfNats
    <2> QED BY <2>1, <2>2, <2>3, Numbers, ProductOfNats
  <1>5. Cardinality(HangTime') \in Nat /\ Cardinality(HangTime') <= Limit * Cardinality(Children)
    <2>0. left' = [c \in Children |-> IF left[c] > 0 THEN left[c] - 1 ELSE 0]
      BY DEF Tick
    <2>1. HangTime' \subseteq HangTime
      BY <2>0, Numbers DEF HangTime, TypeOK
    <2> QED BY <2>1, HangTimeShrinks, HangTimeBound, HangTimeFinite, Numbers, ProductOfNats
  <1>6. /\ Limit * Cardinality(Children) \in Nat
        /\ Limit * (Cardinality(Children) + 2 + Slack)
             = Limit * Cardinality(Children) + Limit * (2 + Slack)
    BY <1>1, Numbers, ProductOfNats, BoundTypes
  <1> QED BY <1>1, <1>2, <1>3, <1>4, <1>5, <1>6

\* It moves up by one when a mirror is taken, which may hang.
LEMMA FrontTaken ==
    ASSUME TypeOK, FrontInv, spent["edits"] = 0, age > Staleness, age' = age,
           NEW c \in Children, QuickMirror(c) \/ SlowMirror(c)
    PROVE  \E k \in Nat :
              /\ k + 1 \in DOMAIN queue' /\ queue'[k + 1] = "sweep"
              /\ Cardinality(HangTime') + Limit * k + Paid'
                   <= Limit * (Cardinality(Children) + 2 + Slack)
  <1>1. PICK k \in Nat : /\ k + 1 \in DOMAIN queue /\ queue[k + 1] = "sweep"
                         /\ Cardinality(HangTime) + Limit * k + Paid
                              <= Limit * (Cardinality(Children) + 2 + Slack)
    BY DEF FrontInv
  <1>2. queue \in Seq(Messages) /\ queue[1] = "mirror" /\ queue' = Tail(queue) /\ queue # <<>>
    BY StateNumbers DEF QuickMirror, SlowMirror, Taken
  <1>3. k # 0
    BY <1>1, <1>2
  <1>4. k - 1 \in Nat /\ (k - 1) + 1 = k
    BY <1>3
  <1>5. k \in DOMAIN queue' /\ queue'[k] = "sweep"
    BY <1>1, <1>2, <1>4
  <1>6. /\ Cardinality(HangTime) \in Nat /\ Cardinality(HangTime') \in Nat
        /\ Cardinality(HangTime') <= Cardinality(HangTime) + Limit
    <2>1. CASE QuickMirror(c)
      <3>1. HangTime' \subseteq HangTime
        BY <2>1 DEF QuickMirror, HangTime
      <3> QED BY <3>1, HangTimeShrinks, HangTimeFinite, Numbers
    <2>2. CASE SlowMirror(c)
      <3>1. left[c] = 0 /\ left' = [left EXCEPT ![c] = Limit + 1]
        BY <2>2 DEF SlowMirror, Taken
      <3> QED BY <3>1, HangTimeGrows, HangTimeFinite
    <2> QED BY <2>1, <2>2
  <1>7. Limit * k = Limit * (k - 1) + Limit /\ Limit * (k - 1) \in Nat
    BY <1>4, Numbers, OneLimitMore
  <1>8. Paid' = Paid /\ Paid \in Nat
    BY PaidType DEF Paid, Late
  <1>9. Limit * (Cardinality(Children) + 2 + Slack) \in Nat
    BY SlackType, Numbers, BoundTypes
  <1>10. Cardinality(HangTime') + Limit * (k - 1) + Paid'
           <= Limit * (Cardinality(Children) + 2 + Slack)
    BY <1>1, <1>6, <1>7, <1>8, <1>9, Numbers
  <1> QED BY <1>4, <1>5, <1>10

\* It stays, or a mirror is put back in front of it.
LEMMA FrontStays ==
    ASSUME TypeOK, FrontInv, spent["edits"] = 0, age > Staleness, age' = age,
           HangTime' \subseteq HangTime,
           \/ Slack' = Slack /\ queue' = queue
           \/ Slack' = Slack + 1 /\ queue' = <<"mirror">> \o queue
           \/ Slack' = Slack + 1 /\ queue' = queue \o <<"mirror">>
    PROVE  \E k \in Nat :
              /\ k + 1 \in DOMAIN queue' /\ queue'[k + 1] = "sweep"
              /\ Cardinality(HangTime') + Limit * k + Paid'
                   <= Limit * (Cardinality(Children) + 2 + Slack')
  <1>1. PICK k \in Nat : /\ k + 1 \in DOMAIN queue /\ queue[k + 1] = "sweep"
                         /\ Cardinality(HangTime) + Limit * k + Paid
                              <= Limit * (Cardinality(Children) + 2 + Slack)
    BY DEF FrontInv
  <1>2. /\ Cardinality(HangTime) \in Nat /\ Cardinality(HangTime') \in Nat
        /\ Cardinality(HangTime') <= Cardinality(HangTime)
    BY HangTimeShrinks, HangTimeFinite
  <1>3. Paid' = Paid /\ Paid \in Nat
    BY PaidType DEF Paid, Late
  <1>4. /\ Limit * (Cardinality(Children) + 2 + Slack) \in Nat
        /\ Limit * (Cardinality(Children) + 2 + (Slack + 1))
             = Limit * (Cardinality(Children) + 2 + Slack) + Limit
        /\ Limit * k \in Nat /\ Limit * (k + 1) = Limit * k + Limit /\ Limit \in Nat
    BY SlackType, Numbers, BoundTypes, OneLimitMore
  <1>5. queue \in Seq(Messages)
    BY StateNumbers
  <1>6. CASE Slack' = Slack /\ queue' = queue
    BY <1>1, <1>2, <1>3, <1>4, <1>6
  <1>7. CASE Slack' = Slack + 1 /\ queue' = <<"mirror">> \o queue
    <2>1. (k + 1) + 1 \in DOMAIN queue' /\ queue'[(k + 1) + 1] = "sweep"
      BY <1>1, <1>5, <1>7
    <2>2. Cardinality(HangTime') + Limit * (k + 1) + Paid'
            <= Limit * (Cardinality(Children) + 2 + Slack')
      BY <1>1, <1>2, <1>3, <1>4, <1>7
    <2> QED BY <2>1, <2>2
  <1>8. CASE Slack' = Slack + 1 /\ queue' = queue \o <<"mirror">>
    <2>1. k + 1 \in DOMAIN queue' /\ queue'[k + 1] = "sweep"
      BY <1>1, <1>5, <1>8
    <2>2. Cardinality(HangTime') + Limit * k + Paid'
            <= Limit * (Cardinality(Children) + 2 + Slack')
      BY <1>1, <1>2, <1>3, <1>4, <1>8
    <2> QED BY <2>1, <2>2
  <1> QED BY <1>6, <1>7, <1>8

\* A tick of waiting finds every child busy.
LEMMA FrontWaits ==
    ASSUME TypeOK, FrontInv, spent["edits"] = 0, age > Staleness, Tick
    PROVE  \E k \in Nat :
              /\ k + 1 \in DOMAIN queue' /\ queue'[k + 1] = "sweep"
              /\ Cardinality(HangTime') + Limit * k + Paid'
                   <= Limit * (Cardinality(Children) + 2 + Slack)
  <1>1. PICK k \in Nat : /\ k + 1 \in DOMAIN queue /\ queue[k + 1] = "sweep"
                         /\ Cardinality(HangTime) + Limit * k + Paid
                              <= Limit * (Cardinality(Children) + 2 + Slack)
    BY DEF FrontInv
  <1>2. k + 1 \in DOMAIN queue' /\ queue'[k + 1] = "sweep"
    <2> DEFINE D == {Route[r] : r \in Due}
    <2>1. PICK r \in Orders(D) : queue' = queue \o r
      BY DEF Tick
    <2>2. D \in SUBSET Messages
      BY DEF Due, Route, Messages
    <2> HIDE DEF D
    <2>3. r \in Seq(Messages) /\ queue \in Seq(Messages)
      BY <2>1, <2>2, OrdersType, StateNumbers
    <2> QED BY <1>1, <2>1, <2>3
  <1>3. /\ Cardinality(HangTime') \in Nat
        /\ Cardinality(HangTime') + Cardinality(Children) = Cardinality(HangTime)
    <2>1. queue # <<>>
      BY <1>1
    <2>2. Settled /\ Busy = Children
      BY <2>1 DEF Tick, Settled
    <2>3. left' = [c \in Children |-> IF left[c] > 0 THEN left[c] - 1 ELSE 0]
      BY DEF Tick
    <2> QED BY <2>2, <2>3, HangTimeDrains
  <1>4. Paid' = Paid + Cardinality(Children) /\ Paid \in Nat
    <2>1. age' = age + 1
      <3>1. age' = IF age > 0 THEN age + 1 ELSE 0
        BY DEF Tick
      <3> QED BY <3>1, Numbers, StateNumbers
    <2>2. Late' = Late + 1 /\ Late \in Nat
      BY <2>1, Numbers, StateNumbers DEF Late
    <2>3. (Late + 1) * Cardinality(Children)
            = Late * Cardinality(Children) + Cardinality(Children)
      BY <2>2, Numbers
    <2>4. Paid' = (Late + 1) * Cardinality(Children)
      BY <2>2 DEF Paid
    <2>5. Paid' = Paid + Cardinality(Children)
      BY <2>3, <2>4 DEF Paid
    <2> QED BY <2>5, PaidType
  <1>5. Limit * (Cardinality(Children) + 2 + Slack) \in Nat /\ Limit * k \in Nat
    BY SlackType, Numbers, BoundTypes, OneLimitMore
  <1>6. Cardinality(HangTime') + Limit * k + Paid'
          <= Limit * (Cardinality(Children) + 2 + Slack)
    BY <1>1, <1>3, <1>4, <1>5, Numbers
  <1> QED BY <1>2, <1>6

\* Only a tick makes the row older, and a sweep leaves none that is overdue.
LEMMA AgeSteps ==
    ASSUME TypeOK, [Next]_vars, age' > Staleness, ~Tick
    PROVE  age' = age /\ ~\E c \in Children : Sweep(c)
  <1>1. ASSUME NEW c \in Children, Sweep(c) PROVE FALSE
    BY <1>1, Numbers, StateNumbers DEF Sweep, Forget, rowVars
  <1>2. ASSUME RowOrphaned PROVE age' = age
    BY <1>2, Numbers, StateNumbers DEF RowOrphaned
  <1>3. ASSUME NEW r \in Rows, AdminEdit(r) PROVE age' = age
    BY <1>3, Numbers, StateNumbers DEF AdminEdit, Forget, rowVars
  <1>4. ASSUME NEW c \in Children, ~Sweep(c),
               Works(c) \/ MirrorEnds(c) \/ MirrorRaises(c) \/ ChildLost(c)
        PROVE  age' = age
    BY <1>4 DEF Works, QuickMirror, SlowMirror, SoftLimit, MirrorEnds, MirrorRaises,
                ChildLost, rowVars
  <1>5. ASSUME \/ \E s \in Seeders : SeedRead(s) \/ SeedCommit(s)
               \/ BeatSetsUp \/ OrphanExits \/ ManualSync \/ UNCHANGED vars
        PROVE  age' = age
    BY <1>5 DEF SeedRead, SeedCommit, BeatSetsUp, OrphanExits, ManualSync, vars, rowVars
  <1> QED BY <1>1, <1>2, <1>3, <1>4, <1>5 DEF Next

LEMMA FrontStep ==
    ASSUME TypeOK, TypeOK', KeepUpInv', BlocksInv', FrontInv, [Next]_vars
    PROVE  FrontInv'
  <1> DEFINE Front == \E k \in Nat :
                        /\ k + 1 \in DOMAIN queue' /\ queue'[k + 1] = "sweep"
                        /\ Cardinality(HangTime') + Limit * k + Paid'
                             <= Limit * (Cardinality(Children) + 2 + Slack')
  <1> SUFFICES ASSUME spent'["edits"] = 0, age' > Staleness PROVE Front
    BY DEF FrontInv
  <1> HIDE DEF Front
  <1>1. /\ spent["edits"] = 0
        /\ \/ Slack' = Slack /\ queue' = queue
           \/ Slack' = Slack /\ queue # <<>> /\ queue' = Tail(queue)
           \/ Slack' = Slack + 1 /\ queue' = <<"mirror">> \o queue
           \/ Slack' = Slack + 1 /\ queue' = queue \o <<"mirror">>
           \/ Slack' = Slack /\ Tick
    BY QueueSteps
  <1>2. CASE Tick /\ ~(age > Staleness)
    BY <1>2, FrontBegins DEF Front
  <1>3. CASE Tick /\ age > Staleness
    <2>1. Slack' = Slack
      BY <1>3 DEF Tick, Slack
    <2> QED BY <1>1, <1>3, <2>1, FrontWaits DEF Front
  <1>4. CASE ~Tick
    <2>1. age' = age /\ age > Staleness /\ ~\E c \in Children : Sweep(c)
      BY <1>4, AgeSteps
    <2>2. ASSUME NEW c \in Children, QuickMirror(c) \/ SlowMirror(c) PROVE Front
      <3>1. Slack' = Slack
        <4>1. CASE QuickMirror(c)
          BY <4>1 DEF QuickMirror, Slack
        <4>2. CASE SlowMirror(c)
          BY <4>2, SlackSteps DEF SlowMirror, Budgets
        <4> QED BY <2>2, <4>1, <4>2
      <3> QED BY <1>1, <2>1, <2>2, <3>1, FrontTaken DEF Front
    <2>3. ASSUME ~\E c \in Children : QuickMirror(c) \/ SlowMirror(c) PROVE Front
      <3>1. HangTime' \subseteq HangTime
        <4>1. ASSUME NEW c \in Children, left' = [left EXCEPT ![c] = 0]
              PROVE  HangTime' \subseteq HangTime
          BY <4>1, Numbers, StateNumbers DEF HangTime, TypeOK
        <4>2. ASSUME left' = left PROVE HangTime' \subseteq HangTime
          BY <4>2 DEF HangTime
        <4>3. left' = left \/ \E c \in Children : left' = [left EXCEPT ![c] = 0]
          BY <1>4, <2>1, <2>3 DEF Next, Works, SeedRead, SeedCommit, BeatSetsUp, AdminEdit,
             MirrorEnds, SoftLimit, MirrorRaises, ChildLost, OrphanExits, ManualSync,
             RowOrphaned, vars, workVars
        <4> QED BY <4>1, <4>2, <4>3
      <3>2. \/ Slack' = Slack /\ queue' = queue
            \/ Slack' = Slack + 1 /\ queue' = <<"mirror">> \o queue
            \/ Slack' = Slack + 1 /\ queue' = queue \o <<"mirror">>
        <4>1. ASSUME queue # <<>>, queue' = Tail(queue) PROVE FALSE
          <5>1. Len(queue') # Len(queue)
            BY <4>1, StateNumbers
          <5>2. Len(queue') >= Len(queue)
            <6>1. \/ queue' = queue \/ queue' = <<"mirror">> \o queue
                  \/ queue' = Append(queue, "mirror")
              BY <1>4, <2>1, <2>3 DEF Next, Works, SeedRead, SeedCommit, BeatSetsUp,
                 AdminEdit, MirrorEnds, SoftLimit, MirrorRaises, ChildLost, OrphanExits,
                 ManualSync, RowOrphaned, vars, workVars
            <6> QED BY <6>1, StateNumbers DEF Messages
          <5>3. Len(queue') = Len(queue) - 1 /\ Len(queue) \in Nat
            BY <4>1, StateNumbers
          <5> QED BY <5>2, <5>3
        <4> QED BY <1>1, <1>4, <4>1
      <3> QED BY <1>1, <2>1, <3>1, <3>2, FrontStays DEF Front
    <2> QED BY <2>2, <2>3
  <1> QED BY <1>2, <1>3, <1>4

LEMMA FrontInvariant == Spec => [](TypeOK /\ FrontInv)
  <1>1. Init => FrontInv
    BY Numbers DEF Init, FrontInv
  <1> QED BY <1>1, FrontStep, KeepUpInvariant, BlocksInvariant, PTL DEF Spec

\* A schedule that nobody edits is enough: a stale row of a dead worker is failed
\* within the time of the hangs in progress and of two mirrors more, for any
\* number of children and any limits, even if each mirror hangs and the queue
\* grows for ever; a mirror asked for by hand, or put back, adds one limit.
THEOREM SweepsAlwaysKeepUp == Spec => []SweepsKeepUp
  <1>1. ASSUME TypeOK, FrontInv, age > Staleness, spent["edits"] = 0
        PROVE  LateTime <= LongestDelay
    <2>1. PICK k \in Nat : Cardinality(HangTime) + Limit * k + Paid
                              <= Limit * (Cardinality(Children) + 2 + Slack)
      BY <1>1 DEF FrontInv
    <2>2. Limit * k \in Nat /\ Cardinality(HangTime) \in Nat /\ Paid \in Nat
      BY <1>1, Numbers, HangTimeFinite, PaidType, ProductOfNats
    <2>3. Limit * (Cardinality(Children) + 2 + Slack) \in Nat
      BY <1>1, SlackType, Numbers, BoundTypes
    <2>4. Paid <= Limit * (Cardinality(Children) + 2 + Slack)
      BY <2>1, <2>2, <2>3
    <2>5. Paid = LateTime
      BY <1>1 DEF Paid, Late, LateTime
    <2>6. Cardinality(Children) + 2 + Slack
            = Cardinality(Children) + 2 + spent["manual"] + spent["lost"]
      BY <1>1, SlackType, Numbers DEF Slack
    <2> QED BY <2>4, <2>5, <2>6 DEF LongestDelay
  <1>2. TypeOK /\ FrontInv => SweepsKeepUp
    BY <1>1 DEF SweepsKeepUp
  <1> QED BY <1>2, FrontInvariant, PTL

\* A product that is no greater has, by the same factor, no greater a factor,
\* unless both are nothing.
LEMMA FactorsCompare ==
    ASSUME NEW a \in Int, NEW b \in Int, NEW n \in Nat, a > b, a * n <= b * n
    PROVE  n = 0
  <1>1. a * n = b * n + (a - b) * n
    OBVIOUS
  <1>2. SUFFICES ASSUME n > 0 PROVE FALSE
    OBVIOUS
  <1>3. PICK d \in Nat : a - b = d + 1
    <2>1. a - b - 1 \in Nat /\ a - b = (a - b - 1) + 1
      OBVIOUS
    <2> QED BY <2>1
  <1>4. (d + 1) * n = d * n + n /\ d * n \in Nat
    BY ProductOfNats
  <1>5. (a - b) * n \in Nat /\ (a - b) * n >= n
    BY <1>3, <1>4
  <1>6. a * n \in Int /\ b * n \in Int
    OBVIOUS
  <1> QED BY <1>1, <1>2, <1>5, <1>6

\* Whenever there is room for the longest delay between the last moment at which
\* the row is fresh and the redelivery of its message, whatever the settings and
\* the lead of the one clock over the other, the watchdog is first: a row that
\* was old enough to be redelivered would be later than any row can be.
THEOREM WatchdogIsFirst == Spec => []WatchdogComesFirst
  <1>1. ASSUME TypeOK, SweepsKeepUp, age > 0, spent["edits"] = 0, RoomFor(LongestDelay),
               lead + age > Visibility
        PROVE  FALSE
    <2> DEFINE n == Cardinality(Children)
               late == age - Staleness - 1
               room == Visibility - Staleness - 1 - lead
    <2>1. /\ n \in Nat /\ late \in Int /\ room \in Int /\ late > room
          /\ spent["manual"] \in Nat /\ spent["lost"] \in Nat
      BY <1>1, Numbers, LightAssumption DEF TypeOK, Budgets, LightAssumption
    <2>2. LongestDelay <= room * n
      BY <1>1 DEF RoomFor
    <2>3. PICK k \in Nat : n + 2 + spent["manual"] + spent["lost"] = k + 1
      <3>1. n + 1 + spent["manual"] + spent["lost"] \in Nat
        BY <2>1
      <3> QED BY <2>1, <3>1
    <2>4. LongestDelay = Limit * k + Limit /\ Limit * k \in Nat
      BY <2>3, Numbers, OneLimitMore DEF LongestDelay
    <2>5. LongestDelay \in Nat /\ LongestDelay > 0
      BY <2>4, Numbers
    <2>6. CASE age > Staleness
      <3>1. late * n <= LongestDelay
        BY <1>1, <2>6 DEF SweepsKeepUp, LateTime
      <3>2. late * n \in Int /\ room * n \in Int
        BY <2>1
      <3>3. late * n <= room * n
        BY <2>2, <2>5, <3>1, <3>2
      <3>4. n = 0
        BY <2>1, <3>3, FactorsCompare
      <3>5. room * n = 0
        BY <2>1, <3>4
      <3> QED BY <2>2, <2>5, <3>5
    <2>7. CASE ~(age > Staleness)
      <3>1. PICK d \in Nat : room = -d
        <4>1. -room \in Nat /\ room = -(-room)
          BY <1>1, <2>1, <2>7, Numbers DEF TypeOK
        <4> QED BY <4>1
      <3>2. d * n \in Nat /\ (-d) * n = -(d * n)
        BY <2>1, ProductOfNats
      <3> QED BY <2>2, <2>5, <3>1, <3>2
    <2> QED BY <2>6, <2>7
  <1>2. TypeOK /\ SweepsKeepUp => WatchdogComesFirst
    <2>1. ASSUME TypeOK PROVE age \in Int /\ lead \in Int /\ Visibility \in Int
      BY <2>1, Numbers, LightAssumption DEF TypeOK, LightAssumption
    <2>2. ASSUME TypeOK, SweepsKeepUp, age > 0, spent["edits"] = 0, RoomFor(LongestDelay)
          PROVE  lead + age <= Visibility
      <3>1. lead + age \in Int
        BY <2>1, <2>2
      <3> QED BY <1>1, <2>1, <2>2, <3>1
    <2> QED BY <2>2 DEF WatchdogComesFirst
  <1> QED BY <1>2, LightTypeCorrect, SweepsAlwaysKeepUp, PTL

================================================================================
