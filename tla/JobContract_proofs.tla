--------------------------- MODULE JobContract_proofs ---------------------------
(***************************************************************************)
(* TrackedJob implements JobContract, for every set of jobs, slots and     *)
(* sweepers, as long as the environment is calm: no message is processed   *)
(* twice, no run outlives a threshold, the except block reaches the        *)
(* database and nothing is raised after the COMPLETE commit.               *)
(***************************************************************************)
EXTENDS TrackedJob_proofs

\* None of the faults that put two actors on one row.
Calm ==
    Faults \cap {"ambiguous_dispatch", "worker_lost", "redelivery", "late_error",
                 "db_down", "slow_run"} = {}

\* Slot s runs job j and has not finished with it.
Live(s, j) == exec[s].job = j /\ exec[s].pc # "returned"

\* No message of job j is waiting and no slot runs it.
Uncarried(j) ==
    /\ \A a \in Attempts : queue[j][a] = 0
    /\ \A s \in Slots : ~Live(s, j)

\* What a run may be doing, as told by the status of its row.
Fits(run, st) ==
    /\ run.pc = "fetched" => st \in {"PENDING", "FAILED"}
    /\ run.pc = "begun" => st = "PENDING" /\ run.seen = "PENDING"
    /\ run.pc \in {"working", "reading", "empty", "finishing"} =>
          st = "IN_PROCESS" /\ run.clock = "own" /\ run.seen \in {"EXPIRED", "IN_PROCESS"}
    /\ run.pc = "completed" => st = "COMPLETE"
    /\ run.pc \in {"caught", "marking"} =>
          /\ st \in {"PENDING", "IN_PROCESS", "FAILED"}
          /\ st = "IN_PROCESS" => run.clock = "own"
    /\ run.pc = "marking" => run.seen = st
    /\ run.pc = "raised" => st = "FAILED"

\* One actor at a time has the row: its creator, a message, a run or the sweeps.
WithCreator(j) ==
    creator[j] \in {"new", "committed", "refused"} =>
        /\ Uncarried(j)
        /\ status[j] = IF creator[j] = "new" THEN "ABSENT" ELSE "PENDING"

WithMessage(j) ==
    \A a \in Attempts : queue[j][a] # 0 =>
        /\ queue[j][a] = 1 /\ \A b \in Attempts \ {a} : queue[j][b] = 0
        /\ \A s \in Slots : ~Live(s, j)
        /\ status[j] \in {"PENDING", "FAILED"}

WithRun(j) ==
    /\ \A s, t \in Slots : Live(s, j) /\ Live(t, j) => s = t
    /\ \A s \in Slots : Live(s, j) => Fits(exec[s], status[j])

WithSweep(j) ==
    /\ status[j] = "IN_PROCESS" /\ age[j] = "stale" => Uncarried(j)
    /\ \A w \in Sweepers : j \in doomed[w] =>
          Uncarried(j) /\ status[j] \in {"IN_PROCESS", "FAILED"}

JobInv(j) == WithCreator(j) /\ WithMessage(j) /\ WithRun(j) /\ WithSweep(j)

CalmInv == TypeInv /\ \A j \in Jobs : JobInv(j)

--------------------------------------------------------------------------------
(* What a step leaves alone *)

\* No part of job j is written, and no slot or sweep takes it up.
Untouched(j) ==
    /\ status'[j] = status[j] /\ age'[j] = age[j]
    /\ creator'[j] = creator[j] /\ queue'[j] = queue[j]
    /\ \A w \in Sweepers : j \in doomed'[w] => j \in doomed[w]
    /\ \A t \in Slots : Live(t, j)' => Live(t, j) /\ exec'[t] = exec[t]

\* The invariant of a job is about nothing else.
LEMMA UntouchedKeeps ==
    ASSUME NEW j \in Jobs, JobInv(j), Untouched(j)
    PROVE  JobInv(j)'
<1>1. Uncarried(j) => Uncarried(j)'
  BY DEF Uncarried, Untouched
<1>2. WithCreator(j)'
  BY <1>1 DEF JobInv, WithCreator, Untouched
<1>3. WithMessage(j)'
  BY DEF JobInv, WithMessage, Untouched
<1>4. WithRun(j)'
  BY DEF JobInv, WithRun, Untouched
<1>5. WithSweep(j)'
  BY <1>1 DEF JobInv, WithSweep, Untouched
<1>6. QED
  BY <1>2, <1>3, <1>4, <1>5 DEF JobInv

\* Nobody but the run has a row that is being run.
LEMMA RunAlone ==
    ASSUME TypeInv, NEW j \in Jobs, JobInv(j), NEW s \in Slots, Live(s, j)
    PROVE  /\ creator[j] \notin {"new", "committed", "refused"}
           /\ \A a \in Attempts : queue[j][a] = 0
           /\ \A t \in Slots : Live(t, j) => t = s
           /\ Fits(exec[s], status[j])
           /\ ~(status[j] = "IN_PROCESS" /\ age[j] = "stale")
           /\ \A w \in Sweepers : j \notin doomed[w]
BY DEF JobInv, WithCreator, WithMessage, WithRun, WithSweep, Uncarried

\* A step of the only run of a job.
LEMMA OwnStep ==
    ASSUME TypeInv, NEW j \in Jobs, JobInv(j), NEW s \in Slots, Live(s, j),
           OnlySlot(s), UNCHANGED <<creator, doomed>>, queue'[j] = queue[j],
           \/ age'[j] = "fresh"
           \/ age'[j] = age[j] /\ status'[j] = status[j],
           Live(s, j)' => Fits(exec'[s], status'[j])
    PROVE  JobInv(j)'
<1>1. \A t \in Slots : Live(t, j)' => t = s
  BY RunAlone DEF OnlySlot, Live
<1>2. WithCreator(j)'
  BY RunAlone DEF WithCreator
<1>3. WithMessage(j)'
  BY RunAlone DEF WithMessage
<1>4. WithRun(j)'
  BY <1>1 DEF WithRun
<1>5. WithSweep(j)'
  BY RunAlone DEF WithSweep
<1>6. QED
  BY <1>2, <1>3, <1>4, <1>5 DEF JobInv

--------------------------------------------------------------------------------
(* The steps of a slot *)

\* The clock of a run: its own from its first write on.
LEMMA RunClock ==
    ASSUME TypeInv, NEW s \in Slots
    PROVE  /\ BeginCommit(s) => exec'[s].clock = ClockAfter(exec[s].seen)
           /\ ListPrefix(s) \/ ReadFile(s) =>
                  exec'[s].clock \in {"own", exec[s].clock}
           /\ Upsert(s) \/ UpsertNothing(s) \/ HandlerRead(s) =>
                  exec'[s].clock = exec[s].clock
           /\ \A c \in {"transient", "permanent"} :
                  Catch(s, c) => exec'[s].clock = exec[s].clock
<1>1. exec \in [Slots -> Runs] /\ exec[s] \in Runs
  BY DEF TypeInv, TypeOK
<1>2. BeginCommit(s) => exec'[s].clock = ClockAfter(exec[s].seen)
  BY <1>1 DEF BeginCommit, Become, Runs
<1>3. ListPrefix(s) => exec'[s].clock \in {"own", exec[s].clock}
  BY <1>1 DEF ListPrefix, Become, Runs
<1>4. ReadFile(s) => exec'[s].clock \in {"own", exec[s].clock}
  BY <1>1 DEF ReadFile, Become, Runs
<1>5. Upsert(s) \/ UpsertNothing(s) \/ HandlerRead(s) =>
          exec'[s].clock = exec[s].clock
  BY <1>1 DEF Upsert, UpsertNothing, HandlerRead, Become, Runs
<1>6. \A c \in {"transient", "permanent"} :
          Catch(s, c) => exec'[s].clock = exec[s].clock
  BY <1>1 DEF Catch, Become, Runs
<1>7. QED
  BY <1>2, <1>3, <1>4, <1>5, <1>6

\* A run writes its own row, and a write makes it fresh.
LEMMA RowAge ==
    ASSUME TypeInv, NEW s \in Slots, Works(s)
    PROVE  /\ \A j \in Jobs \ {exec[s].job} : age'[j] = age[j]
           /\ \/ age'[exec[s].job] = "fresh"
              \/ UNCHANGED <<status, age>>
<1>1. exec[s].job \in Jobs /\ age \in [Jobs -> {"fresh", "stale"}]
  BY WorksLocal DEF TypeInv, TypeOK
<1>2. CASE BeginCommit(s) \/ MarkComplete(s) \/ HandlerCommit(s)
  BY <1>1, <1>2 DEF BeginCommit, MarkComplete, HandlerCommit, Save, Write
<1>3. CASE ListPrefix(s) \/ ReadFile(s)
  BY <1>1, <1>3 DEF ListPrefix, ReadFile, Touch
<1>4. CASE ~(\/ BeginCommit(s) \/ MarkComplete(s) \/ HandlerCommit(s)
             \/ ListPrefix(s) \/ ReadFile(s))
  BY <1>4 DEF Works, Redeliver, Ack, WorkerLost, HardKill, BeginRead, Upsert,
     UpsertNothing, Return, Catch, HandlerRead, HandlerFails, Retry, OnFailure
<1>5. QED
  BY <1>2, <1>3, <1>4

\* A run goes on as its row says, when nobody else writes the row.
LEMMA FitsStep ==
    ASSUME TypeInv, Calm, NEW s \in Slots, Works(s), NEW j \in Jobs, JobInv(j),
           Live(s, j), Live(s, j)'
    PROVE  Fits(exec'[s], status'[j])
<1> USE DEF Live
<1>1. Fits(exec[s], status[j]) /\ exec[s].job = j /\ status \in [Jobs -> RowStatus]
  BY RunAlone DEF TypeInv, TypeOK
<1>2. CASE BeginRead(s)
  <2>1. status'[j] = status[j]
    BY <1>2 DEF BeginRead
  <2>2. QED
    BY <1>1, <1>2, <2>1, BeginReadRun DEF Fits, AlreadyResolved, Terminal
<1>3. CASE BeginCommit(s)
  <2>1. status'[j] = "IN_PROCESS"
    BY <1>1, <1>3, BeginCommitRun DEF BeginCommit, Save, Write, Fits
  <2>2. QED
    BY <1>1, <1>3, <2>1, BeginCommitRun, RunClock DEF Fits, ClockAfter
<1>4. CASE ListPrefix(s) \/ ReadFile(s)
  <2>1. status'[j] = status[j]
    BY <1>4 DEF ListPrefix, ReadFile, Touch
  <2>2. QED
    BY <1>1, <1>4, <2>1, ListPrefixRun, ReadFileRun, RunClock DEF Fits
<1>5. CASE Upsert(s) \/ UpsertNothing(s)
  <2>1. status'[j] = status[j]
    BY <1>5 DEF Upsert, UpsertNothing
  <2>2. QED
    BY <1>1, <1>5, <2>1, UpsertRun, UpsertNothingRun, RunClock DEF Fits
<1>6. CASE MarkComplete(s)
  <2>1. status'[j] = "COMPLETE"
    BY <1>1, <1>6, MarkCompleteRun DEF MarkComplete, Save, Write, Fits
  <2>2. QED
    BY <1>6, <2>1, MarkCompleteRun DEF Fits
<1>7. CASE \E c \in {"transient", "permanent"} : Catch(s, c)
  <2>1. PICK c \in {"transient", "permanent"} : Catch(s, c)
    BY <1>7
  <2>2. exec[s].pc \in Running \cup {"fetched"} /\ status'[j] = status[j]
    BY <2>1 DEF Catch, Calm
  <2>3. QED
    BY <1>1, <2>1, <2>2, CatchRun, RunClock DEF Fits, Running
<1>8. CASE HandlerRead(s)
  <2>1. status'[j] = status[j]
    BY <1>8 DEF HandlerRead
  <2>2. QED
    BY <1>1, <1>8, <2>1, HandlerReadRun, RunClock DEF Fits
<1>9. CASE HandlerCommit(s)
  <2>1. status'[j] = "FAILED"
    BY <1>1, <1>9 DEF HandlerCommit, Save, Write, Fits
  <2>2. QED
    BY <1>9, <2>1, HandlerEndRun DEF Fits
<1>10. CASE Return(s) \/ Retry(s) \/ OnFailure(s)
  BY <1>10, EpilogueRun
<1>11. CASE Redeliver(s) \/ WorkerLost(s) \/ HandlerFails(s)
  BY <1>11 DEF Redeliver, WorkerLost, HandlerFails, Calm
<1>12. CASE Ack(s) \/ HardKill(s)
  BY <1>12, IdleAgain, ConstantsAssumption DEF Idle
<1>13. QED
  BY <1>2, <1>3, <1>4, <1>5, <1>6, <1>7, <1>8, <1>9, <1>10, <1>11, <1>12 DEF Works

\* The next attempt is the only carrier a retry leaves.
LEMMA RetryStep ==
    ASSUME TypeInv, NEW s \in Slots, Retry(s), NEW j \in Jobs, JobInv(j), Live(s, j)
    PROVE  JobInv(j)'
<1> DEFINE next == exec[s].attempt + 1
<1>1. /\ exec[s].job = j /\ status[j] = "FAILED" /\ next \in Attempts
  <2>1. exec[s].attempt \in Attempts
    BY RunFields DEF TypeInv, TypeOK
  <2>2. QED
    BY <2>1, RunAlone, ConstantsAssumption DEF Retry, Retryable, Live, Fits, Attempts
<1>2. /\ \A a \in Attempts : queue[j][a] = 0
      /\ \A w \in Sweepers : j \notin doomed[w]
      /\ creator[j] \notin {"new", "committed", "refused"}
  BY RunAlone
<1>3. UNCHANGED <<status, creator, doomed>>
  BY DEF Retry
<1>4. \A t \in Slots : ~Live(t, j)'
  BY RunAlone, EpilogueRun DEF OnlySlot, Live
<1>5. /\ \A a \in Attempts \ {next} : queue'[j][a] = 0
      /\ queue'[j][next] \in {0, 1}
  BY <1>1, <1>2 DEF Retry, Publish, TypeInv, TypeOK
<1>6. WithCreator(j)' /\ WithRun(j)' /\ WithSweep(j)'
  BY <1>1, <1>2, <1>3, <1>4 DEF WithCreator, WithRun, WithSweep
<1>7. WithMessage(j)'
  BY <1>1, <1>3, <1>4, <1>5 DEF WithMessage
<1>8. QED
  BY <1>6, <1>7 DEF JobInv

\* Every step of a slot.
LEMMA WorksStep ==
    ASSUME CalmInv, Calm, NEW s \in Slots, Works(s), NEW j \in Jobs
    PROVE  JobInv(j)'
<1> DEFINE k == exec[s].job
<1>1. /\ TypeInv /\ JobInv(j) /\ k \in Jobs
      /\ OnlySlot(s) /\ OnlyJob(k) /\ UNCHANGED <<creator, doomed>>
      /\ exec'[s].job \in {k, NoJob} /\ NoJob \notin Jobs
  BY WorksLocal, ConstantsAssumption DEF CalmInv
<1>2. ~Redeliver(s) /\ ~WorkerLost(s)
  BY DEF Calm, Redeliver, WorkerLost
<1>3. CASE j # k
  <2>1. Untouched(j)
    BY <1>1, <1>3, RowAge DEF Untouched, OnlyJob, OnlySlot, Live
  <2>2. QED
    BY <1>1, <2>1, UntouchedKeeps
<1>4. CASE j = k /\ Ack(s)
  <2>1. Untouched(j)
    BY <1>1, <1>4, IdleAgain DEF Ack, Untouched, OnlySlot, Live, Idle
  <2>2. QED
    BY <1>1, <2>1, UntouchedKeeps
<1>5. CASE j = k /\ Retry(s)
  BY <1>1, <1>5, RetryStep DEF Live, Retry
<1>6. CASE j = k /\ ~Ack(s) /\ ~Retry(s)
  <2>1. Live(s, j)
    BY <1>2, <1>6 DEF Live, Works, HardKill, BeginRead, BeginCommit, ListPrefix,
       ReadFile, Upsert, UpsertNothing, MarkComplete, Return, Catch, Running,
       HandlerRead, HandlerCommit, HandlerFails, OnFailure
  <2>2. queue' = queue
    BY <1>2, <1>6 DEF Works, HardKill, BeginRead, BeginCommit, ListPrefix,
       ReadFile, Upsert, UpsertNothing, MarkComplete, Return, Catch,
       HandlerRead, HandlerCommit, HandlerFails, OnFailure
  <2>3. Live(s, j)' => Fits(exec'[s], status'[j])
    BY <1>1, <2>1, FitsStep
  <2>4. QED
    BY <1>1, <1>6, <2>1, <2>2, <2>3, RowAge, OwnStep
<1>7. QED
  BY <1>3, <1>4, <1>5, <1>6

\* A message becomes a run.
LEMMA DeliverStep ==
    ASSUME CalmInv, NEW s \in Slots, NEW k \in Jobs, NEW a \in Attempts,
           Deliver(s, k, a), NEW j \in Jobs
    PROVE  JobInv(j)'
<1>1. TypeInv /\ JobInv(j)
  BY DEF CalmInv
<1>2. /\ OnlySlot(s) /\ exec[s].job = NoJob /\ exec'[s].job = k
      /\ exec'[s].pc = "fetched"
  BY <1>1, DeliverRun DEF TypeInv, SlotInv
<1>3. /\ UNCHANGED <<status, age, creator, doomed>>
      /\ \A i \in Jobs : i # k => queue'[i] = queue[i]
      /\ \A b \in Attempts \ {a} : queue'[k][b] = queue[k][b]
      /\ queue'[k][a] = queue[k][a] - 1 /\ queue[k][a] # 0
  BY <1>1 DEF Deliver, MayDeliver, TypeInv, TypeOK
<1>4. CASE j # k
  <2>1. Untouched(j)
    BY <1>2, <1>3, <1>4 DEF Untouched, OnlySlot, Live
  <2>2. QED
    BY <1>1, <2>1, UntouchedKeeps
<1>5. CASE j = k
  <2>1. /\ \A t \in Slots : ~Live(t, j)
        /\ status[j] \in {"PENDING", "FAILED"}
        /\ \A b \in Attempts : queue'[j][b] = 0
        /\ creator[j] \notin {"new", "committed", "refused"}
        /\ \A w \in Sweepers : j \notin doomed[w]
    BY <1>1, <1>3, <1>5 DEF JobInv, WithMessage, WithCreator, WithSweep, Uncarried
  <2>2. \A t \in Slots : Live(t, j)' => t = s
    BY <1>2, <2>1 DEF OnlySlot, Live
  <2>3. Fits(exec'[s], status'[j])
    BY <1>2, <1>3, <2>1 DEF Fits
  <2>4. WithRun(j)'
    BY <2>2, <2>3 DEF WithRun
  <2>5. WithCreator(j)' /\ WithMessage(j)' /\ WithSweep(j)'
    BY <1>3, <2>1 DEF WithCreator, WithMessage, WithSweep
  <2>6. QED
    BY <2>4, <2>5 DEF JobInv
<1>6. QED
  BY <1>4, <1>5

--------------------------------------------------------------------------------
(* The steps of creators and sweeps *)

\* A creator has its row for itself until its publish.
LEMMA CreatorStep ==
    ASSUME CalmInv, Calm, NEW k \in Jobs, NEW j \in Jobs,
           \/ CreateRow(k) \/ Dispatch(k) \/ DispatchRaises(k)
           \/ RecordDispatchFailure(k) \/ CreatorCrash(k)
    PROVE  JobInv(j)'
<1>1. TypeInv /\ JobInv(j)
  BY DEF CalmInv
<1>2. UNCHANGED <<exec, doomed>>
  BY DEF CreateRow, Dispatch, DispatchRaises, RecordDispatchFailure, CreatorCrash
<1>3. CASE j # k
  <2>1. /\ status'[j] = status[j] /\ age'[j] = age[j]
        /\ creator'[j] = creator[j] /\ queue'[j] = queue[j]
    BY <1>1, <1>3 DEF CreateRow, Dispatch, DispatchRaises, RecordDispatchFailure,
       CreatorCrash, Save, Write, Publish, TypeInv, TypeOK
  <2>2. Untouched(j)
    BY <1>2, <2>1 DEF Untouched, Live
  <2>3. QED
    BY <1>1, <2>2, UntouchedKeeps
<1>4. CASE j = k
  <2>1. /\ creator[j] \in {"new", "committed", "refused"}
        /\ CreateRow(j) => creator[j] = "new"
        /\ ~CreateRow(j) => creator[j] # "new"
    BY <1>4 DEF CreateRow, Dispatch, DispatchRaises, RecordDispatchFailure,
       CreatorCrash
  <2>2. /\ Uncarried(j)
        /\ status[j] = IF creator[j] = "new" THEN "ABSENT" ELSE "PENDING"
        /\ \A w \in Sweepers : j \notin doomed[w]
    BY <1>1, <2>1 DEF JobInv, WithCreator, WithSweep
  <2>3. \A t \in Slots : ~Live(t, j)'
    BY <1>2, <2>2 DEF Uncarried, Live
  <2>4. WithRun(j)'
    BY <2>3 DEF WithRun
  <2>5. CASE Dispatch(j)
    <3>1. /\ status'[j] = "PENDING" /\ creator'[j] = "returned"
          /\ queue'[j][0] = 1 /\ \A b \in Attempts \ {0} : queue'[j][b] = 0
      BY <1>1, <2>1, <2>2, <2>5, ConstantsAssumption
         DEF Dispatch, Publish, Uncarried, Attempts, CreateRow, TypeInv, TypeOK
    <3>2. QED
      BY <1>2, <2>2, <2>3, <2>4, <3>1
         DEF JobInv, WithCreator, WithMessage, WithSweep
  <2>6. CASE ~Dispatch(j)
    <3>1. queue' = queue
      BY <1>4, <2>6 DEF CreateRow, DispatchRaises, RecordDispatchFailure,
         CreatorCrash, Calm
    <3>2. \/ status'[j] = "PENDING" /\ creator'[j] \in {"committed", "refused", "gone"}
          \/ status'[j] = "FAILED" /\ creator'[j] = "gone"
      BY <1>1, <1>4, <2>1, <2>2, <2>6 DEF CreateRow, DispatchRaises,
         RecordDispatchFailure, CreatorCrash, Save, Write, TypeInv, TypeOK
    <3>3. Uncarried(j)'
      BY <2>2, <2>3, <3>1 DEF Uncarried
    <3>4. QED
      BY <1>2, <2>2, <2>3, <2>4, <3>2, <3>3
         DEF JobInv, WithCreator, WithMessage, WithSweep, Uncarried
  <2>7. QED
    BY <2>5, <2>6
<1>5. QED
  BY <1>3, <1>4

\* The threshold passes for rows that nobody runs only, and a sweep has only
\* such rows in hand.
LEMMA WatchdogStep ==
    ASSUME CalmInv, Calm, WatchdogNext, NEW j \in Jobs
    PROVE  JobInv(j)'
<1>1. TypeInv /\ JobInv(j)
  BY DEF CalmInv
<1>2. UNCHANGED <<creator, queue, exec>>
  BY DEF WatchdogNext, GoStale, Scan, CommitSweep, AbortSweep
<1>3. ASSUME UNCHANGED <<status, age>>,
             \A w \in Sweepers : j \in doomed'[w] => j \in doomed[w]
      PROVE  JobInv(j)'
  <2>1. Untouched(j)
    BY <1>2, <1>3 DEF Untouched, Live
  <2>2. QED
    BY <1>1, <2>1, UntouchedKeeps
<1>4. CASE \E i \in Jobs : GoStale(i)
  <2>1. PICK i \in Jobs : GoStale(i)
    BY <1>4
  <2>2. CASE i # j
    <3>1. Untouched(j)
      BY <1>1, <1>2, <2>1, <2>2 DEF GoStale, Untouched, Live, TypeInv, TypeOK
    <3>2. QED
      BY <1>1, <3>1, UntouchedKeeps
  <2>3. CASE i = j
    <3>1. status[j] = "IN_PROCESS" /\ UNCHANGED <<status, doomed>> /\ ~RecentlyWritten(j)
      BY <2>1, <2>3 DEF GoStale, Calm
    <3>2. ASSUME NEW t \in Slots, Live(t, j) PROVE FALSE
      <4>1. Fits(exec[t], "IN_PROCESS") /\ exec[t].job = j
        BY <1>1, <3>1, <3>2, RunAlone DEF Live
      <4>2. exec[t].pc \in PCs /\ exec[t].pc \notin {"idle", "returned"}
        BY <1>1, <3>2, <4>1, RunFields, ConstantsAssumption
           DEF TypeInv, TypeOK, SlotInv, Live
      <4>3. exec[t].pc \in Running \cup {"caught", "marking"} /\ exec[t].clock = "own"
        BY <4>1, <4>2 DEF Fits, PCs, Running
      <4>4. QED
        BY <3>1, <4>1, <4>3 DEF RecentlyWritten
    <3>3. Uncarried(j)'
      BY <1>1, <1>2, <3>1, <3>2 DEF JobInv, WithMessage, Uncarried, Live
    <3>4. QED
      BY <1>1, <1>2, <3>1, <3>3
         DEF JobInv, WithCreator, WithMessage, WithRun, WithSweep, Uncarried, Live
  <2>4. QED
    BY <2>2, <2>3
<1>5. CASE \E w \in Sweepers : Scan(w)
  <2>1. PICK w \in Sweepers : Scan(w)
    BY <1>5
  <2>2. UNCHANGED <<status, age>> /\ \A v \in Sweepers \ {w} : doomed'[v] = doomed[v]
    BY <1>1, <2>1 DEF Scan, TypeInv, TypeOK
  <2>3. CASE IsStuck(j)
    <3>1. Uncarried(j) /\ status[j] = "IN_PROCESS"
      BY <1>1, <2>3 DEF IsStuck, InProcess, JobInv, WithSweep
    <3>2. QED
      BY <1>1, <1>2, <2>2, <3>1
         DEF JobInv, WithCreator, WithMessage, WithRun, WithSweep, Uncarried, Live
  <2>4. CASE ~IsStuck(j)
    <3>1. j \notin doomed'[w]
      BY <1>1, <2>1, <2>4 DEF Scan, TypeInv, TypeOK
    <3>2. QED
      BY <1>3, <2>2, <3>1
  <2>5. QED
    BY <2>3, <2>4
<1>6. CASE \E w \in Sweepers : CommitSweep(w)
  <2>1. PICK w \in Sweepers : CommitSweep(w)
    BY <1>6
  <2>2. \A v \in Sweepers : j \in doomed'[v] => j \in doomed[v]
    BY <1>1, <2>1 DEF CommitSweep, TypeInv, TypeOK
  <2>3. CASE j \in doomed[w]
    <3>1. /\ Uncarried(j) /\ status'[j] = "FAILED"
          /\ creator[j] \notin {"new", "committed", "refused"}
      BY <1>1, <2>1, <2>3
         DEF CommitSweep, JobInv, WithCreator, WithSweep, TypeInv, TypeOK
    <3>2. QED
      BY <1>2, <3>1
         DEF JobInv, WithCreator, WithMessage, WithRun, WithSweep, Uncarried, Live
  <2>4. CASE j \notin doomed[w]
    <3>1. Untouched(j)
      BY <1>1, <1>2, <2>1, <2>2, <2>4 DEF CommitSweep, Untouched, Live
    <3>2. QED
      BY <1>1, <3>1, UntouchedKeeps
  <2>5. QED
    BY <2>3, <2>4
<1>7. CASE \E w \in Sweepers : AbortSweep(w)
  <2>1. PICK w \in Sweepers : AbortSweep(w)
    BY <1>7
  <2>2. UNCHANGED <<status, age>> /\ \A v \in Sweepers : j \in doomed'[v] => j \in doomed[v]
    BY <1>1, <2>1 DEF AbortSweep, TypeInv, TypeOK
  <2>3. QED
    BY <1>3, <2>2
<1>8. QED
  BY <1>4, <1>5, <1>6, <1>7 DEF WatchdogNext

--------------------------------------------------------------------------------
(* The contract *)

\* Nobody has a row at the start.
LEMMA CalmInit == Init => CalmInv
<1> SUFFICES ASSUME Init, NEW j \in Jobs PROVE JobInv(j)
  BY TypeInvInit DEF CalmInv
<1>1. \A s \in Slots : ~Live(s, j)
  BY ConstantsAssumption DEF Init, Idle, Live
<1>2. QED
  BY <1>1 DEF Init, JobInv, WithCreator, WithMessage, WithRun, WithSweep, Uncarried

\* One actor at a time, step after step.
LEMMA CalmStep ==
    ASSUME Calm, CalmInv, [Next]_vars
    PROVE  CalmInv'
<1>1. TypeInv'
  BY TypeInvStep DEF CalmInv
<1>2. SUFFICES ASSUME NEW j \in Jobs PROVE JobInv(j)'
  BY <1>1 DEF CalmInv
<1>3. CASE CreatorNext
  BY <1>3, CreatorStep DEF CreatorNext
<1>4. CASE \E s \in Slots, k \in Jobs, a \in Attempts : Deliver(s, k, a)
  BY <1>4, DeliverStep
<1>5. CASE \E s \in Slots : Works(s)
  BY <1>5, WorksStep
<1>6. CASE WatchdogNext
  BY <1>6, WatchdogStep
<1>7. CASE UNCHANGED vars
  <2>1. Untouched(j)
    BY <1>7 DEF vars, Untouched, Live
  <2>2. QED
    BY <2>1, UntouchedKeeps DEF CalmInv
<1>8. QED
  BY <1>3, <1>4, <1>5, <1>6, <1>7, NextCases

\* A row that is moved along.
LEMMA OneMoves ==
    ASSUME TypeInv, NEW j \in Jobs, NEW new,
           status' = [status EXCEPT ![j] = new],
           \/ status[j] = "ABSENT" /\ new = "PENDING"
           \/ status[j] = "PENDING" /\ new = "IN_PROCESS"
           \/ status[j] = "IN_PROCESS" /\ new = "COMPLETE"
           \/ status[j] \in {"PENDING", "IN_PROCESS"} /\ new = "FAILED"
    PROVE  Contract!Next
<1>1. CASE new = "FAILED"
  <2>1. Contract!Fail({j})
    BY <1>1 DEF Contract!Fail, TypeInv, TypeOK
  <2>2. QED
    BY <2>1 DEF Contract!Next
<1>2. CASE new # "FAILED"
  BY <1>2 DEF Contract!Next, Contract!Create, Contract!Start, Contract!Complete,
     Contract!Move
<1>3. QED
  BY <1>1, <1>2

\* Every step of the system is one of the contract's or shows it nothing.
LEMMA ContractStep ==
    ASSUME Calm, CalmInv, [Next]_vars
    PROVE  [Contract!Next]_status
<1> USE DEF CalmInv
<1>1. CASE CreatorNext
  <2>1. PICK j \in Jobs : \/ CreateRow(j) \/ Dispatch(j) \/ DispatchRaises(j)
                         \/ RecordDispatchFailure(j) \/ CreatorCrash(j)
    BY <1>1 DEF CreatorNext
  <2>2. WithCreator(j)
    BY DEF JobInv
  <2>3. CASE CreateRow(j)
    BY <2>2, <2>3, OneMoves DEF WithCreator, CreateRow, Write
  <2>4. CASE RecordDispatchFailure(j)
    BY <2>2, <2>4, OneMoves DEF WithCreator, RecordDispatchFailure, Save, Write
  <2>5. CASE Dispatch(j) \/ DispatchRaises(j) \/ CreatorCrash(j)
    BY <2>5 DEF Dispatch, DispatchRaises, CreatorCrash
  <2>6. QED
    BY <2>1, <2>3, <2>4, <2>5
<1>2. CASE \E s \in Slots, k \in Jobs, a \in Attempts : Deliver(s, k, a)
  BY <1>2 DEF Deliver
<1>3. CASE \E s \in Slots : Works(s)
  <2>1. PICK s \in Slots : Works(s)
    BY <1>3
  <2> DEFINE k == exec[s].job
  <2>2. k \in Jobs /\ JobInv(k)
    BY <2>1, WorksLocal
  <2>3. exec[s].pc # "returned" => Fits(exec[s], status[k])
    BY <2>2, RunAlone DEF Live
  <2>4. CASE BeginCommit(s)
    <3>1. status[k] = "PENDING" /\ exec[s].seen = "PENDING"
      BY <2>3, <2>4 DEF BeginCommit, Fits
    <3>2. status' = [status EXCEPT ![k] = "IN_PROCESS"]
      BY <2>4, <3>1 DEF BeginCommit, Save, Write
    <3>3. QED
      BY <2>2, <3>1, <3>2, OneMoves
  <2>5. CASE MarkComplete(s)
    <3>1. status[k] = "IN_PROCESS"
      BY <2>3, <2>5 DEF MarkComplete, Fits
    <3>2. \/ status' = [status EXCEPT ![k] = "COMPLETE"]
          \/ UNCHANGED status
      BY <2>5 DEF MarkComplete, Save, Write
    <3>3. QED
      BY <2>2, <3>1, <3>2, OneMoves
  <2>6. CASE HandlerCommit(s)
    <3>1. /\ status[k] \in {"PENDING", "IN_PROCESS", "FAILED"}
          /\ exec[s].seen = status[k]
      BY <2>3, <2>6 DEF HandlerCommit, Fits
    <3>2. \/ UNCHANGED status
          \/ /\ status' = [status EXCEPT ![k] = "FAILED"]
             /\ status[k] \in {"PENDING", "IN_PROCESS"}
      BY <2>6, <3>1 DEF HandlerCommit, Save, Write
    <3>3. QED
      BY <2>2, <3>2, OneMoves
  <2>7. CASE ~BeginCommit(s) /\ ~MarkComplete(s) /\ ~HandlerCommit(s)
    BY <2>1, <2>7 DEF Works, Redeliver, Ack, WorkerLost, HardKill, BeginRead,
       ListPrefix, ReadFile, Touch, Upsert, UpsertNothing, Return, Catch,
       HandlerRead, HandlerFails, Retry, OnFailure
  <2>8. QED
    BY <2>4, <2>5, <2>6, <2>7
<1>4. CASE WatchdogNext
  <2>1. CASE \E w \in Sweepers : CommitSweep(w)
    <3>1. PICK w \in Sweepers : CommitSweep(w)
      BY <2>1
    <3> DEFINE stuck == {j \in doomed[w] : status[j] = "IN_PROCESS"}
    <3>2. /\ doomed[w] \subseteq Jobs
          /\ \A j \in doomed[w] : status[j] \in {"IN_PROCESS", "FAILED"}
      BY DEF JobInv, WithSweep, TypeInv, TypeOK
    <3>3. status' = [j \in Jobs |-> IF j \in stuck THEN "FAILED" ELSE status[j]]
      BY <3>1, <3>2 DEF CommitSweep
    <3>4. Contract!Fail(stuck) /\ stuck \in SUBSET Jobs
      BY <3>2, <3>3 DEF Contract!Fail
    <3>5. QED
      BY <3>4 DEF Contract!Next
  <2>2. CASE ~\E w \in Sweepers : CommitSweep(w)
    BY <1>4, <2>2 DEF WatchdogNext, GoStale, Scan, AbortSweep
  <2>3. QED
    BY <2>1, <2>2
<1>5. CASE UNCHANGED vars
  BY <1>5 DEF vars
<1>6. QED
  BY <1>1, <1>2, <1>3, <1>4, <1>5, NextCases

\* In a calm environment the lifecycle keeps the contract of JobContract: a row
\* resolves once, COMPLETE is reached from IN_PROCESS only, and a verdict is
\* never overwritten, by whatever number of slots, sweeps and retries.
THEOREM ContractImplemented == Calm => (Spec => ContractSpec)
<1> SUFFICES ASSUME Calm PROVE Spec => ContractSpec
  OBVIOUS
<1>1. Init => Contract!Init
  BY DEF Init, Contract!Init
<1>2. CalmInv /\ [Next]_vars => CalmInv'
  BY CalmStep
<1>3. CalmInv /\ [Next]_vars => [Contract!Next]_status
  BY ContractStep
<1>4. QED
  BY <1>1, <1>2, <1>3, CalmInit, PTL DEF Spec, ContractSpec, Contract!Spec

================================================================================
