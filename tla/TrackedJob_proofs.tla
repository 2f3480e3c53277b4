--------------------------- MODULE TrackedJob_proofs ---------------------------
(***************************************************************************)
(* Theorems about TrackedJob, for every set of jobs, slots and sweepers,   *)
(* every retry limit and every combination of Faults.                      *)
(***************************************************************************)
EXTENDS TrackedJob, TLAPS

\* A slot is idle exactly when it has no job, and only ingests have files.
SlotInv ==
    \A s \in Slots :
        /\ exec[s].pc = "idle" <=> exec[s].job = NoJob
        /\ exec[s].pc \in {"reading", "empty"} => exec[s].job \in Ingests

TypeInv == TypeOK /\ SlotInv

\* Nothing but its creator knows a job before its message is published.
Undispatched ==
    \A j \in Jobs : creator[j] \in {"new", "committed"} =>
        /\ status[j] = IF creator[j] = "new" THEN "ABSENT" ELSE "PENDING"
        /\ \A a \in Attempts : queue[j][a] = 0
        /\ \A s \in Slots : exec[s].job # j
        /\ \A w \in Sweepers : j \notin doomed[w]

\* The row has left PENDING.
Started(j) == status[j] \notin {"ABSENT", "PENDING"}

\* A run past its first commit, or whose session has loaded a status later
\* than PENDING, has a row that has left PENDING.
Begun(s) ==
    \/ exec[s].pc \in {"working", "reading", "empty", "finishing", "completed"}
    \/ exec[s].pc # "idle" /\ exec[s].seen \in {"IN_PROCESS", "COMPLETE", "FAILED"}

BegunMeansStarted == \A s \in Slots : Begun(s) => Started(exec[s].job)

\* A run about to report an ingest COMPLETE has stored its rows.
FinishingMeansStored ==
    \A s \in Slots : exec[s].pc = "finishing" => exec[s].job \in stored

--------------------------------------------------------------------------------
(* Slots and what they run *)

\* The fields of a run have the types Runs gives them.
LEMMA RunFields ==
    ASSUME NEW r \in Runs
    PROVE  /\ r.pc \in PCs /\ r.job \in Jobs \cup {NoJob}
           /\ r.attempt \in Attempts /\ r.left \in 0 .. MaxFiles
           /\ r.seen \in RowStatus \cup {"EXPIRED"}
           /\ r.tag \in {"unacked", "restored"}
           /\ r.clock \in {"own", "inherited"}
           /\ r.cause \in {"none", "transient", "permanent"}
BY DEF Runs

\* A step of one slot leaves the others alone.
LEMMA BecomeRun ==
    ASSUME exec \in [Slots -> Runs], NEW s \in Slots, NEW r \in Runs,
           Become(s, r)
    PROVE  /\ exec' \in [Slots -> Runs]
           /\ exec'[s] = r
           /\ \A t \in Slots : t # s => exec'[t] = exec[t]
BY DEF Become

\* The record of an idle slot.
LEMMA IdleRun == Idle \in Runs
BY ConstantsAssumption DEF Idle, Runs, PCs, Running, Attempts, RowStatus

\* Only slot s has changed what it runs.
OnlySlot(s) ==
    /\ exec' \in [Slots -> Runs]
    /\ \A t \in Slots : t # s => exec'[t] = exec[t]

\* What the type invariant says of one slot.
SlotTyped(s) ==
    /\ exec \in [Slots -> Runs] /\ exec[s] \in Runs
    /\ status \in [Jobs -> RowStatus]
    /\ exec[s].pc # "idle" => exec[s].job \in Jobs

LEMMA SlotTypes == ASSUME TypeInv, NEW s \in Slots PROVE SlotTyped(s)
BY RunFields DEF TypeInv, TypeOK, SlotInv, SlotTyped

\* A run that is over is "returned", with its job and its delivery.
LEMMA OverRun ==
    ASSUME TypeInv, NEW s \in Slots, Over(s)
    PROVE  /\ OnlySlot(s)
           /\ exec'[s].pc = "returned" /\ exec'[s].seen = "EXPIRED"
           /\ exec'[s].job = exec[s].job /\ exec'[s].tag = exec[s].tag
<1>1. SlotTyped(s)
  BY SlotTypes
<1>2. QED
  BY <1>1, IdleRun DEF SlotTyped, OnlySlot, Over, Become, Idle, Runs, PCs

\* A delivery is a fetched run of the job, unacknowledged.
LEMMA DeliverRun ==
    ASSUME TypeInv, NEW s \in Slots, NEW j \in Jobs, NEW a \in Attempts,
           Deliver(s, j, a)
    PROVE  /\ OnlySlot(s)
           /\ exec[s].pc = "idle"
           /\ exec'[s].pc = "fetched"
           /\ exec'[s].job = j
           /\ exec'[s].attempt = a
           /\ exec'[s].tag = "unacked"
           /\ exec'[s].seen = "EXPIRED"
<1>1. SlotTyped(s)
  BY SlotTypes
<1>2. QED
  BY <1>1, IdleRun DEF SlotTyped, OnlySlot, Deliver, Idle, Become, Runs, PCs, Running

\* A redelivery only takes the delivery away from the run.
LEMMA RedeliverRun ==
    ASSUME TypeInv, NEW s \in Slots, Redeliver(s)
    PROVE  /\ OnlySlot(s)
           /\ exec[s].pc # "idle" /\ exec[s].tag = "unacked"
           /\ exec'[s].pc = exec[s].pc
           /\ exec'[s].job = exec[s].job
           /\ exec'[s].seen = exec[s].seen
           /\ exec'[s].tag = "restored"
<1>1. SlotTyped(s)
  BY SlotTypes
<1>2. QED
  BY <1>1 DEF SlotTyped, OnlySlot, Redeliver, Become, Runs, PCs, Running

\* An acknowledged or killed run leaves an idle slot.
LEMMA IdleAgain ==
    ASSUME TypeInv, NEW s \in Slots, Ack(s) \/ WorkerLost(s) \/ HardKill(s)
    PROVE  OnlySlot(s) /\ exec[s].pc # "idle" /\ exec'[s] = Idle
<1>1. SlotTyped(s)
  BY SlotTypes
<1>2. QED
  BY <1>1, IdleRun DEF SlotTyped, OnlySlot, Ack, WorkerLost, HardKill, Become

\* The guard returns on a resolved row and loads the status of any other.
LEMMA BeginReadRun ==
    ASSUME TypeInv, NEW s \in Slots, BeginRead(s)
    PROVE  /\ OnlySlot(s)
           /\ exec[s].pc = "fetched"
           /\ exec'[s].job = exec[s].job
           /\ exec'[s].tag = exec[s].tag
           /\ \/ /\ AlreadyResolved(status[exec[s].job])
                 /\ exec'[s].pc = "returned" /\ exec'[s].seen = "EXPIRED"
              \/ /\ ~AlreadyResolved(status[exec[s].job])
                 /\ exec'[s].pc = "begun"
                 /\ exec'[s].seen = status[exec[s].job]
<1>1. SlotTyped(s)
  BY SlotTypes
<1>2. exec[s].pc = "fetched" /\ status[exec[s].job] \in RowStatus
  BY <1>1 DEF SlotTyped, BeginRead
<1>3. CASE AlreadyResolved(status[exec[s].job])
  BY <1>2, <1>3, OverRun DEF BeginRead
<1>4. CASE ~AlreadyResolved(status[exec[s].job])
  <2>1. Become(s, [exec[s] EXCEPT !.pc = "begun", !.seen = status[exec[s].job]])
    BY <1>4 DEF BeginRead
  <2>2. QED
    BY <1>1, <1>2, <1>4, <2>1 DEF SlotTyped, OnlySlot, Become, Runs, PCs, Running
<1>5. QED
  BY <1>3, <1>4

\* The first commit.
LEMMA BeginCommitRun ==
    ASSUME TypeInv, NEW s \in Slots, BeginCommit(s)
    PROVE  /\ OnlySlot(s)
           /\ exec[s].pc = "begun"
           /\ exec'[s].pc = "working"
           /\ exec'[s].job = exec[s].job
           /\ exec'[s].tag = exec[s].tag
           /\ exec'[s].seen = "EXPIRED"
<1>1. SlotTyped(s)
  BY SlotTypes
<1>2. QED
  BY <1>1 DEF SlotTyped, OnlySlot, BeginCommit, ClockAfter, Become, Runs, PCs, Running

\* Listing, with files or without.
LEMMA ListPrefixRun ==
    ASSUME TypeInv, NEW s \in Slots, ListPrefix(s)
    PROVE  /\ OnlySlot(s)
           /\ exec[s].pc = "working" /\ exec[s].job \in Ingests
           /\ exec'[s].pc \in {"empty", "reading"}
           /\ exec'[s].job = exec[s].job
           /\ exec'[s].tag = exec[s].tag
           /\ exec'[s].seen = exec[s].seen
<1>1. SlotTyped(s)
  BY SlotTypes
<1>2. PICK n \in 0 .. MaxFiles :
        \/ Become(s, [exec[s] EXCEPT !.pc = AfterListing(n), !.left = n,
                                     !.clock = "own"])
        \/ Become(s, [exec[s] EXCEPT !.pc = AfterListing(n), !.left = n])
  BY DEF ListPrefix
<1>3. AfterListing(n) \in {"empty", "reading"}
  BY DEF AfterListing
<1>4. exec[s].pc = "working" /\ exec[s].job \in Ingests
  BY DEF ListPrefix
<1>5. CASE Become(s, [exec[s] EXCEPT !.pc = AfterListing(n), !.left = n,
                                   !.clock = "own"])
  BY <1>1, <1>3, <1>4, <1>5 DEF SlotTyped, OnlySlot, Become, Runs, PCs, Running
<1>6. CASE Become(s, [exec[s] EXCEPT !.pc = AfterListing(n), !.left = n])
  BY <1>1, <1>3, <1>4, <1>6 DEF SlotTyped, OnlySlot, Become, Runs, PCs, Running
<1>7. QED
  BY <1>2, <1>5, <1>6

\* A file read.
LEMMA ReadFileRun ==
    ASSUME TypeInv, NEW s \in Slots, ReadFile(s)
    PROVE  /\ OnlySlot(s)
           /\ exec[s].pc = "reading"
           /\ exec'[s].pc = "reading"
           /\ exec'[s].job = exec[s].job
           /\ exec'[s].tag = exec[s].tag
           /\ exec'[s].seen = exec[s].seen
<1>1. SlotTyped(s)
  BY SlotTypes
<1>2. exec[s].left - 1 \in 0 .. MaxFiles
  <2>1. exec[s].left \in 0 .. MaxFiles /\ exec[s].left > 0
    BY <1>1 DEF SlotTyped, Runs, ReadFile
  <2>2. QED
    BY <2>1, ConstantsAssumption
<1>3. QED
  BY <1>1, <1>2 DEF SlotTyped, OnlySlot, ReadFile, Become, Runs, PCs, Running

\* Rows stored.
LEMMA UpsertRun ==
    ASSUME TypeInv, NEW s \in Slots, Upsert(s)
    PROVE  /\ OnlySlot(s)
           /\ exec[s].pc = "reading"
           /\ exec'[s].pc = "finishing"
           /\ exec'[s].job = exec[s].job
           /\ exec'[s].tag = exec[s].tag
           /\ exec'[s].seen = exec[s].seen
<1>1. SlotTyped(s)
  BY SlotTypes
<1>2. QED
  BY <1>1 DEF SlotTyped, OnlySlot, Upsert, Become, Runs, PCs, Running

\* Nothing to store.
LEMMA UpsertNothingRun ==
    ASSUME TypeInv, NEW s \in Slots, UpsertNothing(s)
    PROVE  /\ OnlySlot(s)
           /\ exec[s].pc = "empty"
           /\ exec'[s].pc = "finishing"
           /\ exec'[s].job = exec[s].job
           /\ exec'[s].tag = exec[s].tag
           /\ exec'[s].seen = status[exec[s].job]
<1>1. SlotTyped(s)
  BY SlotTypes
<1>2. QED
  BY <1>1 DEF SlotTyped, OnlySlot, UpsertNothing, Become, Runs, PCs, Running

\* The last commit of a run.
LEMMA MarkCompleteRun ==
    ASSUME TypeInv, NEW s \in Slots, MarkComplete(s)
    PROVE  /\ OnlySlot(s)
           /\ exec[s].pc \in {"working", "finishing"}
           /\ exec'[s].pc = "completed"
           /\ exec'[s].job = exec[s].job
           /\ exec'[s].tag = exec[s].tag
           /\ exec'[s].seen = "EXPIRED"
<1>1. SlotTyped(s)
  BY SlotTypes
<1>2. QED
  BY <1>1 DEF SlotTyped, OnlySlot, MarkComplete, Become, Runs, PCs, Running

\* An exception.
LEMMA CatchRun ==
    ASSUME TypeInv, NEW s \in Slots, NEW c \in {"transient", "permanent"},
           Catch(s, c)
    PROVE  /\ OnlySlot(s)
           /\ exec[s].pc \in Running \cup {"fetched", "completed"}
           /\ exec'[s].pc = "caught"
           /\ exec'[s].job = exec[s].job
           /\ exec'[s].tag = exec[s].tag
           /\ exec'[s].seen = "EXPIRED"
<1>1. SlotTyped(s)
  BY SlotTypes
<1>2. /\ exec[s].pc \in Running \cup {"fetched", "completed"}
      /\ Become(s, [exec[s] EXCEPT !.pc = "caught", !.cause = c, !.left = 0,
                                   !.seen = "EXPIRED"])
  BY DEF Catch
<1>3. 0 \in 0 .. MaxFiles
  BY ConstantsAssumption
<1>4. QED
  BY <1>1, <1>2, <1>3 DEF SlotTyped, OnlySlot, Become, Runs, PCs, Running

\* The except block loads the status.
LEMMA HandlerReadRun ==
    ASSUME TypeInv, NEW s \in Slots, HandlerRead(s)
    PROVE  /\ OnlySlot(s)
           /\ exec[s].pc = "caught"
           /\ exec'[s].pc = "marking"
           /\ exec'[s].job = exec[s].job
           /\ exec'[s].tag = exec[s].tag
           /\ exec'[s].seen = status[exec[s].job]
<1>1. SlotTyped(s)
  BY SlotTypes
<1>2. QED
  BY <1>1 DEF SlotTyped, OnlySlot, HandlerRead, Become, Runs, PCs, Running

\* The except block re-raises.
LEMMA HandlerEndRun ==
    ASSUME TypeInv, NEW s \in Slots, HandlerCommit(s) \/ HandlerFails(s)
    PROVE  /\ OnlySlot(s)
           /\ exec[s].pc \in {"caught", "marking"}
           /\ exec'[s].pc = "raised"
           /\ exec'[s].job = exec[s].job
           /\ exec'[s].tag = exec[s].tag
           /\ exec'[s].seen = "EXPIRED"
<1>1. SlotTyped(s)
  BY SlotTypes
<1>2. CASE HandlerCommit(s)
  BY <1>1, <1>2 DEF SlotTyped, OnlySlot, HandlerCommit, Become, Runs, PCs
<1>3. CASE HandlerFails(s)
  <2>1. PICK c \in {"transient", "permanent"} :
          Become(s, [exec[s] EXCEPT !.pc = "raised", !.seen = "EXPIRED",
                                    !.clock = "inherited", !.cause = c])
    BY <1>3 DEF HandlerFails
  <2>2. exec[s].pc \in {"caught", "marking"}
    BY <1>3 DEF HandlerFails
  <2>3. QED
    BY <1>1, <2>1, <2>2 DEF SlotTyped, OnlySlot, Become, Runs, PCs
<1>4. QED
  BY <1>2, <1>3

\* A run that returned, that is retried, or that has failed for good.
LEMMA EpilogueRun ==
    ASSUME TypeInv, NEW s \in Slots, Return(s) \/ Retry(s) \/ OnFailure(s)
    PROVE  /\ OnlySlot(s)
           /\ exec[s].pc \in {"completed", "raised"}
           /\ exec'[s].pc = "returned"
           /\ exec'[s].job = exec[s].job
           /\ exec'[s].tag = exec[s].tag
           /\ exec'[s].seen = "EXPIRED"
BY OverRun DEF Return, Retry, OnFailure

--------------------------------------------------------------------------------
(* Types *)

\* The other half of a slot's step: SlotInv is about each slot alone.
LEMMA SlotInvStep ==
    ASSUME TypeInv, NEW s \in Slots, OnlySlot(s),
           exec'[s].pc = "idle" <=> exec'[s].job = NoJob,
           exec'[s].pc \in {"reading", "empty"} => exec'[s].job \in Ingests
    PROVE  SlotInv'
BY DEF OnlySlot, TypeInv, SlotInv

\* Row writes keep the types of the row.
LEMMA SaveTypes ==
    ASSUME TypeInv, NEW j \in Jobs, NEW new \in Status, NEW seen,
           Save(j, new, seen)
    PROVE  status' \in [Jobs -> RowStatus] /\ age' \in [Jobs -> {"fresh", "stale"}]
BY DEF TypeInv, TypeOK, RowStatus, Save, Write

\* One message more is a queue.
LEMMA PublishTypes ==
    ASSUME TypeInv, NEW j \in Jobs, NEW a \in Attempts, Publish(j, a)
    PROVE  queue' \in [Jobs -> [Attempts -> Nat]]
BY DEF TypeInv, TypeOK, Publish

\* Creating, dispatching and giving up a request keep the types of the row.
LEMMA CreatorTypes == ASSUME TypeInv, CreatorNext PROVE TypeInv'
<1>1. PICK j \in Jobs : \/ CreateRow(j) \/ Dispatch(j) \/ DispatchRaises(j)
                       \/ RecordDispatchFailure(j) \/ CreatorCrash(j)
  BY DEF CreatorNext
<1>2. 0 \in Attempts
  BY ConstantsAssumption DEF Attempts
<1>3. CASE CreateRow(j)
  BY <1>3 DEF CreateRow, Write, TypeInv, TypeOK, SlotInv, RowStatus, Status,
              CreatorStates
<1>4. CASE Dispatch(j)
  BY <1>2, <1>4, PublishTypes DEF Dispatch, TypeInv, TypeOK, SlotInv, CreatorStates
<1>5. CASE DispatchRaises(j)
  BY <1>2, <1>5, PublishTypes
     DEF DispatchRaises, TypeInv, TypeOK, SlotInv, CreatorStates
<1>6. CASE RecordDispatchFailure(j)
  BY <1>6, SaveTypes
     DEF RecordDispatchFailure, TypeInv, TypeOK, SlotInv, Status, CreatorStates
<1>7. CASE CreatorCrash(j)
  BY <1>7 DEF CreatorCrash, TypeInv, TypeOK, SlotInv, CreatorStates
<1>8. QED
  BY <1>1, <1>3, <1>4, <1>5, <1>6, <1>7

\* Deliveries, redeliveries, acknowledgements and kills keep TypeInv.
LEMMA BrokerTypes == ASSUME TypeInv, BrokerNext PROVE TypeInv'
<1>1. PICK s \in Slots :
        \/ \E j \in Jobs, a \in Attempts : Deliver(s, j, a)
        \/ Redeliver(s) \/ Ack(s) \/ WorkerLost(s) \/ HardKill(s)
  BY DEF BrokerNext
<1>2. /\ exec[s].pc # "idle" => exec[s].job \in Jobs
      /\ exec[s].attempt \in Attempts
      /\ exec[s].pc = "idle" <=> exec[s].job = NoJob
      /\ exec[s].pc \in {"reading", "empty"} => exec[s].job \in Ingests
  BY RunFields DEF TypeInv, TypeOK, SlotInv
<1>3. Idle.pc = "idle" /\ Idle.job = NoJob
  BY DEF Idle
<1>4. CASE \E j \in Jobs, a \in Attempts : Deliver(s, j, a)
  <2>1. PICK j \in Jobs, a \in Attempts : Deliver(s, j, a)
    BY <1>4
  <2>2. /\ OnlySlot(s) /\ exec'[s].pc = "fetched" /\ exec'[s].job = j
    BY <2>1, DeliverRun
  <2>3. SlotInv'
    BY <2>2, SlotInvStep, ConstantsAssumption
  <2>4. queue' \in [Jobs -> [Attempts -> Nat]]
    BY <2>1 DEF Deliver, MayDeliver, TypeInv, TypeOK
  <2>5. QED
    BY <2>1, <2>2, <2>3, <2>4 DEF Deliver, OnlySlot, TypeInv, TypeOK
<1>5. CASE Redeliver(s)
  <2>1. OnlySlot(s) /\ exec[s].pc # "idle" /\ exec'[s].pc = exec[s].pc
        /\ exec'[s].job = exec[s].job
    BY <1>5, RedeliverRun
  <2>2. SlotInv'
    BY <1>2, <2>1, SlotInvStep
  <2>3. queue' \in [Jobs -> [Attempts -> Nat]]
    BY <1>2, <1>5, PublishTypes DEF Redeliver
  <2>4. QED
    BY <1>5, <2>1, <2>2, <2>3 DEF Redeliver, OnlySlot, TypeInv, TypeOK
<1>6. CASE Ack(s) \/ WorkerLost(s) \/ HardKill(s)
  <2>1. OnlySlot(s) /\ exec[s].pc # "idle" /\ exec'[s] = Idle
    BY <1>6, IdleAgain
  <2>2. SlotInv'
    BY <1>3, <2>1, SlotInvStep
  <2>3. queue' \in [Jobs -> [Attempts -> Nat]]
    BY <1>2, <1>6, <2>1, PublishTypes
       DEF Ack, WorkerLost, HardKill, Requeue, TypeInv, TypeOK
  <2>4. fate' \in [Jobs -> SUBSET Fates]
    BY <1>2, <1>6, <2>1 DEF Ack, WorkerLost, HardKill, TypeInv, TypeOK, Fates
  <2>5. QED
    BY <1>6, <2>1, <2>2, <2>3, <2>4
       DEF Ack, WorkerLost, HardKill, OnlySlot, TypeInv, TypeOK
<1>7. QED
  BY <1>1, <1>4, <1>5, <1>6

\* Every step of a task, from its guard to its epilogue, keeps TypeInv.
LEMMA TaskTypes == ASSUME TypeInv, TaskNext PROVE TypeInv'
<1>1. PICK s \in Slots :
        \/ BeginRead(s) \/ BeginCommit(s) \/ ListPrefix(s) \/ ReadFile(s)
        \/ Upsert(s) \/ UpsertNothing(s) \/ MarkComplete(s) \/ Return(s)
        \/ \E c \in {"transient", "permanent"} : Catch(s, c)
        \/ HandlerRead(s) \/ HandlerCommit(s) \/ HandlerFails(s)
        \/ Retry(s) \/ OnFailure(s)
  BY DEF TaskNext
<1>2. /\ exec[s].pc # "idle" => exec[s].job \in Jobs
      /\ exec[s].pc = "idle" <=> exec[s].job = NoJob
      /\ exec[s].pc \in {"reading", "empty"} => exec[s].job \in Ingests
  BY RunFields DEF TypeInv, TypeOK, SlotInv
<1>3. CASE BeginRead(s)
  <2>1. SlotInv'
    BY <1>2, <1>3, BeginReadRun, SlotInvStep
  <2>2. OnlySlot(s)
    BY <1>3, BeginReadRun
  <2>3. QED
    BY <1>3, <2>1, <2>2 DEF BeginRead, OnlySlot, TypeInv, TypeOK
<1>4. CASE BeginCommit(s)
  <2>1. OnlySlot(s) /\ SlotInv'
    BY <1>2, <1>4, BeginCommitRun, SlotInvStep
  <2>2. status' \in [Jobs -> RowStatus] /\ age' \in [Jobs -> {"fresh", "stale"}]
    BY <1>2, <1>4, SaveTypes DEF BeginCommit, Status
  <2>3. QED
    BY <1>4, <2>1, <2>2 DEF BeginCommit, OnlySlot, TypeInv, TypeOK
<1>5. CASE ListPrefix(s)
  <2>1. OnlySlot(s) /\ SlotInv'
    BY <1>2, <1>5, ListPrefixRun, SlotInvStep
  <2>2. status' = status /\ age' \in [Jobs -> {"fresh", "stale"}]
    BY <1>2, <1>5 DEF ListPrefix, Touch, TypeInv, TypeOK
  <2>3. QED
    BY <1>5, <2>1, <2>2 DEF ListPrefix, OnlySlot, TypeInv, TypeOK
<1>6. CASE ReadFile(s)
  <2>1. OnlySlot(s) /\ SlotInv'
    BY <1>2, <1>6, ReadFileRun, SlotInvStep
  <2>2. QED
    BY <1>2, <1>6, <2>1 DEF ReadFile, Touch, OnlySlot, TypeInv, TypeOK
<1>7. CASE Upsert(s)
  <2>1. OnlySlot(s) /\ SlotInv'
    BY <1>2, <1>7, UpsertRun, SlotInvStep
  <2>2. QED
    BY <1>2, <1>7, <2>1 DEF Upsert, OnlySlot, TypeInv, TypeOK
<1>8. CASE UpsertNothing(s)
  <2>1. OnlySlot(s) /\ SlotInv'
    BY <1>2, <1>8, UpsertNothingRun, SlotInvStep
  <2>2. QED
    BY <1>2, <1>8, <2>1 DEF UpsertNothing, OnlySlot, TypeInv, TypeOK
<1>9. CASE MarkComplete(s)
  <2>1. OnlySlot(s) /\ SlotInv'
    BY <1>2, <1>9, MarkCompleteRun, SlotInvStep
  <2>2. status' \in [Jobs -> RowStatus] /\ age' \in [Jobs -> {"fresh", "stale"}]
    BY <1>2, <1>9, SaveTypes DEF MarkComplete, Status
  <2>3. QED
    BY <1>9, <2>1, <2>2 DEF MarkComplete, OnlySlot, TypeInv, TypeOK
<1>10. CASE \E c \in {"transient", "permanent"} : Catch(s, c)
  <2>1. PICK c \in {"transient", "permanent"} : Catch(s, c)
    BY <1>10
  <2>2. OnlySlot(s) /\ SlotInv'
    BY <1>2, <2>1, CatchRun, SlotInvStep DEF Running
  <2>3. QED
    BY <2>1, <2>2 DEF Catch, OnlySlot, TypeInv, TypeOK
<1>11. CASE HandlerRead(s)
  <2>1. OnlySlot(s) /\ SlotInv'
    BY <1>2, <1>11, HandlerReadRun, SlotInvStep
  <2>2. QED
    BY <1>11, <2>1 DEF HandlerRead, OnlySlot, TypeInv, TypeOK
<1>12. CASE HandlerCommit(s) \/ HandlerFails(s)
  <2>1. OnlySlot(s) /\ SlotInv'
    BY <1>2, <1>12, HandlerEndRun, SlotInvStep
  <2>2. status' \in [Jobs -> RowStatus] /\ age' \in [Jobs -> {"fresh", "stale"}]
    BY <1>2, <1>12, SaveTypes
       DEF HandlerCommit, HandlerFails, Status, TypeInv, TypeOK
  <2>3. QED
    BY <1>12, <2>1, <2>2
       DEF HandlerCommit, HandlerFails, OnlySlot, TypeInv, TypeOK
<1>13. CASE Return(s) \/ Retry(s) \/ OnFailure(s)
  <2>1. OnlySlot(s) /\ SlotInv'
    BY <1>2, <1>13, EpilogueRun, SlotInvStep
  <2>2. exec[s].job \in Jobs
    BY <1>2, <1>13, EpilogueRun
  <2>3. queue' \in [Jobs -> [Attempts -> Nat]]
    <3>1. CASE Retry(s)
      <4>1. exec[s].attempt \in Attempts /\ exec[s].attempt < MaxRetries
        BY <3>1, RunFields DEF Retry, Retryable, TypeInv, TypeOK
      <4>2. exec[s].attempt + 1 \in Attempts
        BY <4>1, ConstantsAssumption DEF Attempts
      <4>3. QED
        BY <2>2, <3>1, <4>2, PublishTypes DEF Retry, TypeInv, TypeOK
    <3>2. CASE ~Retry(s)
      BY <1>13, <3>2 DEF Return, OnFailure, TypeInv, TypeOK
    <3>3. QED
      BY <3>1, <3>2
  <2>4. fate' \in [Jobs -> SUBSET Fates]
    BY <1>13, <2>2 DEF Return, Retry, OnFailure, TypeInv, TypeOK, Fates
  <2>5. QED
    BY <1>13, <2>1, <2>3, <2>4
       DEF Return, Retry, OnFailure, OnlySlot, TypeInv, TypeOK
<1>14. QED
  BY <1>1, <1>3, <1>4, <1>5, <1>6, <1>7, <1>8, <1>9, <1>10, <1>11, <1>12, <1>13

\* Sweeps and the passing of the threshold keep TypeInv.
LEMMA WatchdogTypes == ASSUME TypeInv, WatchdogNext PROVE TypeInv'
BY DEF WatchdogNext, GoStale, Scan, CommitSweep, AbortSweep, TypeInv, TypeOK,
       SlotInv, RowStatus, Status

\* TypeInv holds of the empty database.
LEMMA TypeInvInit == Init => TypeInv
BY ConstantsAssumption, IdleRun
   DEF Init, TypeInv, TypeOK, SlotInv, RowStatus, Idle, CreatorStates, Fates

\* TypeInv is kept by every step.
LEMMA TypeInvStep == TypeInv /\ [Next]_vars => TypeInv'
<1>1. ASSUME TypeInv, UNCHANGED vars PROVE TypeInv'
  BY <1>1 DEF TypeInv, TypeOK, SlotInv, vars
<1>2. QED
  BY <1>1, CreatorTypes, BrokerTypes, TaskTypes, WatchdogTypes DEF Next

\* TypeInv is inductive.
LEMMA TypeInvariant == Spec => []TypeInv
BY TypeInvInit, TypeInvStep, PTL DEF Spec

\* Every reachable state has the types TypeOK names, and a slot is idle exactly
\* when it has no job: Next is total over what the program's steps produce.
THEOREM TypeCorrect == Spec => []TypeOK
<1>1. TypeInv => TypeOK
  BY DEF TypeInv
<1>2. QED
  BY <1>1, TypeInvariant, PTL

--------------------------------------------------------------------------------
(* A slot's step is local to its job *)

\* The steps of a slot that has a job.
Works(s) ==
    \/ Redeliver(s) \/ Ack(s) \/ WorkerLost(s) \/ HardKill(s)
    \/ BeginRead(s) \/ BeginCommit(s) \/ ListPrefix(s) \/ ReadFile(s)
    \/ Upsert(s) \/ UpsertNothing(s) \/ MarkComplete(s) \/ Return(s)
    \/ \E c \in {"transient", "permanent"} : Catch(s, c)
    \/ HandlerRead(s) \/ HandlerCommit(s) \/ HandlerFails(s)
    \/ Retry(s) \/ OnFailure(s)

\* A step is the creator's, a delivery, a step of one busy slot, or the watchdog's.
LEMMA NextCases ==
    ASSUME [Next]_vars
    PROVE  \/ CreatorNext
           \/ \E s \in Slots, j \in Jobs, a \in Attempts : Deliver(s, j, a)
           \/ \E s \in Slots : Works(s)
           \/ WatchdogNext
           \/ UNCHANGED vars
BY DEF Next, BrokerNext, TaskNext, Works

\* The row, the messages and the fate of every other job are as before.
OnlyJob(k) ==
    \A j \in Jobs : j # k => /\ status'[j] = status[j]
                            /\ queue'[j] = queue[j]
                            /\ fate'[j] = fate[j]

\* A write to one row leaves the status of the others.
LEMMA SaveLocal ==
    ASSUME TypeInv, NEW j \in Jobs, NEW new, NEW seen, Save(j, new, seen)
    PROVE  \A i \in Jobs : i # j => status'[i] = status[i]
BY DEF TypeInv, TypeOK, Save, Write

\* A message of one job leaves the messages of the others.
LEMMA PublishLocal ==
    ASSUME TypeInv, NEW j \in Jobs, NEW a \in Attempts, Publish(j, a)
    PROVE  /\ \A i \in Jobs : i # j => queue'[i] = queue[i]
           /\ queue'[j][a] > 0
           /\ \A i \in Jobs, b \in Attempts : queue[i][b] > 0 => queue'[i][b] > 0
BY DEF TypeInv, TypeOK, Publish

\* What a slot does to the rows and messages of a job it does not run: nothing.
LEMMA WorksLocal ==
    ASSUME TypeInv, NEW s \in Slots, Works(s)
    PROVE  /\ OnlySlot(s) /\ OnlyJob(exec[s].job)
           /\ exec[s].pc # "idle" /\ exec[s].job \in Jobs
           /\ exec'[s].job \in {exec[s].job, NoJob}
           /\ UNCHANGED <<creator, doomed>>
<1> DEFINE k == exec[s].job
<1>1. /\ exec[s].pc # "idle" => k \in Jobs
      /\ exec[s].attempt \in Attempts
      /\ Idle.job = NoJob
  BY RunFields DEF TypeInv, TypeOK, SlotInv, Idle
<1>2. /\ OnlySlot(s) /\ exec[s].pc # "idle" /\ k \in Jobs
      /\ exec'[s].job \in {k, NoJob}
  <2>1. CASE \/ Redeliver(s) \/ Ack(s) \/ WorkerLost(s) \/ HardKill(s)
    BY <1>1, <2>1, RedeliverRun, IdleAgain
  <2>2. CASE BeginRead(s) \/ BeginCommit(s) \/ ListPrefix(s) \/ ReadFile(s)
    BY <1>1, <2>2, BeginReadRun, BeginCommitRun, ListPrefixRun, ReadFileRun
  <2>3. CASE Upsert(s) \/ UpsertNothing(s) \/ MarkComplete(s)
    BY <1>1, <2>3, UpsertRun, UpsertNothingRun, MarkCompleteRun
  <2>4. CASE \E c \in {"transient", "permanent"} : Catch(s, c)
    BY <1>1, <2>4, CatchRun DEF Running
  <2>5. CASE HandlerRead(s) \/ HandlerCommit(s) \/ HandlerFails(s)
    BY <1>1, <2>5, HandlerReadRun, HandlerEndRun
  <2>6. CASE Return(s) \/ Retry(s) \/ OnFailure(s)
    BY <1>1, <2>6, EpilogueRun
  <2>7. QED
    BY <2>1, <2>2, <2>3, <2>4, <2>5, <2>6 DEF Works
<1>3. UNCHANGED <<creator, doomed>>
  BY DEF Works, Redeliver, Ack, WorkerLost, HardKill, BeginRead, BeginCommit,
         ListPrefix, ReadFile, Upsert, UpsertNothing, MarkComplete, Return, Catch,
         HandlerRead, HandlerCommit, HandlerFails, Retry, OnFailure
<1>4. \A j \in Jobs : j # k => status'[j] = status[j]
  <2>1. CASE BeginCommit(s) \/ MarkComplete(s) \/ HandlerCommit(s)
    BY <1>2, <2>1, SaveLocal DEF BeginCommit, MarkComplete, HandlerCommit
  <2>2. CASE ~(BeginCommit(s) \/ MarkComplete(s) \/ HandlerCommit(s))
    BY <2>2 DEF Works, Redeliver, Ack, WorkerLost, HardKill, BeginRead, ListPrefix,
         ReadFile, Touch, Upsert, UpsertNothing, Return, Catch, HandlerRead,
         HandlerFails, Retry, OnFailure
  <2>3. QED
    BY <2>1, <2>2
<1>5. \A j \in Jobs : j # k => queue'[j] = queue[j]
  <2>1. CASE Redeliver(s) \/ WorkerLost(s)
    BY <1>1, <1>2, <2>1, PublishLocal DEF Redeliver, WorkerLost, Requeue
  <2>2. CASE Retry(s)
    <3>1. exec[s].attempt + 1 \in Attempts
      BY <1>1, <2>2, ConstantsAssumption DEF Attempts, Retry, Retryable
    <3>2. QED
      BY <1>2, <2>2, <3>1, PublishLocal DEF Retry
  <2>3. CASE ~(Redeliver(s) \/ WorkerLost(s) \/ Retry(s))
    BY <2>3 DEF Works, Ack, HardKill, BeginRead, BeginCommit, ListPrefix, ReadFile,
         Upsert, UpsertNothing, MarkComplete, Return, Catch, HandlerRead,
         HandlerCommit, HandlerFails, OnFailure
  <2>4. QED
    BY <2>1, <2>2, <2>3
<1>6. \A j \in Jobs : j # k => fate'[j] = fate[j]
  <2>1. CASE HardKill(s) \/ OnFailure(s)
    BY <1>2, <2>1 DEF HardKill, OnFailure, TypeInv, TypeOK
  <2>2. CASE ~(HardKill(s) \/ OnFailure(s))
    BY <2>2 DEF Works, Redeliver, Ack, WorkerLost, BeginRead, BeginCommit,
         ListPrefix, ReadFile, Upsert, UpsertNothing, MarkComplete, Return, Catch,
         HandlerRead, HandlerCommit, HandlerFails, Retry
  <2>3. QED
    BY <2>1, <2>2
<1>7. QED
  BY <1>2, <1>3, <1>4, <1>5, <1>6 DEF OnlyJob

--------------------------------------------------------------------------------
(* Undispatched *)

\* Nothing has been dispatched at the start.
LEMMA UndispatchedInit == Init => Undispatched
BY ConstantsAssumption DEF Init, Undispatched, Idle

\* Until its dispatch a job is known to its creator only.
LEMMA UndispatchedStep ==
    TypeInv /\ Undispatched /\ [Next]_vars => Undispatched'
<1> SUFFICES ASSUME TypeInv, Undispatched, [Next]_vars PROVE Undispatched'
  OBVIOUS
<1>1. CASE CreatorNext
  <2>1. PICK j \in Jobs : \/ CreateRow(j) \/ Dispatch(j) \/ DispatchRaises(j)
                         \/ RecordDispatchFailure(j) \/ CreatorCrash(j)
    BY <1>1 DEF CreatorNext
  <2>2. /\ creator'[j] \in {"new", "committed"} => CreateRow(j)
        /\ \A i \in Jobs : i # j => creator'[i] = creator[i]
        /\ UNCHANGED <<exec, doomed>>
    BY <2>1 DEF CreateRow, Dispatch, DispatchRaises, RecordDispatchFailure,
                CreatorCrash, TypeInv, TypeOK
  <2>3. \A i \in Jobs : i # j => status'[i] = status[i] /\ queue'[i] = queue[i]
    BY <2>1 DEF CreateRow, Dispatch, DispatchRaises, RecordDispatchFailure,
                CreatorCrash, Save, Write, Publish, TypeInv, TypeOK
  <2>4. CreateRow(j) => /\ creator[j] = "new" /\ status'[j] = "PENDING"
                        /\ creator'[j] = "committed" /\ queue' = queue
    BY DEF CreateRow, Write, TypeInv, TypeOK
  <2>5. QED
    BY <2>2, <2>3, <2>4 DEF Undispatched
<1>2. CASE \E s \in Slots, j \in Jobs, a \in Attempts : Deliver(s, j, a)
  <2>1. PICK s \in Slots, j \in Jobs, a \in Attempts : Deliver(s, j, a)
    BY <1>2
  <2>2. OnlySlot(s) /\ exec'[s].job = j
    BY <2>1, DeliverRun
  <2>3. queue[j][a] # 0
    BY <2>1 DEF Deliver, MayDeliver
  <2>4. creator[j] \notin {"new", "committed"}
    BY <2>3 DEF Undispatched
  <2>5. /\ UNCHANGED <<status, creator, doomed>>
        /\ \A i \in Jobs : i # j => queue'[i] = queue[i]
    BY <2>1 DEF Deliver, TypeInv, TypeOK
  <2>6. QED
    BY <2>2, <2>4, <2>5 DEF Undispatched, OnlySlot
<1>3. CASE \E s \in Slots : Works(s)
  <2>1. PICK s \in Slots : Works(s)
    BY <1>3
  <2>2. /\ OnlySlot(s) /\ OnlyJob(exec[s].job) /\ exec[s].job \in Jobs
        /\ exec'[s].job \in {exec[s].job, NoJob}
        /\ UNCHANGED <<creator, doomed>>
    BY <2>1, WorksLocal
  <2>3. QED
    BY <2>2, ConstantsAssumption DEF Undispatched, OnlySlot, OnlyJob
<1>4. CASE WatchdogNext
  <2>1. UNCHANGED <<creator, queue, exec>>
    BY <1>4 DEF WatchdogNext, GoStale, Scan, CommitSweep, AbortSweep
  <2>2. ASSUME NEW j \in Jobs, creator[j] \in {"new", "committed"}
        PROVE  status'[j] = status[j] /\ \A w \in Sweepers : j \notin doomed'[w]
    <3>1. /\ status[j] \in {"ABSENT", "PENDING"}
          /\ \A w \in Sweepers : j \notin doomed[w]
      BY <2>2 DEF Undispatched
    <3>2. CASE \E i \in Jobs : GoStale(i)
      BY <3>1, <3>2 DEF GoStale
    <3>3. CASE \E w \in Sweepers : Scan(w)
      BY <3>1, <3>3 DEF Scan, IsStuck, InProcess, TypeInv, TypeOK
    <3>4. CASE \E w \in Sweepers : CommitSweep(w)
      BY <3>1, <3>4 DEF CommitSweep, TypeInv, TypeOK
    <3>5. CASE \E w \in Sweepers : AbortSweep(w)
      BY <3>1, <3>5 DEF AbortSweep, TypeInv, TypeOK
    <3>6. QED
      BY <1>4, <3>2, <3>3, <3>4, <3>5 DEF WatchdogNext
  <2>3. QED
    BY <2>1, <2>2 DEF Undispatched
<1>5. CASE UNCHANGED vars
  BY <1>5 DEF vars, Undispatched
<1>6. QED
  BY <1>1, <1>2, <1>3, <1>4, <1>5, NextCases

\* TypeInv and Undispatched hold together.
LEMMA UndispatchedInvariant == Spec => [](TypeInv /\ Undispatched)
BY TypeInvInit, TypeInvStep, UndispatchedInit, UndispatchedStep, PTL DEF Spec

--------------------------------------------------------------------------------
(* Finality *)

\* A creator step, seen from a job that has been dispatched.
LEMMA CreatorLocal ==
    ASSUME TypeInv, CreatorNext, NEW j \in Jobs, status[j] \in Terminal,
           Undispatched
    PROVE  /\ UNCHANGED <<exec, doomed>>
           /\ \/ status'[j] = status[j] /\ creator'[j] = creator[j]
              \/ /\ creator[j] = "refused" /\ creator'[j] = "gone"
                 /\ status'[j] \in {status[j], "FAILED"}
<1>1. PICK i \in Jobs : \/ CreateRow(i) \/ Dispatch(i) \/ DispatchRaises(i)
                       \/ RecordDispatchFailure(i) \/ CreatorCrash(i)
  BY DEF CreatorNext
<1>2. UNCHANGED <<exec, doomed>>
  BY <1>1 DEF CreateRow, Dispatch, DispatchRaises, RecordDispatchFailure, CreatorCrash
<1>3. creator[j] \notin {"new", "committed"}
  BY DEF Undispatched, Terminal
<1>4. CASE i # j
  BY <1>1, <1>2, <1>4 DEF CreateRow, Dispatch, DispatchRaises,
     RecordDispatchFailure, CreatorCrash, Save, Write, TypeInv, TypeOK
<1>5. CASE i = j
  BY <1>1, <1>2, <1>3, <1>5 DEF CreateRow, Dispatch, DispatchRaises,
     RecordDispatchFailure, CreatorCrash, Save, Write, TypeInv, TypeOK
<1>6. QED
  BY <1>4, <1>5

\* Once a job is FAILED with no run past the guard, no step revives it: the
\* guard turns every later delivery away.
LEMMA GivenUpStep ==
    ASSUME TypeInv, Undispatched, [Next]_vars, NEW j \in Jobs, GivenUp(j)
    PROVE  GivenUp(j)'
<1>1. /\ status[j] = "FAILED"
      /\ \A s \in Slots : exec[s].job = j => exec[s].pc \notin Running
  BY DEF GivenUp
<1>2. CASE CreatorNext
  BY <1>1, <1>2, CreatorLocal DEF GivenUp, Terminal
<1>3. CASE \E s \in Slots, i \in Jobs, a \in Attempts : Deliver(s, i, a)
  <2>1. PICK s \in Slots, i \in Jobs, a \in Attempts : Deliver(s, i, a)
    BY <1>3
  <2>2. OnlySlot(s) /\ exec'[s].pc = "fetched" /\ UNCHANGED status
    BY <2>1, DeliverRun DEF Deliver
  <2>3. QED
    BY <1>1, <2>2 DEF GivenUp, OnlySlot, Running
<1>4. CASE \E s \in Slots : Works(s)
  <2>1. PICK s \in Slots : Works(s)
    BY <1>4
  <2>2. /\ OnlySlot(s) /\ OnlyJob(exec[s].job) /\ exec[s].job \in Jobs
        /\ exec'[s].job \in {exec[s].job, NoJob}
    BY <2>1, WorksLocal
  <2>3. CASE exec[s].job # j
    BY <1>1, <2>2, <2>3, ConstantsAssumption DEF GivenUp, OnlySlot, OnlyJob
  <2>4. CASE exec[s].job = j
    <3>1. exec[s].pc \notin Running
      BY <1>1, <2>4
    <3>2. exec'[s].pc \notin Running
      <4>1. Idle.pc = "idle"
        BY DEF Idle
      <4>2. CASE Redeliver(s) \/ Ack(s) \/ WorkerLost(s) \/ HardKill(s)
        BY <3>1, <4>1, <4>2, RedeliverRun, IdleAgain DEF Running
      <4>3. CASE BeginRead(s)
        BY <1>1, <2>4, <4>3, BeginReadRun DEF AlreadyResolved, Terminal, Running
      <4>4. CASE \/ BeginCommit(s) \/ ListPrefix(s) \/ ReadFile(s) \/ Upsert(s)
                 \/ UpsertNothing(s) \/ MarkComplete(s)
        BY <3>1, <4>4, BeginCommitRun, ListPrefixRun, ReadFileRun, UpsertRun,
           UpsertNothingRun, MarkCompleteRun DEF Running
      <4>5. CASE \E c \in {"transient", "permanent"} : Catch(s, c)
        BY <4>5, CatchRun DEF Running
      <4>6. CASE HandlerRead(s) \/ HandlerCommit(s) \/ HandlerFails(s)
        BY <4>6, HandlerReadRun, HandlerEndRun DEF Running
      <4>7. CASE Return(s) \/ Retry(s) \/ OnFailure(s)
        BY <4>7, EpilogueRun DEF Running
      <4>8. QED
        BY <2>1, <4>2, <4>3, <4>4, <4>5, <4>6, <4>7 DEF Works
    <3>3. status'[j] = "FAILED"
      <4>1. ~(BeginCommit(s) \/ MarkComplete(s))
        BY <3>1, BeginCommitRun, MarkCompleteRun DEF Running
      <4>2. CASE HandlerCommit(s)
        BY <1>1, <2>4, <4>2 DEF HandlerCommit, Save, Write, TypeInv, TypeOK
      <4>3. CASE ~HandlerCommit(s)
        BY <1>1, <2>1, <4>1, <4>3 DEF Works, Redeliver, Ack, WorkerLost, HardKill,
           BeginRead, ListPrefix, ReadFile, Touch, Upsert, UpsertNothing, Return,
           Catch, HandlerRead, HandlerFails, Retry, OnFailure
      <4>4. QED
        BY <4>2, <4>3
    <3>4. QED
      BY <1>1, <2>2, <3>2, <3>3 DEF GivenUp, OnlySlot
  <2>5. QED
    BY <2>3, <2>4
<1>5. CASE WatchdogNext
  <2>1. UNCHANGED exec
    BY <1>5 DEF WatchdogNext, GoStale, Scan, CommitSweep, AbortSweep
  <2>2. status'[j] = "FAILED"
    BY <1>1, <1>5 DEF WatchdogNext, GoStale, Scan, CommitSweep, AbortSweep
  <2>3. QED
    BY <1>1, <2>1, <2>2 DEF GivenUp
<1>6. CASE UNCHANGED vars
  BY <1>1, <1>6 DEF vars, GivenUp
<1>7. QED
  BY <1>2, <1>3, <1>4, <1>5, <1>6, NextCases

\* No redelivery, retry or duplicate ever brings back a job that was given up
\* (the guard of begin_tracked_job).
THEOREM GivenUpStays == Spec => GivenUpIsFinal
<1>1. TypeInv /\ Undispatched /\ [Next]_vars
        => [\A j \in Jobs : GivenUp(j) => GivenUp(j)']_vars
  BY GivenUpStep
<1>2. QED
  BY <1>1, UndispatchedInvariant, PTL DEF Spec, GivenUpIsFinal

\* A finished job leaves COMPLETE only through an error in the first SELECT of
\* begin_tracked_job.
LEMMA FinishedStep ==
    ASSUME TypeInv, Undispatched, [Next]_vars, NEW j \in Jobs, Finished(j)
    PROVE  \/ Finished(j)'
           \/ \E s \in Slots : /\ exec[s].job = j
                               /\ exec[s].pc = "fetched"
                               /\ exec'[s].pc = "caught"
<1> DEFINE Past == {"fetched", "raised", "returned"}
<1>1. /\ status[j] = "COMPLETE" /\ creator[j] # "refused"
      /\ \A w \in Sweepers : j \notin doomed[w]
      /\ \A s \in Slots : exec[s].job = j => exec[s].pc \in Past
  BY DEF Finished
<1>2. CASE CreatorNext
  BY <1>1, <1>2, CreatorLocal DEF Finished, Terminal
<1>3. CASE \E s \in Slots, i \in Jobs, a \in Attempts : Deliver(s, i, a)
  <2>1. PICK s \in Slots, i \in Jobs, a \in Attempts : Deliver(s, i, a)
    BY <1>3
  <2>2. /\ OnlySlot(s) /\ exec'[s].pc = "fetched"
        /\ UNCHANGED <<status, creator, doomed>>
    BY <2>1, DeliverRun DEF Deliver
  <2>3. QED
    BY <1>1, <2>2 DEF Finished, OnlySlot
<1>4. CASE \E s \in Slots : Works(s)
  <2>1. PICK s \in Slots : Works(s)
    BY <1>4
  <2>2. /\ OnlySlot(s) /\ OnlyJob(exec[s].job) /\ exec[s].job \in Jobs
        /\ exec'[s].job \in {exec[s].job, NoJob}
        /\ UNCHANGED <<creator, doomed>>
    BY <2>1, WorksLocal
  <2>3. CASE exec[s].job # j
    BY <1>1, <2>2, <2>3, ConstantsAssumption DEF Finished, OnlySlot, OnlyJob
  <2>4. CASE exec[s].job = j
    <3>1. exec[s].pc \in Past
      BY <1>1, <2>4
    <3>2. CASE \E c \in {"transient", "permanent"} : Catch(s, c)
      <4>1. exec[s].pc = "fetched" /\ exec'[s].pc = "caught"
        BY <3>1, <3>2, CatchRun DEF Running
      <4>2. QED
        BY <2>4, <4>1
    <3>3. CASE Redeliver(s) \/ Ack(s) \/ WorkerLost(s) \/ HardKill(s)
      <4>1. exec'[s].job # NoJob => exec'[s].pc \in Past
        BY <3>1, <3>3, RedeliverRun, IdleAgain DEF Idle
      <4>2. status' = status
        BY <3>3 DEF Redeliver, Ack, WorkerLost, HardKill
      <4>3. QED
        BY <1>1, <2>2, <4>1, <4>2, ConstantsAssumption DEF Finished, OnlySlot
    <3>4. CASE BeginRead(s) \/ Return(s) \/ Retry(s) \/ OnFailure(s)
      <4>1. exec'[s].pc = "returned"
        BY <1>1, <2>4, <3>4, BeginReadRun, EpilogueRun DEF AlreadyResolved, Terminal
      <4>2. status' = status
        BY <3>4 DEF BeginRead, Return, Retry, OnFailure
      <4>3. QED
        BY <1>1, <2>2, <4>1, <4>2 DEF Finished, OnlySlot
    <3>5. CASE \/ BeginCommit(s) \/ ListPrefix(s) \/ ReadFile(s) \/ Upsert(s)
               \/ UpsertNothing(s) \/ MarkComplete(s) \/ HandlerRead(s)
               \/ HandlerCommit(s) \/ HandlerFails(s)
      BY <3>1, <3>5, BeginCommitRun, ListPrefixRun, ReadFileRun, UpsertRun,
         UpsertNothingRun, MarkCompleteRun, HandlerReadRun, HandlerEndRun
    <3>6. QED
      BY <2>1, <3>2, <3>3, <3>4, <3>5 DEF Works
  <2>5. QED
    BY <2>3, <2>4
<1>5. CASE WatchdogNext
  <2>1. UNCHANGED <<exec, creator>>
    BY <1>5 DEF WatchdogNext, GoStale, Scan, CommitSweep, AbortSweep
  <2>2. status'[j] = "COMPLETE"
    BY <1>1, <1>5 DEF WatchdogNext, GoStale, Scan, CommitSweep, AbortSweep
  <2>3. \A w \in Sweepers : j \notin doomed'[w]
    BY <1>1, <1>5 DEF WatchdogNext, GoStale, Scan, IsStuck, InProcess,
       CommitSweep, AbortSweep, TypeInv, TypeOK
  <2>4. QED
    BY <1>1, <2>1, <2>2, <2>3 DEF Finished
<1>6. CASE UNCHANGED vars
  BY <1>1, <1>6 DEF vars, Finished
<1>7. QED
  BY <1>2, <1>3, <1>4, <1>5, <1>6, NextCases

\* A COMPLETE job nobody holds an earlier view of stays COMPLETE under every
\* redelivery and every sweep, with the one exception FinishedIsFinal names.
THEOREM FinishedStays == Spec => FinishedIsFinal
<1>1. TypeInv /\ Undispatched /\ [Next]_vars
        => [\A j \in Jobs : Finished(j) =>
              \/ Finished(j)'
              \/ \E s \in Slots : /\ exec[s].job = j
                                  /\ exec[s].pc = "fetched"
                                  /\ exec'[s].pc = "caught"]_vars
  BY FinishedStep
<1>2. QED
  BY <1>1, UndispatchedInvariant, PTL DEF Spec, FinishedIsFinal

--------------------------------------------------------------------------------
(* An ingest reads COMPLETE only when its rows are stored *)

StoredInv == FinishingMeansStored /\ CompleteMeansStored

\* No run and no COMPLETE row at the start.
LEMMA StoredInvInit == Init => StoredInv
BY ConstantsAssumption
   DEF Init, StoredInv, FinishingMeansStored, CompleteMeansStored, Idle

\* A run about to report has stored its rows, and rows are never deleted.
LEMMA StoredInvStep == TypeInv /\ StoredInv /\ [Next]_vars => StoredInv'
<1> SUFFICES ASSUME TypeInv, StoredInv, [Next]_vars PROVE StoredInv'
  OBVIOUS
<1>1. CASE CreatorNext
  <2>1. UNCHANGED <<stored, exec>>
    BY <1>1 DEF CreatorNext, CreateRow, Dispatch, DispatchRaises,
       RecordDispatchFailure, CreatorCrash
  <2>2. \A i \in Jobs : status'[i] = "COMPLETE" => status[i] = "COMPLETE"
    BY <1>1 DEF CreatorNext, CreateRow, Dispatch, DispatchRaises,
       RecordDispatchFailure, CreatorCrash, Save, Write, TypeInv, TypeOK
  <2>3. QED
    BY <2>1, <2>2, ConstantsAssumption
       DEF StoredInv, FinishingMeansStored, CompleteMeansStored
<1>2. CASE \E s \in Slots, j \in Jobs, a \in Attempts : Deliver(s, j, a)
  <2>1. PICK s \in Slots, j \in Jobs, a \in Attempts : Deliver(s, j, a)
    BY <1>2
  <2>2. OnlySlot(s) /\ exec'[s].pc = "fetched" /\ UNCHANGED <<status, stored>>
    BY <2>1, DeliverRun DEF Deliver
  <2>3. QED
    BY <2>2 DEF StoredInv, FinishingMeansStored, CompleteMeansStored, OnlySlot
<1>3. CASE \E s \in Slots : Works(s)
  <2>1. PICK s \in Slots : Works(s)
    BY <1>3
  <2>2. OnlySlot(s) /\ OnlyJob(exec[s].job) /\ exec[s].job \in Jobs
    BY <2>1, WorksLocal
  <2>3. stored \subseteq stored'
    BY <2>1 DEF Works, Redeliver, Ack, WorkerLost, HardKill, BeginRead, BeginCommit,
       ListPrefix, ReadFile, Upsert, UpsertNothing, MarkComplete, Return, Catch,
       HandlerRead, HandlerCommit, HandlerFails, Retry, OnFailure
  <2>4. exec'[s].pc = "finishing" => exec'[s].job \in stored'
    <3>1. CASE Upsert(s) \/ UpsertNothing(s)
      BY <3>1, UpsertRun, UpsertNothingRun DEF Upsert, UpsertNothing
    <3>2. CASE Redeliver(s)
      BY <2>2, <2>3, <3>2, RedeliverRun DEF StoredInv, FinishingMeansStored
    <3>3. CASE ~(Upsert(s) \/ UpsertNothing(s) \/ Redeliver(s))
      BY <2>1, <3>3, IdleAgain, BeginReadRun, BeginCommitRun, ListPrefixRun,
         ReadFileRun, MarkCompleteRun, CatchRun, HandlerReadRun, HandlerEndRun,
         EpilogueRun DEF Works, Idle
    <3>4. QED
      BY <3>1, <3>2, <3>3
  <2>5. ASSUME NEW j \in Ingests, status'[j] = "COMPLETE" PROVE j \in stored'
    <3>1. CASE status[j] = "COMPLETE"
      BY <2>3, <3>1 DEF StoredInv, CompleteMeansStored
    <3>2. CASE status[j] # "COMPLETE"
      <4>1. j = exec[s].job
        BY <2>2, <2>5, <3>2, ConstantsAssumption DEF OnlyJob
      <4>2. MarkComplete(s)
        BY <2>1, <2>5, <3>2, <4>1 DEF Works, Redeliver, Ack, WorkerLost, HardKill,
           BeginRead, BeginCommit, ListPrefix, ReadFile, Upsert, UpsertNothing,
           Touch, Return, Catch, HandlerRead, HandlerCommit, HandlerFails, Retry,
           OnFailure, Save, Write, TypeInv, TypeOK
      <4>3. exec[s].pc = "finishing"
        BY <4>1, <4>2 DEF MarkComplete
      <4>4. QED
        BY <2>3, <4>1, <4>3 DEF StoredInv, FinishingMeansStored
    <3>3. QED
      BY <3>1, <3>2
  <2>6. QED
    BY <2>2, <2>3, <2>4, <2>5
       DEF StoredInv, FinishingMeansStored, CompleteMeansStored, OnlySlot
<1>4. CASE WatchdogNext
  <2>1. UNCHANGED <<stored, exec>>
    BY <1>4 DEF WatchdogNext, GoStale, Scan, CommitSweep, AbortSweep
  <2>2. \A i \in Jobs : status'[i] = "COMPLETE" => status[i] = "COMPLETE"
    BY <1>4 DEF WatchdogNext, GoStale, Scan, CommitSweep, AbortSweep
  <2>3. QED
    BY <2>1, <2>2, ConstantsAssumption
       DEF StoredInv, FinishingMeansStored, CompleteMeansStored
<1>5. CASE UNCHANGED vars
  BY <1>5 DEF vars, StoredInv, FinishingMeansStored, CompleteMeansStored
<1>6. QED
  BY <1>1, <1>2, <1>3, <1>4, <1>5, NextCases

\* run_ingest_batch reports COMPLETE only after its rows are committed, whatever
\* crashes, overlaps and redeliveries its runs meet.
THEOREM CompleteIsStored == Spec => []CompleteMeansStored
<1>1. StoredInv => CompleteMeansStored
  BY DEF StoredInv
<1>2. Spec => [](TypeInv /\ StoredInv)
  BY TypeInvInit, TypeInvStep, StoredInvInit, StoredInvStep, PTL DEF Spec
<1>3. QED
  BY <1>1, <1>2, PTL

--------------------------------------------------------------------------------
(* A PENDING row has its message *)

\* No run at the start.
LEMMA BegunInit == Init => BegunMeansStarted
BY DEF Init, BegunMeansStarted, Begun, Idle

\* What a slot may write.
LEMMA WorksWrites ==
    ASSUME NEW s \in Slots, Works(s)
    PROVE  \/ status' = status
           \/ \E st \in {"IN_PROCESS", "COMPLETE", "FAILED"} :
                 status' = [status EXCEPT ![exec[s].job] = st]
BY DEF Works, Redeliver, Ack, WorkerLost, HardKill, BeginRead, BeginCommit,
       ListPrefix, ReadFile, Touch, Upsert, UpsertNothing, MarkComplete, Return,
       Catch, HandlerRead, HandlerCommit, HandlerFails, Retry, OnFailure, Save, Write

\* A row that has left PENDING does not return to it.
LEMMA StartedStep ==
    ASSUME TypeInv, Undispatched, [Next]_vars, NEW j \in Jobs, Started(j)
    PROVE  Started(j)'
<1>1. status[j] \notin {"ABSENT", "PENDING"} /\ creator[j] # "new"
  BY DEF Started, Undispatched
<1>2. CASE CreatorNext
  BY <1>1, <1>2 DEF CreatorNext, CreateRow, Dispatch, DispatchRaises,
     RecordDispatchFailure, CreatorCrash, Save, Write, Started, TypeInv, TypeOK
<1>3. CASE \E s \in Slots, i \in Jobs, a \in Attempts : Deliver(s, i, a)
  BY <1>1, <1>3 DEF Deliver, Started
<1>4. CASE \E s \in Slots : Works(s)
  <2>1. PICK s \in Slots : Works(s)
    BY <1>4
  <2>2. status' = status \/ \E st \in {"IN_PROCESS", "COMPLETE", "FAILED"} :
                               status' = [status EXCEPT ![exec[s].job] = st]
    BY <2>1, WorksWrites
  <2>3. QED
    BY <1>1, <2>2 DEF Started, TypeInv, TypeOK
<1>5. CASE WatchdogNext
  BY <1>1, <1>5 DEF WatchdogNext, GoStale, Scan, CommitSweep, AbortSweep, Started
<1>6. CASE UNCHANGED vars
  BY <1>1, <1>6 DEF vars, Started
<1>7. QED
  BY <1>2, <1>3, <1>4, <1>5, <1>6, NextCases

\* A run that has begun has moved its row out of PENDING for good.
LEMMA BegunStep ==
    TypeInv /\ Undispatched /\ BegunMeansStarted /\ [Next]_vars
        => BegunMeansStarted'
<1> SUFFICES ASSUME TypeInv, Undispatched, BegunMeansStarted, [Next]_vars,
                    NEW t \in Slots, Begun(t)'
             PROVE  Started(exec[t].job)'
  BY DEF BegunMeansStarted
<1>1. CASE exec'[t] = exec[t]
  <2>1. Begun(t) /\ Started(exec[t].job)
    BY <1>1 DEF Begun, BegunMeansStarted
  <2>2. exec[t].job \in Jobs
    BY <2>1, RunFields DEF Begun, TypeInv, TypeOK, SlotInv
  <2>3. Started(exec[t].job)' <=> status'[exec[t].job] \notin {"ABSENT", "PENDING"}
    BY <1>1 DEF Started
  <2>4. \A j \in Jobs : Started(j) => status'[j] \notin {"ABSENT", "PENDING"}
    BY StartedStep DEF Started
  <2>5. QED
    BY <2>1, <2>2, <2>3, <2>4
<1>2. CASE exec'[t] # exec[t]
  <2>1. ~CreatorNext /\ ~WatchdogNext /\ vars' # vars
    BY <1>2 DEF CreatorNext, CreateRow, Dispatch, DispatchRaises,
       RecordDispatchFailure, CreatorCrash, WatchdogNext, GoStale, Scan,
       CommitSweep, AbortSweep, vars
  <2>2. ~\E s \in Slots, j \in Jobs, a \in Attempts : Deliver(s, j, a)
    BY <1>2, DeliverRun DEF Begun, OnlySlot
  <2>3. PICK s \in Slots : Works(s)
    BY <2>1, <2>2, NextCases
  <2>4. t = s /\ exec[s].pc # "idle" /\ exec[s].job \in Jobs
    BY <1>2, <2>3, WorksLocal DEF OnlySlot
  <2>5. status[exec[s].job] \in RowStatus
    BY <2>4 DEF TypeInv, TypeOK
  <2>6. CASE Ack(s) \/ WorkerLost(s) \/ HardKill(s)
    BY <2>4, <2>6, IdleAgain DEF Begun, Idle
  <2>7. CASE \/ Return(s) \/ Retry(s) \/ OnFailure(s)
            \/ \E c \in {"transient", "permanent"} : Catch(s, c)
            \/ HandlerCommit(s) \/ HandlerFails(s)
    BY <2>4, <2>7, EpilogueRun, CatchRun, HandlerEndRun DEF Begun
  <2>8. CASE BeginRead(s)
    BY <2>4, <2>5, <2>8, BeginReadRun
       DEF Begun, BeginRead, Started
  <2>9. CASE HandlerRead(s) \/ UpsertNothing(s)
    <3>1. Begun(s) \/ HandlerRead(s)
      BY <2>9, UpsertNothingRun DEF Begun
    <3>2. QED
      BY <2>4, <2>5, <2>9, <3>1, HandlerReadRun, UpsertNothingRun
         DEF Begun, BegunMeansStarted, HandlerRead, UpsertNothing, Started
  <2>10. CASE Redeliver(s) \/ ListPrefix(s) \/ ReadFile(s) \/ Upsert(s)
    <3>1. /\ exec'[s].job = exec[s].job /\ status' = status
          /\ Begun(s)
      BY <2>4, <2>10, RedeliverRun, ListPrefixRun, ReadFileRun, UpsertRun
         DEF Begun, Redeliver, ListPrefix, ReadFile, Touch, Upsert
    <3>2. QED
      BY <2>4, <3>1 DEF BegunMeansStarted, Started
  <2>11. CASE BeginCommit(s)
    <3>1. exec'[s].job = exec[s].job
      BY <2>11, BeginCommitRun
    <3>2. exec[s].seen = "IN_PROCESS" => Started(exec[s].job)
      BY <2>4 DEF BegunMeansStarted, Begun
    <3>3. QED
      BY <2>4, <2>11, <3>1, <3>2
         DEF BeginCommit, Save, Write, Started, TypeInv, TypeOK
  <2>12. CASE MarkComplete(s)
    <3>1. exec'[s].job = exec[s].job /\ Begun(s)
      BY <2>12, MarkCompleteRun DEF Begun
    <3>2. QED
      BY <2>4, <2>12, <3>1
         DEF MarkComplete, Save, Write, BegunMeansStarted, Started, TypeInv, TypeOK
  <2>13. QED
    BY <2>3, <2>6, <2>7, <2>8, <2>9, <2>10, <2>11, <2>12 DEF Works
<1>3. QED
  BY <1>1, <1>2

\* A slot with a job takes no message, keeps every fate and never writes PENDING.
LEMMA WorksGrows ==
    ASSUME TypeInv, NEW s \in Slots, Works(s), NEW j \in Jobs
    PROVE  /\ \A a \in Attempts : queue[j][a] > 0 => queue'[j][a] > 0
           /\ fate[j] \subseteq fate'[j]
           /\ status'[j] = "PENDING" => status[j] = "PENDING"
<1> DEFINE k == exec[s].job
<1>1. k \in Jobs /\ OnlyJob(k) /\ exec[s].attempt \in Attempts
  BY WorksLocal, RunFields DEF TypeInv, TypeOK
<1>2. \A a \in Attempts : queue[j][a] > 0 => queue'[j][a] > 0
  <2>1. CASE Redeliver(s) \/ WorkerLost(s)
    BY <1>1, <2>1, PublishLocal DEF Redeliver, WorkerLost, Requeue
  <2>2. CASE Retry(s)
    <3>1. exec[s].attempt + 1 \in Attempts
      BY <1>1, <2>2, ConstantsAssumption DEF Attempts, Retry, Retryable
    <3>2. QED
      BY <1>1, <2>2, <3>1, PublishLocal DEF Retry
  <2>3. CASE ~(Redeliver(s) \/ WorkerLost(s) \/ Retry(s))
    BY <2>3 DEF Works, Ack, HardKill, BeginRead, BeginCommit, ListPrefix, ReadFile,
         Upsert, UpsertNothing, MarkComplete, Return, Catch, HandlerRead,
         HandlerCommit, HandlerFails, OnFailure
  <2>4. QED
    BY <2>1, <2>2, <2>3
<1>3. fate[j] \subseteq fate'[j]
  <2>1. CASE HardKill(s) \/ OnFailure(s)
    BY <1>1, <2>1 DEF HardKill, OnFailure, TypeInv, TypeOK
  <2>2. CASE ~(HardKill(s) \/ OnFailure(s))
    BY <2>2 DEF Works, Redeliver, Ack, WorkerLost, BeginRead, BeginCommit,
         ListPrefix, ReadFile, Upsert, UpsertNothing, MarkComplete, Return, Catch,
         HandlerRead, HandlerCommit, HandlerFails, Retry
  <2>3. QED
    BY <2>1, <2>2
<1>4. status'[j] = "PENDING" => status[j] = "PENDING"
  BY <1>1, WorksWrites DEF TypeInv, TypeOK
<1>5. QED
  BY <1>2, <1>3, <1>4

\* A run that holds the message of a PENDING row passes it on, or its end is
\* reported or was a hard kill.
LEMMA CarrierPassesOn ==
    ASSUME TypeInv, BegunMeansStarted, NEW s \in Slots, Works(s), NEW j \in Jobs,
           exec[s].job = j, exec[s].tag = "unacked", exec[s].pc # "returned",
           status[j] = "PENDING"
    PROVE  Carried(j)' \/ fate'[j] # {}
<1>1. /\ OnlySlot(s) /\ exec[s].attempt \in Attempts /\ exec[s].pc # "idle"
  BY WorksLocal, RunFields DEF TypeInv, TypeOK
<1>2. CASE Redeliver(s) \/ WorkerLost(s)
  <2>1. queue'[j][exec[s].attempt] > 0
    BY <1>1, <1>2, PublishLocal DEF Redeliver, WorkerLost, Requeue
  <2>2. QED
    BY <1>1, <2>1 DEF Carried
<1>3. CASE Retry(s)
  <2>1. exec[s].attempt + 1 \in Attempts
    BY <1>1, <1>3, ConstantsAssumption DEF Attempts, Retry, Retryable
  <2>2. queue'[j][exec[s].attempt + 1] > 0
    <3>1. queue[j][exec[s].attempt + 1] \in Nat
      BY <2>1 DEF TypeInv, TypeOK
    <3>2. CASE queue[j][exec[s].attempt + 1] < MaxCopies
      BY <1>3, <2>1, <3>2, PublishLocal DEF Retry
    <3>3. CASE ~(queue[j][exec[s].attempt + 1] < MaxCopies)
      BY <1>3, <3>1, <3>3, ConstantsAssumption DEF Retry
    <3>4. QED
      BY <3>2, <3>3
  <2>3. QED
    BY <2>1, <2>2 DEF Carried
<1>4. CASE HardKill(s) \/ OnFailure(s)
  BY <1>4 DEF HardKill, OnFailure, TypeInv, TypeOK
<1>5. CASE Ack(s) \/ Return(s)
  BY <1>5 DEF Ack, Return, BegunMeansStarted, Begun, Started
<1>6. CASE BeginRead(s)
  BY <1>6, BeginReadRun DEF AlreadyResolved, Terminal, Carried
<1>7. CASE BeginCommit(s) \/ ListPrefix(s) \/ ReadFile(s) \/ Upsert(s)
  BY <1>7, BeginCommitRun, ListPrefixRun, ReadFileRun, UpsertRun DEF Carried
<1>8. CASE UpsertNothing(s) \/ MarkComplete(s) \/ HandlerRead(s)
  BY <1>8, UpsertNothingRun, MarkCompleteRun, HandlerReadRun DEF Carried
<1>9. CASE \/ HandlerCommit(s) \/ HandlerFails(s)
           \/ \E c \in {"transient", "permanent"} : Catch(s, c)
  BY <1>9, HandlerEndRun, CatchRun DEF Carried
<1>10. QED
  BY <1>2, <1>3, <1>4, <1>5, <1>6, <1>7, <1>8, <1>9 DEF Works

\* No row is PENDING at the start.
LEMMA CarrierInit == Init => PendingHasCarrier
BY DEF Init, PendingHasCarrier

\* Every step leaves a dispatched PENDING row with a carrier or a recorded fate.
LEMMA CarrierStep ==
    TypeInv /\ Undispatched /\ BegunMeansStarted /\ PendingHasCarrier /\ [Next]_vars
        => PendingHasCarrier'
<1> SUFFICES ASSUME TypeInv, BegunMeansStarted, PendingHasCarrier, [Next]_vars,
                    NEW j \in Jobs, status'[j] = "PENDING", creator'[j] = "returned"
             PROVE  Carried(j)' \/ fate'[j] # {}
  BY DEF PendingHasCarrier
<1>1. CASE CreatorNext
  <2>1. PICK i \in Jobs : \/ CreateRow(i) \/ Dispatch(i) \/ DispatchRaises(i)
                         \/ RecordDispatchFailure(i) \/ CreatorCrash(i)
    BY <1>1 DEF CreatorNext
  <2>2. UNCHANGED <<exec, fate>>
    BY <2>1 DEF CreateRow, Dispatch, DispatchRaises, RecordDispatchFailure, CreatorCrash
  <2>3. 0 \in Attempts
    BY ConstantsAssumption DEF Attempts
  <2>4. CASE i = j
    <3>1. Dispatch(i)
      BY <2>1, <2>4 DEF CreateRow, DispatchRaises, RecordDispatchFailure,
         CreatorCrash, TypeInv, TypeOK
    <3>2. queue'[j][0] > 0
      BY <2>3, <2>4, <3>1, PublishLocal DEF Dispatch
    <3>3. QED
      BY <2>3, <3>2 DEF Carried
  <2>5. CASE i # j
    <3>1. /\ status[j] = "PENDING" /\ creator[j] = "returned" /\ queue'[j] = queue[j]
      BY <2>1, <2>5 DEF CreateRow, Dispatch, DispatchRaises, RecordDispatchFailure,
         CreatorCrash, Publish, Save, Write, TypeInv, TypeOK
    <3>2. QED
      BY <2>2, <3>1 DEF PendingHasCarrier, Carried
  <2>6. QED
    BY <2>4, <2>5
<1>2. CASE \E s \in Slots, i \in Jobs, a \in Attempts : Deliver(s, i, a)
  <2>1. PICK s \in Slots, i \in Jobs, a \in Attempts : Deliver(s, i, a)
    BY <1>2
  <2>2. /\ OnlySlot(s) /\ exec[s].pc = "idle" /\ exec'[s].pc = "fetched"
        /\ exec'[s].job = i /\ exec'[s].tag = "unacked"
        /\ UNCHANGED <<status, creator, fate>>
    BY <2>1, DeliverRun DEF Deliver
  <2>3. CASE i = j
    BY <2>2, <2>3 DEF Carried
  <2>4. CASE i # j
    <3>1. queue'[j] = queue[j]
      BY <2>1, <2>4 DEF Deliver, TypeInv, TypeOK
    <3>2. exec[s].job # j
      BY <2>2, ConstantsAssumption DEF TypeInv, SlotInv
    <3>3. Carried(j) \/ fate[j] # {}
      BY <2>2 DEF PendingHasCarrier
    <3>4. QED
      BY <2>2, <3>1, <3>2, <3>3 DEF Carried, OnlySlot
  <2>5. QED
    BY <2>3, <2>4
<1>3. CASE \E s \in Slots : Works(s)
  <2>1. PICK s \in Slots : Works(s)
    BY <1>3
  <2>2. OnlySlot(s) /\ UNCHANGED <<creator, doomed>>
    BY <2>1, WorksLocal
  <2>3. /\ \A a \in Attempts : queue[j][a] > 0 => queue'[j][a] > 0
        /\ fate[j] \subseteq fate'[j]
        /\ status[j] = "PENDING"
    BY <2>1, WorksGrows
  <2>4. Carried(j) \/ fate[j] # {}
    BY <2>2, <2>3 DEF PendingHasCarrier
  <2>5. CASE exec[s].job = j /\ exec[s].tag = "unacked" /\ exec[s].pc # "returned"
    BY <2>1, <2>3, <2>5, CarrierPassesOn
  <2>6. CASE ~(exec[s].job = j /\ exec[s].tag = "unacked" /\ exec[s].pc # "returned")
    BY <2>2, <2>3, <2>4, <2>6 DEF Carried, OnlySlot
  <2>7. QED
    BY <2>5, <2>6
<1>4. CASE WatchdogNext
  <2>1. UNCHANGED <<creator, queue, exec, fate>> /\ status[j] = "PENDING"
    BY <1>4 DEF WatchdogNext, GoStale, Scan, CommitSweep, AbortSweep
  <2>2. QED
    BY <2>1 DEF PendingHasCarrier, Carried
<1>5. CASE UNCHANGED vars
  BY <1>5 DEF vars, PendingHasCarrier, Carried
<1>6. QED
  BY <1>1, <1>2, <1>3, <1>4, <1>5, NextCases

\* Once the create call has returned, a PENDING row, which the watchdog never
\* examines, has a message that will be processed, or the end of its message was
\* reported or was a hard kill.
THEOREM PendingIsCarried == Spec => []PendingHasCarrier
<1>1. Spec => [](TypeInv /\ Undispatched)
  BY UndispatchedInvariant
<1>2. Spec => []BegunMeansStarted
  BY <1>1, BegunInit, BegunStep, PTL DEF Spec
<1>3. QED
  BY <1>1, <1>2, CarrierInit, CarrierStep, PTL DEF Spec


--------------------------------------------------------------------------------
(* What a reader may rely on whatever fails *)

\* A creator that has started has its row, and everything else a slot or a
\* sweep works on has been dispatched.
Inserted == \A j \in Jobs : creator[j] # "new" => status[j] # "ABSENT"

RowInv == TypeInv /\ Undispatched /\ StoredInv /\ Inserted

\* A row, once there, stays.
LEMMA NeverAbsent ==
    ASSUME TypeInv, [Next]_vars, NEW j \in Jobs, status[j] # "ABSENT"
    PROVE  status'[j] # "ABSENT"
<1>1. CASE CreatorNext
  BY <1>1 DEF CreatorNext, CreateRow, Dispatch, DispatchRaises,
     RecordDispatchFailure, CreatorCrash, Save, Write, TypeInv, TypeOK
<1>2. CASE \E s \in Slots, i \in Jobs, a \in Attempts : Deliver(s, i, a)
  BY <1>2 DEF Deliver
<1>3. CASE \E s \in Slots : Works(s)
  BY <1>3, WorksWrites DEF TypeInv, TypeOK
<1>4. CASE WatchdogNext
  BY <1>4 DEF WatchdogNext, GoStale, Scan, CommitSweep, AbortSweep
<1>5. CASE UNCHANGED vars
  BY <1>5 DEF vars
<1>6. QED
  BY <1>1, <1>2, <1>3, <1>4, <1>5, NextCases

\* The insert is the first thing a creator does.
LEMMA InsertedStep == TypeInv /\ Inserted /\ [Next]_vars => Inserted'
<1> SUFFICES ASSUME TypeInv, Inserted, [Next]_vars,
                    NEW j \in Jobs, creator'[j] # "new"
             PROVE  status'[j] # "ABSENT"
  BY DEF Inserted
<1>1. CASE creator[j] # "new"
  BY <1>1, NeverAbsent DEF Inserted
<1>2. CASE creator[j] = "new"
  <2>1. ~UNCHANGED creator
    BY <1>2
  <2>2. CreatorNext
    BY <2>1, NextCases, WorksLocal DEF Deliver, WatchdogNext, GoStale, Scan,
       CommitSweep, AbortSweep, vars
  <2>3. CreateRow(j)
    BY <1>2, <2>2 DEF CreatorNext, CreateRow, Dispatch, DispatchRaises,
       RecordDispatchFailure, CreatorCrash, TypeInv, TypeOK
  <2>4. QED
    BY <2>3 DEF CreateRow, Write, TypeInv, TypeOK
<1>3. QED
  BY <1>1, <1>2

LEMMA RowInvariant == Spec => []RowInv
<1>1. Init => Inserted
  BY DEF Init, Inserted
<1>2. QED
  BY <1>1, InsertedStep, TypeInvInit, TypeInvStep, UndispatchedInit,
     UndispatchedStep, StoredInvInit, StoredInvStep, PTL DEF Spec, RowInv

\* An UPDATE of one row.
LEMMA RewriteOne ==
    ASSUME TypeInv, NEW j \in Jobs, status[j] # "ABSENT",
           NEW new \in {"IN_PROCESS", "COMPLETE", "FAILED"},
           new = "COMPLETE" => j \notin Ingests \/ j \in stored,
           status' = [status EXCEPT ![j] = new], UNCHANGED stored
    PROVE  Row!Next
<1>1. Row!Rewrite({j}, new)
  BY DEF Row!Rewrite, TypeInv, TypeOK
<1>2. {j} \in SUBSET Jobs /\ new \in Status \ {"PENDING"}
  BY DEF Status
<1>3. QED
  BY <1>1, <1>2 DEF Row!Next, Row!Status, Status

\* Every transaction of the system is one of the contract's or shows it nothing.
LEMMA RowStep ==
    ASSUME RowInv, [Next]_vars
    PROVE  [Row!Next]_<<status, stored>>
<1> USE DEF RowInv
<1>1. CASE CreatorNext
  <2>1. PICK j \in Jobs : \/ CreateRow(j) \/ Dispatch(j) \/ DispatchRaises(j)
                         \/ RecordDispatchFailure(j) \/ CreatorCrash(j)
    BY <1>1 DEF CreatorNext
  <2>2. CASE CreateRow(j)
    <3>1. status[j] = "ABSENT"
      BY <2>2 DEF CreateRow, Undispatched
    <3>2. Row!Create(j)
      BY <2>2, <3>1 DEF CreateRow, Write, Row!Create
    <3>3. QED
      BY <3>2 DEF Row!Next
  <2>3. CASE RecordDispatchFailure(j)
    <3>1. status[j] # "ABSENT" /\ stored' = stored
      BY <2>3 DEF RecordDispatchFailure, Inserted
    <3>2. status' = [status EXCEPT ![j] = "FAILED"]
      BY <2>3 DEF RecordDispatchFailure, Save, Write
    <3>3. QED
      BY <3>1, <3>2, RewriteOne
  <2>4. CASE Dispatch(j) \/ DispatchRaises(j) \/ CreatorCrash(j)
    BY <2>4 DEF Dispatch, DispatchRaises, CreatorCrash
  <2>5. QED
    BY <2>1, <2>2, <2>3, <2>4
<1>2. CASE \E s \in Slots, j \in Jobs, a \in Attempts : Deliver(s, j, a)
  BY <1>2 DEF Deliver
<1>3. CASE \E s \in Slots : Works(s)
  <2>1. PICK s \in Slots : Works(s)
    BY <1>3
  <2> DEFINE k == exec[s].job
  <2>2. k \in Jobs /\ status[k] # "ABSENT"
    BY <2>1, WorksLocal DEF Undispatched, Inserted
  <2>3. CASE Upsert(s) \/ UpsertNothing(s)
    <3>1. k \in Ingests
      BY <2>3, UpsertRun, UpsertNothingRun DEF TypeInv, SlotInv
    <3>2. Row!Store(k)
      BY <2>2, <2>3 DEF Upsert, UpsertNothing, Row!Store
    <3>3. QED
      BY <3>1, <3>2 DEF Row!Next
  <2>4. CASE MarkComplete(s)
    <3>1. k \notin Ingests \/ k \in stored
      BY <2>4 DEF MarkComplete, StoredInv, FinishingMeansStored
    <3>2. \/ status' = [status EXCEPT ![k] = "COMPLETE"]
          \/ UNCHANGED status
      BY <2>4 DEF MarkComplete, Save, Write
    <3>3. UNCHANGED stored
      BY <2>4 DEF MarkComplete
    <3>4. QED
      BY <2>2, <3>1, <3>2, <3>3, RewriteOne
  <2>5. CASE BeginCommit(s) \/ HandlerCommit(s)
    <3>1. UNCHANGED stored
      BY <2>5 DEF BeginCommit, HandlerCommit
    <3>2. \/ UNCHANGED status
          \/ status' = [status EXCEPT ![k] = "IN_PROCESS"]
          \/ status' = [status EXCEPT ![k] = "FAILED"]
      BY <2>5 DEF BeginCommit, HandlerCommit, Save, Write
    <3>3. QED
      BY <2>2, <3>1, <3>2, RewriteOne
  <2>6. CASE /\ ~Upsert(s) /\ ~UpsertNothing(s) /\ ~MarkComplete(s)
            /\ ~BeginCommit(s) /\ ~HandlerCommit(s)
    <3>1. \/ Redeliver(s) \/ Ack(s) \/ WorkerLost(s) \/ HardKill(s)
          \/ BeginRead(s) \/ ListPrefix(s) \/ ReadFile(s) \/ Return(s)
          \/ \E c \in {"transient", "permanent"} : Catch(s, c)
          \/ HandlerRead(s) \/ HandlerFails(s) \/ Retry(s) \/ OnFailure(s)
      BY <2>1, <2>6 DEF Works
    <3>2. UNCHANGED status /\ UNCHANGED stored
      BY <3>1 DEF Redeliver, Ack, WorkerLost, HardKill, BeginRead, ListPrefix,
         ReadFile, Touch, Return, Catch, HandlerRead, HandlerFails, Retry, OnFailure
    <3>3. QED
      BY <3>2
  <2>7. QED
    BY <2>3, <2>4, <2>5, <2>6
<1>4. CASE WatchdogNext
  <2>1. CASE \E w \in Sweepers : CommitSweep(w)
    <3>1. PICK w \in Sweepers : CommitSweep(w)
      BY <2>1
    <3>2. \A j \in doomed[w] : status[j] # "ABSENT"
      BY DEF Undispatched, Inserted, TypeInv, TypeOK
    <3>3. Row!Rewrite(doomed[w], "FAILED")
      BY <3>1, <3>2 DEF CommitSweep, Row!Rewrite
    <3>4. doomed[w] \in SUBSET Jobs /\ "FAILED" \in Row!Status \ {"PENDING"}
      BY DEF TypeInv, TypeOK, Row!Status
    <3>5. QED
      BY <3>3, <3>4 DEF Row!Next
  <2>2. CASE ~\E w \in Sweepers : CommitSweep(w)
    BY <1>4, <2>2 DEF WatchdogNext, GoStale, Scan, AbortSweep
  <2>3. QED
    BY <2>1, <2>2
<1>5. CASE UNCHANGED vars
  BY <1>5 DEF vars
<1>6. QED
  BY <1>1, <1>2, <1>3, <1>4, <1>5, NextCases

\* Under every combination of faults the lifecycle implements JobRow: its rows
\* do not vanish or go back to PENDING, and COMPLETE is written to an ingest
\* only after its rows are stored.
THEOREM RowImplemented == Spec => RowSpec
<1>1. Init => Row!Init
  BY DEF Init, Row!Init
<1>2. RowInv /\ [Next]_vars => [Row!Next]_<<status, stored>>
  BY RowStep
<1>3. QED
  BY <1>1, <1>2, RowInvariant, PTL DEF Spec, RowSpec, Row!Spec

================================================================================
