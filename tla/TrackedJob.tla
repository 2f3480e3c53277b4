------------------------------ MODULE TrackedJob -------------------------------
(***************************************************************************)
(* The life of the rows the watchdog tracks (IngestBatch, Level3Mosaic):   *)
(*                                                                         *)
(*   creator   create_ingest_batch / create_mosaic in an API or CLI        *)
(*             process: insert the row PENDING, then publish the task;     *)
(*   broker    Redis behind Celery (external): at-least-once delivery,     *)
(*             late acknowledgement, redelivery of a lost worker's message; *)
(*   slots     the children of worker_heavy, each running one task body    *)
(*             at a time: begin_tracked_job, the work, the except block,   *)
(*             and Celery's retry / on_failure epilogue;                   *)
(*   sweepers  concurrent calls of reconcile_stuck_jobs (Beat, API, CLI).  *)
(*                                                                         *)
(* Every database transaction of the code is one step, and a value read in *)
(* one transaction and used in a later one is kept in `seen'.  Sessions    *)
(* are autoflush=False, expire_on_commit=True: an assignment to an expired *)
(* attribute always emits an UPDATE, an assignment equal to the value the  *)
(* session has loaded emits none (see Save).                               *)
(*                                                                         *)
(* Time is abstract.  A row is "fresh" when it was written less than the   *)
(* staleness threshold ago and "stale" otherwise; GoStale is the passing   *)
(* of the threshold.                                                       *)
(***************************************************************************)
EXTENDS JobStatus, Naturals

CONSTANTS
    Jobs,        \* tracked rows
    Ingests,     \* those that are IngestBatch rows; the others are Level3Mosaic
    NoJob,       \* the job of an idle slot
    Slots,       \* worker_heavy children, over all containers
    Sweepers,    \* concurrent callers of reconcile_stuck_jobs
    MaxRetries,  \* settings.celery_task_max_retries
    MaxFiles,    \* bound: files a storage prefix lists
    MaxCopies,   \* bound: copies of one retry message told apart in the queue
    Faults       \* the failures the environment may produce

FaultKinds ==
    { "creator_crash",       \* the creator dies between commit and publish
      "ambiguous_dispatch",  \* publish raises although Redis took the message
      "worker_lost",         \* child OOM-killed or container gone
      "redelivery",          \* visibility_timeout fires under a live run
      "hard_kill",           \* Celery's hard time_limit kills the child
      "task_error",          \* the task body raises
      "fetch_error",         \* the first SELECT of begin_tracked_job raises
      "late_error",          \* raised after the COMPLETE commit, still in try
      "db_down",             \* the except block raises, or runs out of time
      "sweep_abort",         \* the sweep dies before its commit
      "slow_run" }           \* a run goes a whole threshold without a commit

ASSUME ConstantsAssumption ==
    /\ NoJob \notin Jobs
    /\ Ingests \subseteq Jobs
    /\ MaxRetries \in Nat
    /\ MaxFiles \in Nat
    /\ MaxCopies \in Nat \ {0}
    /\ Faults \subseteq FaultKinds

VARIABLES
    status,   \* the status column
    age,      \* updated_at against the staleness threshold
    stored,   \* ingests whose images and calibrations are in the database
    creator,  \* where the creating request is
    queue,    \* queue[j][a]: messages of job j, attempt a, waiting in Redis
    exec,     \* what each slot runs
    doomed,   \* rows a sweep has set FAILED in its session, not yet committed
    fate      \* how messages of the job ended other than by a return

rowVars == <<status, age, stored>>
vars == <<status, age, stored, creator, queue, exec, doomed, fate>>

--------------------------------------------------------------------------------
(* Types *)

Attempts == 0 .. MaxRetries

\* Inside the try block with the guard of begin_tracked_job behind it.
Running == {"begun", "working", "reading", "empty", "finishing"}

PCs == Running \cup
    {"idle", "fetched", "completed", "caught", "marking", "raised", "returned"}

\* What a slot runs.  `seen' is the status its session has loaded, EXPIRED
\* when none; `tag' is "unacked" while Redis still holds the delivery for this
\* slot; `clock' is "own" once this run has written the row itself.
Runs == [pc : PCs, job : Jobs \cup {NoJob}, attempt : Attempts,
         left : 0 .. MaxFiles, seen : RowStatus \cup {"EXPIRED"},
         tag : {"unacked", "restored"}, clock : {"own", "inherited"},
         cause : {"none", "transient", "permanent"}]

Idle == [pc |-> "idle", job |-> NoJob, attempt |-> 0, left |-> 0,
         seen |-> "EXPIRED", tag |-> "restored", clock |-> "inherited",
         cause |-> "none"]

\* "refused": the publish raised; "gone": the request ended without success.
CreatorStates == {"new", "committed", "refused", "returned", "gone"}

\* on_failure dispatches dlq_dump and swallows a failure to do so.
Fates == {"on_failure", "hard_killed"}

TypeOK ==
    /\ status \in [Jobs -> RowStatus]
    /\ age \in [Jobs -> {"fresh", "stale"}]
    /\ stored \subseteq Ingests
    /\ creator \in [Jobs -> CreatorStates]
    /\ queue \in [Jobs -> [Attempts -> Nat]]
    /\ exec \in [Slots -> Runs]
    /\ doomed \in [Sweepers -> SUBSET Jobs]
    /\ fate \in [Jobs -> SUBSET Fates]

Init ==
    /\ status = [j \in Jobs |-> "ABSENT"]
    /\ age = [j \in Jobs |-> "fresh"]
    /\ stored = {}
    /\ creator = [j \in Jobs |-> "new"]
    /\ queue = [j \in Jobs |-> [a \in Attempts |-> 0]]
    /\ exec = [s \in Slots |-> Idle]
    /\ doomed = [w \in Sweepers |-> {}]
    /\ fate = [j \in Jobs |-> {}]

--------------------------------------------------------------------------------
(* Row writes *)

\* UPDATE ... SET status, updated_at = now() WHERE id = j: no condition on the
\* status the row has by then.
Write(j, new) ==
    /\ status' = [status EXCEPT ![j] = new]
    /\ age' = [age EXCEPT ![j] = "fresh"]

\* row.status = new; commit, in a session that has loaded `seen'.
Save(j, new, seen) ==
    IF seen = new THEN UNCHANGED <<status, age>> ELSE Write(j, new)

\* A commit that writes other columns of the row.
Touch(j) ==
    /\ age' = [age EXCEPT ![j] = "fresh"]
    /\ UNCHANGED status

--------------------------------------------------------------------------------
(* The creator: create_ingest_batch, create_mosaic *)

Publish(j, a) == queue' = [queue EXCEPT ![j][a] = @ + 1]

\* Insert the JobConfiguration and the PENDING row in one transaction.
CreateRow(j) ==
    /\ creator[j] = "new"
    /\ Write(j, "PENDING")
    /\ creator' = [creator EXCEPT ![j] = "committed"]
    /\ UNCHANGED <<stored, queue, exec, doomed, fate>>

\* .delay() returns.
Dispatch(j) ==
    /\ creator[j] = "committed"
    /\ Publish(j, 0)
    /\ creator' = [creator EXCEPT ![j] = "returned"]
    /\ UNCHANGED <<status, age, stored, exec, doomed, fate>>

\* .delay() raises; the message may have been taken all the same.
DispatchRaises(j) ==
    /\ creator[j] = "committed"
    /\ \/ UNCHANGED queue
       \/ "ambiguous_dispatch" \in Faults /\ Publish(j, 0)
    /\ creator' = [creator EXCEPT ![j] = "refused"]
    /\ UNCHANGED <<status, age, stored, exec, doomed, fate>>

\* The except branch: the session has loaded PENDING (db.refresh).
RecordDispatchFailure(j) ==
    /\ creator[j] = "refused"
    /\ Save(j, "FAILED", "PENDING")
    /\ creator' = [creator EXCEPT ![j] = "gone"]
    /\ UNCHANGED <<stored, queue, exec, doomed, fate>>

\* The process dies after the first commit, or the commit of FAILED fails.
CreatorCrash(j) ==
    /\ "creator_crash" \in Faults
    /\ creator[j] \in {"committed", "refused"}
    /\ creator' = [creator EXCEPT ![j] = "gone"]
    /\ UNCHANGED <<status, age, stored, queue, exec, doomed, fate>>

--------------------------------------------------------------------------------
(* The broker (external): Redis through Celery and kombu *)

\* Variant with the bound off by one.
MayDeliverNothing(j, a) == queue[j][a] >= 0

MayDeliver(j, a) == queue[j][a] > 0

\* Every step of a slot, task and broker alike, replaces what the slot runs.
Become(s, run) == exec' = [exec EXCEPT ![s] = run]

Deliver(s, j, a) ==
    /\ exec[s].pc = "idle"
    /\ MayDeliver(j, a)
    /\ queue' = [queue EXCEPT ![j][a] = @ - 1]
    /\ Become(s, [Idle EXCEPT !.pc = "fetched", !.job = j, !.attempt = a,
                              !.tag = "unacked"])
    /\ UNCHANGED <<status, age, stored, creator, doomed, fate>>

\* visibility_timeout counts from the moment the message was taken, prefetch
\* wait included, so it can expire under a run that is within its time limit.
Redeliver(s) ==
    /\ "redelivery" \in Faults
    /\ exec[s].pc # "idle"
    /\ exec[s].tag = "unacked"
    /\ Publish(exec[s].job, exec[s].attempt)
    /\ Become(s, [exec[s] EXCEPT !.tag = "restored"])
    /\ UNCHANGED <<status, age, stored, creator, doomed, fate>>

\* task_acks_late: the message leaves Redis when the task is over.
Ack(s) ==
    /\ exec[s].pc = "returned"
    /\ Become(s, Idle)
    /\ UNCHANGED <<status, age, stored, creator, queue, doomed, fate>>

\* Variant: task_reject_on_worker_lost unset, the message is dropped.
DropMessage(s) == UNCHANGED queue

\* task_reject_on_worker_lost: what the loss of a slot does to its message.
Requeue(s) ==
    IF exec[s].tag = "unacked" THEN Publish(exec[s].job, exec[s].attempt)
                               ELSE UNCHANGED queue

\* SIGKILL/OOM of the child, or of the whole container: nothing of the task's
\* own code runs, and the open transaction is rolled back.
WorkerLost(s) ==
    /\ "worker_lost" \in Faults
    /\ exec[s].pc # "idle"
    /\ Requeue(s)
    /\ Become(s, Idle)
    /\ UNCHANGED <<status, age, stored, creator, doomed, fate>>

\* The hard time_limit: the child is killed and its message acknowledged;
\* neither the except block nor on_failure runs.
HardKill(s) ==
    /\ "hard_kill" \in Faults
    /\ exec[s].pc \notin {"idle", "returned"}
    /\ Become(s, Idle)
    /\ fate' = [fate EXCEPT ![exec[s].job] = @ \cup {"hard_killed"}]
    /\ UNCHANGED <<status, age, stored, creator, queue, doomed>>

--------------------------------------------------------------------------------
(* The task: begin_tracked_job *)

\* The task is over for Celery: only its message matters from here on.
Over(s) ==
    Become(s, [Idle EXCEPT !.pc = "returned", !.job = exec[s].job,
                           !.attempt = exec[s].attempt, !.tag = exec[s].tag])

\* Variants of the guard, each with one of the two statuses forgotten.
OnlyComplete(st) == st = "COMPLETE"
OnlyFailed(st) == st = "FAILED"

AlreadyResolved(st) == st \in Terminal

\* db.get and the guard: a resolved row makes the task return at once.
BeginRead(s) ==
    LET j == exec[s].job IN
    /\ exec[s].pc = "fetched"
    /\ IF AlreadyResolved(status[j])
       THEN Over(s)
       ELSE Become(s, [exec[s] EXCEPT !.pc = "begun", !.seen = status[j]])
    /\ UNCHANGED <<status, age, stored, creator, queue, doomed, fate>>

ClockAfter(seen) == IF seen = "IN_PROCESS" THEN "inherited" ELSE "own"

\* entity.status = IN_PROCESS; commit.  On a redelivery the session has loaded
\* IN_PROCESS, nothing is written and updated_at keeps the lost run's time.
BeginCommit(s) ==
    LET j == exec[s].job IN
    /\ exec[s].pc = "begun"
    /\ Save(j, "IN_PROCESS", exec[s].seen)
    /\ Become(s, [exec[s] EXCEPT !.pc = "working", !.seen = "EXPIRED",
                                 !.clock = ClockAfter(exec[s].seen)])
    /\ UNCHANGED <<stored, creator, queue, doomed, fate>>

--------------------------------------------------------------------------------
(* The task: the bodies of run_ingest_batch and run_mosaic_drizzle *)

AfterListing(n) == IF n = 0 THEN "empty" ELSE "reading"

\* List the prefix, commit total_files = n and processed_files = 0.  The
\* UPDATE is left out when an earlier run left exactly these values.
ListPrefix(s) ==
    LET j == exec[s].job IN
    /\ exec[s].pc = "working"
    /\ j \in Ingests
    /\ \E n \in 0 .. MaxFiles :
         \/ /\ Touch(j)
            /\ Become(s, [exec[s] EXCEPT !.pc = AfterListing(n), !.left = n,
                                         !.clock = "own"])
         \/ /\ UNCHANGED <<status, age>>
            /\ Become(s, [exec[s] EXCEPT !.pc = AfterListing(n), !.left = n])
    /\ UNCHANGED <<stored, creator, queue, doomed, fate>>

\* Download and parse one file, commit processed_files: the heartbeat.
ReadFile(s) ==
    /\ exec[s].pc = "reading"
    /\ exec[s].left > 0
    /\ Touch(exec[s].job)
    /\ Become(s, [exec[s] EXCEPT !.left = exec[s].left - 1, !.clock = "own"])
    /\ UNCHANGED <<stored, creator, queue, doomed, fate>>

\* bulk_upsert_images_and_calibrations commits the rows, and expires the batch.
Upsert(s) ==
    /\ exec[s].pc = "reading"
    /\ exec[s].left = 0
    /\ stored' = stored \cup {exec[s].job}
    /\ Become(s, [exec[s] EXCEPT !.pc = "finishing"])
    /\ UNCHANGED <<status, age, creator, queue, doomed, fate>>

\* With no files it returns before any statement: an empty set of rows is
\* stored, and no commit follows the refresh that batch.project_id triggers,
\* so the loaded status is kept.
UpsertNothing(s) ==
    /\ exec[s].pc = "empty"
    /\ stored' = stored \cup {exec[s].job}
    /\ Become(s, [exec[s] EXCEPT !.pc = "finishing",
                                 !.seen = status[exec[s].job]])
    /\ UNCHANGED <<status, age, creator, queue, doomed, fate>>

\* Variant: the status is reported before the rows are stored.
MarkCompleteFirst(s) ==
    LET j == exec[s].job IN
    /\ exec[s].pc = "reading" /\ exec[s].left = 0
    /\ Save(j, "COMPLETE", exec[s].seen)
    /\ Become(s, [exec[s] EXCEPT !.clock = "inherited"])
    /\ UNCHANGED <<stored, creator, queue, doomed, fate>>

\* status = COMPLETE; commit.  A mosaic has only slept in between.
MarkComplete(s) ==
    LET j == exec[s].job IN
    /\ \/ exec[s].pc = "finishing"
       \/ exec[s].pc = "working" /\ j \notin Ingests
    /\ Save(j, "COMPLETE", exec[s].seen)
    /\ Become(s, [exec[s] EXCEPT !.pc = "completed", !.seen = "EXPIRED",
                                 !.clock = "inherited"])
    /\ UNCHANGED <<stored, creator, queue, doomed, fate>>

\* The closing log line, still inside try, and the return.
Return(s) ==
    /\ exec[s].pc = "completed"
    /\ Over(s)
    /\ UNCHANGED <<status, age, stored, creator, queue, doomed, fate>>

--------------------------------------------------------------------------------
(* The task: errors *)

\* An exception reaches the except block.  "transient" is one of autoretry_for
\* (OSError, SAOperationalError, ...), "permanent" anything else, a soft time
\* limit included.  After COMPLETE an ingest still reads batch.total_files, so
\* the database can raise there; a mosaic can only meet its soft time limit.
Catch(s, c) ==
    /\ \/ exec[s].pc \in Running /\ "task_error" \in Faults
       \/ exec[s].pc = "fetched" /\ "fetch_error" \in Faults
       \/ /\ exec[s].pc = "completed" /\ "late_error" \in Faults
          /\ c = "transient" => exec[s].job \in Ingests
    /\ Become(s, [exec[s] EXCEPT !.pc = "caught", !.cause = c, !.left = 0,
                                 !.seen = "EXPIRED"])
    /\ UNCHANGED <<status, age, stored, creator, queue, doomed, fate>>

\* rollback, db.get: the status is loaded again.
HandlerRead(s) ==
    /\ exec[s].pc = "caught"
    /\ Become(s, [exec[s] EXCEPT !.pc = "marking", !.seen = status[exec[s].job]])
    /\ UNCHANGED <<status, age, stored, creator, queue, doomed, fate>>

\* Variant: the except block hands the row back to its retry.
HandlerResets(s) ==
    /\ exec[s].pc = "marking"
    /\ Save(exec[s].job, "PENDING", exec[s].seen)
    /\ Become(s, [exec[s] EXCEPT !.pc = "raised", !.seen = "EXPIRED",
                                 !.clock = "inherited"])
    /\ UNCHANGED <<stored, creator, queue, doomed, fate>>

\* status = FAILED; commit; raise.  Whatever the row said before.
HandlerCommit(s) ==
    /\ exec[s].pc = "marking"
    /\ Save(exec[s].job, "FAILED", exec[s].seen)
    /\ Become(s, [exec[s] EXCEPT !.pc = "raised", !.seen = "EXPIRED",
                                 !.clock = "inherited"])
    /\ UNCHANGED <<stored, creator, queue, doomed, fate>>

\* The except block itself raises, SAOperationalError or the soft time limit: this
\* replaces the cause.
HandlerFails(s) ==
    /\ "db_down" \in Faults
    /\ exec[s].pc \in {"caught", "marking"}
    /\ \E c \in {"transient", "permanent"} :
          Become(s, [exec[s] EXCEPT !.pc = "raised", !.seen = "EXPIRED",
                                    !.clock = "inherited", !.cause = c])
    /\ UNCHANGED <<status, age, stored, creator, queue, doomed, fate>>

Retryable(s) == exec[s].cause = "transient" /\ exec[s].attempt < MaxRetries

\* autoretry_for: publish the next attempt, then acknowledge this one.  Copies
\* of one retry that overlapping runs publish are merged beyond MaxCopies.
Retry(s) ==
    LET j == exec[s].job    next == exec[s].attempt + 1 IN
    /\ exec[s].pc = "raised"
    /\ Retryable(s)
    /\ IF queue[j][next] < MaxCopies THEN Publish(j, next) ELSE UNCHANGED queue
    /\ Over(s)
    /\ UNCHANGED <<status, age, stored, creator, doomed, fate>>

\* on_failure: log and dead-letter the payload; no row is written.
OnFailure(s) ==
    /\ exec[s].pc = "raised"
    /\ ~Retryable(s)
    /\ fate' = [fate EXCEPT ![exec[s].job] = @ \cup {"on_failure"}]
    /\ Over(s)
    /\ UNCHANGED <<status, age, stored, creator, queue, doomed>>

--------------------------------------------------------------------------------
(* The watchdog: reconcile_stuck_jobs *)

\* Runs whose latest write of the row is less than one threshold old.
RecentlyWritten(j) ==
    \E s \in Slots : /\ exec[s].job = j
                     /\ exec[s].clock = "own"
                     /\ exec[s].pc \in Running \cup {"caught", "marking"}

\* The threshold passes.  Unless runs may be that slow, it cannot pass while
\* a run that has itself written the row is still going.
GoStale(j) ==
    /\ status[j] = "IN_PROCESS"
    /\ age[j] = "fresh"
    /\ "slow_run" \in Faults \/ ~RecentlyWritten(j)
    /\ age' = [age EXCEPT ![j] = "stale"]
    /\ UNCHANGED <<status, stored, creator, queue, exec, doomed, fate>>

\* Variants: the age forgotten; Level3Mosaic missing from _STUCK_JOB_ENTITIES.
InProcess(j) == status[j] = "IN_PROCESS"
IsStuckIngest(j) == j \in Ingests /\ InProcess(j) /\ age[j] = "stale"

IsStuck(j) == InProcess(j) /\ age[j] = "stale"

\* SELECT the IN_PROCESS rows and set the stale ones FAILED in the session.
Scan(w) ==
    /\ doomed[w] = {}
    /\ {j \in Jobs : IsStuck(j)} # {}
    /\ doomed' = [doomed EXCEPT ![w] = {j \in Jobs : IsStuck(j)}]
    /\ UNCHANGED <<status, age, stored, creator, queue, exec, fate>>

\* The commit at the end of the sweep.
CommitSweep(w) ==
    /\ doomed[w] # {}
    /\ status' = [j \in Jobs |-> IF j \in doomed[w] THEN "FAILED" ELSE status[j]]
    /\ age' = [j \in Jobs |-> IF j \in doomed[w] THEN "fresh" ELSE age[j]]
    /\ doomed' = [doomed EXCEPT ![w] = {}]
    /\ UNCHANGED <<stored, creator, queue, exec, fate>>

\* The sweep's own soft time limit, a lost connection or a crash.
AbortSweep(w) ==
    /\ "sweep_abort" \in Faults
    /\ doomed[w] # {}
    /\ doomed' = [doomed EXCEPT ![w] = {}]
    /\ UNCHANGED <<status, age, stored, creator, queue, exec, fate>>

--------------------------------------------------------------------------------
(* The system *)

CreatorNext ==
    \E j \in Jobs : \/ CreateRow(j)
                    \/ Dispatch(j)
                    \/ DispatchRaises(j)
                    \/ RecordDispatchFailure(j)
                    \/ CreatorCrash(j)

BrokerNext ==
    \E s \in Slots : \/ \E j \in Jobs, a \in Attempts : Deliver(s, j, a)
                     \/ Redeliver(s)
                     \/ Ack(s)
                     \/ WorkerLost(s)
                     \/ HardKill(s)

TaskNext ==
    \E s \in Slots : \/ BeginRead(s)
                     \/ BeginCommit(s)
                     \/ ListPrefix(s)
                     \/ ReadFile(s)
                     \/ Upsert(s)
                     \/ UpsertNothing(s)
                     \/ MarkComplete(s)
                     \/ Return(s)
                     \/ \E c \in {"transient", "permanent"} : Catch(s, c)
                     \/ HandlerRead(s)
                     \/ HandlerCommit(s)
                     \/ HandlerFails(s)
                     \/ Retry(s)
                     \/ OnFailure(s)

WatchdogNext ==
    \/ \E j \in Jobs : GoStale(j)
    \/ \E w \in Sweepers : Scan(w) \/ CommitSweep(w) \/ AbortSweep(w)

Next == CreatorNext \/ BrokerNext \/ TaskNext \/ WatchdogNext

Spec == Init /\ [][Next]_vars

(***************************************************************************)
(* Fairness.  A healthy process goes on: the creator, a slot and its body  *)
(* (WF).  Bookkeeping is short against the work, so a crash that repeats,  *)
(* as an out-of-memory kill does, repeats in the work: a bookkeeping step  *)
(* that is attempted again and again is finished once (SF).  Beat runs the *)
(* sweep every interval, wall-clock time passes, and a sweep's commit      *)
(* succeeds in the end.  Nothing is assumed of the work under crashes.     *)
(***************************************************************************)
Bookkeeping(s) ==
    \/ BeginRead(s)
    \/ Return(s)
    \/ Retry(s)
    \/ OnFailure(s)
    \/ Ack(s)

FairSpec ==
    /\ Spec
    /\ \A j \in Jobs : /\ WF_vars(Dispatch(j) \/ DispatchRaises(j))
                       /\ WF_vars(RecordDispatchFailure(j))
                       /\ WF_vars(GoStale(j))
    /\ \A s \in Slots :
         /\ WF_vars(\E j \in Jobs, a \in Attempts : Deliver(s, j, a))
         /\ WF_vars(\/ ListPrefix(s) \/ ReadFile(s) \/ Upsert(s)
                    \/ UpsertNothing(s) \/ MarkComplete(s))
         /\ SF_vars(Bookkeeping(s))
         /\ SF_vars(BeginCommit(s))
         /\ SF_vars(HandlerRead(s))
         /\ SF_vars(HandlerCommit(s))
    /\ \A w \in Sweepers : WF_vars(Scan(w)) /\ SF_vars(CommitSweep(w))

--------------------------------------------------------------------------------
(* Safety *)

\* An ingest reads COMPLETE only when its images and calibrations are in the
\* database, however many runs of it crashed, overlapped or were redelivered
\* (run_ingest_batch stores first and reports last).
CompleteMeansStored ==
    \A j \in Ingests : status[j] = "COMPLETE" => j \in stored

\* A message of job j exists that will still be processed.
Carried(j) ==
    \/ \E a \in Attempts : queue[j][a] > 0
    \/ \E s \in Slots : /\ exec[s].job = j
                        /\ exec[s].tag = "unacked"
                        /\ exec[s].pc # "returned"

\* A PENDING row is never examined by the watchdog, so its message is all it
\* has: once the create call has returned, either the message is still on its
\* way or on a slot that will give it back, or its end was reported to the DLQ
\* or was a hard kill (task_acks_late and task_reject_on_worker_lost).
PendingHasCarrier ==
    \A j \in Jobs : status[j] = "PENDING" /\ creator[j] = "returned"
                        => Carried(j) \/ fate[j] # {}

\* The job was given up and no run is past the guard of begin_tracked_job.
GivenUp(j) ==
    /\ status[j] = "FAILED"
    /\ \A s \in Slots : exec[s].job = j => exec[s].pc \notin Running

\* What the guard achieves: whatever is delivered after a job was given up,
\* no redelivery, retry or duplicate ever brings it back.
GivenUpIsFinal == [][\A j \in Jobs : GivenUp(j) => GivenUp(j)']_vars

\* The job is COMPLETE and nobody holds an earlier view of its row: no sweep that
\* selected it, and no creator whose publish raised, writes FAILED over it.
Finished(j) ==
    /\ status[j] = "COMPLETE"
    /\ creator[j] # "refused"
    /\ \A w \in Sweepers : j \notin doomed[w]
    /\ \A s \in Slots : exec[s].job = j =>
                            exec[s].pc \in {"fetched", "raised", "returned"}

\* A finished job stays COMPLETE under every redelivery, with one exception:
\* an error in begin_tracked_job's own SELECT is caught by the except block,
\* which marks the row FAILED without looking at it.
FinishedIsFinal ==
    [][\A j \in Jobs : Finished(j) =>
           \/ Finished(j)'
           \/ \E s \in Slots : /\ exec[s].job = j
                               /\ exec[s].pc = "fetched"
                               /\ exec'[s].pc = "caught"]_vars

--------------------------------------------------------------------------------
(* Finality in the whole, under the environment that grants it *)

\* The contract of a status with its clients.  It holds when no message is
\* processed twice, no run outlives a threshold, the except block reaches the
\* database and nothing is raised after the COMPLETE commit; each of these
\* alone breaks it.
Contract == INSTANCE JobContract
ContractSpec == Contract!Spec

--------------------------------------------------------------------------------
(* What is left of it when anything may fail *)

\* Whatever crashes, overlaps or is redelivered, a row neither vanishes nor
\* goes back to PENDING, and each COMPLETE written to an ingest, also over a
\* verdict, comes after its rows are stored (run_ingest_batch, the except
\* block and the sweep each write one status, without conditions).
Row == INSTANCE JobRow
RowSpec == Row!Spec

--------------------------------------------------------------------------------
(* Liveness *)

\* A row in IN_PROCESS is resolved in the end, by its run or by the watchdog
\* (doc 30, section 3), even when every run of it is killed.
StuckJobsAreResolved ==
    \A j \in Jobs : status[j] = "IN_PROCESS" ~> status[j] \in Terminal

\* A job whose dispatch was reported as successful is resolved, or the end of
\* its message was reported or was a hard kill.
DispatchedJobsSettle ==
    \A j \in Jobs : creator[j] = "returned"
                        ~> status[j] \in Terminal \/ fate[j] # {}

--------------------------------------------------------------------------------
(* Claims of the documentation that the code does not keep *)

\* base_task.py:155-158: a redelivery cannot revive or overwrite a job that
\* the watchdog marked FAILED.  The guard reads the row once, at the start of
\* a run; a run redelivered before the verdict overwrites it at its end.
FailedIsNeverRevived ==
    [][\A j \in Jobs : status[j] = "FAILED" => status'[j] = "FAILED"]_vars

\* doc 21, section 1: a transient error does not instantly fail a job but is
\* retried.  A retry that finds its row resolved is skipped by the guard.
RetryFindsWork ==
    \A j \in Jobs, a \in Attempts :
        a > 0 /\ queue[j][a] > 0 => status[j] \notin Terminal

================================================================================
