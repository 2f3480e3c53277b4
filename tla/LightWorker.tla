------------------------------ MODULE LightWorker ------------------------------
(***************************************************************************)
(* The light queue: Beat's schedule table and the seed that fills it, the  *)
(* messages Beat enqueues each tick, and the worker whose few children run *)
(* both the staging mirrors and the watchdog's sweep.  A mirror that hangs *)
(* keeps its child until the soft limit; a sweep waits behind it.  A tick  *)
(* is one interval of Beat (300 s for either schedule); a run ends, or a   *)
(* message is taken by a free child, within a tick.                        *)
(*                                                                         *)
(* What the sweep is for is here one tracked row whose worker has died.    *)
(* Two clocks run for it.  The watchdog's starts at the last write to the  *)
(* row, which an ingest makes after each file; the broker's, after which   *)
(* it redelivers the message, at the taking of the message.                *)
(***************************************************************************)
EXTENDS Integers, Sequences, FiniteSets

CONSTANTS
    Children,    \* the worker's processes (concurrency 4)
    Seeders,     \* processes that run seed-db
    Limit,       \* soft time limit of a mirror, in ticks (1800 s)
    Staleness,   \* staleness timeout of a row (3600 s)
    Visibility,  \* visibility timeout of the broker (7290 s)
    MaxLead,     \* ticks a task may go on writing to its row (its time limit)
    MaxSlow,     \* bound: mirrors that outlast a tick, or leave their mc in it
    MaxRare      \* bound: manual mirrors, children killed while mirroring, mirrors
                 \* that fail in reading mc's output, edits of the schedule

ASSUME LightAssumption ==
    /\ IsFiniteSet(Children)
    /\ {Limit, Staleness, Visibility, MaxLead} \subseteq Nat
    /\ {MaxSlow, MaxRare} \subseteq Nat
    /\ Limit > 0 /\ 0 < Staleness /\ Staleness < Visibility /\ MaxLead <= Visibility

VARIABLES
    schedule,  \* the PeriodicTask rows
    seeder,    \* where each seed-db is
    queue,     \* messages on the light queue, oldest first
    left,      \* ticks a child has until its soft limit fires; 0 when it is free
    mc,        \* mc mirror processes alive
    age,       \* ticks since the dead worker wrote to its row; 0 when there is none
    lead,      \* ticks from the taking of its message to that write
    spent      \* of each bound

beatVars == <<schedule, seeder>>
workVars == <<queue, left, mc>>
rowVars == <<age, lead>>
vars == <<schedule, seeder, queue, left, mc, age, lead, spent>>

Budgets == {"slow", "manual", "lost", "errors", "edits"}
Rows == {"sync", "sweep", "backup"}
Messages == {"mirror", "sweep"}

Busy == {c \in Children : left[c] > 0}

Rare == spent["manual"] + spent["lost"] + spent["errors"] + spent["edits"]

Spend(b) ==
    /\ IF b = "slow" THEN spent[b] < MaxSlow ELSE Rare < MaxRare
    /\ spent' = [spent EXCEPT ![b] = @ + 1]

TypeOK ==
    /\ schedule \in [Rows -> {"absent", "on", "off"}]
    /\ seeder \in [Seeders -> {"new", "saw_empty", "done"}]
    /\ queue \in Seq(Messages)
    /\ left \in [Children -> 0..(Limit + 1)]
    /\ mc \in Nat
    /\ age \in Nat
    /\ lead \in 0..MaxLead
    /\ spent \in [Budgets -> Nat]

Init ==
    /\ schedule = [r \in Rows |-> "absent"]
    /\ seeder = [s \in Seeders |-> "new"]
    /\ queue = <<>>
    /\ left = [c \in Children |-> 0]
    /\ mc = 0
    /\ age = 0 /\ lead = 0
    /\ spent = [b \in Budgets |-> 0]

--------------------------------------------------------------------------------
(***************************************************************************)
(* seed-db counts the rows, and adds both schedules in a later statement   *)
(* of the same transaction; the name of a row is unique.                   *)
(***************************************************************************)

Present == {r \in Rows : schedule[r] # "absent"}

\* Neither name is taken.
NamesFree == Present \cap {"sync", "sweep"} = {}

SeedRead(s) ==
    /\ seeder[s] = "new"
    /\ seeder' = [seeder EXCEPT ![s] = IF Present = {} THEN "saw_empty" ELSE "done"]
    /\ UNCHANGED <<schedule, workVars, rowVars, spent>>

\* Variant: the mirror's setting decides on both schedules.
SeedFollowsSync(s) ==
    /\ seeder[s] = "saw_empty"
    /\ seeder' = [seeder EXCEPT ![s] = "done"]
    /\ \/ /\ NamesFree
          /\ \E both \in {"on", "off"} :
                schedule' = [schedule EXCEPT !["sync"] = both, !["sweep"] = both]
       \/ ~NamesFree /\ UNCHANGED schedule
    /\ UNCHANGED <<workVars, rowVars, spent>>

SeedCommit(s) ==
    /\ seeder[s] = "saw_empty"
    /\ seeder' = [seeder EXCEPT ![s] = "done"]
    /\ \/ /\ NamesFree
          /\ \E sync \in {"on", "off"} :  \* enable_staging_sync_cron
                schedule' = [schedule EXCEPT !["sync"] = sync, !["sweep"] = "on"]
       \/ ~NamesFree /\ UNCHANGED schedule  \* IntegrityError, rolled back
    /\ UNCHANGED <<workVars, rowVars, spent>>

\* Beat starts with enable_db_backup_cron: its scheduler writes that row.
BeatSetsUp ==
    /\ schedule["backup"] = "absent"
    /\ schedule' = [schedule EXCEPT !["backup"] = "on"]
    /\ UNCHANGED <<seeder, workVars, rowVars, spent>>

Forget == age' = 0 /\ lead' = 0

\* An administrator adds, deletes or switches a row.  A row the watchdog is
\* not there to see is no longer followed.
AdminEdit(r) ==
    /\ Spend("edits")
    /\ \E to \in {"absent", "on", "off"} \ {schedule[r]} :
          /\ schedule' = [schedule EXCEPT ![r] = to]
          /\ IF r = "sweep" THEN Forget ELSE UNCHANGED rowVars
    /\ UNCHANGED <<seeder, workVars>>

--------------------------------------------------------------------------------
(***************************************************************************)
(* The worker.                                                             *)
(***************************************************************************)

\* The sweep's task without a route of its own.
RouteNoSweep == [r \in {"sync"} |-> "mirror"]

\* What each schedule's task is to the light worker.  db_backup_cron has no
\* route, and lands on a queue that no worker consumes.
Route == [r \in {"sync", "sweep"} |-> IF r = "sync" THEN "mirror" ELSE "sweep"]

Due == {r \in DOMAIN Route : schedule[r] = "on"}

Taken(c, m) == left[c] = 0 /\ queue # <<>> /\ Head(queue) = m /\ queue' = Tail(queue)

\* One sweep looks at every row.
Sweep(c) ==
    /\ Taken(c, "sweep")
    /\ IF age > Staleness THEN Forget ELSE UNCHANGED rowVars
    /\ UNCHANGED <<beatVars, left, mc, spent>>

\* A failed start treated like a hang: what was never started is reaped.
QuickMirrorReaps(c) ==
    /\ Taken(c, "mirror")
    /\ mc' = mc - 1
    /\ UNCHANGED <<beatVars, left, rowVars, spent>>

\* mc comes and goes within the tick, or fails at once.
QuickMirror(c) ==
    /\ Taken(c, "mirror")
    /\ UNCHANGED <<beatVars, left, mc, rowVars, spent>>

SlowMirror(c) ==
    /\ Taken(c, "mirror")
    /\ Spend("slow")
    /\ left' = [left EXCEPT ![c] = Limit + 1]
    /\ mc' = mc + 1
    /\ UNCHANGED <<beatVars, rowVars>>

MirrorEnds(c) ==
    /\ left[c] > 1
    /\ left' = [left EXCEPT ![c] = 0]
    /\ mc' = mc - 1
    /\ UNCHANGED <<beatVars, queue, rowVars, spent>>

\* The raise alone, without the kill.
LimitOnlyRaises(c) ==
    /\ left[c] = 1
    /\ left' = [left EXCEPT ![c] = 0]
    /\ UNCHANGED <<beatVars, queue, mc, rowVars, spent>>

\* SoftTimeLimitExceeded: kill, wait, raise; the payload goes to the dead letters.
SoftLimit(c) ==
    /\ left[c] = 1
    /\ left' = [left EXCEPT ![c] = 0]
    /\ mc' = mc - 1
    /\ UNCHANGED <<beatVars, queue, rowVars, spent>>

\* Any other error in the loop over mc's output (a line that is JSON but no
\* object, a byte that is not UTF-8): nothing catches it, and mc is left behind.
MirrorRaises(c) ==
    /\ left[c] > 0
    /\ Spend("errors")
    /\ left' = [left EXCEPT ![c] = 0]
    /\ UNCHANGED <<beatVars, queue, mc, rowVars>>

\* The child is killed: its message is rejected and goes back to the head of
\* the queue, its mc stays.
ChildLost(c) ==
    /\ left[c] > 0
    /\ Spend("lost")
    /\ left' = [left EXCEPT ![c] = 0]
    /\ queue' = <<"mirror">> \o queue
    /\ UNCHANGED <<beatVars, mc, rowVars>>

OrphanExits ==
    /\ mc > Cardinality(Busy)
    /\ mc' = mc - 1
    /\ UNCHANGED <<beatVars, queue, left, rowVars, spent>>

--------------------------------------------------------------------------------

\* Nothing is left to do at this instant.
Settled ==
    /\ \A c \in Children : left[c] # 1
    /\ queue # <<>> => Busy = Children

Orders(S) == {q \in UNION {[1..n -> S] : n \in 0..Cardinality(S)} :
                 {q[i] : i \in DOMAIN q} = S}

\* Beat enqueues what is due, in the order of its heap.
Tick ==
    /\ Settled
    /\ left' = [c \in Children |-> IF left[c] > 0 THEN left[c] - 1 ELSE 0]
    /\ age' = IF age > 0 THEN age + 1 ELSE 0
    /\ \E q \in Orders({Route[r] : r \in Due}) : queue' = queue \o q
    /\ UNCHANGED <<beatVars, mc, lead, spent>>

\* sync-staging, from the API or the CLI.
ManualSync ==
    /\ Spend("manual")
    /\ queue' = Append(queue, "mirror")
    /\ UNCHANGED <<beatVars, left, mc, rowVars>>

\* The worker of a tracked row dies, all of it, and the watchdog is on: nobody
\* rejects the message, so that it comes back by the visibility timeout.  (The
\* message of a lost child is requeued at once: see TrackedJob.)
RowOrphaned ==
    /\ age = 0 /\ schedule["sweep"] = "on"
    /\ age' = 1 /\ lead' \in 0..MaxLead
    /\ UNCHANGED <<beatVars, workVars, spent>>

Works(c) == Sweep(c) \/ QuickMirror(c) \/ SlowMirror(c) \/ SoftLimit(c)

Next ==
    \/ \E s \in Seeders : SeedRead(s) \/ SeedCommit(s)
    \/ BeatSetsUp
    \/ \E r \in Rows : AdminEdit(r)
    \/ \E c \in Children : Works(c) \/ MirrorEnds(c) \/ MirrorRaises(c) \/ ChildLost(c)
    \/ OrphanExits
    \/ Tick
    \/ ManualSync
    \/ RowOrphaned

Spec == Init /\ [][Next]_vars

--------------------------------------------------------------------------------

\* Every mc process alive belongs to a child that is mirroring, but for those
\* that a killed child or an error in reading left behind: neither the soft
\* limit nor a mirror that comes to its end leaves one.
MirrorsAreReaped ==
    /\ Cardinality(Busy) <= mc
    /\ mc <= Cardinality(Busy) + spent["lost"] + spent["errors"]

\* The time the children have worked since the row became stale.
LateTime == (age - Staleness - 1) * Cardinality(Children)

\* While the watchdog is scheduled, a row whose worker has died is failed when
\* it is stale, but for a delay that hanging mirrors make: for each tick of it
\* every child has spent one on a hang.
LateForHangsOnly == age > Staleness => LateTime <= Limit * spent["slow"]

\* Even when every mirror hangs and the queue only grows, the delay does not:
\* the sweep of one tick waits in front of the mirrors of the next, so that
\* besides the hangs in progress it waits for two more at most, and for those
\* that were asked for by hand or put back by the loss of a child.
LongestDelay == Limit * (Cardinality(Children) + 2 + spent["manual"] + spent["lost"])

SweepsKeepUp == age > Staleness /\ spent["edits"] = 0 => LateTime <= LongestDelay

\* doc 30, line 49, has the watchdog fail a crashed job before the broker can
\* redeliver its message.  The clocks do not start together, and it is so when
\* what is left between the last write to the row, with the staleness timeout
\* from then on, and the redelivery makes up for the longest delay.
RoomFor(delay) == delay <= (Visibility - Staleness - 1 - lead) * Cardinality(Children)

WatchdogComesFirst ==
    age > 0 /\ spent["edits"] = 0 /\ RoomFor(LongestDelay) => lead + age <= Visibility

\* Once a seed-db is done the watchdog's schedule is on, however many of them
\* counted no row at once, unless an administrator or a Beat with the backup
\* schedule wrote to the table.
WatchdogIsSeeded ==
    (\E s \in Seeders : seeder[s] = "done") /\ spent["edits"] = 0
        => schedule["sweep"] = "on" \/ schedule["backup"] # "absent"

================================================================================
