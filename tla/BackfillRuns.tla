---------------------------- MODULE BackfillRuns ----------------------------
(***************************************************************************)
(* Backfill runs: the sweep every API process makes after booting, under   *)
(* an advisory lock, and the runs a user starts.  A run walks the items in *)
(* batches, deciding on a snapshot of each batch, while the pipeline keeps *)
(* completing attempts and starting dependents.                            *)
(*                                                                         *)
(* Time is abstracted to one fact per run row: whether its heartbeat       *)
(* (updatedAt) is younger than STARTUP_RUN_STALE_MS.                       *)
(***************************************************************************)
EXTENDS Integers, Sequences, FiniteSetsExt

CONSTANTS
    Replicas,     \* API processes sharing the database
    NoReplica,
    Order,        \* the kinds, upstream first
    Requires,     \* kind -> the kinds that must have succeeded
    Items,        \* the items are 1 .. Items, in the order of their ids
    BatchSize,
    Blocked,      \* <<item, kind>> that does not apply, is not enabled or is held back
    Histories,    \* kind -> attempts: what an item may have been through before
    Windows,      \* the sets of items a manual run may select
    MaxRuns,      \* bound: runs ever started
    MaxTroubles   \* bound: crashes, and attempts, hand-overs and queries that fail by themselves

Kinds == {Order[i] : i \in DOMAIN Order}

\* The attempts of one kind: the latest ("lost": queued without a job), and how
\* many before it are still pending; whether one succeeded at the target version;
\* whether the latest is newer than those of the kinds it requires.
Attempts == {a \in [latest : {"none", "active", "lost", "succeeded", "failed"},
                    pending : Nat, current : BOOLEAN, covers : BOOLEAN] :
                a.latest = "none" => a.pending = 0 /\ ~a.current}

\* What a past version of the system left behind: a processor takes the latest attempt
\* of an input or fails, so what succeeded, and is newer than its inputs, found them.
MadeInOrder(h) ==
    \A k \in Kinds : h[k].latest = "succeeded" /\ h[k].covers =>
        \A u \in Requires[k] : h[u].latest = "succeeded"

ASSUME BackfillAssumption ==
    /\ NoReplica \notin Replicas
    /\ Order # <<>>
    /\ Requires \in [Kinds -> SUBSET Kinds]
    /\ Items \in Nat /\ BatchSize \in Nat \ {0}
    /\ Blocked \subseteq (1 .. Items) \X Kinds
    /\ \A h \in Histories : h \in [Kinds -> Attempts] /\ MadeInOrder(h)
    /\ Windows \subseteq SUBSET (1 .. Items)
    /\ MaxRuns \in Nat /\ MaxTroubles \in Nat

VARIABLES
    att,          \* item -> kind -> its attempts
    runs,         \* the table extraction_runs
    walk,         \* run -> what the process executing it has in memory
    replica,      \* replica -> its sweep
    lock,         \* holder of the advisory lock
    troubles      \* crashes and failures so far

vars == <<att, runs, walk, replica, lock, troubles>>

Run == [kind : Kinds, startup : BOOLEAN, force : BOOLEAN, scope : SUBSET (1 .. Items),
        status : {"running", "completed", "failed"}, fresh : BOOLEAN]

\* due: the items of the batch whose snapshot asks for an attempt.
Walk == [by : Replicas, pc : {"load", "visit", "count", "finish", "ended", "dead"},
         cursor : 0 .. Items, batch : SUBSET (1 .. Items), due : SUBSET (1 .. Items)]
Replica == [pc : {"down", "armed", "find", "mark", "insert", "up"}, next : Nat \ {0},
            open : SUBSET Nat]

InFlight(a) == a.latest \in {"active", "lost"}
Ready(i, k) == \A u \in Requires[k] : att[i][u].latest = "succeeded"

ShouldEnqueue(i, run) ==
    /\ <<i, run.kind>> \notin Blocked
    /\ Ready(i, run.kind)
    /\ ~InFlight(att[i][run.kind])
    /\ run.force \/ ~att[i][run.kind].current

Trouble == troubles < MaxTroubles /\ troubles' = troubles + 1

\* Attempts of the kinds in ks are appended to the history h of an item: newer
\* than their inputs, and what requires them is covered no more.
WithAttempts(h, ks, status) ==
    [j \in Kinds |->
        IF j \in ks
        THEN [h[j] EXCEPT !.latest = status, !.covers = TRUE,
                          !.pending = IF h[j].latest = "active" THEN @ + 1 ELSE @]
        ELSE [h[j] EXCEPT !.covers = @ /\ Requires[j] \cap ks = {}]]

(***************************************************************************)
(* The sweep of a replica                                                  *)
(***************************************************************************)
At(pc) == [pc |-> pc, next |-> 1, open |-> {}]

Boot(p) ==
    /\ replica[p].pc = "down"
    /\ replica' = [replica EXCEPT ![p] = At("armed")]
    /\ UNCHANGED <<att, runs, walk, lock, troubles>>

\* Mutant: the sweep does not wait for the lock.
TakeNoLock(p) ==
    /\ replica[p].pc = "armed"
    /\ lock' = p /\ replica' = [replica EXCEPT ![p].pc = "find"]
    /\ UNCHANGED <<att, runs, walk, troubles>>

\* pg_try_advisory_lock: a replica that does not get it skips its sweep.
TakeLock(p) ==
    /\ replica[p].pc = "armed"
    /\ IF lock = NoReplica
       THEN lock' = p /\ replica' = [replica EXCEPT ![p].pc = "find"]
       ELSE lock' = lock /\ replica' = [replica EXCEPT ![p].pc = "up"]
    /\ UNCHANGED <<att, runs, walk, troubles>>

Open(k) == {r \in DOMAIN runs : runs[r].startup /\ runs[r].kind = k /\ runs[r].status = "running"}

NextKind(p) == replica' = [replica EXCEPT ![p].pc = "find", ![p].next = @ + 1]

\* A fresh run blocks the sweep of its kind; otherwise the open ones are stale.
FindOpen(p) ==
    LET open == Open(Order[replica[p].next]) IN
    /\ replica[p].pc = "find"
    /\ replica[p].next \in DOMAIN Order
    /\ IF \E r \in open : runs[r].fresh THEN NextKind(p)
       ELSE replica' = [replica EXCEPT ![p].pc = IF open = {} THEN "insert" ELSE "mark",
                                       ![p].open = open]
    /\ UNCHANGED <<att, runs, walk, lock, troubles>>

\* Mutant: the status is not part of the update's condition.
MarkAnyway(p) ==
    /\ replica[p].pc = "mark"
    /\ \E r \in replica[p].open :
          /\ runs' = [runs EXCEPT ![r].status = "failed", ![r].fresh = TRUE]
          /\ replica' = [replica EXCEPT ![p].open = @ \ {r},
                                        ![p].pc = IF replica[p].open = {r} THEN "insert" ELSE "mark"]
    /\ UNCHANGED <<att, walk, lock, troubles>>

\* A stale run is failed, unless it finished in between.
MarkStale(p) ==
    /\ replica[p].pc = "mark"
    /\ \E r \in replica[p].open :
          /\ runs' = IF runs[r].status = "running"
                     THEN [runs EXCEPT ![r].status = "failed", ![r].fresh = TRUE] ELSE runs
          /\ replica' = [replica EXCEPT ![p].open = @ \ {r},
                                        ![p].pc = IF replica[p].open = {r} THEN "insert" ELSE "mark"]
    /\ UNCHANGED <<att, walk, lock, troubles>>

Walker(p, pc) == [by |-> p, pc |-> pc, cursor |-> 0, batch |-> {}, due |-> {}]

\* Mutant: the row is inserted and nothing executes it.
StartRunOnly(p, run) == Len(runs) < MaxRuns /\ runs' = Append(runs, run) /\ walk' = walk

\* A run starts: its row is inserted and executed in the background.
StartRun(p, run) ==
    /\ Len(runs) < MaxRuns
    /\ runs' = Append(runs, run)
    /\ walk' = Append(walk, Walker(p, "load"))

InsertRun(p) ==
    /\ replica[p].pc = "insert"
    /\ StartRun(p, [kind |-> Order[replica[p].next], startup |-> TRUE, force |-> FALSE,
                    scope |-> 1 .. Items, status |-> "running", fresh |-> TRUE])
    /\ NextKind(p)
    /\ UNCHANGED <<att, lock, troubles>>

Unlock(p) ==
    /\ replica[p].pc = "find"
    /\ replica[p].next \notin DOMAIN Order
    /\ lock' = NoReplica
    /\ replica' = [replica EXCEPT ![p] = At("up")]
    /\ UNCHANGED <<att, runs, walk, troubles>>

Sweep(p) == TakeLock(p) \/ FindOpen(p) \/ MarkStale(p) \/ InsertRun(p) \/ Unlock(p)

\* startBackfill: no lock, any window, with or without force.
StartManual(p) ==
    /\ replica[p].pc # "down"
    /\ \E k \in Kinds, force \in BOOLEAN, scope \in Windows :
          StartRun(p, [kind |-> k, startup |-> FALSE, force |-> force, scope |-> scope,
                       status |-> "running", fresh |-> TRUE])
    /\ UNCHANGED <<att, replica, lock, troubles>>

(***************************************************************************)
(* Executing a run                                                         *)
(***************************************************************************)
\* Keyset pagination: the first items of the scope after the cursor.
NextBatch(run, cursor) ==
    LET rest == {i \in run.scope : i > cursor} IN
    {i \in rest : Cardinality({j \in rest : j < i}) < BatchSize}

\* A batch is read and the cursor set; no batch, and the run is done.
Read(r, batch, cursor) ==
    /\ walk[r].pc = "load"
    /\ walk' = IF batch = {} THEN [walk EXCEPT ![r].pc = "finish"]
               ELSE [walk EXCEPT
                        ![r].pc = "visit", ![r].batch = batch, ![r].cursor = cursor,
                        ![r].due = {i \in batch : ShouldEnqueue(i, runs[r])}]
    /\ UNCHANGED <<att, runs, replica, lock, troubles>>

\* Mutants: the cursor stays; the cursor is the item after the batch.
LoadAgain(r) ==
    LET batch == NextBatch(runs[r], walk[r].cursor) IN Read(r, batch, walk[r].cursor)
LoadPast(r) ==
    LET batch == NextBatch(runs[r], walk[r].cursor) IN Read(r, batch, Max(batch) + 1)

Load(r) ==
    LET batch == NextBatch(runs[r], walk[r].cursor) IN Read(r, batch, Max(batch))

\* One item of the batch: its attempt is appended and handed over; when the
\* queue throws the row stays behind and the run goes on.
Visit(r) ==
    LET i == Min(walk[r].batch)
        k == runs[r].kind
    IN
    /\ walk[r].pc = "visit"
    /\ \/ /\ i \notin walk[r].due
          /\ UNCHANGED <<att, troubles>>
       \/ /\ i \in walk[r].due
          /\ att' = [att EXCEPT ![i] = WithAttempts(@, {k}, "active")] /\ troubles' = troubles
       \/ /\ i \in walk[r].due
          /\ Trouble
          /\ att' = [att EXCEPT ![i] = WithAttempts(@, {k}, "lost")]
    /\ walk' = [walk EXCEPT ![r].batch = @ \ {i},
                            ![r].pc = IF walk[r].batch = {i} THEN "count" ELSE "visit"]
    /\ UNCHANGED <<runs, replica, lock>>

\* The counters are written: the heartbeat.
Count(r) ==
    /\ walk[r].pc = "count"
    /\ runs' = [runs EXCEPT ![r].fresh = TRUE]
    /\ walk' = [walk EXCEPT ![r].pc = "load", ![r].due = {}]
    /\ UNCHANGED <<att, replica, lock, troubles>>

\* finish: by id only, whatever the row has become.
Finish(r) ==
    /\ walk[r].pc = "finish"
    /\ runs' = [runs EXCEPT ![r].status = "completed", ![r].fresh = TRUE]
    /\ walk' = [walk EXCEPT ![r] = Walker(@.by, "ended")]
    /\ UNCHANGED <<att, replica, lock, troubles>>

\* A query fails: the run is failed and stops where it is, or that write fails as
\* well and the row stays as it was.
Throw(r) ==
    /\ walk[r].pc \notin {"ended", "dead"}
    /\ Trouble
    /\ \/ /\ runs' = [runs EXCEPT ![r].status = "failed", ![r].fresh = TRUE]
          /\ walk' = [walk EXCEPT ![r] = Walker(@.by, "ended")]
       \/ /\ walk' = [walk EXCEPT ![r] = Walker(@.by, "dead")]
          /\ UNCHANGED runs
    /\ UNCHANGED <<att, replica, lock>>

Execute(r) == Load(r) \/ Visit(r) \/ Count(r) \/ Finish(r)

(***************************************************************************)
(* The pipeline and the outside                                            *)
(***************************************************************************)
\* An attempt of k ended: the dependents that are ready and not covered start.
Woken(h, i, k) ==
    {j \in Kinds : /\ k \in Requires[j] /\ <<i, j>> \notin Blocked
                   /\ \A u \in Requires[j] : h[u].latest = "succeeded"
                   /\ ~h[j].covers \/ h[j].latest \in {"none", "failed"}}

\* A pending attempt of k ends, the latest or an older one: it fails when its input
\* is not there, and may fail by itself.  ExtractionPipeline has the steps of this in
\* detail.
Complete(i, k, older) ==
    /\ IF older THEN att[i][k].pending > 0 ELSE att[i][k].latest = "active"
    /\ \E outcome \in {"succeeded", "failed"} :
          /\ \/ (outcome = "succeeded") = Ready(i, k) /\ troubles' = troubles
             \/ outcome = "failed" /\ Ready(i, k) /\ Trouble
          /\ LET settled == [att[i] EXCEPT
                    ![k].latest = IF older THEN @ ELSE outcome,
                    ![k].pending = IF older THEN @ - 1 ELSE @,
                    ![k].current = @ \/ outcome = "succeeded"]
             IN  att' = [att EXCEPT ![i] = WithAttempts(settled, Woken(settled, i, k), "active")]
    /\ UNCHANGED <<runs, walk, replica, lock>>

\* 15 minutes pass without a heartbeat: the process is dead or a batch slow.
Lapse(r) ==
    /\ runs[r].startup /\ runs[r].status = "running" /\ runs[r].fresh
    /\ runs' = [runs EXCEPT ![r].fresh = FALSE]
    /\ UNCHANGED <<att, walk, replica, lock, troubles>>

\* The process dies: its runs stop where they are, its lock is released.
Crash(p) ==
    /\ replica[p].pc # "down"
    /\ Trouble
    /\ replica' = [replica EXCEPT ![p] = At("down")]
    /\ lock' = IF lock = p THEN NoReplica ELSE lock
    /\ walk' = [r \in DOMAIN walk |->
                   IF walk[r].by = p /\ walk[r].pc # "ended" THEN Walker(p, "dead")
                   ELSE walk[r]]
    /\ UNCHANGED <<att, runs>>

(***************************************************************************)
(* Specification                                                           *)
(***************************************************************************)
Init ==
    /\ att \in [1 .. Items -> Histories]
    /\ runs = <<>> /\ walk = <<>>
    /\ replica = [p \in Replicas |-> At("down")]
    /\ lock = NoReplica
    /\ troubles = 0

\* What a live process and the workers keep doing.
System ==
    \/ \E p \in Replicas : Sweep(p)
    \/ \E r \in DOMAIN walk : Execute(r)
    \/ \E i \in 1 .. Items, k \in Kinds, older \in BOOLEAN : Complete(i, k, older)

Outside ==
    \/ \E p \in Replicas : Boot(p) \/ StartManual(p) \/ Crash(p)
    \/ \E r \in DOMAIN runs : Throw(r) \/ Lapse(r)

Next == System \/ Outside

Spec == Init /\ [][Next]_vars
FairSpec == Spec /\ WF_vars(System)

(***************************************************************************)
(* Properties                                                              *)
(***************************************************************************)
TypeOK ==
    /\ att \in [1 .. Items -> [Kinds -> Attempts]]
    /\ runs \in Seq(Run)
    /\ walk \in Seq(Walk)
    /\ Len(walk) = Len(runs)
    /\ replica \in [Replicas -> Replica]
    /\ lock \in Replicas \cup {NoReplica}
    /\ troubles \in 0 .. MaxTroubles

\* However many replicas boot, crash and reboot, a kind has at most one open
\* startup run ("so only one replica runs the sweep at a time"): the guard
\* reads before it inserts, only the advisory lock makes the two one step.
OneOpenSweep == \A k \in Kinds : \A r, s \in Open(k) : r = s

\* Superseding the stale runs never turns a run that finished into a failed
\* one ("so we never clobber a run that finished in between").
NeverClobbered ==
    [][\A r \in DOMAIN runs : runs[r].status = "completed" => runs'[r].status = "completed"]_vars

\* A completed run left nothing behind: no item it selected has the kind
\* missing or outdated although the inputs are there, in spite of the runs,
\* failures and re-runs of inputs going on beside it.
CaughtUp ==
    \A r \in DOMAIN runs : runs[r].status = "completed" =>
        \A i \in runs[r].scope :
            LET a == att[i][runs[r].kind] IN
            (<<i, runs[r].kind>> \notin Blocked /\ Ready(i, runs[r].kind)) =>
                /\ a.latest # "none"
                /\ a.latest = "succeeded" => a.current

\* A run ends unless its process dies, as it walks the items once: time and
\* again all runs are over.
RunsEnd == []<>(\A r \in DOMAIN walk : walk[r].pc \in {"ended", "dead"})
=============================================================================
