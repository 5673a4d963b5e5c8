-------------------------- MODULE FactsSupersession --------------------------
(***************************************************************************)
(* The personal facts of one (subject, attribute) group.  Recordings state *)
(* values of the attribute; equal values share one fact row, and among the *)
(* exclusive rows the newest live one supersedes the others.               *)
(*                                                                         *)
(* Each run of a facts extraction ingests in a database transaction, and   *)
(* deleting an item is one too.  Transactions are READ COMMITTED: they see *)
(* what is committed and their own writes, a written row stays locked to   *)
(* the end, a citation keeps its fact and its item from being deleted.     *)
(***************************************************************************)
EXTENDS Integers, FiniteSets

CONSTANTS
    Items,
    Deletable,    \* the items users delete
    Values,
    OccurredAt,   \* item -> when it was recorded; 0 when unknown
    Says,         \* item -> what its extractions may find: values, whether exclusive
    MaxRows,      \* bound: fact rows ever created
    MaxAttempts,  \* bound: item -> facts extractions of it
    MaxTries,     \* bound: runs of one extraction, retries and recoveries included
    Workers,      \* concurrency of the facts queue
    NoRow, Gone   \* a row not created yet, a row deleted

RowIds == 1 .. MaxRows
Null == 0
Attempts == UNION {{i} \X (1 .. MaxAttempts[i]) : i \in Items}   \* in the order of createdAt
Deletes == Deletable \X {0}                   \* the transaction that deletes the item
Txs == Attempts \cup Deletes

ASSUME FactsAssumption ==
    /\ MaxRows \in Nat /\ MaxAttempts \in [Items -> Nat \ {0}] /\ MaxTries \in Nat
    /\ Workers \in Nat
    /\ Deletable \subseteq Items
    /\ OccurredAt \in [Items -> Nat]
    /\ \A i \in Items : Says[i] \subseteq UNION {[vs -> BOOLEAN] : vs \in SUBSET Values}

\* last: lastOccurredAt; by: supersededByFactId.
Row == [value : Values, exclusive : BOOLEAN, last : Nat, by : RowIds \cup {Null}]
NotRows == {NoRow, Gone}

ASSUME RowsAssumption == NotRows \cap Row = {}

VARIABLES
    facts,      \* id -> row, committed
    cites,      \* <<attempt, id>>, committed
    status,     \* attempt -> status of its row in extracted_payloads
    tries,      \* attempt -> times its job has run
    tx,         \* the open transactions, and the jobs that have one
    overlap     \* history: "delete" once one overlapped another transaction, "jobs" once
                \* only jobs did or one failed in recovery, else "none"

vars == <<facts, cites, status, tries, tx, overlap>>

Idle == [pc |-> "idle", todo |-> <<>>, seen |-> Null, stmt |-> Null, old |-> NoRow,
         touched |-> FALSE, writes |-> <<>>, cites |-> {}, orphans |-> {}, plan |-> <<>>]

Item(t) == t[1]
Deleted(i) == status[<<i, 1>>] = "deleted"
Running == {x \in Attempts : tx[x].pc # "idle"}
Open(t) == tx[t].pc \notin {"idle", "complete"}

Overlap(delete, jobs) ==
    IF delete \/ overlap = "delete" THEN "delete" ELSE IF jobs THEN "jobs" ELSE overlap

Rows(F) == {r \in RowIds : F[r] \notin NotRows}

\* The rows of w, over those of F.
Over(w, F) == [r \in DOMAIN w \cup DOMAIN F |-> IF r \in DOMAIN w THEN w[r] ELSE F[r]]

\* What transaction t reads.
View(t) == Over(tx[t].writes, facts)
ViewCites(t) == cites \cup ({t} \X tx[t].cites)
-----------------------------------------------------------------------------
(* recomputePersonalFactSupersession                                       *)

\* The facts cited by the newest extraction of an item that has succeeded or
\* is the one in flight.
LiveFacts(C, active) ==
    LET Counted(x) == status[x] = "succeeded" \/ (x \in active /\ status[x] # "deleted")
        Latest(x) == Counted(x) /\ \A y \in Attempts :
                         Item(y) = Item(x) /\ y[2] > x[2] => ~Counted(y)
    IN  {c[2] : c \in {d \in C : Latest(d[1])}}

Newer(a, b, F) == F[a].last > F[b].last \/ (F[a].last = F[b].last /\ a > b)

Winner(F, live) ==
    LET eligible == {r \in Rows(F) \cap live : F[r].exclusive}
    IN  IF eligible = {} THEN Null
        ELSE CHOOSE w \in eligible : \A r \in eligible \ {w} : Newer(w, r, F)

\* The rows it saves, as it saves them.
Recompute(F, live) ==
    LET w == Winner(F, live)
        By(r) == IF F[r].exclusive /\ r # w THEN w ELSE Null
        dirty == {r \in Rows(F) : F[r].by # By(r)}
    IN  [r \in dirty |-> [F[r] EXCEPT !.by = By(r)]]
-----------------------------------------------------------------------------
(* Locks                                                                   *)

Written(t) == DOMAIN tx[t].writes

\* Mutant: lockGroups is skipped.
HoldsNothing(t) == FALSE

\* The advisory lock of the group is held from lockGroups to the commit.
HoldsGroup(t) == t \in Attempts /\ tx[t].pc = "save" /\ tx[t].touched

\* The row a statement leads to, when the value was known already.
Refreshed(x) ==
    [tx[x].old EXCEPT !.exclusive = tx[x].todo[tx[x].stmt],
                      !.last = IF OccurredAt[Item(x)] > @ THEN OccurredAt[Item(x)] ELSE @]

\* o has written a row with value v, or over one.
Touches(o, v) ==
    \E r \in Written(o) : \E f \in {facts[r], tx[o].writes[r]} \ NotRows : f.value = v

\* Whether the next statement of t has to wait for o.
WaitsFor(t, o) ==
    \/ /\ tx[t].pc = "store" /\ tx[t].seen # Null /\ tx[t].seen \in Written(o)
       /\ Refreshed(t) # tx[t].old \/ tx[o].writes[tx[t].seen] = Gone
    \/ tx[t].pc = "store" /\ tx[t].seen = Null /\ Touches(o, tx[t].stmt)
    \/ tx[t].pc = "resolve" /\ DOMAIN tx[t].todo = {} /\ tx[t].touched /\ HoldsGroup(o)
    \/ /\ tx[t].pc = "drop"
       /\ \/ tx[t].orphans \cap (Written(o) \cup tx[o].cites) # {}
          \/ \E r \in Written(o) : facts[r] \notin NotRows /\ facts[r].by \in tx[t].orphans
    \/ tx[t].pc = "save" /\ DOMAIN tx[t].plan \cap Written(o) # {}
    \/ tx[t].pc = "save" /\ t \in Deletes /\ Item(o) = Item(t) /\ tx[o].cites # {}

Blockers(t) == {o \in Txs \ {t} : Open(o) /\ WaitsFor(t, o)}

\* t is on a cycle of waiting transactions; PostgreSQL aborts one of them.
Deadlocked(t) ==
    \E S \in SUBSET {o \in Txs : Open(o)} :
        /\ t \in S
        /\ \A o \in S : Cardinality(Blockers(o) \cap S) = 1 /\ \E b \in S : o \in Blockers(b)
-----------------------------------------------------------------------------
(* Ingestion                                                               *)

\* A facts extraction is appended: by the pipeline, a backfill or a user.
AppendRun(i) ==
    \E n \in 1 .. MaxAttempts[i] :
        /\ status[<<i, n>>] = "none"
        /\ \A m \in 1 .. n - 1 : status[<<i, m>>] \notin {"none", "deleted"}
        /\ status' = [status EXCEPT ![<<i, n>>] = "queued"]
        /\ UNCHANGED <<facts, cites, tries, tx, overlap>>

\* The job of x can be run: for the first time, again after a failed run, or
\* by recovery after a crash.
CanRun(x) ==
    status[x] \in {"queued", "failed", "processing"} /\ tx[x].pc = "idle" /\ tries[x] < MaxTries

\* Mutant: only the groups of new statements are touched.
CitedNothing(x) == FALSE

\* The item cited facts of the group before, so that the group is recomputed
\* even if this extraction finds none.
CitedBefore(x) == \E c \in cites : Item(c[1]) = Item(x) /\ c[2] \in Rows(facts)

\* A worker takes the job, the provider answers, the transaction opens.
Begin(x) ==
    /\ CanRun(x) /\ Cardinality(Running) < Workers
    /\ \E s \in Says[Item(x)] :
           tx' = [tx EXCEPT ![x] = [Idle EXCEPT !.pc = "resolve", !.todo = s, !.touched = CitedBefore(x)]]
    /\ status' = [status EXCEPT ![x] = "processing"]
    /\ tries' = [tries EXCEPT ![x] = @ + 1]
    /\ overlap' = Overlap(\E d \in Deletes : Open(d),
                          \E y \in Attempts \ {x} : status[y] = "processing")
    /\ UNCHANGED <<facts, cites>>

\* The provider fails, perhaps when a job is recovered whose facts are committed.
ProviderFails(x) ==
    /\ CanRun(x) /\ Cardinality(Running) < Workers
    /\ status' = [status EXCEPT ![x] = "failed"]
    /\ tries' = [tries EXCEPT ![x] = @ + 1]
    /\ overlap' = Overlap(FALSE, status[x] = "processing")
    /\ UNCHANGED <<facts, cites, tx>>

\* resolveFact looks the next value up.
Find(x) ==
    /\ tx[x].pc = "resolve"
    /\ \E v \in DOMAIN tx[x].todo :
         LET known == {r \in Rows(View(x)) : View(x)[r].value = v}
             r == IF known = {} THEN Null ELSE CHOOSE k \in known : TRUE
         IN  tx' = [tx EXCEPT ![x].pc = "store", ![x].stmt = v, ![x].seen = r,
                              ![x].old = IF r = Null THEN NoRow ELSE View(x)[r]]
    /\ UNCHANGED <<facts, cites, status, tries, overlap>>

\* The unique index on the value.
Unique(F) == \A q, r \in Rows(F) : q # r => F[q].value # F[r].value
Taken(v) == \E r \in Rows(facts) : facts[r].value = v

\* Row r is written (unless it was up to date) and cited.
Stored(x, r, write) ==
    tx' = [tx EXCEPT ![x] = [tx[x] EXCEPT
              !.pc = "resolve", !.touched = TRUE, !.seen = Null, !.stmt = Null, !.old = NoRow,
              !.todo = [v \in DOMAIN tx[x].todo \ {tx[x].stmt} |-> tx[x].todo[v]],
              !.writes = Over(write, tx[x].writes), !.cites = tx[x].cites \cup {r}]]

\* The value is known: save() writes the row as it was found, with the new
\* classification and recency, and inserts it again if it is gone.
Refresh(x) ==
    /\ tx[x].pc = "store" /\ tx[x].seen # Null /\ Blockers(x) = {}
    /\ ~Deleted(Item(x))
    /\ LET write == IF Refreshed(x) = tx[x].old THEN <<>> ELSE [r \in {tx[x].seen} |-> Refreshed(x)]
           after == Over(write, View(x))
       IN  after[tx[x].seen] # Gone /\ Unique(after) /\ Stored(x, tx[x].seen, write)
    /\ UNCHANGED <<facts, cites, status, tries, overlap>>

\* The value is new.
Create(x) ==
    /\ tx[x].pc = "store" /\ tx[x].seen = Null /\ Blockers(x) = {}
    /\ ~Deleted(Item(x)) /\ ~Taken(tx[x].stmt)
    /\ \E r \in RowIds :
         /\ facts[r] = NoRow /\ \A o \in Txs : r \notin Written(o)
         /\ Stored(x, r, [q \in {r} |-> [value |-> tx[x].stmt,
                                         exclusive |-> tx[x].todo[tx[x].stmt],
                                         last |-> OccurredAt[Item(x)], by |-> Null]])
    /\ UNCHANGED <<facts, cites, status, tries, overlap>>

\* A statement fails: another transaction inserted the value, deleted the fact
\* or the item.  In PostgreSQL the transaction has failed with it, and so does
\* the query for the winner of the insert.
Fails(x) ==
    /\ tx[x].pc = "store" /\ Blockers(x) = {}
    /\ \/ tx[x].seen = Null /\ Taken(tx[x].stmt)
       \/ tx[x].seen # Null /\ View(x)[tx[x].seen] = Gone
       \/ Deleted(Item(x))

\* The transaction rolls back and the extraction has failed.
Fail(x) ==
    /\ Fails(x) \/ Deadlocked(x)
    /\ tx' = [tx EXCEPT ![x] = Idle]
    /\ status' = [status EXCEPT ![x] = IF @ = "deleted" THEN @ ELSE "failed"]
    /\ UNCHANGED <<facts, cites, tries, overlap>>

\* All values are stored: lockGroups, then the recompute reads the group.
LockGroup(x) ==
    /\ tx[x].pc = "resolve" /\ tx[x].todo = <<>> /\ Blockers(x) = {}
    /\ tx' = [tx EXCEPT ![x].pc = "save",
                        ![x].plan = IF tx[x].touched
                                    THEN Recompute(View(x), LiveFacts(ViewCites(x), {x}))
                                    ELSE <<>>]
    /\ UNCHANGED <<facts, cites, status, tries, overlap>>

\* The recompute saves, and the transaction commits.
Commit(x) ==
    /\ tx[x].pc = "save" /\ Blockers(x) = {}
    /\ facts' = Over(tx[x].plan, View(x))
    /\ cites' = ViewCites(x)
    /\ tx' = [tx EXCEPT ![x] = [Idle EXCEPT !.pc = "complete"]]
    /\ UNCHANGED <<status, tries, overlap>>

\* completeExtraction.
Complete(x) ==
    /\ tx[x].pc = "complete"
    /\ tx' = [tx EXCEPT ![x] = Idle]
    /\ status' = [status EXCEPT ![x] = IF @ = "deleted" THEN @ ELSE "succeeded"]
    /\ UNCHANGED <<facts, cites, tries, overlap>>
-----------------------------------------------------------------------------
(* deleteItem                                                              *)

Own(d) == {c \in cites : Item(c[1]) = Item(d)}

\* It drops the item's citations and finds the facts nothing else cites.
BeginDelete(d) ==
    /\ tx[d].pc = "idle" /\ ~Deleted(Item(d))
    /\ LET cited == {c[2] : c \in Own(d)}
       IN  tx' = [tx EXCEPT ![d] = [Idle EXCEPT
                     !.pc = IF cited = {} THEN "save" ELSE "drop",
                     !.orphans = cited \ {c[2] : c \in cites \ Own(d)}]]
    /\ overlap' = Overlap(\/ \E x \in Attempts : status[x] = "processing"
                          \/ \E e \in Deletes : Open(e), FALSE)
    /\ UNCHANGED <<facts, cites, status, tries>>

\* It unpoints and deletes those facts; the recompute, without the lock of the
\* group, reads it.
DropOrphans(d) ==
    LET orphans == tx[d].orphans
        pointing == {q \in Rows(facts) : facts[q].by \in orphans}
        writes == [r \in orphans \cup pointing |->
                      IF r \in orphans THEN Gone ELSE [facts[r] EXCEPT !.by = Null]]
    IN  /\ tx[d].pc = "drop" /\ Blockers(d) = {}
        /\ tx' = [tx EXCEPT ![d].pc = "save", ![d].writes = writes,
                            ![d].plan = Recompute(Over(writes, facts), LiveFacts(cites \ Own(d), {}))]
        /\ UNCHANGED <<facts, cites, status, tries, overlap>>

\* The recompute saves; extractions and item go, with all citations of them
\* and of the facts deleted.
CommitDelete(d) ==
    /\ tx[d].pc = "save" /\ Blockers(d) = {}
    /\ facts' = Over(tx[d].plan, View(d)) /\ Unique(facts')
    /\ cites' = {c \in cites \ Own(d) : View(d)[c[2]] # Gone}
    /\ status' = [x \in Attempts |-> IF Item(x) = Item(d) THEN "deleted" ELSE status[x]]
    /\ tx' = [tx EXCEPT ![d] = Idle]
    /\ UNCHANGED <<tries, overlap>>

\* A deadlock made the request fail, or saving a row that is gone by now.
FailDelete(d) ==
    /\ Deadlocked(d) \/ (tx[d].pc = "save" /\ Blockers(d) = {} /\ ~Unique(Over(tx[d].plan, View(d))))
    /\ tx' = [tx EXCEPT ![d] = Idle]
    /\ UNCHANGED <<facts, cites, status, tries, overlap>>
-----------------------------------------------------------------------------
\* The process dies: open transactions roll back, jobs are run again.
Crash ==
    /\ Running # {}
    /\ tx' = [t \in Txs |-> Idle]
    /\ UNCHANGED <<facts, cites, status, tries, overlap>>

Init ==
    /\ facts = [r \in RowIds |-> NoRow]
    /\ cites = {}
    /\ status = [x \in Attempts |-> "none"]
    /\ tries = [x \in Attempts |-> 0]
    /\ tx = [t \in Txs |-> Idle]
    /\ overlap = "none"

Ingest(x) ==
    Find(x) \/ Refresh(x) \/ Create(x) \/ Fail(x) \/ LockGroup(x) \/ Commit(x) \/ Complete(x)
Delete(d) == DropOrphans(d) \/ CommitDelete(d) \/ FailDelete(d)

Next ==
    \/ \E i \in Items : AppendRun(i)
    \/ \E x \in Attempts : Begin(x) \/ ProviderFails(x) \/ Ingest(x)
    \/ \E d \in Deletes : BeginDelete(d) \/ Delete(d)
    \/ Crash

Spec == Init /\ [][Next]_vars
-----------------------------------------------------------------------------
(* Properties                                                              *)

\* Types; a job is not run more often than its queue allows.
TypeOK ==
    /\ facts \in [RowIds -> Row \cup NotRows]
    /\ cites \subseteq Attempts \X RowIds
    /\ status \in [Attempts -> {"none", "queued", "processing", "succeeded", "failed", "deleted"}]
    /\ tries \in [Attempts -> 0 .. MaxTries]
    /\ \A t \in Txs :
         /\ tx[t].pc \in {"idle", "resolve", "store", "save", "complete", "drop"}
         /\ \A r \in DOMAIN tx[t].writes \cup DOMAIN tx[t].plan : r \in RowIds

\* The pointers of the group are those of one winner (or of none): every other
\* exclusive fact points at it, it points nowhere, accumulative facts neither.
\* A delete that overlaps an ingest or another delete is the exception, as it
\* recomputes without the lock.
PointersOf(w) ==
    \A r \in Rows(facts) : facts[r].by = IF facts[r].exclusive /\ r # w THEN w ELSE Null
OneWinner == overlap # "delete" => \E w \in Rows(facts) \cup {Null} : PointersOf(w)

\* recomputePersonalFactSupersession: "recomputing converges on the same state
\* regardless of ingest/delete/merge ordering", the state it would compute now.
Quiet == \A x \in Attempts : status[x] \notin {"queued", "processing"} /\ tx[x].pc = "idle"
ConvergesInAnyOrder == Quiet => DOMAIN Recompute(facts, LiveFacts(cites, {})) = {}

\* It does when ingests and deletes come one after another: across repeated
\* extractions that drop facts or reclassify them, failed runs, deletions, and
\* crashes between the commit and the completion, if the recovered job succeeds.
ConvergedAlone == overlap = "none" => ConvergesInAnyOrder
=============================================================================
