---------------------------- MODULE ExtractedRows ----------------------------
(***************************************************************************)
(* What extractions of one item leave in a table of their kind: its        *)
(* commitments, questions, decisions or reminders.  An extraction writes   *)
(* its batch in one transaction: each row is found and saved, and open     *)
(* rows it did not produce are reaped.  Extractions of one item may        *)
(* overlap, come in any order and be retried; the user advances the status *)
(* of a row meanwhile, by a find and a save as well.                       *)
(*                                                                         *)
(* The transactions are Postgres's, READ COMMITTED: a statement sees what  *)
(* is committed and its own writes; a row that is written belongs to its   *)
(* transaction until the end, and others wait for it.                      *)
(***************************************************************************)
EXTENDS Integers, FiniteSets

CONSTANTS
    RowKeys,       \* what a row is deduplicated by
    MaxAttempts,   \* bound: extractions of the item
    RowTries,      \* runs BullMQ gives a job
    MaxUpsets      \* bound: requests of the user, and runs that fail by themselves

ASSUME RowAssumption ==
    RowKeys # {} /\ {MaxAttempts, MaxUpsets} \subseteq Nat /\ RowTries \in Nat \ {0}

\* In the order of their rows in extracted_payloads.  All are there from the start:
\* one that was not appended yet looks like one whose job nobody has taken.
Attempts == 1 .. MaxAttempts

VARIABLES
    table,     \* key -> the committed row
    runs,      \* attempt -> its job
    edits,     \* key -> the user's request to change its status
    upsets,    \* what is used of MaxUpsets
    past       \* history, see Past

rowVars == <<table, runs, edits, upsets, past>>

\* by: extractionId; a question may also be "answered" by a later extraction.
Row == [status : {"none", "open", "answered", "handled"}, by : 0 .. MaxAttempts]
NoRow == [status |-> "none", by |-> 0]

\* batch: what the provider returned, answered: the questions of it that are;
\* todo: keys left, to save or to reap; on: the key at hand; read: its row as it was
\* found; there: the row it found still exists; sets: the columns that a save which
\* waits for a lock will write; own: the keys it has written, and their rows.
Run == [pc : {"queued", "find", "save", "wait", "scan", "reap", "persisted",
              "succeeded", "failed"},
        left : 0 .. RowTries, batch : SUBSET RowKeys, answered : SUBSET RowKeys,
        todo : SUBSET RowKeys, on : RowKeys, read : Row, there : BOOLEAN,
        sets : SUBSET {"status"}, own : SUBSET RowKeys, rows : [RowKeys -> Row]]
SomeKey == CHOOSE k \in RowKeys : TRUE
NoRun == [pc |-> "queued", left |-> RowTries, batch |-> {}, answered |-> {}, todo |-> {},
          on |-> SomeKey, read |-> NoRow, there |-> FALSE, sets |-> {}, own |-> {},
          rows |-> [k \in RowKeys |-> NoRow]]

Edit == [pc : {"idle", "save", "wait"}, read : Row, to : {"open", "handled"},
         there : BOOLEAN, sets : SUBSET {"by"}]
NoEdit == [pc |-> "idle", read |-> NoRow, to |-> "open", there |-> FALSE, sets |-> {}]

\* touched: rows the user has ever asked to change; handled: those with "handled" as
\* the user's last word; crossed: a save wrote back a status that somebody had
\* changed since, or the user's save found its row gone; last: the extraction that
\* committed last, batch: what its runs produced; tangled: two transactions overlapped, or they
\* committed out of order.
Past == [touched : SUBSET RowKeys, handled : SUBSET RowKeys, crossed : SUBSET RowKeys,
         last : 0 .. MaxAttempts, batch : SUBSET RowKeys, tangled : BOOLEAN]

RowTypeOK ==
    /\ table \in [RowKeys -> Row] /\ runs \in [Attempts -> Run] /\ edits \in [RowKeys -> Edit]
    /\ upsets \in 0 .. MaxUpsets /\ past \in Past

RowInit ==
    /\ table = [k \in RowKeys |-> NoRow] /\ runs = [a \in Attempts |-> NoRun]
    /\ edits = [k \in RowKeys |-> NoEdit]
    /\ upsets = 0
    /\ past = [touched |-> {}, handled |-> {}, crossed |-> {}, last |-> 0, batch |-> {},
               tangled |-> FALSE]

SetRun(a, r) == runs' = [runs EXCEPT ![a] = r]
InTransaction(a) == runs[a].pc \in {"find", "save", "wait", "scan", "reap"}
Locked(k, a) == \E b \in Attempts \ {a} : k \in runs[b].own
Sees(a, k) == IF k \in runs[a].own THEN runs[a].rows[k] ELSE table[k]
Upset == upsets < MaxUpsets /\ upsets' = upsets + 1
-----------------------------------------------------------------------------
(* The job of an attempt. *)

\* The provider has answered, the transaction begins.
Extract(a, batch, answered) ==
    /\ runs[a].pc = "queued"
    /\ SetRun(a, [NoRun EXCEPT !.pc = IF batch = {} THEN "scan" ELSE "find",
                               !.left = runs[a].left, !.batch = batch,
                               !.answered = answered, !.todo = batch])
    /\ past' = [past EXCEPT !.tangled = @ \/ \E b \in Attempts : InTransaction(b)]
    /\ UNCHANGED <<table, edits, upsets>>

FindRow(a, k) ==
    /\ runs[a].pc = "find" /\ k \in runs[a].todo
    /\ SetRun(a, [runs[a] EXCEPT !.pc = "save", !.on = k, !.read = Sees(a, k),
                                 !.there = Sees(a, k) # NoRow])
    /\ UNCHANGED <<table, edits, upsets, past>>

\* What is saved: open rows may be promoted, no other status is touched.
Saved(a) ==
    LET r == runs[a]
        promoted == IF r.on \in r.answered THEN "answered" ELSE "open" IN
    [by |-> a, status |-> IF r.read.status \in {"none", "open"} THEN promoted ELSE r.read.status]

\* The run r past its key at hand, and with a row written for it.
PastKey(r) ==
    LET rest == r.todo \ {r.on} IN
    [r EXCEPT !.pc = IF rest = {} THEN "scan" ELSE "find", !.todo = rest,
              !.answered = @ \ {r.on}, !.on = SomeKey, !.read = NoRow, !.there = FALSE,
              !.sets = {}]
WrittenRow(r, row) == [PastKey(r) EXCEPT !.own = @ \cup {r.on}, !.rows[r.on] = row]

\* BullMQ runs a job that threw again while it has tries left.
RetryRun(a) == IF runs[a].left = 1 THEN [NoRun EXCEPT !.pc = "failed", !.left = 0]
               ELSE [NoRun EXCEPT !.pc = "queued", !.left = runs[a].left - 1]

\* The insert of a row that is there by now: unique, and the transaction is lost
\* (the catch that reads the winner cannot read in it any more).
Insert(a) ==
    LET k == runs[a].on IN
    /\ ~runs[a].there /\ ~Locked(k, a)
    /\ IF Sees(a, k) # NoRow THEN SetRun(a, RetryRun(a))
       ELSE SetRun(a, WrittenRow(runs[a], Saved(a)))

\* save compares with the row of the table, which may have changed since it was
\* found: the status it has read is then written back.  A row somebody holds is
\* waited for, with the columns to write already settled.
SaveRow(a) ==
    LET r == runs[a]
        k == r.on IN
    /\ r.pc = "save"
    /\ \/ Insert(a) /\ UNCHANGED past
       \/ /\ r.there
          /\ LET now == Sees(a, k)
                 sets == IF Saved(a).status = now.status THEN {} ELSE {"status"} IN
             /\ IF Locked(k, a)
                THEN SetRun(a, [r EXCEPT !.pc = "wait", !.sets = sets])
                ELSE SetRun(a, WrittenRow(r, Saved(a)))
             /\ past' = [past EXCEPT !.crossed = IF now.status # r.read.status THEN @ \cup {k}
                                                 ELSE @]
    /\ UNCHANGED <<table, edits, upsets>>

\* The lock is free: the update, which misses a row that is gone.
UpdateRow(a) ==
    LET r == runs[a]
        k == r.on
        row == [by |-> a, status |-> IF r.sets = {} THEN table[k].status
                                     ELSE Saved(a).status] IN
    /\ r.pc = "wait" /\ ~Locked(k, a)
    /\ SetRun(a, IF r.there THEN WrittenRow(r, row) ELSE PastKey(r))
    /\ past' = [past EXCEPT !.crossed =
                  IF r.there /\ r.sets # {} /\ table[k].status # r.read.status
                  THEN @ \cup {k} ELSE @]
    /\ UNCHANGED <<table, edits, upsets>>

\* Mutant: what the batch did not produce is deleted, whoever has handled it.
ReapsHandled(a, row) == row # NoRow /\ row.by # a

\* Mutant: nothing is reaped.
ReapsNothing(a, row) == FALSE

\* DELETE ... WHERE extractionId <> mine AND status = 'open'
Reaps(a, row) == row.status = "open" /\ row.by # a

ScanStale(a) ==
    /\ runs[a].pc = "scan"
    /\ SetRun(a, [runs[a] EXCEPT !.pc = "reap",
                                 !.todo = {k \in RowKeys : Reaps(a, Sees(a, k))}])
    /\ UNCHANGED <<table, edits, upsets, past>>

\* A row somebody held is looked at again once it is free.
ReapRow(a, k) ==
    /\ runs[a].pc = "reap" /\ k \in runs[a].todo /\ ~Locked(k, a)
    /\ SetRun(a, IF Reaps(a, Sees(a, k))
                 THEN [runs[a] EXCEPT !.todo = @ \ {k}, !.own = @ \cup {k}, !.rows[k] = NoRow]
                 ELSE [runs[a] EXCEPT !.todo = @ \ {k}])
    /\ UNCHANGED <<table, edits, upsets, past>>

Commit(a) ==
    LET r == runs[a]
        gone == {k \in r.own : r.rows[k] = NoRow} IN
    /\ r.pc = "reap" /\ r.todo = {}
    /\ table' = [k \in RowKeys |-> Sees(a, k)]
    /\ runs' = [b \in Attempts |->
                  IF b = a THEN [NoRun EXCEPT !.pc = "persisted", !.left = r.left]
                  ELSE [runs[b] EXCEPT !.there = @ /\ runs[b].on \notin gone,
                                       !.todo = IF runs[b].pc = "reap" THEN @ \ gone ELSE @]]
    /\ edits' = [k \in RowKeys |-> [edits[k] EXCEPT !.there = @ /\ k \notin gone]]
    /\ past' = [past EXCEPT !.last = a,
                            !.batch = r.batch \cup IF past.last = a THEN @ ELSE {},
                            !.tangled = \/ @ \/ past.last > a
                                        \/ \E b \in Attempts \ {a} : InTransaction(b)]
    /\ UNCHANGED upsets

Succeed(a) ==
    /\ runs[a].pc = "persisted"
    /\ SetRun(a, [NoRun EXCEPT !.pc = "succeeded", !.left = 0])
    /\ UNCHANGED <<table, edits, upsets, past>>

\* The provider, the database or the process fails, or the run is the victim of a
\* deadlock; after the commit, the job only runs again.
RunFails(a) ==
    /\ runs[a].pc \notin {"succeeded", "failed"} /\ Upset
    /\ SetRun(a, RetryRun(a))
    /\ UNCHANGED <<table, edits, past>>
-----------------------------------------------------------------------------
(* updateStatus: the user's find and save. *)

SetEdit(k, e) == edits' = [edits EXCEPT ![k] = e]

AskStatus(k, to) ==
    /\ edits[k] = NoEdit /\ table[k] # NoRow /\ table[k].status # to /\ Upset
    /\ SetEdit(k, [NoEdit EXCEPT !.pc = "save", !.read = table[k], !.to = to, !.there = TRUE])
    /\ past' = [past EXCEPT !.touched = @ \cup {k}]
    /\ UNCHANGED <<table, runs>>

\* The request is over; did the row get what it said?
Answered(k, to, ok) ==
    past' = [past EXCEPT !.handled = IF to = "handled" THEN @ \cup {k} ELSE @ \ {k},
                         !.crossed = IF ok THEN @ ELSE @ \cup {k}]

\* The save of a row that is gone inserts it again, unless the key is taken.
SaveStatus(k) ==
    LET e == edits[k]
        row == [by |-> e.read.by, status |-> e.to] IN
    /\ e.pc = "save"
    /\ IF \E a \in Attempts : k \in runs[a].own
       THEN /\ e.there
            /\ SetEdit(k, [e EXCEPT !.pc = "wait",
                                    !.sets = IF table[k].by = e.read.by THEN {} ELSE {"by"}])
            /\ UNCHANGED <<table, past>>
       ELSE /\ table' = [table EXCEPT ![k] = IF e.there \/ @ = NoRow THEN row ELSE @]
            /\ Answered(k, e.to, e.there)
            /\ SetEdit(k, NoEdit)
    /\ UNCHANGED <<runs, upsets>>

UpdateStatus(k) ==
    LET e == edits[k] IN
    /\ e.pc = "wait" /\ \A a \in Attempts : k \notin runs[a].own
    /\ table' = [table EXCEPT ![k] =
                   IF ~e.there THEN @
                   ELSE [status |-> e.to, by |-> IF e.sets = {} THEN @.by ELSE e.read.by]]
    /\ Answered(k, e.to, e.there)
    /\ SetEdit(k, NoEdit)
    /\ UNCHANGED <<runs, upsets>>
-----------------------------------------------------------------------------
\* Bound: of the questions it repeats, an extraction answers all or none.
RowNext ==
    \/ \E a \in Attempts :
         \/ SaveRow(a) \/ UpdateRow(a) \/ ScanStale(a) \/ Commit(a) \/ Succeed(a)
         \/ RunFails(a)
         \/ \E batch \in SUBSET RowKeys : \E answered \in {{}, batch} :
              Extract(a, batch, answered)
         \/ \E k \in RowKeys : FindRow(a, k) \/ ReapRow(a, k)
    \/ \E k \in RowKeys :
         \/ SaveStatus(k) \/ UpdateStatus(k)
         \/ \E to \in {"open", "handled"} : AskStatus(k, to)

RowSpec == RowInit /\ [][RowNext]_rowVars
-----------------------------------------------------------------------------
(* What the user has handled stays handled, whichever extractions come      *)
(* after it: unless a save crossed it.                                      *)
HandledStays == \A k \in past.handled \ past.crossed : table[k].status = "handled"

(* The open rows are what the extraction persisted last has produced, and    *)
(* all of that is there, as long as extractions neither overlapped nor were  *)
(* persisted out of order; whatever failed and ran again in between.  (A run *)
(* that failed after its commit counts: its retry reaps none of its rows.)   *)
RowsAreNewest ==
    past.last # 0 /\ ~past.tangled =>
        \A k \in RowKeys \ past.touched :
            /\ table[k].status = "open" => k \in past.batch
            /\ k \in past.batch => table[k] # NoRow
=============================================================================
