----------------------------- MODULE ItemsProofs -----------------------------
(***************************************************************************)
(* Theorems about ExtractedRows, for any keys, any number of extractions   *)
(* and of tries; about CalendarLinks, for any events and any number of     *)
(* replicas; about SensitivityRow, for any kinds and any number of writers *)
(* at once; and about MCItems, which gathers them with the models of       *)
(* topics, merges and imports.                                             *)
(***************************************************************************)
EXTENDS MCItems, ItemImportsProofs, RecordingMergesProofs, TopicDocumentsProofs

(***************************************************************************)
(* ExtractedRows: the inductive invariant                                  *)
(***************************************************************************)
\* What is handled is so in the table, and in the transaction that holds the row.
Handling ==
    \A k \in past.handled \ past.crossed :
        /\ table[k].status = "handled"
        /\ \A a \in Attempts : k \in runs[a].own => runs[a].rows[k].status = "handled"

\* Rows are held in transactions, and until they tangle there is one at a time.
OneTransaction ==
    /\ \A a \in Attempts : runs[a].own # {} => InTransaction(a)
    /\ \A k \in RowKeys : edits[k].pc # "idle" => k \in past.touched
    /\ ~past.tangled =>
          \A a, b \in Attempts : InTransaction(a) /\ InTransaction(b) => a = b

\* How far a transaction that is alone has come with its batch, and with what it
\* did not produce.
Produces(a) ==
    LET r == runs[a] IN
    /\ r.pc # "wait"
    /\ \A k \in r.batch : /\ k \in r.own => r.rows[k].by = a
                          /\ k \notin r.own => r.pc \in {"find", "save"} /\ k \in r.todo
    /\ \A k \in r.own \ r.batch : /\ r.pc = "reap" /\ r.rows[k] = NoRow
                                  /\ k \notin past.touched => Reaps(a, table[k])
    /\ r.pc \in {"find", "save"} => r.todo \subseteq r.batch
    /\ r.pc = "save" => r.on \in r.todo
    /\ r.pc = "reap" => \A k \in RowKeys \ past.touched : Reaps(a, Sees(a, k)) => k \in r.todo

Batches == ~past.tangled => \A a \in Attempts : InTransaction(a) => Produces(a)

\* RowsAreNewest, of whom the open rows are by.
Newest ==
    ~past.tangled =>
        \A k \in RowKeys \ past.touched :
            /\ table[k].status = "open" => table[k].by = past.last /\ k \in past.batch
            /\ k \in past.batch => table[k] # NoRow

\* A job that is not over has a try left.
TriesLeft == \A a \in Attempts : runs[a].pc \notin {"succeeded", "failed"} => runs[a].left # 0

RowInv == RowTypeOK /\ TriesLeft /\ Handling /\ OneTransaction /\ Batches /\ Newest
-----------------------------------------------------------------------------
\* The empty row, run and request are ones.
LEMMA NoneTypes ==
    ASSUME RowAssumption
    PROVE  NoRow \in Row /\ NoRun \in Run /\ NoEdit \in Edit /\ SomeKey \in RowKeys
<1>1. SomeKey \in RowKeys
  BY DEF RowAssumption, SomeKey
<1>2. NoRow \in Row
  BY DEF RowAssumption, NoRow, Row
<1>3. NoRun \in Run
  BY <1>1, <1>2 DEF RowAssumption, NoRun, Run
<1>4. NoEdit \in Edit
  BY <1>2 DEF NoEdit, Edit
<1> QED BY <1>1, <1>2, <1>3, <1>4

\* A run that goes on to its next key changes only what belongs to the key at hand,
LEMMA PastKeyFields ==
    ASSUME RowAssumption, NEW r \in Run
    PROVE  /\ PastKey(r) \in Run
           /\ PastKey(r).pc = IF r.todo \ {r.on} = {} THEN "scan" ELSE "find"
           /\ PastKey(r).todo = r.todo \ {r.on}
           /\ PastKey(r).batch = r.batch /\ PastKey(r).left = r.left
           /\ PastKey(r).own = r.own /\ PastKey(r).rows = r.rows
BY NoneTypes DEF PastKey, Run

\* and with a row written, also the rows it holds.
LEMMA WrittenFields ==
    ASSUME RowAssumption, NEW r \in Run, NEW row \in Row
    PROVE  /\ WrittenRow(r, row) \in Run
           /\ WrittenRow(r, row).pc = IF r.todo \ {r.on} = {} THEN "scan" ELSE "find"
           /\ WrittenRow(r, row).todo = r.todo \ {r.on}
           /\ WrittenRow(r, row).batch = r.batch /\ WrittenRow(r, row).left = r.left
           /\ WrittenRow(r, row).own = r.own \cup {r.on}
           /\ WrittenRow(r, row).rows = [r.rows EXCEPT ![r.on] = row]
<1> DEFINE q == PastKey(r)
<1>1. /\ q \in Run /\ q.pc = IF r.todo \ {r.on} = {} THEN "scan" ELSE "find"
      /\ q.todo = r.todo \ {r.on} /\ q.batch = r.batch /\ q.left = r.left /\ q.own = r.own /\ q.rows = r.rows
  BY PastKeyFields
<1>2. WrittenRow(r, row) = [q EXCEPT !.own = q.own \cup {r.on}, !.rows = [q.rows EXCEPT ![r.on] = row]]
  BY DEF WrittenRow
<1> DEFINE own == q.own \cup {r.on}
           held == [q.rows EXCEPT ![r.on] = row]
<1>3. own \in SUBSET RowKeys /\ held \in [RowKeys -> Row] /\ q \in Run
  BY <1>1 DEF Run
<1>4. own = r.own \cup {r.on} /\ held = [r.rows EXCEPT ![r.on] = row]
  BY <1>1
<1> HIDE DEF own, held, q
<1>5. LET w == [q EXCEPT !.own = own, !.rows = held] IN
      /\ w \in Run /\ w.own = own /\ w.rows = held
      /\ w.pc = q.pc /\ w.todo = q.todo /\ w.batch = q.batch /\ w.left = q.left
  BY <1>3 DEF Run
<1> QED BY <1>1, <1>2, <1>4, <1>5 DEF own, held

\* A run that gives up is queued with a try left, or failed.
LEMMA RetryFields ==
    ASSUME RowAssumption, RowTypeOK, NEW a \in Attempts, runs[a].pc \notin {"succeeded", "failed"},
           runs[a].left # 0
    PROVE  /\ RetryRun(a) \in Run
           /\ RetryRun(a).pc \in {"queued", "failed"} /\ RetryRun(a).own = {}
           /\ RetryRun(a).pc = "queued" => RetryRun(a).left # 0
<1>1. runs[a].left \in 1 .. RowTries
  BY DEF RowTypeOK, Run, RowAssumption
<1>0. NoRun \in Run /\ NoRun.own = {}
  BY NoneTypes DEF NoRun
<1>2. CASE runs[a].left = 1
  <2>1. 0 \in 0 .. RowTries
    BY DEF RowAssumption
  <2> QED BY <1>0, <1>2, <2>1 DEF RetryRun, Run
<1>3. CASE runs[a].left # 1
  <2> DEFINE n == runs[a].left - 1
  <2>1. n \in 0 .. RowTries /\ n # 0
    BY <1>1, <1>3 DEF RowAssumption
  <2>2. RetryRun(a) = [NoRun EXCEPT !.pc = "queued", !.left = n]
    BY <1>3 DEF RetryRun
  <2> HIDE DEF n
  <2> QED BY <1>0, <2>1, <2>2 DEF Run
<1> QED BY <1>2, <1>3

\* A step of a job leaves the others alone.
LEMMA RowChanges ==
    ASSUME RowTypeOK, NEW a \in Attempts, NEW r \in Run, SetRun(a, r)
    PROVE  /\ runs' \in [Attempts -> Run] /\ runs'[a] = r
           /\ \A b \in Attempts \ {a} : runs'[b] = runs[b]
BY DEF RowTypeOK, SetRun

Open == {"find", "save", "wait", "scan", "reap"}

\* A step of one job, which neither begins a transaction nor commits one.
LEMMA OneRunMoves ==
    ASSUME RowInv, NEW a \in Attempts, NEW r \in Run, SetRun(a, r), UNCHANGED <<table, edits>>,
           upsets' \in 0 .. MaxUpsets, past' \in Past,
           past'.handled = past.handled, past'.touched = past.touched,
           past.crossed \subseteq past'.crossed, past'.tangled = past.tangled,
           past'.last = past.last, past'.batch = past.batch,
           r.pc \notin {"succeeded", "failed"} => r.left # 0,
           \A k \in r.own \cap (past.handled \ past'.crossed) : r.rows[k].status = "handled",
           r.own # {} => r.pc \in Open,
           r.pc \in Open => runs[a].pc \in Open,
           ~past.tangled /\ r.pc \in Open => Produces(a)'
    PROVE  RowInv'
<1>0. /\ runs' \in [Attempts -> Run] /\ runs'[a] = r
      /\ \A b \in Attempts \ {a} : runs'[b] = runs[b]
  BY RowChanges DEF RowInv
<1>1. RowTypeOK'
  BY <1>0 DEF RowInv, RowTypeOK
<1>2. TriesLeft'
  BY <1>0 DEF RowInv, TriesLeft
<1>3. Handling'
  BY <1>0 DEF RowInv, Handling
<1>4. OneTransaction'
  BY <1>0 DEF RowInv, OneTransaction, InTransaction, Open
<1>5. Batches'
  <2> SUFFICES ASSUME ~past'.tangled, NEW b \in Attempts, InTransaction(b)'
               PROVE  Produces(b)'
    BY DEF Batches
  <2>1. CASE b = a
    BY <1>0, <2>1 DEF InTransaction, Open
  <2>2. CASE b # a
    <3>1. Produces(b) /\ runs'[b] = runs[b]
      BY <1>0, <2>2 DEF RowInv, Batches, InTransaction
    <3> QED BY <3>1 DEF Produces, Reaps, Sees
  <2> QED BY <2>1, <2>2
<1>6. Newest'
  BY DEF RowInv, Newest
<1> QED BY <1>1, <1>2, <1>3, <1>4, <1>5, <1>6 DEF RowInv
-----------------------------------------------------------------------------
\* Finding a row changes nothing that others see.
LEMMA FindRowKeeps ==
    ASSUME RowAssumption, RowInv, NEW a \in Attempts, NEW k \in RowKeys, FindRow(a, k)
    PROVE  RowInv'
<1> DEFINE r == [runs[a] EXCEPT !.pc = "save", !.on = k, !.read = Sees(a, k),
                                !.there = Sees(a, k) # NoRow]
<1>1. Sees(a, k) \in Row /\ runs[a] \in Run
  BY DEF RowInv, RowTypeOK, Sees, Run
<1>2. /\ r \in Run /\ r.pc = "save" /\ r.on = k
      /\ r.own = runs[a].own /\ r.rows = runs[a].rows /\ r.todo = runs[a].todo
      /\ r.batch = runs[a].batch /\ r.left = runs[a].left
  BY <1>1 DEF Run
<1>3. SetRun(a, r) /\ UNCHANGED <<table, edits, upsets, past>> /\ runs[a].pc = "find" /\ k \in runs[a].todo
  BY DEF FindRow
<1> HIDE DEF r
<1>4. runs'[a] = r
  BY <1>2, <1>3, RowChanges DEF RowInv
<1>5. ~past.tangled => Produces(a)'
  BY <1>2, <1>3, <1>4 DEF RowInv, Batches, InTransaction, Produces
<1>6. \A l \in r.own \cap (past.handled \ past.crossed) : r.rows[l].status = "handled"
  BY <1>2 DEF RowInv, Handling
<1>7. runs[a].left # 0 /\ upsets \in 0 .. MaxUpsets /\ past \in Past
  BY <1>3 DEF RowInv, TriesLeft, RowTypeOK
<1> QED BY <1>2, <1>3, <1>5, <1>6, <1>7, OneRunMoves DEF Open

\* A run that gives up holds nothing.
LEMMA RetryKeeps ==
    ASSUME RowAssumption, RowInv, NEW a \in Attempts, runs[a].pc \notin {"succeeded", "failed"},
           SetRun(a, RetryRun(a)), UNCHANGED <<table, edits, past>>, upsets' \in 0 .. MaxUpsets
    PROVE  RowInv'
<1> DEFINE r == RetryRun(a)
<1>1. runs[a].left # 0
  BY DEF RowInv, TriesLeft
<1>2. r \in Run /\ r.pc \in {"queued", "failed"} /\ r.own = {} /\ (r.pc = "queued" => r.left # 0)
  BY <1>1, RetryFields DEF RowInv
<1>3. past \in Past
  BY DEF RowInv, RowTypeOK
<1> HIDE DEF r
<1>4. SetRun(a, r)
  BY DEF r
<1> QED BY <1>2, <1>3, <1>4, OneRunMoves DEF Open

\* A row that is saved is this extraction's; of a row that is handled it stays the status.
LEMMA WrittenKeeps ==
    ASSUME RowAssumption, RowInv, NEW a \in Attempts, runs[a].pc \in {"save", "wait"},
           NEW row \in Row, row.by = a, SetRun(a, WrittenRow(runs[a], row)),
           UNCHANGED <<table, edits, upsets>>,
           NEW crossed \in SUBSET RowKeys, past' = [past EXCEPT !.crossed = crossed],
           past.crossed \subseteq crossed,
           runs[a].on \in past.handled \ crossed => row.status = "handled"
    PROVE  RowInv'
<1> DEFINE r == WrittenRow(runs[a], row)
           k == runs[a].on
<1>1. runs[a] \in Run /\ k \in RowKeys /\ upsets \in 0 .. MaxUpsets /\ past \in Past
  BY DEF RowInv, RowTypeOK, Run
<1>2. /\ r \in Run /\ r.pc = IF runs[a].todo \ {k} = {} THEN "scan" ELSE "find"
      /\ r.todo = runs[a].todo \ {k} /\ r.batch = runs[a].batch /\ r.left = runs[a].left
      /\ r.own = runs[a].own \cup {k}
      /\ \A l \in RowKeys : r.rows[l] = IF l = k THEN row ELSE runs[a].rows[l]
  <2>1. /\ r \in Run /\ r.pc = IF runs[a].todo \ {k} = {} THEN "scan" ELSE "find"
        /\ r.todo = runs[a].todo \ {k} /\ r.batch = runs[a].batch /\ r.left = runs[a].left
        /\ r.own = runs[a].own \cup {k} /\ r.rows = [runs[a].rows EXCEPT ![k] = row]
    BY <1>1, WrittenFields
  <2>2. runs[a].rows \in [RowKeys -> Row]
    BY <1>1 DEF Run
  <2> HIDE DEF r, k
  <2> QED BY <2>1, <2>2
<1>3. /\ past' \in Past
      /\ past'.handled = past.handled /\ past'.touched = past.touched /\ past'.crossed = crossed
      /\ past'.tangled = past.tangled /\ past'.last = past.last /\ past'.batch = past.batch
  BY <1>1 DEF Past
<1>4. SetRun(a, r)
  OBVIOUS
<1> HIDE DEF r, k
<1>5. runs'[a] = r
  BY <1>2, <1>4, RowChanges DEF RowInv
<1>6. ~past.tangled => Produces(a)'
  <2> SUFFICES ASSUME ~past.tangled PROVE Produces(a)'
    OBVIOUS
  <2>1. /\ Produces(a) /\ runs[a].pc = "save"
    BY DEF RowInv, Batches, InTransaction, Produces
  <2>2. k \in runs[a].todo /\ runs[a].todo \subseteq runs[a].batch
    BY <2>1 DEF Produces, k
  <2>3. r.pc \in {"find", "scan"} /\ (r.pc = "scan" => r.todo = {})
    BY <1>2
  <2>4. \A l \in r.batch : /\ l \in r.own => r.rows[l].by = a
                           /\ l \notin r.own => r.pc \in {"find", "save"} /\ l \in r.todo
    BY <1>1, <1>2, <2>1 DEF Produces, Run
  <2>5. r.own \subseteq r.batch
    BY <1>2, <2>1, <2>2 DEF Produces
  <2> QED BY <1>2, <1>5, <2>2, <2>3, <2>4, <2>5 DEF Produces
<1>7. \A l \in r.own \cap (past.handled \ crossed) : r.rows[l].status = "handled"
  BY <1>1, <1>2 DEF RowInv, Handling, Run, k
<1>8. runs[a].left # 0
  BY DEF RowInv, TriesLeft
<1> QED BY <1>1, <1>2, <1>3, <1>4, <1>6, <1>7, <1>8, OneRunMoves DEF Open

\* A save that inserts, writes, or waits: alone, it never waits.
LEMMA SaveRowKeeps ==
    ASSUME RowAssumption, RowInv, NEW a \in Attempts, SaveRow(a)
    PROVE  RowInv'
<1> DEFINE r == runs[a]
           k == runs[a].on
<1>1. /\ r \in Run /\ k \in RowKeys /\ r.pc = "save" /\ Sees(a, k) \in Row
      /\ past \in Past /\ upsets \in 0 .. MaxUpsets /\ r.left # 0 /\ r.read \in Row
      /\ a \in 0 .. MaxAttempts
  BY DEF RowInv, RowTypeOK, TriesLeft, Run, SaveRow, Sees, Attempts, RowAssumption
<1>2. Saved(a) \in Row /\ Saved(a).by = a
      /\ Saved(a).status = IF r.read.status \in {"none", "open"}
                           THEN IF k \in r.answered THEN "answered" ELSE "open"
                           ELSE r.read.status
  BY <1>1 DEF Saved, Row
<1>h. k \in past.handled \ past.crossed => Sees(a, k).status = "handled"
  BY DEF RowInv, Handling, Sees
<1>3. CASE Insert(a) /\ UNCHANGED <<past, table, edits, upsets>>
  <2>1. CASE Sees(a, k) # NoRow
    BY <1>1, <1>3, <2>1, RetryKeeps DEF Insert
  <2>2. CASE Sees(a, k) = NoRow
    <3>1. SetRun(a, WrittenRow(r, Saved(a)))
      BY <1>3, <2>2 DEF Insert
    <3>2. k \notin past.handled \ past.crossed
      BY <1>h, <2>2 DEF NoRow
    <3>3. past' = [past EXCEPT !.crossed = past.crossed] /\ past.crossed \in SUBSET RowKeys
      BY <1>1, <1>3 DEF Past
    <3> QED BY <1>1, <1>2, <1>3, <3>1, <3>2, <3>3, WrittenKeeps
  <2> QED BY <2>1, <2>2
<1>4. ASSUME r.there, UNCHANGED <<table, edits, upsets>>,
             NEW now, now = Sees(a, k), NEW sets, sets = IF Saved(a).status = now.status THEN {} ELSE {"status"},
             IF Locked(k, a) THEN SetRun(a, [r EXCEPT !.pc = "wait", !.sets = sets])
                             ELSE SetRun(a, WrittenRow(r, Saved(a))),
             past' = [past EXCEPT !.crossed = IF now.status # r.read.status THEN @ \cup {k} ELSE @]
      PROVE  RowInv'
  <2> DEFINE crossed == IF now.status # r.read.status THEN past.crossed \cup {k} ELSE past.crossed
  <2>1. crossed \in SUBSET RowKeys /\ past.crossed \subseteq crossed
        /\ past' = [past EXCEPT !.crossed = crossed]
    BY <1>1, <1>4 DEF Past
  <2>2. k \in past.handled \ crossed => Saved(a).status = "handled"
    BY <1>2, <1>4, <1>h
  <2> HIDE DEF crossed
  <2>3. CASE ~Locked(k, a)
    BY <1>1, <1>2, <1>4, <2>1, <2>2, <2>3, WrittenKeeps
  <2>4. CASE Locked(k, a)
    <3> DEFINE q == [r EXCEPT !.pc = "wait", !.sets = sets]
    <3>1. sets \in SUBSET {"status"}
      BY <1>4
    <3>2. /\ q \in Run /\ q.pc = "wait" /\ q.own = r.own /\ q.rows = r.rows /\ q.left = r.left
      BY <1>1, <3>1 DEF Run
    <3>3. SetRun(a, q)
      BY <1>4, <2>4
    <3>4. past.tangled
      <4>1. PICK b \in Attempts \ {a} : k \in runs[b].own
        BY <2>4 DEF Locked
      <4>2. InTransaction(a) /\ InTransaction(b)
        BY <1>1, <4>1 DEF InTransaction, RowInv, OneTransaction
      <4> QED BY <4>1, <4>2 DEF RowInv, OneTransaction
    <3>5. /\ past' \in Past
          /\ past'.handled = past.handled /\ past'.touched = past.touched /\ past'.crossed = crossed
          /\ past'.tangled = past.tangled /\ past'.last = past.last /\ past'.batch = past.batch
      BY <1>1, <2>1 DEF Past
    <3>6. \A l \in r.own \cap (past.handled \ crossed) : r.rows[l].status = "handled"
      BY <2>1 DEF RowInv, Handling
    <3>7. \A l \in q.own \cap (past.handled \ past'.crossed) : q.rows[l].status = "handled"
      BY <3>2, <3>5, <3>6
    <3>8. /\ q.left # 0 /\ q.pc \in Open /\ runs[a].pc \in Open
          /\ UNCHANGED <<table, edits>> /\ upsets' \in 0 .. MaxUpsets
          /\ past.crossed \subseteq past'.crossed
      BY <1>1, <1>4, <2>1, <3>2, <3>5 DEF Open
    <3> HIDE DEF q
    <3> QED BY ONLY RowInv, a \in Attempts, <3>2, <3>3, <3>4, <3>5, <3>7, <3>8, OneRunMoves
  <2> QED BY <2>3, <2>4
<1> QED BY <1>3, <1>4 DEF SaveRow

\* A save that has waited is of transactions that tangled.
LEMMA UpdateRowKeeps ==
    ASSUME RowAssumption, RowInv, NEW a \in Attempts, UpdateRow(a)
    PROVE  RowInv'
<1> DEFINE r == runs[a]
           k == runs[a].on
           row == [by |-> a, status |-> IF r.sets = {} THEN table[k].status
                                        ELSE Saved(a).status]
           crossed == IF r.there /\ r.sets # {} /\ table[k].status # r.read.status
                      THEN past.crossed \cup {k} ELSE past.crossed
<1>1. /\ r \in Run /\ k \in RowKeys /\ r.pc = "wait" /\ table[k] \in Row
      /\ past \in Past /\ upsets \in 0 .. MaxUpsets /\ r.left # 0 /\ r.read \in Row
      /\ a \in 0 .. MaxAttempts
  BY DEF RowInv, RowTypeOK, TriesLeft, Run, UpdateRow, Attempts, RowAssumption
<1>2. Saved(a) \in Row /\ Saved(a).by = a
      /\ Saved(a).status = IF r.read.status \in {"none", "open"}
                           THEN IF k \in r.answered THEN "answered" ELSE "open"
                           ELSE r.read.status
  BY <1>1 DEF Saved, Row
<1>3. row \in Row /\ row.by = a
      /\ row.status = IF r.sets = {} THEN table[k].status ELSE Saved(a).status
  BY <1>1, <1>2 DEF Row
<1>4. /\ crossed \in SUBSET RowKeys /\ past.crossed \subseteq crossed
      /\ past' = [past EXCEPT !.crossed = crossed]
  BY <1>1 DEF UpdateRow, Past
<1>5. k \in past.handled \ past.crossed => table[k].status = "handled"
  BY DEF RowInv, Handling
<1>6. CASE r.there
  <2>1. k \in past.handled \ crossed => row.status = "handled"
    BY <1>2, <1>3, <1>5, <1>6
  <2>2. SetRun(a, WrittenRow(r, row)) /\ UNCHANGED <<table, edits, upsets>>
    BY <1>6 DEF UpdateRow
  <2> HIDE DEF row, crossed
  <2> QED BY <1>1, <1>3, <1>4, <2>1, <2>2, WrittenKeeps
<1>7. CASE ~r.there
  <2> DEFINE q == PastKey(r)
  <2>1. q \in Run /\ q.pc \in {"scan", "find"} /\ q.own = r.own /\ q.rows = r.rows /\ q.left = r.left
    BY <1>1, PastKeyFields
  <2>2. /\ SetRun(a, q) /\ UNCHANGED <<table, edits>> /\ upsets' \in 0 .. MaxUpsets
    BY <1>1, <1>7 DEF UpdateRow
  <2>3. /\ past' \in Past
        /\ past'.handled = past.handled /\ past'.touched = past.touched /\ past'.crossed = crossed
        /\ past'.tangled = past.tangled /\ past'.last = past.last /\ past'.batch = past.batch
    BY <1>1, <1>4 DEF Past
  <2> HIDE DEF q
  <2>4. past.tangled
    BY <1>1 DEF RowInv, Batches, InTransaction, Produces
  <2>5. \A l \in q.own \cap (past.handled \ past'.crossed) : q.rows[l].status = "handled"
    BY <1>4, <2>1, <2>3 DEF RowInv, Handling
  <2>6. q.left # 0 /\ q.pc \in Open /\ runs[a].pc \in Open /\ past.crossed \subseteq past'.crossed
    BY <1>1, <1>4, <2>1, <2>3 DEF Open
  <2> QED BY ONLY RowInv, a \in Attempts, <2>1, <2>2, <2>3, <2>4, <2>5, <2>6, OneRunMoves
<1> QED BY <1>6, <1>7

\* The scan finds every open row that others have left.
LEMMA ScanStaleKeeps ==
    ASSUME RowAssumption, RowInv, NEW a \in Attempts, ScanStale(a)
    PROVE  RowInv'
<1> DEFINE stale == {k \in RowKeys : Reaps(a, Sees(a, k))}
           r == [runs[a] EXCEPT !.pc = "reap", !.todo = stale]
<1>1. runs[a] \in Run /\ runs[a].pc = "scan" /\ runs[a].left # 0
      /\ upsets \in 0 .. MaxUpsets /\ past \in Past
  BY DEF RowInv, RowTypeOK, TriesLeft, ScanStale
<1>2. /\ r \in Run /\ r.pc = "reap" /\ r.todo = stale /\ r.batch = runs[a].batch
      /\ r.own = runs[a].own /\ r.rows = runs[a].rows /\ r.left = runs[a].left
  BY <1>1 DEF Run
<1>3. SetRun(a, r) /\ UNCHANGED <<table, edits, upsets, past>>
  BY DEF ScanStale
<1> HIDE DEF r
<1>4. runs'[a] = r
  BY <1>2, <1>3, RowChanges DEF RowInv
<1>5. ~past.tangled => Produces(a)'
  BY <1>1, <1>2, <1>3, <1>4 DEF RowInv, Batches, InTransaction, Produces, Sees, Reaps
<1>6. \A l \in r.own \cap (past.handled \ past.crossed) : r.rows[l].status = "handled"
  BY <1>2 DEF RowInv, Handling
<1> HIDE DEF stale
<1> QED BY <1>1, <1>2, <1>3, <1>5, <1>6, OneRunMoves DEF Open

\* What is reaped was open and of another extraction, so nobody has handled it.
LEMMA ReapRowKeeps ==
    ASSUME RowAssumption, RowInv, NEW a \in Attempts, NEW k \in RowKeys, ReapRow(a, k)
    PROVE  RowInv'
<1>1. /\ runs[a] \in Run /\ runs[a].pc = "reap" /\ runs[a].left # 0
      /\ upsets \in 0 .. MaxUpsets /\ past \in Past /\ k \in runs[a].todo /\ NoRow \in Row
      /\ UNCHANGED <<table, edits, upsets, past>>
  BY NoneTypes DEF RowInv, RowTypeOK, TriesLeft, ReapRow
<1>2. CASE ~Reaps(a, Sees(a, k))
  <2> DEFINE r == [runs[a] EXCEPT !.todo = @ \ {k}]
  <2>1. /\ r \in Run /\ r.pc = "reap" /\ r.todo = runs[a].todo \ {k} /\ r.batch = runs[a].batch
        /\ r.own = runs[a].own /\ r.rows = runs[a].rows /\ r.left = runs[a].left
    BY <1>1 DEF Run
  <2>2. SetRun(a, r)
    BY <1>2 DEF ReapRow
  <2> HIDE DEF r
  <2>3. runs'[a] = r
    BY <2>1, <2>2, RowChanges DEF RowInv
  <2>4. ~past.tangled => Produces(a)'
    BY <1>1, <1>2, <2>1, <2>3 DEF RowInv, Batches, InTransaction, Produces, Sees, Reaps
  <2>5. \A l \in r.own \cap (past.handled \ past.crossed) : r.rows[l].status = "handled"
    BY <2>1 DEF RowInv, Handling
  <2> QED BY <1>1, <2>1, <2>2, <2>4, <2>5, OneRunMoves DEF Open
<1>3. CASE Reaps(a, Sees(a, k))
  <2> DEFINE r == [runs[a] EXCEPT !.todo = @ \ {k}, !.own = @ \cup {k}, !.rows[k] = NoRow]
  <2>1. /\ r \in Run /\ r.pc = "reap" /\ r.todo = runs[a].todo \ {k} /\ r.batch = runs[a].batch
        /\ r.own = runs[a].own \cup {k} /\ r.left = runs[a].left
        /\ \A l \in RowKeys : r.rows[l] = IF l = k THEN NoRow ELSE runs[a].rows[l]
    BY <1>1 DEF Run
  <2>2. SetRun(a, r)
    BY <1>3 DEF ReapRow
  <2> HIDE DEF r
  <2>3. runs'[a] = r
    BY <2>1, <2>2, RowChanges DEF RowInv
  <2>4. NoRow.status = "none"
    BY DEF NoRow
  <2>5. ~past.tangled => Produces(a)'
    <3> SUFFICES ASSUME ~past.tangled PROVE Produces(a)'
      OBVIOUS
    <3>1. Produces(a)
      BY <1>1 DEF RowInv, Batches, InTransaction
    <3>2. k \notin runs[a].batch
      BY <1>1, <1>3, <3>1 DEF Produces, Reaps, Sees
    <3>3. k \notin runs[a].own
      BY <1>3, <2>4, <3>1, <3>2 DEF Produces, Reaps, Sees
    <3>4. Reaps(a, table[k])
      BY <1>3, <3>3 DEF Sees
    <3>5. \A l \in r.batch : l \in r.own /\ r.rows[l].by = a
      BY <1>1, <2>1, <3>1, <3>2 DEF Produces, Run
    <3>6. \A l \in r.own \ r.batch : r.rows[l] = NoRow /\ (l \notin past.touched => Reaps(a, table[l]))
      BY <1>1, <2>1, <3>1, <3>4 DEF Produces, Run
    <3>7. \A l \in RowKeys \ past.touched : Reaps(a, Sees(a, l))' => l \in r.todo
      <4> TAKE l \in RowKeys \ past.touched
      <4>1. CASE l = k
        BY <2>1, <2>3, <2>4, <4>1 DEF Reaps, Sees
      <4>2. CASE l # k
        BY <1>1, <2>1, <2>3, <3>1, <4>2 DEF Reaps, Sees, Produces
      <4> QED BY <4>1, <4>2
    <3> QED BY <1>1, <2>1, <2>3, <3>5, <3>6, <3>7 DEF Produces, Reaps
  <2>6. \A l \in r.own \cap (past.handled \ past.crossed) : r.rows[l].status = "handled"
    <3>1. k \notin past.handled \ past.crossed
      BY <1>3 DEF RowInv, Handling, Reaps, Sees
    <3> QED BY <1>1, <2>1, <3>1 DEF RowInv, Handling, Run
  <2> QED BY <1>1, <2>1, <2>2, <2>5, <2>6, OneRunMoves DEF Open
<1> QED BY <1>2, <1>3

\* The job is over.
LEMMA SucceedKeeps ==
    ASSUME RowAssumption, RowInv, NEW a \in Attempts, Succeed(a)
    PROVE  RowInv'
<1> DEFINE r == [NoRun EXCEPT !.pc = "succeeded", !.left = 0]
<1>1. /\ r \in Run /\ r.pc = "succeeded" /\ r.own = {}
  <2>1. NoRun \in Run /\ NoRun.own = {}
    BY NoneTypes DEF NoRun
  <2>2. 0 \in 0 .. RowTries
    BY DEF RowAssumption
  <2> QED BY <2>1, <2>2 DEF Run
<1>2. SetRun(a, r) /\ UNCHANGED <<table, edits, upsets, past>>
  BY DEF Succeed
<1>3. past \in Past /\ upsets \in 0 .. MaxUpsets
  BY DEF RowInv, RowTypeOK
<1> HIDE DEF r
<1> QED BY <1>1, <1>2, <1>3, OneRunMoves DEF Open

\* A run may fail anywhere before its end.
LEMMA RunFailsKeeps ==
    ASSUME RowAssumption, RowInv, NEW a \in Attempts, RunFails(a)
    PROVE  RowInv'
<1>1. upsets' \in 0 .. MaxUpsets
  BY DEF RunFails, Upset, RowInv, RowTypeOK, RowAssumption
<1> QED BY <1>1, RetryKeeps DEF RunFails
-----------------------------------------------------------------------------
\* A transaction that begins while another runs tangles with it.
LEMMA ExtractKeeps ==
    ASSUME RowAssumption, RowInv, NEW a \in Attempts, NEW batch \in SUBSET RowKeys,
           NEW answered \in {{}, batch}, Extract(a, batch, answered)
    PROVE  RowInv'
<1> DEFINE r == [NoRun EXCEPT !.pc = IF batch = {} THEN "scan" ELSE "find",
                              !.left = runs[a].left, !.batch = batch,
                              !.answered = answered, !.todo = batch]
           tangled == past.tangled \/ \E b \in Attempts : InTransaction(b)
<1>1. /\ runs[a] \in Run /\ runs[a].pc = "queued" /\ runs[a].left # 0 /\ runs[a].left \in 0 .. RowTries
      /\ past \in Past /\ tangled \in BOOLEAN
  BY DEF RowInv, RowTypeOK, TriesLeft, Extract, Run
<1>2. /\ r \in Run /\ r.pc = (IF batch = {} THEN "scan" ELSE "find") /\ r.left # 0
      /\ r.own = {} /\ r.batch = batch /\ r.todo = batch
  <2>1. NoRun \in Run /\ NoRun.own = {}
    BY NoneTypes DEF NoRun
  <2> QED BY <1>1, <2>1 DEF Run
<1>3. /\ SetRun(a, r) /\ UNCHANGED <<table, edits, upsets>>
      /\ past' = [past EXCEPT !.tangled = tangled]
  BY DEF Extract
<1>4. /\ past' \in Past /\ past'.tangled = tangled
      /\ past'.handled = past.handled /\ past'.touched = past.touched
      /\ past'.crossed = past.crossed /\ past'.last = past.last /\ past'.batch = past.batch
  BY <1>1, <1>3 DEF Past
<1>5. /\ runs' \in [Attempts -> Run] /\ runs'[a] = r
      /\ \A b \in Attempts \ {a} : runs'[b] = runs[b]
  BY <1>2, <1>3, RowChanges DEF RowInv
<1> HIDE DEF r
<1>6. RowTypeOK'
  BY <1>3, <1>4, <1>5 DEF RowInv, RowTypeOK
<1>7. TriesLeft'
  BY <1>2, <1>5 DEF RowInv, TriesLeft
<1>8. Handling'
  BY <1>2, <1>3, <1>4, <1>5 DEF RowInv, Handling
<1>9. ~tangled => ~past.tangled /\ \A b \in Attempts : InTransaction(b)' => b = a
  BY <1>5 DEF InTransaction
<1> HIDE DEF tangled
<1>10. OneTransaction'
  <2>1. \A b \in Attempts : runs'[b].own # {} => InTransaction(b)'
    BY <1>2, <1>5 DEF RowInv, OneTransaction, InTransaction
  <2>2. \A k \in RowKeys : edits'[k].pc # "idle" => k \in past'.touched
    BY <1>3, <1>4 DEF RowInv, OneTransaction
  <2>3. ~past'.tangled =>
           \A b, c \in Attempts : InTransaction(b)' /\ InTransaction(c)' => b = c
    BY <1>4, <1>9
  <2> QED BY <2>1, <2>2, <2>3 DEF OneTransaction
<1>11. Batches'
  <2>1. Produces(a)'
    BY <1>2, <1>5 DEF Produces
  <2> QED BY <1>4, <1>9, <2>1 DEF Batches
<1>12. Newest'
  BY <1>3, <1>4, <1>9 DEF RowInv, Newest
<1> QED BY <1>6, <1>7, <1>8, <1>10, <1>11, <1>12 DEF RowInv

\* What is alone and has reaped to the end leaves open only what it produced, or what
\* the run before it, of the same extraction, did.
LEMMA CommitKeeps ==
    ASSUME RowAssumption, RowInv, NEW a \in Attempts, Commit(a)
    PROVE  RowInv'
<1> DEFINE r == runs[a]
           gone == {k \in r.own : r.rows[k] = NoRow}
           batch == r.batch \cup IF past.last = a THEN past.batch ELSE {}
           tangled == \/ past.tangled \/ past.last > a
                      \/ \E b \in Attempts \ {a} : InTransaction(b)
           done == [NoRun EXCEPT !.pc = "persisted", !.left = r.left]
<1>1. /\ r \in Run /\ r.pc = "reap" /\ r.todo = {} /\ r.left # 0 /\ r.left \in 0 .. RowTries
      /\ past \in Past /\ a \in 0 .. MaxAttempts /\ a # 0 /\ upsets' = upsets
  <2>1. r \in Run /\ past \in Past /\ a \in 0 .. MaxAttempts /\ a # 0
    BY DEF RowInv, RowTypeOK, Attempts, RowAssumption
  <2>2. r.pc = "reap" /\ r.todo = {} /\ upsets' = upsets
    BY DEF Commit
  <2>3. r.left # 0 /\ r.left \in 0 .. RowTries
    BY <2>1, <2>2 DEF RowInv, TriesLeft, Run
  <2> QED BY <2>1, <2>2, <2>3
<1>2. /\ table' = [k \in RowKeys |-> Sees(a, k)]
      /\ \A k \in RowKeys : Sees(a, k) \in Row
  BY <1>1 DEF Commit, Sees, RowInv, RowTypeOK, Run
<1>3. /\ done \in Run /\ done.pc = "persisted" /\ done.own = {} /\ done.left # 0
  <2>1. NoRun \in Run /\ NoRun.own = {}
    BY NoneTypes DEF NoRun
  <2> QED BY <1>1, <2>1 DEF Run
<1>4. /\ past' = [past EXCEPT !.last = a, !.batch = batch, !.tangled = tangled]
      /\ batch \in SUBSET RowKeys /\ tangled \in BOOLEAN
  BY <1>1 DEF Commit, Past, Run
<1> HIDE DEF batch, tangled
<1>5. /\ past' \in Past /\ past'.tangled = tangled /\ past'.last = a /\ past'.batch = batch
      /\ past'.handled = past.handled /\ past'.touched = past.touched
      /\ past'.crossed = past.crossed
  BY <1>1, <1>4 DEF Past
<1>6. /\ runs' \in [Attempts -> Run] /\ runs'[a] = done
      /\ \A b \in Attempts \ {a} : /\ runs'[b].own = runs[b].own /\ runs'[b].rows = runs[b].rows
                                   /\ runs'[b].pc = runs[b].pc /\ runs'[b].left = runs[b].left
  <2> DEFINE other(b) == [runs[b] EXCEPT !.there = @ /\ runs[b].on \notin gone,
                                         !.todo = IF runs[b].pc = "reap" THEN @ \ gone ELSE @]
  <2>1. runs' = [b \in Attempts |-> IF b = a THEN done ELSE other(b)]
    BY DEF Commit
  <2>2. ASSUME NEW b \in Attempts
        PROVE  /\ other(b) \in Run
               /\ other(b).own = runs[b].own /\ other(b).rows = runs[b].rows
               /\ other(b).pc = runs[b].pc /\ other(b).left = runs[b].left
    <3> DEFINE there == runs[b].there /\ runs[b].on \notin gone
               todo == IF runs[b].pc = "reap" THEN runs[b].todo \ gone ELSE runs[b].todo
    <3>1. runs[b] \in Run
      BY DEF RowInv, RowTypeOK
    <3>2. there \in BOOLEAN /\ todo \in SUBSET RowKeys
      BY <3>1 DEF Run
    <3>3. other(b) = [runs[b] EXCEPT !.there = there, !.todo = todo]
      OBVIOUS
    <3> HIDE DEF there, todo, other
    <3> QED BY <3>1, <3>2, <3>3 DEF Run
  <2> HIDE DEF other, done
  <2> QED BY <1>3, <2>1, <2>2
<1>7. /\ edits' \in [RowKeys -> Edit] /\ \A k \in RowKeys : edits'[k].pc = edits[k].pc
  <2>1. edits' = [k \in RowKeys |-> [edits[k] EXCEPT !.there = @ /\ k \notin gone]]
    BY DEF Commit
  <2>2. ASSUME NEW k \in RowKeys
        PROVE  /\ [edits[k] EXCEPT !.there = @ /\ k \notin gone] \in Edit
               /\ [edits[k] EXCEPT !.there = @ /\ k \notin gone].pc = edits[k].pc
    <3> DEFINE there == edits[k].there /\ k \notin gone
    <3>1. edits[k] \in Edit
      BY DEF RowInv, RowTypeOK
    <3>2. there \in BOOLEAN
      BY <3>1 DEF Edit
    <3>3. [edits[k] EXCEPT !.there = @ /\ k \notin gone] = [edits[k] EXCEPT !.there = there]
      OBVIOUS
    <3> HIDE DEF there
    <3> QED BY <3>1, <3>2, <3>3 DEF Edit
  <2> HIDE DEF gone
  <2> QED BY <2>1, <2>2
<1> HIDE DEF gone, done
<1>8. ~tangled => /\ ~past.tangled /\ past.last <= a
                  /\ \A b \in Attempts \ {a} : ~InTransaction(b)
  BY <1>1 DEF tangled, Past
<1>9. RowTypeOK'
  BY <1>1, <1>2, <1>5, <1>6, <1>7 DEF RowInv, RowTypeOK
<1>10. TriesLeft'
  BY <1>3, <1>6 DEF RowInv, TriesLeft
<1>11. Handling'
  <2> SUFFICES ASSUME NEW k \in past.handled \ past.crossed
               PROVE  /\ table'[k].status = "handled"
                      /\ \A b \in Attempts : k \in runs'[b].own => runs'[b].rows[k].status = "handled"
    BY <1>5 DEF Handling
  <2>1. k \in RowKeys
    BY <1>1 DEF Past
  <2>2. Sees(a, k).status = "handled"
    BY DEF RowInv, Handling, Sees
  <2> QED BY <1>2, <1>3, <1>6, <2>1, <2>2 DEF RowInv, Handling
<1>12. \A b \in Attempts : InTransaction(b)' => InTransaction(b) /\ b # a
  BY <1>3, <1>6 DEF InTransaction
<1>13. OneTransaction'
  <2>1. \A b \in Attempts : runs'[b].own # {} => InTransaction(b)'
    BY <1>3, <1>6 DEF RowInv, OneTransaction, InTransaction
  <2>2. \A k \in RowKeys : edits'[k].pc # "idle" => k \in past'.touched
    BY <1>5, <1>7 DEF RowInv, OneTransaction
  <2> QED BY <1>5, <1>8, <1>12, <2>1, <2>2 DEF OneTransaction
<1>14. Batches'
  BY <1>5, <1>8, <1>12 DEF Batches
<1>15. Newest'
  <2> SUFFICES ASSUME ~tangled, NEW k \in RowKeys \ past.touched
               PROVE  /\ Sees(a, k).status = "open" => Sees(a, k).by = a /\ k \in batch
                      /\ k \in batch => Sees(a, k) # NoRow
    BY <1>2, <1>5 DEF Newest
  <2>1. Produces(a)
    BY <1>1, <1>8 DEF RowInv, Batches, InTransaction
  <2>2. /\ table[k].status = "open" => table[k].by = past.last /\ k \in past.batch
        /\ k \in past.batch => table[k] # NoRow
    BY <1>8 DEF RowInv, Newest
  <2>3. ~Reaps(a, Sees(a, k))
    BY <1>1, <2>1 DEF Produces
  <2>4. NoRow.status = "none" /\ NoRow.by = 0
    BY DEF NoRow
  <2>5. CASE k \in r.batch
    BY <1>1, <2>1, <2>3, <2>4, <2>5 DEF Produces, Sees, Reaps, batch
  <2>6. CASE k \notin r.batch /\ k \in r.own
    <3>1. Reaps(a, table[k]) /\ r.rows[k] = NoRow
      BY <2>1, <2>6 DEF Produces
    <3>2. past.last # a
      BY <2>2, <3>1 DEF Reaps
    <3> QED BY <2>4, <2>6, <3>1, <3>2 DEF batch, Sees
  <2>7. CASE k \notin r.batch /\ k \notin r.own
    BY <2>2, <2>3, <2>7 DEF batch, Sees, Reaps
  <2> QED BY <2>5, <2>6, <2>7
<1> QED BY <1>9, <1>10, <1>11, <1>13, <1>14, <1>15 DEF RowInv
-----------------------------------------------------------------------------
\* A request only marks its row as touched.
LEMMA AskStatusKeeps ==
    ASSUME RowAssumption, RowInv, NEW k \in RowKeys, NEW to \in {"open", "handled"},
           AskStatus(k, to)
    PROVE  RowInv'
<1> DEFINE e == [NoEdit EXCEPT !.pc = "save", !.read = table[k], !.to = to, !.there = TRUE]
<1>1. e \in Edit
  <2>1. table[k] \in Row
    BY DEF RowInv, RowTypeOK
  <2> QED BY NoneTypes, <2>1 DEF Edit
<1>2. edits' = [edits EXCEPT ![k] = e] /\ UNCHANGED <<table, runs>>
  BY DEF AskStatus, SetEdit
<1> HIDE DEF e
<1>3. /\ past' \in Past /\ past'.touched = past.touched \cup {k}
      /\ past'.handled = past.handled /\ past'.crossed = past.crossed
      /\ past'.last = past.last /\ past'.batch = past.batch /\ past'.tangled = past.tangled
  BY DEF AskStatus, RowInv, RowTypeOK, Past
<1>4. RowTypeOK'
  <2>1. upsets' \in 0 .. MaxUpsets
    BY DEF AskStatus, Upset, RowInv, RowTypeOK, RowAssumption
  <2> QED BY <1>1, <1>2, <1>3, <2>1 DEF RowInv, RowTypeOK
<1>5. TriesLeft'
  BY <1>2 DEF RowInv, TriesLeft
<1>6. Handling'
  BY <1>2, <1>3 DEF RowInv, Handling
<1>7. OneTransaction'
  <2>1. \A l \in RowKeys \ {k} : edits'[l] = edits[l]
    BY <1>2 DEF RowInv, RowTypeOK
  <2> QED BY <1>2, <1>3, <2>1 DEF RowInv, OneTransaction, InTransaction
<1>8. Batches'
  <2> SUFFICES ASSUME ~past.tangled, NEW a \in Attempts, InTransaction(a)
               PROVE  Produces(a)'
    BY <1>2, <1>3 DEF Batches, InTransaction
  <2>1. Produces(a)
    BY DEF RowInv, Batches
  <2> QED BY <1>2, <1>3, <2>1 DEF Produces, Reaps, Sees
<1>9. Newest'
  BY <1>2, <1>3 DEF RowInv, Newest
<1> QED BY <1>4, <1>5, <1>6, <1>7, <1>8, <1>9 DEF RowInv

\* The user's statement, on a row that no transaction holds.
LEMMA UserWrites ==
    ASSUME RowAssumption, RowInv, NEW k \in RowKeys, k \in past.touched,
           \A a \in Attempts : k \notin runs[a].own,
           NEW row \in Row, NEW to, NEW ok \in BOOLEAN, ok => row.status = to,
           table' = [table EXCEPT ![k] = row], Answered(k, to, ok), SetEdit(k, NoEdit),
           UNCHANGED <<runs, upsets>>
    PROVE  RowInv'
<1> DEFINE handled == IF to = "handled" THEN past.handled \cup {k} ELSE past.handled \ {k}
           crossed == IF ok THEN past.crossed ELSE past.crossed \cup {k}
<1>1. /\ past \in Past /\ handled \in SUBSET RowKeys /\ crossed \in SUBSET RowKeys
      /\ past' = [past EXCEPT !.handled = handled, !.crossed = crossed]
  BY DEF RowInv, RowTypeOK, Past, Answered
<1>2. /\ past' \in Past /\ past'.touched = past.touched /\ past'.handled = handled
      /\ past'.crossed = crossed /\ past'.last = past.last /\ past'.batch = past.batch
      /\ past'.tangled = past.tangled
  <2> HIDE DEF handled, crossed
  <2> QED BY <1>1 DEF Past
<1>3. /\ table' \in [RowKeys -> Row] /\ table'[k] = row
      /\ \A l \in RowKeys \ {k} : table'[l] = table[l]
      /\ edits' \in [RowKeys -> Edit] /\ edits'[k].pc = "idle"
      /\ \A l \in RowKeys \ {k} : edits'[l] = edits[l]
  <2>1. NoEdit.pc = "idle"
    BY DEF NoEdit
  <2> QED BY <2>1, NoneTypes DEF RowInv, RowTypeOK, SetEdit
<1>4. RowTypeOK'
  BY <1>2, <1>3 DEF RowInv, RowTypeOK
<1>5. TriesLeft'
  BY DEF RowInv, TriesLeft
<1>6. Handling'
  <2> SUFFICES ASSUME NEW l \in handled \ crossed
               PROVE  /\ table'[l].status = "handled"
                      /\ \A a \in Attempts : l \in runs[a].own => runs[a].rows[l].status = "handled"
    BY <1>2 DEF Handling
  <2>1. CASE l = k
    BY <1>3, <2>1
  <2>2. CASE l # k
    BY <1>1, <1>3, <2>2 DEF RowInv, Handling
  <2> QED BY <2>1, <2>2
<1> HIDE DEF handled, crossed
<1>7. OneTransaction'
  BY <1>2, <1>3 DEF RowInv, OneTransaction, InTransaction
<1>8. Batches'
  <2> SUFFICES ASSUME ~past.tangled, NEW a \in Attempts, InTransaction(a)
               PROVE  Produces(a)'
    BY <1>2 DEF Batches, InTransaction
  <2>1. Produces(a)
    BY DEF RowInv, Batches
  <2>2. \A l \in RowKeys \ past.touched : table'[l] = table[l]
    BY <1>3
  <2>3. runs[a].own \subseteq RowKeys
    BY DEF RowInv, RowTypeOK, Run
  <2> QED BY <1>2, <2>1, <2>2, <2>3 DEF Produces, Reaps, Sees
<1>9. Newest'
  BY <1>2, <1>3 DEF RowInv, Newest
<1> QED BY <1>4, <1>5, <1>6, <1>7, <1>8, <1>9 DEF RowInv

\* The user's save, which waits for a row that is held.
LEMMA SaveStatusKeeps ==
    ASSUME RowAssumption, RowInv, NEW k \in RowKeys, SaveStatus(k)
    PROVE  RowInv'
<1> DEFINE e == edits[k]
<1>1. /\ e \in Edit /\ e.pc = "save" /\ table[k] \in Row /\ e.read \in Row
      /\ k \in past.touched /\ UNCHANGED <<runs, upsets>>
  BY DEF RowInv, RowTypeOK, OneTransaction, SaveStatus, Edit
<1>2. CASE \E a \in Attempts : k \in runs[a].own
  <2> DEFINE sets == IF table[k].by = e.read.by THEN {} ELSE {"by"}
             f == [e EXCEPT !.pc = "wait", !.sets = sets]
  <2>1. f \in Edit
    <3>1. sets \in SUBSET {"by"}
      OBVIOUS
    <3> HIDE DEF sets
    <3> QED BY <1>1, <3>1 DEF Edit
  <2>2. edits' = [edits EXCEPT ![k] = f] /\ UNCHANGED <<table, past>>
    BY <1>2 DEF SaveStatus, SetEdit
  <2> HIDE DEF f
  <2>3. /\ edits' \in [RowKeys -> Edit] /\ \A l \in RowKeys \ {k} : edits'[l] = edits[l]
    BY <2>1, <2>2 DEF RowInv, RowTypeOK
  <2>4. RowTypeOK'
    BY <1>1, <2>2, <2>3 DEF RowInv, RowTypeOK
  <2>5. OneTransaction'
    BY <1>1, <2>2, <2>3 DEF RowInv, OneTransaction, InTransaction
  <2> QED BY <1>1, <2>2, <2>4, <2>5
          DEF RowInv, TriesLeft, Handling, Batches, Newest, InTransaction, Produces, Reaps, Sees
<1>3. CASE \A a \in Attempts : k \notin runs[a].own
  <2> DEFINE mine == [by |-> e.read.by, status |-> e.to]
             row == IF e.there \/ table[k] = NoRow THEN mine ELSE table[k]
  <2>1. mine \in Row /\ mine.status = e.to
    BY <1>1 DEF Row, Edit
  <2>2. row \in Row /\ e.there \in BOOLEAN /\ (e.there => row.status = e.to)
    BY <1>1, <2>1 DEF Edit
  <2>3. /\ table' = [table EXCEPT ![k] = row] /\ Answered(k, e.to, e.there) /\ SetEdit(k, NoEdit)
    BY <1>3 DEF SaveStatus
  <2> HIDE DEF row
  <2> QED BY <1>1, <1>3, <2>2, <2>3, UserWrites
<1> QED BY <1>2, <1>3

\* The user's save that has waited.
LEMMA UpdateStatusKeeps ==
    ASSUME RowAssumption, RowInv, NEW k \in RowKeys, UpdateStatus(k)
    PROVE  RowInv'
<1> DEFINE e == edits[k]
           mine == [status |-> e.to, by |-> IF e.sets = {} THEN table[k].by ELSE e.read.by]
           row == IF ~e.there THEN table[k] ELSE mine
<1>1. /\ e \in Edit /\ e.pc = "wait" /\ table[k] \in Row /\ e.read \in Row
      /\ k \in past.touched /\ UNCHANGED <<runs, upsets>>
      /\ \A a \in Attempts : k \notin runs[a].own
  BY DEF RowInv, RowTypeOK, OneTransaction, UpdateStatus, Edit
<1>2. mine \in Row /\ mine.status = e.to
  BY <1>1 DEF Row, Edit
<1>3. row \in Row /\ e.there \in BOOLEAN /\ (e.there => row.status = e.to)
  BY <1>1, <1>2 DEF Edit
<1>4. /\ table' = [table EXCEPT ![k] = row] /\ Answered(k, e.to, e.there) /\ SetEdit(k, NoEdit)
  BY DEF UpdateStatus
<1> HIDE DEF row
<1> QED BY <1>1, <1>3, <1>4, UserWrites
-----------------------------------------------------------------------------
\* The invariant holds at the start.
LEMMA RowInitInv == ASSUME RowAssumption, RowInit PROVE RowInv
<1>1. RowTypeOK
  <2>1. [touched |-> {}, handled |-> {}, crossed |-> {}, last |-> 0, batch |-> {},
         tangled |-> FALSE] \in Past
    BY DEF Past, RowAssumption
  <2> QED BY <2>1, NoneTypes DEF RowInit, RowTypeOK, RowAssumption
<1>2. \A a \in Attempts : runs[a].pc = "queued" /\ runs[a].own = {} /\ runs[a].left # 0
  BY DEF RowInit, NoRun, RowAssumption
<1>3. \A k \in RowKeys : table[k].status = "none" /\ edits[k].pc = "idle"
  BY DEF RowInit, NoRow, NoEdit
<1>4. past.handled = {} /\ past.batch = {}
  BY DEF RowInit
<1> QED BY <1>1, <1>2, <1>3, <1>4
        DEF RowInv, TriesLeft, Handling, OneTransaction, Batches, Newest, InTransaction

\* Every step keeps it.
LEMMA RowStep == ASSUME RowAssumption, RowInv, [RowNext]_rowVars PROVE RowInv'
<1>1. CASE UNCHANGED rowVars
  BY <1>1 DEF rowVars, RowInv, RowTypeOK, TriesLeft, Handling, OneTransaction, Batches, Newest,
              InTransaction, Produces, Reaps, Sees
<1>2. ASSUME NEW a \in Attempts,
             \/ SaveRow(a) \/ UpdateRow(a) \/ ScanStale(a) \/ Commit(a) \/ Succeed(a)
             \/ RunFails(a)
      PROVE  RowInv'
  BY <1>2, SaveRowKeeps, UpdateRowKeeps, ScanStaleKeeps, CommitKeeps, SucceedKeeps, RunFailsKeeps
<1>3. ASSUME NEW a \in Attempts, NEW batch \in SUBSET RowKeys, NEW answered \in {{}, batch},
             Extract(a, batch, answered)
      PROVE  RowInv'
  BY <1>3, ExtractKeeps
<1>4. ASSUME NEW a \in Attempts, NEW k \in RowKeys, FindRow(a, k) \/ ReapRow(a, k)
      PROVE  RowInv'
  BY <1>4, FindRowKeeps, ReapRowKeeps
<1>5. ASSUME NEW k \in RowKeys, SaveStatus(k) \/ UpdateStatus(k)
      PROVE  RowInv'
  BY <1>5, SaveStatusKeeps, UpdateStatusKeeps
<1>6. ASSUME NEW k \in RowKeys, NEW to \in {"open", "handled"}, AskStatus(k, to)
      PROVE  RowInv'
  BY <1>6, AskStatusKeeps
<1> HIDE DEF RowInv
<1> QED BY <1>1, <1>2, <1>3, <1>4, <1>5, <1>6 DEF RowNext

\* The invariant holds in every reachable state.
THEOREM RowInvariant == RowSpec => []RowInv
<1>1. RowInit => RowInv
  BY RowAssumption, RowInitInv
<1>2. RowInv /\ [RowNext]_rowVars => RowInv'
  BY RowAssumption, RowStep
<1> QED BY <1>1, <1>2, PTL DEF RowSpec

\* Every variable keeps to its type.
THEOREM RowTypeCorrect == RowSpec => []RowTypeOK
<1>1. RowInv => RowTypeOK
  BY DEF RowInv
<1> QED BY <1>1, RowInvariant, PTL

\* HandledStays: re-extractions, in any order and number, leave what the user has handled as it
\* is, unless a save crossed it.
THEOREM UserHasTheLastWord == RowSpec => []HandledStays
<1>1. RowInv => HandledStays
  BY DEF RowInv, Handling, HandledStays
<1> QED BY <1>1, RowInvariant, PTL

\* RowsAreNewest: the open rows are those of the extraction persisted last, through failures
\* and retries, until extractions overlap.
THEOREM ShowsTheNewest == RowSpec => []RowsAreNewest
<1>1. RowInv => RowsAreNewest
  BY DEF RowInv, Newest, RowsAreNewest
<1> QED BY <1>1, RowInvariant, PTL
(***************************************************************************)
(* CalendarLinks: the inductive invariant                                  *)
(***************************************************************************)
\* A pair without a link has no row.
LinksSound == \A e \in Events : pairs[e].kind = "none" => pairs[e] = NoLink

\* A pass deletes what it has read as automatic.
DeletesAuto ==
    \A c \in Syncers : syncs[c].pc = "delete" =>
        \A e \in syncs[c].todo : syncs[c].found[e].kind = "auto"

\* What a sync that is alone has read still holds, and how far it has come with its list.
Knows(c) ==
    LET s == syncs[c] IN
    /\ s.pc \in {"existing", "store"} => s.fetched = feed
    /\ s.pc = "store" => \A e \in Events : IF e \in s.todo THEN s.rows[e] = events[e]
                                           ELSE events[e].at = feed[e]
    /\ s.pc \in {"links", "insert", "delete"} =>
          /\ s.rows = events /\ s.auto = autoLink
          /\ \A e \in Events : events[e].at = feed[e]
    /\ s.pc = "insert" => /\ s.todo \subseteq Missing(s)
                          /\ \A e \in Events : IF e \in Missing(s) \ s.todo THEN pairs[e].kind = "auto"
                                               ELSE pairs[e] = s.found[e]
    /\ s.pc = "delete" => /\ s.todo \subseteq Stale(s)
                          /\ \A e \in Events :
                                IF e \in Missing(s) THEN pairs[e].kind = "auto"
                                ELSE pairs[e] = IF e \in Stale(s) \ s.todo THEN NoLink ELSE s.found[e]

\* While a sync is alone the others are at rest.
AloneIs ==
    \A c \in Syncers : syncs[c].alone =>
        /\ syncs[c].pc # "idle"
        /\ \A d \in Syncers \ {c} : syncs[d] = NoSync

AloneKnows == \A c \in Syncers : syncs[c].alone => Knows(c)

\* Once the calendar is settled, every sync is.
SettledRests == ledger.settled => \A c \in Syncers : syncs[c] = NoSync

CalendarInv ==
    /\ CalendarTypeOK /\ LinksSound /\ DeletesAuto /\ AloneIs /\ AloneKnows
    /\ SettledRests /\ DecisionsSurvive /\ OneSyncRepairs
-----------------------------------------------------------------------------
\* The empty rows, sync and request are ones.
LEMMA NoLinkTypes ==
    ASSUME CalendarAssumption
    PROVE  /\ NoEvent \in EventRow /\ NoLink \in Link /\ NoSync \in Sync /\ NoClick \in Click
           /\ NoSync.pc = "idle" /\ NoSync.alone = FALSE /\ NoSync.todo = {}
           /\ NoEvent.id = 0 /\ NoEvent.at = "gone" /\ NoLink.id = 0 /\ NoLink.kind = "none"
<1>1. NoEvent \in EventRow /\ NoLink \in Link
  BY CalendarAssumption DEF NoEvent, NoLink, EventRow, Link, RowIds, Places
<1>2. NoClick \in Click
  BY <1>1, CalendarAssumption DEF NoClick, Click, RowIds
<1>3. NoSync \in Sync
  BY <1>1 DEF NoSync, Sync, Places
<1> QED BY <1>1, <1>2, <1>3 DEF NoSync, NoEvent, NoLink

\* The fields of a sync.
LEMMA SyncParts ==
    ASSUME NEW s \in Sync
    PROVE  /\ s.pc \in {"idle", "existing", "store", "links", "insert", "delete"}
           /\ s.todo \in SUBSET Events /\ s.fetched \in [Events -> Places]
           /\ s.rows \in [Events -> EventRow] /\ s.auto \in BOOLEAN
           /\ s.found \in [Events -> Link] /\ s.alone \in BOOLEAN
BY DEF Sync

\* What the others keep when they are no longer alone.
Same(d) ==
    /\ syncs'[d].pc = syncs[d].pc /\ syncs'[d].todo = syncs[d].todo
    /\ syncs'[d].found = syncs[d].found /\ syncs'[d].alone = FALSE
    /\ syncs[d] = NoSync => syncs'[d] = NoSync

\* A sync that is disturbed keeps all but being alone.
LEMMA NotAlone ==
    ASSUME CalendarAssumption, NEW s \in Sync,
           NEW new, new = IF s = NoSync THEN NoSync ELSE [s EXCEPT !.alone = FALSE]
    PROVE  /\ new \in Sync /\ new.pc = s.pc /\ new.todo = s.todo /\ new.found = s.found
           /\ new.alone = FALSE /\ (s = NoSync => new = NoSync)
<1>1. CASE s = NoSync
  BY <1>1, NoLinkTypes
<1>2. CASE s # NoSync
  BY <1>2 DEF Sync
<1> QED BY <1>1, <1>2

\* A step of one sync disturbs the others,
LEMMA Advances ==
    ASSUME CalendarAssumption, syncs \in [Syncers -> Sync], NEW c \in Syncers, NEW s \in Sync,
           Advance(c, s)
    PROVE  /\ syncs' \in [Syncers -> Sync] /\ syncs'[c] = s
           /\ \A d \in Syncers \ {c} : Same(d)
<1>1. \A d \in Syncers : syncs'[d] = IF d = c THEN s ELSE IF syncs[d] = NoSync THEN NoSync
                                     ELSE [syncs[d] EXCEPT !.alone = FALSE]
  BY DEF Advance
<1>2. ASSUME NEW d \in Syncers \ {c} PROVE syncs'[d] \in Sync /\ Same(d)
  <2>1. syncs'[d] = IF syncs[d] = NoSync THEN NoSync ELSE [syncs[d] EXCEPT !.alone = FALSE]
    BY <1>1
  <2> QED BY <2>1, NotAlone DEF Same
<1>3. syncs'[c] = s
  BY <1>1
<1>4. syncs' \in [Syncers -> Sync]
  <2>1. \A d \in Syncers : syncs'[d] \in Sync
    BY <1>2, <1>3
  <2> QED BY <2>1 DEF Advance
<1> QED BY <1>2, <1>3, <1>4

\* and a step of anybody else disturbs them all.
LEMMA Disturbs ==
    ASSUME CalendarAssumption, syncs \in [Syncers -> Sync], Disturb
    PROVE  /\ syncs' \in [Syncers -> Sync] /\ \A d \in Syncers : Same(d)
<1>1. \A d \in Syncers : syncs'[d] = IF syncs[d] = NoSync THEN NoSync
                                     ELSE [syncs[d] EXCEPT !.alone = FALSE]
  BY DEF Disturb
<1>2. ASSUME NEW d \in Syncers PROVE syncs'[d] \in Sync /\ Same(d)
  <2>1. syncs'[d] = IF syncs[d] = NoSync THEN NoSync ELSE [syncs[d] EXCEPT !.alone = FALSE]
    BY <1>1
  <2> QED BY <2>1, NotAlone DEF Same
<1>3. syncs' \in [Syncers -> Sync]
  BY <1>2 DEF Disturb
<1> QED BY <1>2, <1>3

\* A step of one sync.
LEMMA SyncSteps ==
    ASSUME CalendarAssumption, CalendarInv, NEW c \in Syncers, NEW s \in Sync, Advance(c, s),
           s.pc = "delete" => \A e \in s.todo : s.found[e].kind = "auto",
           s.alone => s.pc # "idle" /\ (syncs[c].alone \/ \A d \in Syncers : syncs[d] = NoSync),
           s.alone => Knows(c)'
    PROVE  /\ syncs' \in [Syncers -> Sync] /\ DeletesAuto' /\ AloneIs' /\ AloneKnows'
<1>1. /\ syncs' \in [Syncers -> Sync] /\ syncs'[c] = s
      /\ \A d \in Syncers \ {c} : Same(d)
  BY Advances DEF CalendarInv, CalendarTypeOK
<1>2. DeletesAuto'
  BY <1>1 DEF DeletesAuto, CalendarInv, Same
<1>3. \A d \in Syncers : syncs'[d].alone => d = c /\ s.alone
  BY <1>1 DEF Same
<1>4. AloneIs'
  <2> SUFFICES ASSUME s.alone
               PROVE  s.pc # "idle" /\ \A d \in Syncers \ {c} : syncs'[d] = NoSync
    BY <1>1, <1>3 DEF AloneIs
  <2>1. \A d \in Syncers \ {c} : syncs[d] = NoSync
    BY DEF CalendarInv, AloneIs
  <2> QED BY <1>1, <2>1 DEF Same
<1>5. AloneKnows'
  <2> SUFFICES ASSUME NEW d \in Syncers, syncs'[d].alone PROVE Knows(d)'
    BY DEF AloneKnows
  <2> QED BY <1>3
<1> QED BY <1>1, <1>2, <1>4, <1>5

\* A step of somebody else.
LEMMA OtherSteps ==
    ASSUME CalendarAssumption, CalendarInv, Disturb
    PROVE  /\ syncs' \in [Syncers -> Sync] /\ DeletesAuto' /\ AloneIs' /\ AloneKnows'
           /\ \A d \in Syncers : syncs[d] = NoSync => syncs'[d] = NoSync
<1>1. syncs' \in [Syncers -> Sync] /\ \A d \in Syncers : Same(d)
  BY Disturbs DEF CalendarInv, CalendarTypeOK
<1>2. DeletesAuto'
  BY <1>1 DEF DeletesAuto, CalendarInv, Same
<1>3. \A d \in Syncers : ~syncs'[d].alone
  BY <1>1 DEF Same
<1>4. AloneIs' /\ AloneKnows'
  BY <1>3 DEF AloneIs, AloneKnows
<1> QED BY <1>1, <1>2, <1>4 DEF Same

\* While a sync is under way nothing is settled.
LEMMA NotSettled ==
    ASSUME CalendarAssumption, CalendarInv, NEW c \in Syncers, syncs[c].pc # "idle"
    PROVE  ~ledger.settled
BY NoLinkTypes DEF CalendarInv, SettledRests
-----------------------------------------------------------------------------
\* A sync that begins while the others rest is alone.
LEMMA FetchEventsStep ==
    ASSUME CalendarAssumption, CalendarInv, NEW c \in Syncers, FetchEvents(c)
    PROVE  CalendarInv'
<1> DEFINE s == [NoSync EXCEPT !.pc = "existing", !.fetched = feed,
                               !.alone = \A d \in Syncers : syncs[d] = NoSync]
<1>1. /\ Advance(c, s) /\ ledger' = [ledger EXCEPT !.settled = FALSE]
      /\ UNCHANGED <<feed, autoLink, events, pairs, clicks, inserted, shifts>>
  BY DEF FetchEvents, Unsettle
<1>2. s \in Sync /\ s.pc = "existing" /\ s.fetched = feed /\ (s.alone <=> \A d \in Syncers : syncs[d] = NoSync)
  BY NoLinkTypes DEF Sync, CalendarInv, CalendarTypeOK
<1> HIDE DEF s
<1>3. syncs' \in [Syncers -> Sync] /\ syncs'[c] = s
  BY <1>1, <1>2, Advances DEF CalendarInv, CalendarTypeOK
<1>4. Knows(c)'
  BY <1>1, <1>2, <1>3 DEF Knows
<1>5. syncs' \in [Syncers -> Sync] /\ DeletesAuto' /\ AloneIs' /\ AloneKnows'
  BY <1>1, <1>2, <1>4, SyncSteps
<1>6. /\ ledger' \in Ledger /\ ledger'.settled = FALSE /\ ledger'.decided = ledger.decided
      /\ ledger'.crossed = ledger.crossed
  BY <1>1 DEF CalendarInv, CalendarTypeOK, Ledger
<1>7. CalendarTypeOK'
  BY <1>1, <1>5, <1>6 DEF CalendarInv, CalendarTypeOK
<1>8. LinksSound' /\ SettledRests' /\ DecisionsSurvive' /\ OneSyncRepairs'
  BY <1>1, <1>6 DEF CalendarInv, LinksSound, SettledRests, DecisionsSurvive, OneSyncRepairs
<1> QED BY <1>5, <1>7, <1>8 DEF CalendarInv

\* A step of a sync that leaves the tables and the history alone.
LEMMA ReadsOn ==
    ASSUME CalendarAssumption, CalendarInv, NEW c \in Syncers, NEW s \in Sync, Advance(c, s),
           UNCHANGED <<feed, autoLink, events, pairs, clicks, inserted, shifts, ledger>>,
           syncs[c].pc # "idle", s.pc = "delete" => \A e \in s.todo : s.found[e].kind = "auto",
           s.alone => s.pc # "idle" /\ syncs[c].alone, s.alone => Knows(c)'
    PROVE  CalendarInv'
<1>1. syncs' \in [Syncers -> Sync] /\ DeletesAuto' /\ AloneIs' /\ AloneKnows'
  BY SyncSteps
<1>2. ~ledger.settled
  BY NotSettled
<1>3. CalendarTypeOK'
  BY <1>1 DEF CalendarInv, CalendarTypeOK
<1>4. LinksSound' /\ SettledRests' /\ DecisionsSurvive' /\ OneSyncRepairs'
  BY <1>2 DEF CalendarInv, LinksSound, SettledRests, DecisionsSurvive, OneSyncRepairs
<1> QED BY <1>1, <1>3, <1>4 DEF CalendarInv

\* A sync is one.
LEMMA SyncOf ==
    ASSUME CalendarInv, NEW c \in Syncers
    PROVE  syncs[c] \in Sync
BY DEF CalendarInv, CalendarTypeOK

\* It reads the rows it will store by,
LEMMA FindEventsStep ==
    ASSUME CalendarAssumption, CalendarInv, NEW c \in Syncers, FindEvents(c)
    PROVE  CalendarInv'
<1> DEFINE s == [syncs[c] EXCEPT !.pc = "store", !.todo = Events, !.rows = events]
<1>1. /\ syncs[c].pc = "existing" /\ Advance(c, s)
      /\ UNCHANGED <<feed, autoLink, events, pairs, clicks, inserted, shifts, ledger>>
  BY DEF FindEvents
<1>2. /\ s \in Sync /\ s.pc = "store" /\ s.todo = Events /\ s.rows = events
      /\ s.fetched = syncs[c].fetched /\ s.alone = syncs[c].alone
  BY SyncOf DEF Sync, CalendarInv, CalendarTypeOK
<1> HIDE DEF s
<1>3. syncs'[c] = s
  BY <1>1, <1>2, Advances DEF CalendarInv, CalendarTypeOK
<1>4. ASSUME s.alone PROVE Knows(c)'
  <2>1. syncs[c].fetched = feed
    BY <1>1, <1>2, <1>4 DEF CalendarInv, AloneKnows, Knows
  <2> QED BY <1>1, <1>2, <1>3, <2>1 DEF Knows
<1> QED BY <1>1, <1>2, <1>4, ReadsOn

\* reads them back when all are stored,
LEMMA ReadEventsStep ==
    ASSUME CalendarAssumption, CalendarInv, NEW c \in Syncers, ReadEvents(c)
    PROVE  CalendarInv'
<1> DEFINE s == [NoSync EXCEPT !.pc = "links", !.rows = events, !.auto = autoLink,
                               !.alone = syncs[c].alone]
<1>1. /\ syncs[c].pc = "store" /\ syncs[c].todo = {} /\ Advance(c, s)
      /\ UNCHANGED <<feed, autoLink, events, pairs, clicks, inserted, shifts, ledger>>
  BY DEF ReadEvents
<1>2. s \in Sync /\ s.pc = "links" /\ s.rows = events /\ s.auto = autoLink /\ s.alone = syncs[c].alone
  <2>1. syncs[c].alone \in BOOLEAN /\ events \in [Events -> EventRow] /\ autoLink \in BOOLEAN
    BY SyncOf, SyncParts DEF CalendarInv, CalendarTypeOK
  <2> QED BY <2>1, NoLinkTypes DEF Sync
<1> HIDE DEF s
<1>3. syncs'[c] = s
  BY <1>1, <1>2, Advances DEF CalendarInv, CalendarTypeOK
<1>4. ASSUME s.alone PROVE Knows(c)'
  <2>1. \A e \in Events : events[e].at = feed[e]
    BY <1>1, <1>2, <1>4 DEF CalendarInv, AloneKnows, Knows
  <2> QED BY <1>1, <1>2, <1>3, <2>1 DEF Knows
<1> QED BY <1>1, <1>2, <1>4, ReadsOn

\* reads the links, and lists the missing ones,
LEMMA ReadLinksStep ==
    ASSUME CalendarAssumption, CalendarInv, NEW c \in Syncers, ReadLinks(c)
    PROVE  CalendarInv'
<1> DEFINE r == [syncs[c] EXCEPT !.found = pairs]
           s == [r EXCEPT !.pc = "insert", !.todo = Missing(r)]
<1>1. /\ syncs[c].pc = "links" /\ Advance(c, s)
      /\ UNCHANGED <<feed, autoLink, events, pairs, clicks, inserted, shifts, ledger>>
  BY DEF ReadLinks
<1>2. /\ r \in Sync /\ r.found = pairs /\ r.rows = syncs[c].rows /\ r.auto = syncs[c].auto
      /\ r.alone = syncs[c].alone
  BY SyncOf DEF Sync, CalendarInv, CalendarTypeOK
<1>3. Missing(r) \in SUBSET Events
  BY DEF Missing, Desired
<1>4. /\ s \in Sync /\ s.pc = "insert" /\ s.todo = Missing(r) /\ s.found = pairs
      /\ s.rows = syncs[c].rows /\ s.auto = syncs[c].auto /\ s.alone = syncs[c].alone
  <2> SUFFICES ASSUME NEW t \in SUBSET Events, t = Missing(r)
               PROVE  LET new == [r EXCEPT !.pc = "insert", !.todo = t] IN
                      /\ new \in Sync /\ new.pc = "insert" /\ new.todo = t /\ new.found = pairs
                      /\ new.rows = syncs[c].rows /\ new.auto = syncs[c].auto
                      /\ new.alone = syncs[c].alone
    BY <1>3
  <2> HIDE DEF r
  <2> QED BY <1>2 DEF Sync
<1>5. Missing(s) = Missing(r)
  <2> HIDE DEF r, s
  <2> QED BY <1>2, <1>4 DEF Missing, Desired
<1> HIDE DEF r, s
<1>6. syncs'[c] = s
  BY <1>1, <1>4, Advances DEF CalendarInv, CalendarTypeOK
<1>7. ASSUME s.alone PROVE Knows(c)'
  <2>1. /\ syncs[c].rows = events /\ syncs[c].auto = autoLink
        /\ \A e \in Events : events[e].at = feed[e]
    BY <1>1, <1>4, <1>7 DEF CalendarInv, AloneKnows, Knows
  <2>2. syncs'[c].todo = Missing(syncs'[c])
    BY <1>4, <1>5, <1>6
  <2> QED BY <1>1, <1>4, <1>6, <2>1, <2>2 DEF Knows, Missing, Desired
<1> QED BY <1>1, <1>4, <1>7, ReadsOn

\* then those that are stale.
LEMMA TurnToStaleStep ==
    ASSUME CalendarAssumption, CalendarInv, NEW c \in Syncers, TurnToStale(c)
    PROVE  CalendarInv'
<1> DEFINE s == [syncs[c] EXCEPT !.pc = "delete", !.todo = Stale(syncs[c])]
<1>1. /\ syncs[c].pc = "insert" /\ syncs[c].todo = {} /\ Advance(c, s)
      /\ UNCHANGED <<feed, autoLink, events, pairs, clicks, inserted, shifts, ledger>>
  BY DEF TurnToStale, Goes
<1>2. Stale(syncs[c]) \in SUBSET Events /\ \A e \in Stale(syncs[c]) : syncs[c].found[e].kind = "auto"
  BY DEF Stale
<1>3. /\ s \in Sync /\ s.pc = "delete" /\ s.todo = Stale(syncs[c]) /\ s.found = syncs[c].found
      /\ s.rows = syncs[c].rows /\ s.auto = syncs[c].auto /\ s.alone = syncs[c].alone
  BY <1>2, SyncOf DEF Sync
<1> HIDE DEF s
<1>4. Stale(s) = Stale(syncs[c]) /\ Missing(s) = Missing(syncs[c])
  BY <1>3 DEF Missing, Desired, Stale
<1>5. syncs'[c] = s
  BY <1>1, <1>3, Advances DEF CalendarInv, CalendarTypeOK
<1>6. ASSUME s.alone PROVE Knows(c)'
  <2>1. /\ syncs[c].rows = events /\ syncs[c].auto = autoLink
        /\ \A e \in Events : events[e].at = feed[e]
        /\ \A e \in Events : IF e \in Missing(syncs[c]) THEN pairs[e].kind = "auto"
                             ELSE pairs[e] = syncs[c].found[e]
    BY <1>1, <1>3, <1>6 DEF CalendarInv, AloneKnows, Knows
  <2>2. Missing(syncs'[c]) = Missing(syncs[c]) /\ Stale(syncs'[c]) = syncs'[c].todo
    BY <1>3, <1>4, <1>5
  <2>3. syncs'[c].pc = "delete" /\ syncs'[c].rows = events' /\ syncs'[c].auto = autoLink'
    BY <1>1, <1>3, <1>5, <2>1
  <2>4. \A e \in Events :
           IF e \in Missing(syncs'[c]) THEN pairs'[e].kind = "auto"
           ELSE pairs'[e] = IF e \in Stale(syncs'[c]) \ syncs'[c].todo THEN NoLink ELSE syncs'[c].found[e]
    BY <1>1, <1>3, <1>5, <2>1, <2>2
  <2>5. \A e \in Events : events'[e].at = feed'[e]
    BY <1>1, <2>1
  <2> QED BY <2>2, <2>3, <2>4, <2>5 DEF Knows, Missing, Stale, Desired
<1> QED BY <1>1, <1>2, <1>3, <1>6, ReadsOn
-----------------------------------------------------------------------------
\* A step of a sync that may write, while nothing is settled.
LEMMA Writes ==
    ASSUME CalendarAssumption, CalendarInv, NEW c \in Syncers, NEW s \in Sync, Advance(c, s),
           UNCHANGED <<feed, autoLink, clicks, shifts>>, syncs[c].pc # "idle",
           events' \in [Events -> EventRow], pairs' \in [Events -> Link], inserted' \in RowIds,
           ledger' \in Ledger, ~ledger'.settled, LinksSound', DecisionsSurvive',
           s.pc = "delete" => \A e \in s.todo : s.found[e].kind = "auto",
           s.alone => s.pc # "idle" /\ syncs[c].alone, s.alone => Knows(c)'
    PROVE  CalendarInv'
<1>1. syncs' \in [Syncers -> Sync] /\ DeletesAuto' /\ AloneIs' /\ AloneKnows'
  BY SyncSteps
<1>2. CalendarTypeOK'
  BY <1>1 DEF CalendarInv, CalendarTypeOK
<1>3. SettledRests' /\ OneSyncRepairs'
  BY DEF SettledRests, OneSyncRepairs
<1> QED BY <1>1, <1>2, <1>3 DEF CalendarInv

\* A sync gets on with its list.
LEMMA GoesOn ==
    ASSUME CalendarAssumption, CalendarInv, NEW c \in Syncers,
           NEW pc \in {"idle", "existing", "store", "links", "insert", "delete"},
           NEW todo \in SUBSET Events, Goes(c, pc, todo)
    PROVE  \E s \in Sync :
              /\ Advance(c, s) /\ syncs'[c] = s
              /\ s.pc = pc /\ s.todo = todo /\ s.fetched = syncs[c].fetched
              /\ s.rows = syncs[c].rows /\ s.auto = syncs[c].auto
              /\ s.found = syncs[c].found /\ s.alone = syncs[c].alone
<1> DEFINE s == [syncs[c] EXCEPT !.pc = pc, !.todo = todo]
<1>1. Advance(c, s)
  BY DEF Goes
<1>2. /\ s \in Sync
      /\ s.pc = pc /\ s.todo = todo /\ s.fetched = syncs[c].fetched
      /\ s.rows = syncs[c].rows /\ s.auto = syncs[c].auto
      /\ s.found = syncs[c].found /\ s.alone = syncs[c].alone
  BY SyncOf DEF Sync
<1> HIDE DEF s
<1>3. syncs'[c] = s
  BY <1>1, <1>2, Advances DEF CalendarInv, CalendarTypeOK
<1> QED BY <1>1, <1>2, <1>3

\* A row that goes takes its link and the decision about it along.
LEMMA Drops ==
    ASSUME CalendarAssumption, CalendarInv, NEW e \in Events, Drop(e)
    PROVE  /\ events' \in [Events -> EventRow] /\ events'[e] = NoEvent
           /\ \A q \in Events \ {e} : events'[q] = events[q]
           /\ pairs' \in [Events -> Link] /\ LinksSound' /\ DecisionsSurvive'
           /\ ledger' \in Ledger /\ ledger'.settled = ledger.settled
<1>1. /\ events' \in [Events -> EventRow] /\ events'[e] = NoEvent
      /\ \A q \in Events \ {e} : events'[q] = events[q]
  BY NoLinkTypes DEF Drop, CalendarInv, CalendarTypeOK
<1>2. /\ pairs' \in [Events -> Link] /\ pairs'[e] = NoLink
      /\ \A q \in Events \ {e} : pairs'[q] = pairs[q]
  BY NoLinkTypes DEF Drop, CalendarInv, CalendarTypeOK
<1>3. /\ ledger' \in Ledger /\ ledger'.settled = ledger.settled
      /\ ledger'.decided[e] = "none" /\ ledger'.crossed = ledger.crossed \ {e}
      /\ \A q \in Events \ {e} : ledger'.decided[q] = ledger.decided[q]
  BY DEF Drop, CalendarInv, CalendarTypeOK, Ledger
<1>4. LinksSound'
  BY <1>2 DEF CalendarInv, LinksSound
<1>5. DecisionsSurvive'
  BY <1>2, <1>3 DEF CalendarInv, DecisionsSurvive
<1> QED BY <1>1, <1>2, <1>3, <1>4, <1>5

\* Storing an event brings its row to where the feed has it.
LEMMA StoreEventStep ==
    ASSUME CalendarAssumption, CalendarInv, NEW c \in Syncers, NEW e \in Events, StoreEvent(c, e)
    PROVE  CalendarInv'
<1> DEFINE row == syncs[c].rows[e]
           there == syncs[c].fetched[e]
           rest == syncs[c].todo \ {e}
<1>1. /\ syncs[c].pc = "store" /\ e \in syncs[c].todo
      /\ UNCHANGED <<feed, autoLink, clicks, shifts>>
  BY DEF StoreEvent
<1>2. ~ledger.settled
  BY <1>1, NotSettled
<1>3. row \in EventRow /\ there \in Places /\ rest \in SUBSET Events
  BY SyncOf, SyncParts
<1>4. syncs[c].alone => row = events[e] /\ syncs[c].fetched = feed
  BY <1>1 DEF CalendarInv, AloneKnows, Knows
<1>5. ASSUME NEW todo \in SUBSET Events, Goes(c, "store", todo),
             events' \in [Events -> EventRow], pairs' \in [Events -> Link], inserted' \in RowIds,
             ledger' \in Ledger, ~ledger'.settled, LinksSound', DecisionsSurvive',
             \A q \in Events \ {e} : events'[q] = events[q],
             syncs[c].alone => todo = rest /\ events'[e].at = feed[e]
      PROVE  CalendarInv'
  <2>1. PICK s \in Sync :
              /\ Advance(c, s) /\ syncs'[c] = s
              /\ s.pc = "store" /\ s.todo = todo /\ s.fetched = syncs[c].fetched
              /\ s.rows = syncs[c].rows /\ s.auto = syncs[c].auto
              /\ s.found = syncs[c].found /\ s.alone = syncs[c].alone
    BY <1>5, GoesOn
  <2>2. ASSUME s.alone PROVE Knows(c)'
    <3>1. \A q \in Events : IF q \in syncs[c].todo THEN syncs[c].rows[q] = events[q]
                            ELSE events[q].at = feed[q]
      BY <1>1, <2>1, <2>2 DEF CalendarInv, AloneKnows, Knows
    <3>2. \A q \in Events : IF q \in syncs'[c].todo THEN syncs'[c].rows[q] = events'[q]
                            ELSE events'[q].at = feed'[q]
      BY <1>1, <1>5, <2>1, <2>2, <3>1
    <3>3. syncs'[c].fetched = feed'
      BY <1>1, <1>4, <2>1, <2>2
    <3> QED BY <2>1, <3>2, <3>3 DEF Knows
  <2>3. s.pc # "delete" /\ (s.alone => s.pc # "idle" /\ syncs[c].alone)
    BY <2>1
  <2> QED BY <1>1, <1>5, <2>1, <2>2, <2>3, Writes
<1>6. /\ events \in [Events -> EventRow] /\ pairs \in [Events -> Link] /\ inserted \in RowIds
      /\ ledger \in Ledger /\ LinksSound /\ DecisionsSurvive
  BY DEF CalendarInv, CalendarTypeOK
<1>7. UNCHANGED pairs => LinksSound' /\ pairs' \in [Events -> Link]
  BY <1>6 DEF LinksSound
<1>8. UNCHANGED <<pairs, ledger>> => DecisionsSurvive' /\ ledger' \in Ledger /\ ~ledger'.settled
  BY <1>2, <1>6 DEF DecisionsSurvive
<1>9. CASE there = "gone" /\ Goes(c, "store", rest)
           /\ (IF row # NoEvent /\ events[e].id = row.id THEN Drop(e)
               ELSE UNCHANGED <<events, pairs, ledger>>) /\ UNCHANGED inserted
  <2>1. CASE row # NoEvent /\ events[e].id = row.id
    <3>1. Drop(e)
      BY <1>9, <2>1
    <3>2. /\ events' \in [Events -> EventRow] /\ events'[e] = NoEvent
          /\ \A q \in Events \ {e} : events'[q] = events[q]
          /\ pairs' \in [Events -> Link] /\ LinksSound' /\ DecisionsSurvive'
          /\ ledger' \in Ledger /\ ledger'.settled = ledger.settled
      BY <3>1, Drops
    <3>3. syncs[c].alone => events'[e].at = feed[e]
      BY <1>4, <1>9, <3>2, NoLinkTypes
    <3>4. inserted' \in RowIds /\ ~ledger'.settled
      BY <1>2, <1>6, <1>9, <3>2
    <3> HIDE DEF rest, row, there
    <3> QED BY <1>3, <1>5, <1>9, <3>2, <3>3, <3>4
  <2>2. CASE ~(row # NoEvent /\ events[e].id = row.id)
    <3>1. UNCHANGED <<events, pairs, ledger, inserted>>
      BY <1>9, <2>2
    <3>2. syncs[c].alone => events'[e].at = feed[e]
      BY <1>4, <1>9, <2>2, <3>1, NoLinkTypes
    <3> HIDE DEF rest, row, there
    <3> QED BY <1>3, <1>5, <1>6, <1>7, <1>8, <1>9, <3>1, <3>2
  <2> QED BY <2>1, <2>2
<1>10. CASE /\ there # "gone" /\ (row # NoEvent => row.at # there)
            /\ events[e].id \notin {0, row.id} /\ Goes(c, "store", {})
            /\ UNCHANGED <<events, inserted, pairs, ledger>>
  <2>1. ~syncs[c].alone
    BY <1>4, <1>10
  <2> HIDE DEF rest, row, there
  <2> QED BY <1>5, <1>6, <1>7, <1>8, <1>10, <2>1
<1>11. CASE /\ Goes(c, "store", rest) /\ UNCHANGED <<pairs, ledger>>
            /\ \/ /\ row # NoEvent /\ events' = [events EXCEPT ![e] = [id |-> row.id, at |-> there]]
                  /\ UNCHANGED inserted
               \/ /\ Fresh
                  /\ events' = [events EXCEPT ![e] = [id |-> inserted', at |-> there]]
  <2>1. inserted' \in RowIds
    BY <1>6, <1>11, CalendarAssumption DEF Fresh, RowIds
  <2>2. \E i \in RowIds : events' = [events EXCEPT ![e] = [id |-> i, at |-> there]]
    BY <1>3, <1>11, <2>1 DEF EventRow
  <2>3. /\ events' \in [Events -> EventRow] /\ events'[e].at = there
        /\ \A q \in Events \ {e} : events'[q] = events[q]
    BY <1>3, <1>6, <2>2 DEF EventRow
  <2>4. syncs[c].alone => events'[e].at = feed[e]
    BY <1>4, <2>3
  <2> HIDE DEF rest, row, there
  <2> QED BY <1>3, <1>5, <1>7, <1>8, <1>11, <2>1, <2>3, <2>4
<1>12. CASE there = row.at /\ Goes(c, "store", rest) /\ UNCHANGED <<events, pairs, inserted, ledger>>
  <2>1. syncs[c].alone => events'[e].at = feed[e]
    BY <1>4, <1>12
  <2> HIDE DEF rest, row, there
  <2> QED BY <1>3, <1>5, <1>6, <1>7, <1>8, <1>12, <2>1
<1> QED BY <1>9, <1>10, <1>11, <1>12 DEF StoreEvent

\* Inserting a link takes a pair that has none.
LEMMA InsertLinkStep ==
    ASSUME CalendarAssumption, CalendarInv, NEW c \in Syncers, NEW e \in Events, InsertLink(c, e)
    PROVE  CalendarInv'
<1>1. /\ syncs[c].pc = "insert" /\ e \in syncs[c].todo
      /\ UNCHANGED <<feed, autoLink, events, clicks, shifts, ledger>>
  BY DEF InsertLink
<1>2. ~ledger.settled
  BY <1>1, NotSettled
<1>3. /\ events \in [Events -> EventRow] /\ pairs \in [Events -> Link] /\ inserted \in RowIds
      /\ ledger \in Ledger /\ LinksSound /\ DecisionsSurvive
  BY DEF CalendarInv, CalendarTypeOK
<1>4. CASE Advance(c, NoSync) /\ UNCHANGED <<pairs, inserted>>
  <2>1. LinksSound' /\ DecisionsSurvive'
    BY <1>1, <1>3, <1>4 DEF LinksSound, DecisionsSurvive
  <2>2. NoSync \in Sync /\ NoSync.pc # "delete" /\ ~NoSync.alone
    BY NoLinkTypes
  <2> QED BY <1>1, <1>2, <1>3, <1>4, <2>1, <2>2, Writes
<1>5. CASE /\ pairs[e] = NoLink /\ events[e].id = syncs[c].rows[e].id
           /\ Goes(c, "insert", syncs[c].todo \ {e}) /\ Fresh
           /\ pairs' = [pairs EXCEPT ![e] = [id |-> inserted', kind |-> "auto"]]
  <2>1. PICK s \in Sync :
              /\ Advance(c, s) /\ syncs'[c] = s
              /\ s.pc = "insert" /\ s.todo = syncs[c].todo \ {e} /\ s.fetched = syncs[c].fetched
              /\ s.rows = syncs[c].rows /\ s.auto = syncs[c].auto
              /\ s.found = syncs[c].found /\ s.alone = syncs[c].alone
    <3>1. syncs[c].todo \ {e} \in SUBSET Events
      BY SyncOf, SyncParts
    <3> QED BY <1>5, <3>1, GoesOn
  <2>2. inserted' \in RowIds
    BY <1>3, <1>5, CalendarAssumption DEF Fresh, RowIds
  <2>3. /\ pairs' \in [Events -> Link] /\ pairs'[e].kind = "auto"
        /\ \A q \in Events \ {e} : pairs'[q] = pairs[q]
    BY <1>3, <1>5, <2>2 DEF Link
  <2>4. LinksSound'
    BY <1>3, <2>3 DEF LinksSound
  <2>5. DecisionsSurvive'
    <3>1. ledger.decided[e] # "none" => e \in ledger.crossed
      BY <1>3, <1>5, NoLinkTypes DEF DecisionsSurvive
    <3> QED BY <1>1, <1>3, <2>3, <3>1 DEF DecisionsSurvive
  <2>6. ASSUME s.alone PROVE Knows(c)'
    <3>1. /\ syncs[c].rows = events /\ syncs[c].auto = autoLink
          /\ \A q \in Events : events[q].at = feed[q]
          /\ syncs[c].todo \subseteq Missing(syncs[c])
          /\ \A q \in Events :
                IF q \in Missing(syncs[c]) \ syncs[c].todo THEN pairs[q].kind = "auto"
                ELSE pairs[q] = syncs[c].found[q]
      BY <1>1, <2>1, <2>6 DEF CalendarInv, AloneKnows, Knows
    <3>2. Missing(syncs'[c]) = Missing(syncs[c])
      BY <2>1 DEF Missing, Desired
    <3>3. syncs'[c].todo \subseteq Missing(syncs'[c]) /\ e \in Missing(syncs'[c])
      BY <1>1, <2>1, <3>1, <3>2
    <3>4. \A q \in Events :
             IF q \in Missing(syncs'[c]) \ syncs'[c].todo THEN pairs'[q].kind = "auto"
             ELSE pairs'[q] = syncs'[c].found[q]
      <4> SUFFICES ASSUME NEW q \in Events
                   PROVE  IF q \in Missing(syncs'[c]) \ syncs'[c].todo THEN pairs'[q].kind = "auto"
                          ELSE pairs'[q] = syncs'[c].found[q]
        OBVIOUS
      <4>1. CASE q = e
        BY <2>1, <2>3, <3>3, <4>1
      <4>2. CASE q # e
        BY <2>1, <2>3, <3>1, <3>2, <4>2
      <4> QED BY <4>1, <4>2
    <3>5. syncs'[c].pc = "insert" /\ syncs'[c].rows = events' /\ syncs'[c].auto = autoLink'
      BY <1>1, <2>1, <3>1
    <3>6. \A q \in Events : events'[q].at = feed'[q]
      BY <1>1, <3>1
    <3> QED BY <3>3, <3>4, <3>5, <3>6 DEF Knows, Missing, Desired
  <2>7. s.pc # "delete" /\ (s.alone => s.pc # "idle" /\ syncs[c].alone) /\ syncs[c].pc # "idle"
    BY <1>1, <2>1
  <2> QED BY <1>1, <1>2, <1>3, <2>1, <2>2, <2>3, <2>4, <2>5, <2>6, <2>7, Writes
<1> QED BY <1>4, <1>5 DEF InsertLink

\* A delete takes an automatic link, or the pair is noted as crossed.
LEMMA DeleteLinkStep ==
    ASSUME CalendarAssumption, CalendarInv, NEW c \in Syncers, NEW e \in Events, DeleteLink(c, e)
    PROVE  CalendarInv'
<1> DEFINE hit == pairs[e].id = syncs[c].found[e].id
<1>1. /\ syncs[c].pc = "delete" /\ e \in syncs[c].todo
      /\ Goes(c, "delete", syncs[c].todo \ {e})
      /\ pairs' = [pairs EXCEPT ![e] = IF hit THEN NoLink ELSE @]
      /\ ledger' = [ledger EXCEPT !.crossed =
                      IF hit /\ pairs[e].kind # syncs[c].found[e].kind THEN @ \cup {e} ELSE @]
      /\ UNCHANGED <<feed, autoLink, events, clicks, inserted, shifts>>
  BY DEF DeleteLink
<1>2. ~ledger.settled
  BY <1>1, NotSettled
<1>3. /\ events \in [Events -> EventRow] /\ pairs \in [Events -> Link] /\ inserted \in RowIds
      /\ ledger \in Ledger /\ LinksSound /\ DecisionsSurvive
  BY DEF CalendarInv, CalendarTypeOK
<1>4. /\ pairs' \in [Events -> Link] /\ pairs'[e] = IF hit THEN NoLink ELSE pairs[e]
      /\ \A q \in Events \ {e} : pairs'[q] = pairs[q]
  BY <1>1, <1>3, NoLinkTypes
<1>5. /\ ledger' \in Ledger /\ ledger'.settled = ledger.settled /\ ledger'.decided = ledger.decided
      /\ ledger'.crossed = IF hit /\ pairs[e].kind # syncs[c].found[e].kind
                           THEN ledger.crossed \cup {e} ELSE ledger.crossed
  BY <1>1, <1>3 DEF Ledger
<1>6. syncs[c].found[e].kind = "auto" /\ \A q \in syncs[c].todo \ {e} : syncs[c].found[q].kind = "auto"
  BY <1>1 DEF CalendarInv, DeletesAuto
<1>7. PICK s \in Sync :
            /\ Advance(c, s) /\ syncs'[c] = s
            /\ s.pc = "delete" /\ s.todo = syncs[c].todo \ {e} /\ s.fetched = syncs[c].fetched
            /\ s.rows = syncs[c].rows /\ s.auto = syncs[c].auto
            /\ s.found = syncs[c].found /\ s.alone = syncs[c].alone
  <2>1. syncs[c].todo \ {e} \in SUBSET Events
    BY SyncOf, SyncParts
  <2> QED BY <1>1, <2>1, GoesOn
<1>8. LinksSound'
  BY <1>3, <1>4 DEF LinksSound
<1>9. DecisionsSurvive'
  <2> SUFFICES ASSUME NEW q \in Events, ledger.decided[q] # "none"
               PROVE  pairs'[q].kind = ledger.decided[q] \/ q \in ledger'.crossed
    BY <1>5 DEF DecisionsSurvive
  <2>1. pairs[q].kind = ledger.decided[q] \/ q \in ledger.crossed
    BY <1>3 DEF DecisionsSurvive
  <2>2. ledger.decided[q] \in {"none", "manual", "suppressed"}
    BY <1>3 DEF Ledger
  <2>3. CASE q = e /\ hit
    BY <1>5, <1>6, <2>1, <2>2, <2>3
  <2>4. CASE ~(q = e /\ hit)
    BY <1>4, <1>5, <2>1, <2>4
  <2> QED BY <2>3, <2>4
<1>10. ASSUME s.alone PROVE Knows(c)'
  <2>1. /\ syncs[c].rows = events /\ syncs[c].auto = autoLink
        /\ \A q \in Events : events[q].at = feed[q]
        /\ syncs[c].todo \subseteq Stale(syncs[c])
        /\ \A q \in Events :
              IF q \in Missing(syncs[c]) THEN pairs[q].kind = "auto"
              ELSE pairs[q] = IF q \in Stale(syncs[c]) \ syncs[c].todo THEN NoLink
                              ELSE syncs[c].found[q]
    BY <1>1, <1>7, <1>10 DEF CalendarInv, AloneKnows, Knows
  <2>2. Missing(syncs'[c]) = Missing(syncs[c]) /\ Stale(syncs'[c]) = Stale(syncs[c])
    BY <1>7 DEF Missing, Desired, Stale
  <2>3. e \in Stale(syncs[c]) /\ e \notin Missing(syncs[c])
    <3>1. e \in Stale(syncs[c])
      BY <1>1, <2>1
    <3> QED BY <3>1 DEF Missing, Stale
  <2>4. pairs'[e] = NoLink
    <3>1. pairs[e] = syncs[c].found[e]
      BY <1>1, <2>1, <2>3
    <3> QED BY <1>4, <3>1
  <2>5. \A q \in Events :
           IF q \in Missing(syncs'[c]) THEN pairs'[q].kind = "auto"
           ELSE pairs'[q] = IF q \in Stale(syncs'[c]) \ syncs'[c].todo THEN NoLink
                            ELSE syncs'[c].found[q]
    <3> SUFFICES ASSUME NEW q \in Events
                 PROVE  IF q \in Missing(syncs'[c]) THEN pairs'[q].kind = "auto"
                        ELSE pairs'[q] = IF q \in Stale(syncs'[c]) \ syncs'[c].todo THEN NoLink
                                         ELSE syncs'[c].found[q]
      OBVIOUS
    <3>1. CASE q = e
      BY <1>7, <2>2, <2>3, <2>4, <3>1
    <3>2. CASE q # e
      <4> HIDE DEF hit
      <4> QED BY <1>4, <1>7, <2>1, <2>2, <3>2
    <3> QED BY <3>1, <3>2
  <2>6. syncs'[c].pc = "delete" /\ syncs'[c].rows = events' /\ syncs'[c].auto = autoLink'
    BY <1>1, <1>7, <2>1
  <2>7. \A q \in Events : events'[q].at = feed'[q]
    BY <1>1, <2>1
  <2>8. syncs'[c].todo \subseteq Stale(syncs'[c])
    BY <1>7, <2>1, <2>2
  <2> QED BY <2>5, <2>6, <2>7, <2>8 DEF Knows, Missing, Desired, Stale
<1>11. /\ s.pc = "delete" => \A q \in s.todo : s.found[q].kind = "auto"
       /\ s.alone => s.pc # "idle" /\ syncs[c].alone
       /\ syncs[c].pc # "idle" /\ ~ledger'.settled
  BY <1>1, <1>2, <1>5, <1>6, <1>7
<1> HIDE DEF hit
<1> QED BY <1>1, <1>3, <1>4, <1>5, <1>7, <1>8, <1>9, <1>10, <1>11, Writes

\* A sync that was alone to its end leaves the links the feed asks for.
LEMMA EndSyncStep ==
    ASSUME CalendarAssumption, CalendarInv, NEW c \in Syncers, EndSync(c)
    PROVE  CalendarInv'
<1>1. /\ syncs[c].pc = "delete" /\ syncs[c].todo = {} /\ Advance(c, NoSync)
      /\ ledger' = [ledger EXCEPT !.settled = syncs[c].alone]
      /\ UNCHANGED <<feed, autoLink, events, pairs, clicks, inserted, shifts>>
  BY DEF EndSync
<1>2. NoSync \in Sync /\ NoSync.pc # "delete" /\ ~NoSync.alone
  BY NoLinkTypes
<1>3. syncs' \in [Syncers -> Sync] /\ DeletesAuto' /\ AloneIs' /\ AloneKnows'
  BY <1>1, <1>2, SyncSteps
<1>4. syncs'[c] = NoSync /\ \A d \in Syncers \ {c} : Same(d)
  BY <1>1, <1>2, Advances DEF CalendarInv, CalendarTypeOK
<1>5. /\ ledger' \in Ledger /\ ledger'.settled = syncs[c].alone /\ ledger'.decided = ledger.decided
      /\ ledger'.crossed = ledger.crossed
  BY <1>1, SyncOf, SyncParts DEF CalendarInv, CalendarTypeOK, Ledger
<1>6. CalendarTypeOK' /\ LinksSound' /\ DecisionsSurvive'
  BY <1>1, <1>3, <1>5 DEF CalendarInv, CalendarTypeOK, LinksSound, DecisionsSurvive
<1>7. SettledRests'
  <2> SUFFICES ASSUME syncs[c].alone, NEW d \in Syncers PROVE syncs'[d] = NoSync
    BY <1>5 DEF SettledRests
  <2>1. d # c => syncs[d] = NoSync
    BY DEF CalendarInv, AloneIs
  <2> QED BY <1>4, <2>1 DEF Same
<1>8. OneSyncRepairs'
  <2> SUFFICES ASSUME syncs[c].alone, NEW e \in Events
               PROVE  /\ events[e].at = feed[e]
                      /\ autoLink /\ pairs[e].kind \in {"none", "auto"} =>
                           (pairs[e].kind = "auto" <=> feed[e] = "over")
    BY <1>1, <1>5 DEF OneSyncRepairs
  <2>1. /\ syncs[c].rows = events /\ syncs[c].auto = autoLink /\ events[e].at = feed[e]
        /\ IF e \in Missing(syncs[c]) THEN pairs[e].kind = "auto"
           ELSE pairs[e] = IF e \in Stale(syncs[c]) THEN NoLink ELSE syncs[c].found[e]
    BY <1>1 DEF CalendarInv, AloneKnows, Knows
  <2>2. pairs[e].kind = "none" => pairs[e] = NoLink
    BY DEF CalendarInv, LinksSound
  <2>3. ASSUME autoLink, pairs[e].kind \in {"none", "auto"}
        PROVE  pairs[e].kind = "auto" <=> feed[e] = "over"
    <3>1. e \in Desired(syncs[c]) <=> feed[e] = "over"
      BY <2>1, <2>3 DEF Desired
    <3>2. CASE e \in Desired(syncs[c])
      <4>1. e \in Missing(syncs[c]) <=> syncs[c].found[e] = NoLink
        BY <3>2 DEF Missing
      <4>2. e \notin Stale(syncs[c])
        BY <3>2 DEF Stale
      <4>3. pairs[e].kind = "auto"
        BY <2>1, <2>2, <2>3, <4>1, <4>2
      <4> QED BY <3>1, <3>2, <4>3
    <3>3. CASE e \notin Desired(syncs[c])
      <4>1. e \notin Missing(syncs[c])
        BY <3>3 DEF Missing
      <4>2. e \in Stale(syncs[c]) <=> syncs[c].found[e].kind = "auto"
        BY <2>1, <2>3, <3>3 DEF Stale
      <4>3. pairs[e].kind # "auto"
        BY <2>1, <4>1, <4>2, NoLinkTypes
      <4> QED BY <3>1, <3>3, <4>3
    <3> QED BY <3>2, <3>3
  <2> QED BY <2>1, <2>3
<1> QED BY <1>3, <1>6, <1>7, <1>8 DEF CalendarInv

\* One that dies leaves the tables as they are.
LEMMA SyncDiesStep ==
    ASSUME CalendarAssumption, CalendarInv, NEW c \in Syncers, SyncDies(c)
    PROVE  CalendarInv'
<1>1. /\ syncs[c] # NoSync /\ Shift /\ Advance(c, NoSync)
      /\ UNCHANGED <<feed, autoLink, events, pairs, clicks, inserted, ledger>>
  BY DEF SyncDies
<1>2. NoSync \in Sync /\ NoSync.pc # "delete" /\ ~NoSync.alone
  BY NoLinkTypes
<1>3. syncs' \in [Syncers -> Sync] /\ DeletesAuto' /\ AloneIs' /\ AloneKnows'
  BY <1>1, <1>2, SyncSteps
<1>4. shifts' \in 0 .. MaxShifts
  BY <1>1, CalendarAssumption DEF Shift, CalendarInv, CalendarTypeOK
<1>5. CalendarTypeOK' /\ LinksSound' /\ DecisionsSurvive'
  BY <1>1, <1>3, <1>4 DEF CalendarInv, CalendarTypeOK, LinksSound, DecisionsSurvive
<1>6. ~ledger.settled
  BY <1>1 DEF CalendarInv, SettledRests
<1>7. SettledRests' /\ OneSyncRepairs'
  BY <1>1, <1>6 DEF SettledRests, OneSyncRepairs
<1> QED BY <1>3, <1>5, <1>7 DEF CalendarInv
-----------------------------------------------------------------------------
\* A change of what syncs read.
LEMMA FeedChanges ==
    ASSUME CalendarAssumption, CalendarInv, Disturb, Unsettle, Shift,
           feed' \in [Events -> Places], autoLink' \in BOOLEAN,
           UNCHANGED <<events, pairs, clicks, inserted>>
    PROVE  CalendarInv'
<1>1. syncs' \in [Syncers -> Sync] /\ DeletesAuto' /\ AloneIs' /\ AloneKnows'
  BY OtherSteps
<1>2. /\ ledger' \in Ledger /\ ~ledger'.settled /\ ledger'.decided = ledger.decided
      /\ ledger'.crossed = ledger.crossed
  BY DEF Unsettle, CalendarInv, CalendarTypeOK, Ledger
<1>3. shifts' \in 0 .. MaxShifts
  BY CalendarAssumption DEF Shift, CalendarInv, CalendarTypeOK
<1>4. CalendarTypeOK' /\ LinksSound' /\ DecisionsSurvive'
  BY <1>1, <1>2, <1>3 DEF CalendarInv, CalendarTypeOK, LinksSound, DecisionsSurvive
<1>5. SettledRests' /\ OneSyncRepairs'
  BY <1>2 DEF SettledRests, OneSyncRepairs
<1> QED BY <1>1, <1>4, <1>5 DEF CalendarInv

\* The user's request reads its pair,
LEMMA AskLinkStep ==
    ASSUME CalendarAssumption, CalendarInv, NEW e \in Events, NEW to \in {"manual", "suppressed"},
           AskLink(e, to)
    PROVE  CalendarInv'
<1>1. /\ Shift
      /\ clicks' = [clicks EXCEPT ![e] = [pc |-> "save", to |-> to, read |-> pairs[e],
                                          event |-> events[e].id]]
      /\ UNCHANGED <<feed, autoLink, events, pairs, syncs, inserted, ledger>>
  BY DEF AskLink
<1>2. [pc |-> "save", to |-> to, read |-> pairs[e], event |-> events[e].id] \in Click
  BY DEF Click, CalendarInv, CalendarTypeOK, EventRow
<1>3. clicks' \in [Events -> Click]
  BY <1>1, <1>2 DEF CalendarInv, CalendarTypeOK
<1>4. shifts' \in 0 .. MaxShifts
  BY <1>1, CalendarAssumption DEF Shift, CalendarInv, CalendarTypeOK
<1>5. CalendarTypeOK'
  BY <1>1, <1>3, <1>4 DEF CalendarInv, CalendarTypeOK
<1>6. LinksSound' /\ DeletesAuto' /\ AloneIs' /\ SettledRests' /\ DecisionsSurvive' /\ OneSyncRepairs'
  BY <1>1 DEF CalendarInv, LinksSound, DeletesAuto, AloneIs, SettledRests, DecisionsSurvive,
              OneSyncRepairs
<1>7. AloneKnows'
  BY <1>1 DEF CalendarInv, AloneKnows, Knows, Missing, Stale, Desired
<1> QED BY <1>5, <1>6, <1>7 DEF CalendarInv

\* and its save disturbs every pass.
LEMMA SaveLinkStep ==
    ASSUME CalendarAssumption, CalendarInv, NEW e \in Events, SaveLink(e)
    PROVE  CalendarInv'
<1> DEFINE k == clicks[e]
<1>1. /\ clicks' = [clicks EXCEPT ![e] = NoClick] /\ Disturb
      /\ UNCHANGED <<feed, autoLink, events, shifts>>
  BY DEF SaveLink
<1>2. /\ syncs' \in [Syncers -> Sync] /\ DeletesAuto' /\ AloneIs' /\ AloneKnows'
      /\ \A d \in Syncers : syncs[d] = NoSync => syncs'[d] = NoSync
  BY <1>1, OtherSteps
<1>3. clicks' \in [Events -> Click]
  BY <1>1, NoLinkTypes DEF CalendarInv, CalendarTypeOK
<1>4. CASE UNCHANGED <<pairs, inserted, ledger>>
  <2>1. CalendarTypeOK'
    BY <1>1, <1>2, <1>3, <1>4 DEF CalendarInv, CalendarTypeOK
  <2>2. LinksSound' /\ DecisionsSurvive' /\ SettledRests' /\ OneSyncRepairs'
    BY <1>1, <1>2, <1>4 DEF CalendarInv, LinksSound, DecisionsSurvive, SettledRests,
       OneSyncRepairs
  <2> QED BY <1>2, <2>1, <2>2 DEF CalendarInv
<1>5. CASE /\ \/ k.read = NoLink /\ Fresh
                 /\ pairs' = [pairs EXCEPT ![e] = [id |-> inserted', kind |-> k.to]]
              \/ k.read # NoLink /\ UNCHANGED inserted
                 /\ pairs' = [pairs EXCEPT ![e] = [id |-> k.read.id, kind |-> k.to]]
           /\ ledger' = [ledger EXCEPT !.decided[e] = k.to, !.crossed = @ \ {e}, !.settled = FALSE]
  <2>1. k.to \in {"manual", "suppressed"} /\ k.read \in Link /\ k.read.id \in RowIds
    BY DEF CalendarInv, CalendarTypeOK, Click, Link
  <2>2. inserted' \in RowIds
    BY <1>5, CalendarAssumption DEF Fresh, RowIds, CalendarInv, CalendarTypeOK
  <2>3. \E i \in RowIds : pairs' = [pairs EXCEPT ![e] = [id |-> i, kind |-> k.to]]
    BY <1>5, <2>1, <2>2
  <2> HIDE DEF k
  <2>4. /\ pairs' \in [Events -> Link] /\ pairs'[e].kind = k.to
        /\ \A q \in Events \ {e} : pairs'[q] = pairs[q]
    BY <2>1, <2>3 DEF CalendarInv, CalendarTypeOK, Link
  <2>5. /\ ledger' \in Ledger /\ ~ledger'.settled /\ ledger'.decided[e] = k.to
        /\ ledger'.crossed = ledger.crossed \ {e}
        /\ \A q \in Events \ {e} : ledger'.decided[q] = ledger.decided[q]
    BY <1>5, <2>1 DEF CalendarInv, CalendarTypeOK, Ledger
  <2>6. CalendarTypeOK'
    BY <1>1, <1>2, <1>3, <2>2, <2>4, <2>5 DEF CalendarInv, CalendarTypeOK
  <2>7. LinksSound'
    BY <2>1, <2>4 DEF CalendarInv, LinksSound
  <2>8. DecisionsSurvive'
    BY <2>4, <2>5 DEF CalendarInv, DecisionsSurvive
  <2>9. SettledRests' /\ OneSyncRepairs'
    BY <2>5 DEF SettledRests, OneSyncRepairs
  <2> QED BY <1>2, <2>6, <2>7, <2>8, <2>9 DEF CalendarInv
<1> QED BY <1>4, <1>5 DEF SaveLink
-----------------------------------------------------------------------------
\* The invariant holds at the start,
LEMMA CalendarStarts == ASSUME CalendarAssumption, CalendarInit PROVE CalendarInv
<1>1. /\ feed \in [Events -> Places] /\ autoLink \in BOOLEAN /\ events \in [Events -> EventRow]
      /\ pairs \in [Events -> Link] /\ syncs \in [Syncers -> Sync] /\ clicks \in [Events -> Click]
  BY NoLinkTypes DEF CalendarInit, Places
<1>2. inserted \in RowIds /\ shifts \in 0 .. MaxShifts
  BY CalendarAssumption DEF CalendarInit, RowIds
<1>3. ledger \in Ledger /\ ~ledger.settled /\ \A e \in Events : ledger.decided[e] = "none"
  BY DEF CalendarInit, Ledger
<1>4. CalendarTypeOK
  BY <1>1, <1>2, <1>3 DEF CalendarTypeOK
<1>5. \A c \in Syncers : syncs[c] = NoSync /\ syncs[c].pc = "idle" /\ ~syncs[c].alone
  BY NoLinkTypes DEF CalendarInit
<1>6. LinksSound
  BY DEF CalendarInit, LinksSound
<1>7. DeletesAuto /\ AloneIs /\ AloneKnows /\ SettledRests /\ DecisionsSurvive /\ OneSyncRepairs
  BY <1>3, <1>5 DEF DeletesAuto, AloneIs, AloneKnows, SettledRests, DecisionsSurvive,
     OneSyncRepairs
<1> QED BY <1>4, <1>6, <1>7 DEF CalendarInv

\* while nothing changes,
LEMMA CalendarRests ==
    ASSUME CalendarInv, UNCHANGED calendarVars PROVE CalendarInv'
<1>1. UNCHANGED <<feed, autoLink, events, pairs, syncs, clicks, inserted, shifts, ledger>>
  BY DEF calendarVars
<1> QED BY <1>1 DEF CalendarInv, CalendarTypeOK, LinksSound, DeletesAuto, AloneIs, AloneKnows,
                    SettledRests, DecisionsSurvive, OneSyncRepairs, Knows, Missing, Stale, Desired

\* and after every step.
LEMMA CalendarSteps ==
    ASSUME CalendarAssumption, CalendarInv, CalendarNext PROVE CalendarInv'
<1>1. CASE ToggleAutoLink
  <2>1. /\ Shift /\ autoLink' \in BOOLEAN /\ Disturb /\ Unsettle
        /\ UNCHANGED <<feed, events, pairs, clicks, inserted>> /\ feed' \in [Events -> Places]
    BY <1>1 DEF ToggleAutoLink, CalendarInv, CalendarTypeOK
  <2> QED BY <2>1, FeedChanges
<1>2. ASSUME NEW e \in Events, NEW place \in Places, MoveEvent(e, place) PROVE CalendarInv'
  <2>1. /\ Shift /\ autoLink' \in BOOLEAN /\ Disturb /\ Unsettle
        /\ UNCHANGED <<events, pairs, clicks, inserted>> /\ feed' \in [Events -> Places]
    BY <1>2 DEF MoveEvent, CalendarInv, CalendarTypeOK
  <2> QED BY <2>1, FeedChanges
<1> QED BY <1>1, <1>2, FetchEventsStep, FindEventsStep, ReadEventsStep, ReadLinksStep,
           TurnToStaleStep, EndSyncStep, SyncDiesStep, StoreEventStep, InsertLinkStep,
           DeleteLinkStep, SaveLinkStep, AskLinkStep DEF CalendarNext

\* The invariant holds in every reachable state.
LEMMA CalendarHolds == CalendarSpec => []CalendarInv
<1>1. CalendarInit => CalendarInv
  BY CalendarStarts, CalendarAssumption
<1>2. CalendarInv /\ [CalendarNext]_calendarVars => CalendarInv'
  BY CalendarRests, CalendarSteps, CalendarAssumption
<1> QED BY <1>1, <1>2, PTL DEF CalendarSpec

\* CalendarTypeOK: every reachable state is well typed.
THEOREM CalendarTypeCorrect == CalendarSpec => []CalendarTypeOK
<1>1. CalendarInv => CalendarTypeOK
  BY DEF CalendarInv
<1> QED BY <1>1, CalendarHolds, PTL

\* DecisionsSurvive: what the user has linked or unlinked stays so, through any syncs of any
\* replicas, unless the decision fell between a pass's reading of the links and its delete.
THEOREM UserDecidesLinks == CalendarSpec => []DecisionsSurvive
<1>1. CalendarInv => DecisionsSurvive
  BY DEF CalendarInv
<1> QED BY <1>1, CalendarHolds, PTL

\* OneSyncRepairs: a sync that runs alone leaves the events of the feed and exactly the links
\* they ask for, whatever syncs crossed, failed or died before it.
THEOREM OneSyncSetsRight == CalendarSpec => []OneSyncRepairs
<1>1. CalendarInv => OneSyncRepairs
  BY DEF CalendarInv
<1> QED BY <1>1, CalendarHolds, PTL
(***************************************************************************)
(* SensitivityRow: the inductive invariant                                 *)
(***************************************************************************)
\* What a writer has under way is of its kind.
Fits ==
    \A w \in Writers :
        LET d == work[w] IN
        /\ d.pc # "idle" => d.to \in IF w[1] \in Gated THEN {"hold", "clear"} ELSE Grades \cup {"none"}
        /\ d.pc \in {"insert", "retry"} => w[1] \notin Gated
        /\ d.pc = "flag" => w[1] \in Gated

SensitivityInv == SensitivityTypeOK /\ Fits /\ ColumnsKept
-----------------------------------------------------------------------------
\* A writer is the sentinel, the owner, or the guard of a kind.
LEMMA WhoWrites ==
    ASSUME NEW w \in Writers
    PROVE  \/ w[1] = "sentinel" /\ w[1] \notin Gated /\ Own(w) = "detected"
           \/ w[1] = "owner" /\ w[1] \notin Gated /\ Own(w) = "manual"
           \/ w[1] \in Gated /\ w[1] # "sentinel" /\ w[1] # "owner" /\ Own(w) = "held"
<1>1. w[1] \in Gated \cup {"sentinel", "owner"}
  BY DEF Writers
<1>2. QED
  BY <1>1, SensitivityAssumption DEF Own

\* A write changes the column its writer owns, and sets it whatever was there.
LEMMA AmendsItsOwn ==
    ASSUME NEW w \in Writers, NEW r \in Columns, NEW s \in Columns, NEW to,
           to \in IF w[1] \in Gated THEN {"hold", "clear"} ELSE Grades \cup {"none"}
    PROVE  /\ Amend(w, r, to) \in Columns
           /\ \A c \in Names \ {Own(w)} : Amend(w, r, to)[c] = r[c]
           /\ Amend(w, r, to)[Own(w)] = Amend(w, s, to)[Own(w)]
           /\ w[1] \in Gated => Amend(w, r, to).held = (to = "hold")
<1>1. CASE w[1] = "sentinel" /\ w[1] \notin Gated /\ Own(w) = "detected"
  <2>1. \A q \in Columns : Amend(w, q, to) = [q EXCEPT !.detected = to]
    BY <1>1 DEF Amend
  <2>2. QED
    BY <1>1, <2>1 DEF Columns, Names
<1>2. CASE w[1] = "owner" /\ w[1] \notin Gated /\ Own(w) = "manual"
  <2>1. \A q \in Columns : Amend(w, q, to) = [q EXCEPT !.manual = to]
    BY <1>2 DEF Amend
  <2>2. QED
    BY <1>2, <2>1 DEF Columns, Names
<1>3. CASE w[1] \in Gated /\ w[1] # "sentinel" /\ w[1] # "owner" /\ Own(w) = "held"
  <2>1. \A q \in Columns : Amend(w, q, to) = [q EXCEPT !.held = to = "hold"]
    BY <1>3 DEF Amend
  <2>2. QED
    BY <1>3, <2>1 DEF Columns, Names
<1>4. QED
  BY <1>1, <1>2, <1>3, WhoWrites

\* Nothing is classified, and nobody at work.
LEMMA SensitivityStarts == SensitivityInit => SensitivityInv
<1>1. Unclassified \in Columns /\ NoWork \in Work
  BY DEF Unclassified, Columns, NoWork, Work
<1>2. QED
  BY <1>1, SensitivityAssumption
  DEF SensitivityInit, SensitivityInv, SensitivityTypeOK, Fits, ColumnsKept,
      NoWork, Unclassified

\* Every step leaves what its writer and the others know as it should be.
LEMMA SensitivitySteps ==
    ASSUME SensitivityInv, [SensitivityNext]_sensitivityVars
    PROVE  SensitivityInv'
<1> USE DEF SensitivityInv
<1>0. CASE UNCHANGED sensitivityVars
  BY <1>0 DEF sensitivityVars, SensitivityTypeOK, Fits, ColumnsKept
<1>c. Unclassified \in Columns /\ NoWork \in Work /\ NoWork.pc = "idle"
  BY DEF Unclassified, Columns, NoWork, Work
\* A step that leaves the row and its history.
<1>k. ASSUME UNCHANGED <<tierRow, meant, covered>>, withheld' \subseteq Gated,
             left' \in 0 .. MaxWork,
             UNCHANGED withheld \/ (tierRow.held => withheld' # {}),
             work' \in [Writers -> Work], Fits'
      PROVE  SensitivityInv'
  BY <1>k DEF SensitivityTypeOK, ColumnsKept
\* Putting a writer somewhere, or to rest.
<1>g. ASSUME NEW w \in Writers, NEW pc \in {"insert", "retry", "flag", "update"}, NEW to,
             Goto(w, pc, to),
             to \in IF w[1] \in Gated THEN {"hold", "clear"} ELSE Grades \cup {"none"},
             pc \in {"insert", "retry"} => w[1] \notin Gated,
             pc = "flag" => w[1] \in Gated
      PROVE  work' \in [Writers -> Work] /\ Fits'
  <2>1. [pc |-> pc, to |-> to, copy |-> tierRow] \in Work
    BY <1>g DEF Work, SensitivityTypeOK
  <2>2. work' \in [Writers -> Work]
    BY <1>g, <2>1 DEF Goto, SensitivityTypeOK
  <2>3. \A v \in Writers : work'[v] = IF v = w THEN [pc |-> pc, to |-> to, copy |-> tierRow] ELSE work[v]
    BY <1>g DEF Goto, SensitivityTypeOK
  <2>4. QED
    BY <1>g, <2>2, <2>3 DEF Fits
<1>r. ASSUME NEW w \in Writers, Rest(w)
      PROVE  work' \in [Writers -> Work] /\ Fits'
  <2>1. work' \in [Writers -> Work]
    BY <1>r, <1>c DEF Rest, SensitivityTypeOK
  <2>2. \A v \in Writers : work'[v] = IF v = w THEN NoWork ELSE work[v]
    BY <1>r DEF Rest, SensitivityTypeOK
  <2>3. QED
    BY <1>c, <2>1, <2>2 DEF Fits
<1>b. ASSUME NEW w \in Writers, Begin(w)
      PROVE  left' \in 0 .. MaxWork
  BY <1>b, SensitivityAssumption DEF Begin, SensitivityTypeOK
<1>t. withheld \subseteq Gated /\ left \in 0 .. MaxWork
  BY DEF SensitivityTypeOK
<1>1. ASSUME NEW w \in Writers, Upsert(w)
      PROVE  SensitivityInv'
  <2>1. PICK to \in Grades \cup {"none"} :
            /\ w[1] = "owner" \/ (w[1] = "sentinel" /\ to # "none")
            /\ Goto(w, IF Exists THEN "update" ELSE "insert", to)
    BY <1>1 DEF Upsert
  <2>2. w[1] \notin Gated
    BY <2>1, SensitivityAssumption
  <2>3. Begin(w) /\ UNCHANGED <<tierRow, meant, withheld, covered>>
    BY <1>1 DEF Upsert
  <2>4. work' \in [Writers -> Work] /\ Fits'
    BY <1>g, <2>1, <2>2
  <2>5. QED
    BY <1>k, <1>b, <1>t, <2>3, <2>4
<1>2. ASSUME NEW w \in Writers, InsertRow(w)
      PROVE  SensitivityInv'
  <2>0. /\ work[w].pc = "insert" /\ w[1] \notin Gated
        /\ work[w].to \in Grades \cup {"none"}
        /\ UNCHANGED <<withheld, covered, left>>
    BY <1>2 DEF InsertRow, Fits
  <2>1. CASE Exists
    <3>1. (w[1] = "sentinel" /\ Goto(w, "retry", work[w].to)) \/ Rest(w)
      BY <1>2, <2>1 DEF InsertRow
    <3>2. work' \in [Writers -> Work] /\ Fits'
      BY <1>g, <1>r, <2>0, <3>1
    <3>3. UNCHANGED <<tierRow, meant>>
      BY <1>2, <2>1 DEF InsertRow
    <3>4. QED
      BY <1>k, <1>t, <2>0, <3>2, <3>3
  <2>2. CASE ~Exists
    <3> DEFINE blank == [Unclassified EXCEPT !.detected = "open"]
    <3>1. /\ tierRow' = Amend(w, blank, work[w].to)
          /\ meant' = Amend(w, blank, work[w].to)
          /\ Rest(w)
      BY <1>2, <2>2 DEF InsertRow, Create
    <3>2. blank \in Columns /\ blank.held = FALSE
      BY DEF Unclassified, Columns, Grades
    <3>3. Amend(w, blank, work[w].to) \in Columns
      BY <2>0, <3>2, AmendsItsOwn
    <3>4. Own(w) # "held"
      BY <2>0, WhoWrites
    <3> HIDE DEF blank
    <3>5. Amend(w, blank, work[w].to)["held"] = blank["held"]
      <4>1. "held" \in Names \ {Own(w)}
        BY <3>4 DEF Names
      <4>2. \A c \in Names \ {Own(w)} : Amend(w, blank, work[w].to)[c] = blank[c]
        BY <2>0, <3>2, AmendsItsOwn
      <4>3. QED
        BY <4>1, <4>2
    <3>6. ColumnsKept'
      BY <3>1, <3>2, <3>5 DEF ColumnsKept
    <3>7. QED
      BY <1>r, <2>0, <3>1, <3>3, <3>6 DEF SensitivityTypeOK
  <2>3. QED
    BY <2>1, <2>2
<1>3. ASSUME NEW w \in Writers, FindWinner(w)
      PROVE  SensitivityInv'
  <2>1. /\ work[w].pc = "retry" /\ Goto(w, "update", work[w].to)
        /\ UNCHANGED <<tierRow, meant, withheld, covered, left>>
    BY <1>3 DEF FindWinner
  <2>2. work' \in [Writers -> Work] /\ Fits'
    BY <1>g, <2>1 DEF Fits
  <2>3. QED
    BY <1>k, <1>t, <2>1, <2>2
<1>4. ASSUME NEW w \in Writers, Decide(w)
      PROVE  SensitivityInv'
  <2> DEFINE to == IF Closed(tierRow) /\ w[1] \notin LocalGated THEN "hold" ELSE "clear"
  <2>1. /\ w[1] \in Gated /\ Begin(w) /\ Goto(w, "flag", to)
        /\ UNCHANGED <<tierRow, meant, withheld, covered>>
    BY <1>4 DEF Decide
  <2>2. to \in {"hold", "clear"}
    OBVIOUS
  <2> HIDE DEF to
  <2>3. work' \in [Writers -> Work] /\ Fits'
    BY <1>g, <2>1, <2>2
  <2>4. QED
    BY <1>k, <1>b, <1>t, <2>1, <2>3
<1>5. ASSUME NEW w \in Writers, Flag(w)
      PROVE  SensitivityInv'
  <2>0. /\ work[w].pc = "flag" /\ w[1] \in Gated
        /\ work[w].to \in {"hold", "clear"}
        /\ UNCHANGED <<tierRow, meant, covered, left>>
    BY <1>5 DEF Flag, Fits
  <2>1. CASE tierRow.held = (work[w].to = "hold")
    <3>1. Rest(w) /\ Told(w, work[w].to)
      BY <1>5, <2>1 DEF Flag
    <3>2. withheld' \subseteq Gated
      BY <1>t, <2>0, <3>1 DEF Told
    <3>3. tierRow.held => withheld' # {}
      BY <2>0, <2>1, <3>1 DEF Told
    <3>4. QED
      BY <1>k, <1>r, <1>t, <2>0, <3>1, <3>2, <3>3
  <2>2. CASE ~(tierRow.held = (work[w].to = "hold"))
    <3>1. Goto(w, "update", work[w].to) /\ UNCHANGED withheld
      BY <1>5, <2>2 DEF Flag
    <3>2. work' \in [Writers -> Work] /\ Fits'
      BY <1>g, <2>0, <3>1
    <3>3. QED
      BY <1>k, <1>t, <2>0, <3>1, <3>2
  <2>3. QED
    BY <2>1, <2>2
<1>6. ASSUME NEW w \in Writers, Update(w)
      PROVE  SensitivityInv'
  <2> DEFINE to == work[w].to
             copy == work[w].copy
  <2>1. /\ tierRow' = Amend(w, copy, to) /\ meant' = Amend(w, meant, to)
        /\ covered' = (covered \ {Own(w)}) \cup WritesBack(w)
        /\ Rest(w) /\ UNCHANGED left
        /\ w[1] \in Gated => Told(w, to)
        /\ w[1] \notin Gated => UNCHANGED withheld
    BY <1>6 DEF Update, Resaved
  <2>2. /\ to \in IF w[1] \in Gated THEN {"hold", "clear"} ELSE Grades \cup {"none"}
        /\ copy \in Columns /\ tierRow \in Columns /\ meant \in Columns /\ covered \subseteq Names
    BY <1>6 DEF Update, Fits, SensitivityTypeOK, Work
  <2>3. /\ \A c \in Names \ {Own(w)} : tierRow'[c] = copy[c] /\ meant'[c] = meant[c]
        /\ tierRow'[Own(w)] = meant'[Own(w)]
        /\ w[1] \in Gated => tierRow'.held = (to = "hold")
        /\ tierRow' \in Columns /\ meant' \in Columns
    BY <2>1, <2>2, AmendsItsOwn
  <2>4. Own(w) \in Names /\ covered' \subseteq Names
    BY <2>1, <2>2, WhoWrites DEF Names, WritesBack
  <2>5. \A c \in Names \ {Own(w)} : c \notin covered' => c \notin covered /\ tierRow[c] = copy[c]
    BY <2>1 DEF WritesBack
  <2>6. withheld' \subseteq Gated
    BY <1>t, <2>1 DEF Told
  <2>7. SensitivityTypeOK' /\ Fits'
    BY <1>r, <1>t, <2>1, <2>3, <2>4, <2>6 DEF SensitivityTypeOK
  <2>8. \A c \in Names \ covered' : tierRow'[c] = meant'[c]
    BY <2>3, <2>5 DEF ColumnsKept
  <2>9. "held" \notin covered' /\ tierRow'.held => withheld' # {}
    <3>1. CASE w[1] \in Gated
      BY <2>1, <2>2, <2>3, <3>1 DEF Told
    <3>2. CASE w[1] \notin Gated
      <4>1. Own(w) # "held" /\ "held" \in Names
        BY <3>2, WhoWrites DEF Names
      <4>2. "held" \notin covered' => "held" \notin covered /\ tierRow'["held"] = tierRow["held"]
        BY <2>3, <2>5, <4>1
      <4>3. QED
        BY <2>1, <3>2, <4>2 DEF ColumnsKept
    <3>3. QED
      BY <3>1, <3>2
  <2>10. QED
    BY <2>7, <2>8, <2>9 DEF ColumnsKept
<1>7. ASSUME NEW w \in Writers, GiveUp(w)
      PROVE  SensitivityInv'
  BY <1>7, <1>k, <1>r, <1>t DEF GiveUp
<1>8. QED
  BY <1>0, <1>1, <1>2, <1>3, <1>4, <1>5, <1>6, <1>7 DEF SensitivityNext

LEMMA SensitivityHolds == SensitivitySpec => []SensitivityInv
<1>1. SensitivityInit => SensitivityInv
  BY SensitivityStarts
<1>2. SensitivityInv /\ [SensitivityNext]_sensitivityVars => SensitivityInv'
  BY SensitivitySteps
<1>3. QED
  BY <1>1, <1>2, PTL DEF SensitivitySpec

(* The row, its history and everything under way keep to their types.      *)
THEOREM SensitivityTypeCorrect == SensitivitySpec => []SensitivityTypeOK
<1>1. SensitivityInv => SensitivityTypeOK
  BY DEF SensitivityInv
<1>2. QED
  BY <1>1, SensitivityHolds, PTL

(* However many classifications, requests and evaluations overlap, a       *)
(* column differs from what its owner wrote there last, and a hold stands  *)
(* for nothing, only where a save of another's, found before, has written  *)
(* the column back.                                                        *)
THEOREM RowKeepsItsColumns == SensitivitySpec => []ColumnsKept
<1>1. SensitivityInv => ColumnsKept
  BY DEF SensitivityInv
<1>2. QED
  BY <1>1, SensitivityHolds, PTL
(***************************************************************************)
(* MCItems                                                                 *)
(***************************************************************************)
\* Every model keeps to its invariant, the one that runs and those that stand.
ItemsInv ==
    TopicInv /\ MergeInv /\ ImportInv /\ RowInv /\ CalendarInv /\ SensitivityInv

\* The module of a step makes it, the others stand.
LEMMA ItemsSteps == ASSUME ItemsInv, [ItemsNext]_itemVars PROVE ItemsInv'
<1>1. [TopicNext]_topicVars
  BY DEF ItemsNext, OnTopics, OnMerges, OnImports, OnRows, OnCalendar,
         OnSensitivity, itemVars
<1>2. [MergeNext]_mergeVars
  BY DEF ItemsNext, OnTopics, OnMerges, OnImports, OnRows, OnCalendar,
         OnSensitivity, itemVars
<1>3. [ImportNext]_importVars
  BY DEF ItemsNext, OnTopics, OnMerges, OnImports, OnRows, OnCalendar,
         OnSensitivity, itemVars
<1>4. [RowNext]_rowVars
  BY DEF ItemsNext, OnTopics, OnMerges, OnImports, OnRows, OnCalendar,
         OnSensitivity, itemVars
<1>5. [CalendarNext]_calendarVars
  BY DEF ItemsNext, OnTopics, OnMerges, OnImports, OnRows, OnCalendar,
         OnSensitivity, itemVars
<1>s. [SensitivityNext]_sensitivityVars
  BY DEF ItemsNext, OnTopics, OnMerges, OnImports, OnRows, OnCalendar,
         OnSensitivity, itemVars
<1>6. TopicInv' /\ RowInv' /\ CalendarInv'
  BY <1>1, <1>4, <1>5, TopicSteps, RowStep, CalendarSteps, CalendarRests, TopicAssumption,
     RowAssumption, CalendarAssumption DEF ItemsInv
<1>7. MergeInv' /\ ImportInv'
  BY <1>2, <1>3, MergeSteps, ImportSteps, MergeAssumption, ImportAssumption DEF ItemsInv
<1>8. SensitivityInv'
  BY <1>s, SensitivitySteps DEF ItemsInv
<1> QED
  BY <1>6, <1>7, <1>8 DEF ItemsInv

\* Whichever of them runs, every variable of every module keeps to its type.
THEOREM ItemsTypeCorrect == ItemsSpec => []ItemsTypeOK
<1>1. ItemsInit => ItemsInv
  BY TopicStarts, InitMerge, InitImport, RowInitInv, CalendarStarts, SensitivityStarts,
     TopicAssumption, MergeAssumption, ImportAssumption, RowAssumption, CalendarAssumption DEF ItemsInit, ItemsInv
<1>2. ItemsInv /\ [ItemsNext]_itemVars => ItemsInv'
  BY ItemsSteps
<1>3. ItemsInv => ItemsTypeOK
  BY DEF ItemsInv, ItemsTypeOK, TopicInv, MergeInv, ImportInv, RowInv, CalendarInv,
         SensitivityInv
<1> QED
  BY <1>1, <1>2, <1>3, PTL DEF ItemsSpec
==============================================================================
