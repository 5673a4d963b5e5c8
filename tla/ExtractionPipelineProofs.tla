---------------------- MODULE ExtractionPipelineProofs ----------------------
(***************************************************************************)
(* Theorems about ExtractionPipeline, for every graph, every set of events *)
(* and every bound.                                                        *)
(***************************************************************************)
EXTENDS ExtractionPipeline, TLAPS, SequenceTheorems

(***************************************************************************)
(* Type correctness                                                        *)
(***************************************************************************)
\* An attempt whose status is an outcome has had that outcome; one that is about
\* to be announced as a success, or bridged, has succeeded.
SoundRow == {r \in Row : /\ r.status \in Outcomes => r.status \in r.past
                         /\ r.job \in {"succeeded", "bridging"} => "succeeded" \in r.past}

\* TypeOK with the attempts restricted to sound ones.
TypeInv == TypeOK /\ log \in [Kinds -> Seq(SoundRow)]

\* Putting a row into a sequence of rows, at an index it may not have.
LEMMA PutSeq ==
    ASSUME NEW S, NEW s \in Seq(S), NEW n, NEW r, n \in DOMAIN s => r \in S,
           NEW t, t = [s EXCEPT ![n] = r]
    PROVE  /\ t \in Seq(S) /\ DOMAIN t = DOMAIN s /\ Len(t) = Len(s)
           /\ \A m \in DOMAIN s : t[m] = IF m = n THEN r ELSE s[m]
<1>1. CASE n \in DOMAIN s
  BY <1>1, ExceptSeq, LenProperties
<1>2. CASE n \notin DOMAIN s
  <2>1. t = s
    BY <1>2, LenProperties
  <2> QED BY <2>1, <1>2
<1> QED BY <1>1, <1>2

\* A map over a sequence is a sequence.
LEMMA MapSeq ==
    ASSUME NEW S, NEW s \in Seq(S), NEW t, DOMAIN t = DOMAIN s,
           t = [n \in DOMAIN s |-> t[n]], \A n \in DOMAIN s : t[n] \in S
    PROVE  t \in Seq(S) /\ Len(t) = Len(s)
<1>1. t \in [1 .. Len(s) -> S] /\ Len(s) \in Nat
  BY LenProperties
<1> QED BY <1>1, SeqDef

SoundLog == [Kinds -> Seq(SoundRow)]

\* Sound rows are rows.
LEMMA SoundLogs == SoundLog \subseteq [Kinds -> Seq(Row)]
<1>1. Seq(SoundRow) \subseteq Seq(Row)
  BY SeqMonotonic DEF SoundRow
<1> QED BY <1>1 DEF SoundLog

\* What an update of one attempt does to a log L.
LEMMA PutLog ==
    ASSUME NEW L \in SoundLog, NEW k \in Kinds, NEW n, NEW r,
           n \in DOMAIN L[k] => r \in SoundRow,
           NEW M, M = [L EXCEPT ![k] = [@ EXCEPT ![n] = r]]
    PROVE  /\ M \in SoundLog
           /\ \A j \in Kinds : DOMAIN M[j] = DOMAIN L[j] /\ Len(M[j]) = Len(L[j])
           /\ \A j \in Kinds : j # k => M[j] = L[j]
           /\ \A m \in DOMAIN L[k] : m # n => M[k][m] = L[k][m]
<1>1. L[k] \in Seq(SoundRow)
  BY DEF SoundLog
<1>2. PICK t : t = [L[k] EXCEPT ![n] = r]
  OBVIOUS
<1>3. t \in Seq(SoundRow)
  BY <1>1, <1>2, PutSeq
<1>4. DOMAIN t = DOMAIN L[k]
  BY <1>1, <1>2, PutSeq
<1>5. Len(t) = Len(L[k])
  BY <1>1, <1>2, PutSeq
<1>6. \A m \in DOMAIN L[k] : t[m] = IF m = n THEN r ELSE L[k][m]
  BY <1>1, <1>2, PutSeq
<1>7. M = [L EXCEPT ![k] = t]
  BY <1>1, <1>2
<1> QED BY <1>3, <1>4, <1>5, <1>6, <1>7 DEF SoundLog

\* What the insertion of an attempt does to a log L.
LEMMA AppendLog ==
    ASSUME NEW L \in SoundLog, NEW k \in Kinds, NEW r \in SoundRow,
           NEW M, M = [L EXCEPT ![k] = Append(@, r)]
    PROVE  /\ M \in SoundLog
           /\ \A j \in Kinds : j # k => M[j] = L[j]
           /\ Len(M[k]) = Len(L[k]) + 1 /\ DOMAIN M[k] = 1 .. Len(L[k]) + 1
           /\ \A m \in DOMAIN L[k] : M[k][m] = L[k][m]
           /\ M[k][Len(L[k]) + 1] = r
<1>1. L[k] \in Seq(SoundRow)
  BY DEF SoundLog
<1>2. M[k] = Append(L[k], r)
  BY DEF SoundLog
<1>3. DOMAIN L[k] = 1 .. Len(L[k])
  BY <1>1, LenProperties
<1>4. DOMAIN Append(L[k], r) = 1 .. Len(Append(L[k], r))
  BY <1>1, AppendProperties, LenProperties
<1>5. Append(L[k], r) \in Seq(SoundRow)
  BY <1>1, AppendProperties
<1>6. M \in SoundLog
  BY <1>5 DEF SoundLog
<1>7. \A j \in Kinds : j # k => M[j] = L[j]
  BY DEF SoundLog
<1> QED BY <1>1, <1>2, <1>3, <1>4, <1>6, <1>7, AppendProperties

\* Moving an attempt through the queue changes nothing else about it.
LEMMA JobSound ==
    ASSUME NEW r \in SoundRow, NEW job \in Jobs,
           job \in {"succeeded", "bridging"} => "succeeded" \in r.past
    PROVE  LET q == [r EXCEPT !.job = job]
           IN  q \in SoundRow /\ q.at = r.at /\ q.by = r.by /\ q.past = r.past
BY DEF SoundRow, Row

\* A new attempt is sound, and so is one that is run at once.
LEMMA NewRowSound ==
    ASSUME clock \in Nat, NEW by \in {"root", "event", "manual", "bridge"}
    PROVE  /\ NewRow(by) \in SoundRow
           /\ LET r == [NewRow(by) EXCEPT !.job = "running"]
              IN  r \in SoundRow /\ r.at = clock + 1 /\ r.by = by
<1> DEFINE r == NewRow(by)
<1>1. r \in Row /\ r.status = "queued" /\ r.job = "none" /\ r.at = clock + 1 /\ r.by = by
  BY DEF NewRow, Row, Jobs, Outcomes
<1> HIDE DEF r
<1>2. r \in SoundRow
  BY <1>1 DEF SoundRow, Outcomes
<1> QED BY <1>1, <1>2, JobSound DEF r, Jobs

(***************************************************************************)
(* What a step does to the attempts: it keeps them all, and adds at most   *)
(* one.                                                                    *)
(***************************************************************************)
\* Attempts of j keep their creation and the outcomes they had.
Persist(j) ==
    \A m \in DOMAIN log[j] :
        /\ m \in DOMAIN log'[j]
        /\ log'[j][m].at = log[j][m].at /\ log'[j][m].by = log[j][m].by
        /\ log[j][m].past \subseteq log'[j][m].past

Same(j) == Persist(j) /\ DOMAIN log'[j] = DOMAIN log[j] /\ Len(log'[j]) = Len(log[j])

Quiet ==
    /\ log' \in SoundLog
    /\ clock' = clock
    /\ \A j \in Kinds : Same(j)

Adds(k, by) ==
    /\ log' \in SoundLog
    /\ clock' = clock + 1
    /\ \A j \in Kinds : Persist(j) /\ (j # k => Same(j))
    /\ Len(log'[k]) = Len(log[k]) + 1 /\ DOMAIN log'[k] = 1 .. Len(log[k]) + 1
    /\ log'[k][Len(log[k]) + 1].at = clock + 1
    /\ log'[k][Len(log[k]) + 1].by = by

\* Nothing happens to the attempts when nothing is written,
LEMMA UnchangedQuiet ==
    ASSUME log \in SoundLog, UNCHANGED <<log, clock>>
    PROVE  Quiet
BY DEF Quiet, Same, Persist

\* when one is updated without losing an outcome,
LEMMA PutQuiet ==
    ASSUME log \in SoundLog, NEW k \in Kinds, NEW n, NEW r, Put(k, n, r), clock' = clock,
           n \in DOMAIN log[k] => /\ r \in SoundRow
                                  /\ r.at = log[k][n].at /\ r.by = log[k][n].by
                                  /\ log[k][n].past \subseteq r.past
    PROVE  Quiet
<1> USE DEF Put
<1>1. log' \in SoundLog
  BY PutLog
<1>2. ASSUME NEW j \in Kinds
      PROVE  Same(j)
  <2>1. DOMAIN log'[j] = DOMAIN log[j] /\ Len(log'[j]) = Len(log[j])
    BY PutLog
  <2>2. j # k => log'[j] = log[j]
    BY PutLog
  <2>3. \A m \in DOMAIN log[k] : m # n => log'[k][m] = log[k][m]
    BY PutLog
  <2>4. n \in DOMAIN log[k] => log'[k][n] = r
    BY DEF SoundLog
  <2> QED BY <2>1, <2>2, <2>3, <2>4 DEF Same, Persist
<1> QED BY <1>1, <1>2 DEF Quiet

\* A log that gained one attempt of k since L, itself an update of log.
LEMMA AppendAdds ==
    ASSUME log \in SoundLog, clock \in Nat, NEW k \in Kinds,
           NEW r \in SoundRow, r.at = clock + 1, NEW by, r.by = by,
           NEW L \in SoundLog,
           \A j \in Kinds : DOMAIN L[j] = DOMAIN log[j] /\ Len(L[j]) = Len(log[j]),
           \A j \in Kinds : \A m \in DOMAIN log[j] :
              L[j][m].at = log[j][m].at /\ L[j][m].by = log[j][m].by /\ L[j][m].past = log[j][m].past,
           log' = [L EXCEPT ![k] = Append(@, r)], clock' = clock + 1
    PROVE  Adds(k, by)
<1>3. log' \in SoundLog
  BY AppendLog
<1>4. \A j \in Kinds : j # k => log'[j] = L[j]
  BY AppendLog
<1>5. Len(log'[k]) = Len(L[k]) + 1
  BY AppendLog
<1>6. DOMAIN log'[k] = 1 .. Len(L[k]) + 1
  BY AppendLog
<1>7. \A m \in DOMAIN L[k] : log'[k][m] = L[k][m]
  BY AppendLog
<1>8. log'[k][Len(L[k]) + 1] = r
  BY AppendLog
<1>9. DOMAIN log[k] = 1 .. Len(log[k]) /\ Len(log[k]) \in Nat
  BY LenProperties DEF SoundLog
<1>10. Persist(k)
  BY <1>6, <1>7, <1>9 DEF Persist
<1>11. \A j \in Kinds : j # k => Same(j)
  BY <1>4 DEF Same, Persist
<1> QED BY <1>3, <1>5, <1>6, <1>8, <1>10, <1>11 DEF Adds, Same

\* An insertion adds an attempt.
LEMMA Append1Adds ==
    ASSUME log \in SoundLog, clock \in Nat, NEW k \in Kinds,
           NEW by \in {"root", "event", "manual", "bridge"}, Append1(k, by)
    PROVE  Adds(k, by)
<1>1. NewRow(by) \in SoundRow /\ NewRow(by).at = clock + 1 /\ NewRow(by).by = by
  <2>1. NewRow(by).at = clock + 1 /\ NewRow(by).by = by
    BY DEF NewRow
  <2> QED BY <2>1, NewRowSound
<1>2. log' = [log EXCEPT ![k] = Append(@, NewRow(by))] /\ clock' = clock + 1
  BY DEF Append1
<1> QED BY <1>1, <1>2, AppendAdds

\* Every attempt of a sound log is sound.
LEMMA RowsSound ==
    ASSUME log \in SoundLog, NEW k \in Kinds, NEW n \in DOMAIN log[k]
    PROVE  log[k][n] \in SoundRow /\ log[k][n] \in Row
<1>1. log[k] \in Seq(SoundRow)
  BY DEF SoundLog
<1>2. n \in 1 .. Len(log[k])
  BY <1>1, LenProperties
<1> QED BY <1>1, <1>2, ElementOfSeq DEF SoundRow

\* An acknowledged attempt keeps what it had,
LEMMA GoneSound ==
    ASSUME NEW r \in SoundRow
    PROVE  Gone(r) \in SoundRow /\ Gone(r).at = r.at /\ Gone(r).by = r.by /\ Gone(r).past = r.past
BY DEF Gone, SoundRow, Row, Jobs

\* BullMQ moves an attempt that has returned, and changes nothing else about it.
LEMMA ReturnSound ==
    ASSUME NEW q \in SoundRow, NEW k, NEW r \in Return(k, q)
    PROVE  r \in SoundRow /\ r.at = q.at /\ r.by = q.by /\ r.past = q.past
<1>1. \/ r = [q EXCEPT !.job = "waiting", !.tries = q.tries + 1]
      \/ r = [q EXCEPT !.job = "bridging"] /\ q.job = "succeeded"
      \/ r = Gone(q)
  BY DEF Return
<1>2. CASE r = [q EXCEPT !.job = "waiting", !.tries = q.tries + 1]
  <2>1. q \in Row
    BY DEF SoundRow
  <2>2. PICK tries \in Nat : tries = q.tries + 1
    BY <2>1 DEF Row
  <2>3. r = [q EXCEPT !.job = "waiting", !.tries = tries]
    BY <1>2, <2>2
  <2>4. r \in Row
    BY <2>1, <2>3 DEF Row, Jobs
  <2>5. /\ r.status = q.status /\ r.past = q.past /\ r.job = "waiting"
        /\ r.at = q.at /\ r.by = q.by
    BY <1>2, <2>1 DEF Row
  <2> QED BY <2>4, <2>5 DEF SoundRow
<1>3. CASE r = [q EXCEPT !.job = "bridging"] /\ q.job = "succeeded"
  <2>1. "succeeded" \in q.past
    BY <1>3 DEF SoundRow
  <2> QED BY <1>3, <2>1, JobSound DEF Jobs
<1>4. CASE r = Gone(q)
  BY <1>4, GoneSound
<1> QED BY <1>1, <1>2, <1>3, <1>4

\* and so does one whose worker died,
LEMMA StallSound ==
    ASSUME NEW r \in SoundRow
    PROVE  Stall(r) \in SoundRow /\ Stall(r).at = r.at /\ Stall(r).by = r.by /\ Stall(r).past = r.past
<1>1. CASE Stall(r) = Gone(r)
  BY <1>1, GoneSound
<1>2. CASE Stall(r) = r
  BY <1>2
<1>3. CASE Stall(r) = [r EXCEPT !.job = "none"]
  <2>1. PICK q : q = Stall(r)
    OBVIOUS
  <2>2. q \in SoundRow
    BY <1>3, <2>1, JobSound DEF Jobs
  <2>3. q.at = r.at /\ q.by = r.by /\ q.past = r.past
    BY <1>3, <2>1 DEF SoundRow, Row
  <2> QED BY <2>1, <2>2, <2>3
<1>4. CASE Stall(r) = [r EXCEPT !.job = "waiting", !.stalled = TRUE]
  <2>1. PICK q : q = Stall(r)
    OBVIOUS
  <2>2. q \in Row /\ q.at = r.at /\ q.by = r.by /\ q.past = r.past
    BY <1>4, <2>1 DEF SoundRow, Row, Jobs
  <2>3. q.status = r.status /\ q.job = "waiting"
    BY <1>4, <2>1 DEF SoundRow, Row
  <2>4. q \in SoundRow
    BY <2>2, <2>3 DEF SoundRow
  <2> QED BY <2>1, <2>2, <2>4
<1> QED BY <1>1, <1>2, <1>3, <1>4 DEF Stall

\* What Start makes of an attempt.
Taken(r, k) ==
    [r EXCEPT !.status = "processing", !.job = IF Readable(k) THEN "running" ELSE "doomed"]

\* An attempt that a worker has taken up keeps what it had, too,
LEMMA StartSound ==
    ASSUME NEW r \in SoundRow, NEW k, NEW q, q = Taken(r, k)
    PROVE  /\ q \in SoundRow /\ q.at = r.at /\ q.by = r.by /\ q.past = r.past
           /\ q.job \in {"running", "doomed"} /\ Active(q)
<1>0. PICK job \in {"running", "doomed"} : q = [r EXCEPT !.status = "processing", !.job = job]
  BY DEF Taken
<1>1. r \in Row
  BY DEF SoundRow
<1>2. q \in Row
  BY <1>0, <1>1 DEF Row, Jobs
<1>3. q.at = r.at /\ q.by = r.by /\ q.past = r.past
  BY <1>0, <1>1 DEF Row
<1>4. q.job = job /\ q.status = "processing"
  BY <1>0, <1>1 DEF Row
<1> QED BY <1>2, <1>3, <1>4 DEF SoundRow, Outcomes, Active

\* or one that is handed over.
LEMMA HandOverQuiet ==
    ASSUME log \in SoundLog, NEW k \in Kinds, NEW n, HandOver(k, n), clock' = clock
    PROVE  Quiet
<1>1. PICK r : r = [log[k][n] EXCEPT !.job = "waiting"]
  OBVIOUS
<1>2. Put(k, n, r)
  BY <1>1 DEF HandOver
<1>3. n \in DOMAIN log[k] => /\ r \in SoundRow /\ r.at = log[k][n].at /\ r.by = log[k][n].by
                             /\ log[k][n].past \subseteq r.past
  BY <1>1, RowsSound, JobSound DEF Jobs
<1> QED BY <1>2, <1>3, PutQuiet

\* The worker only updates attempts, except that OCR's appends one.
LEMMA WorkLog ==
    ASSUME TypeInv, NEW k \in Kinds, NEW n \in DOMAIN log[k], Work(k, n)
    PROVE  Quiet \/ \E b \in Kinds : Adds(b, "bridge")
<1>1. log \in SoundLog /\ clock \in Nat /\ log[k][n] \in SoundRow
  BY RowsSound DEF TypeInv, TypeOK, SoundLog
<1>2. CASE Start(k, n)
  <2>1. PICK r : r = Taken(log[k][n], k)
    OBVIOUS
  <2>2. Put(k, n, r) /\ clock' = clock
    BY <1>2, <2>1 DEF Start, Taken
  <2>3. r \in SoundRow /\ r.at = log[k][n].at /\ r.by = log[k][n].by /\ r.past = log[k][n].past
    BY <1>1, <2>1, StartSound
  <2> QED BY <1>1, <2>2, <2>3, PutQuiet
<1>3. CASE k = Sentinel /\ Grade(n)
  <2>1. PICK r : r = [log[k][n] EXCEPT !.job = "graded"]
    OBVIOUS
  <2>2. Put(k, n, r) /\ clock' = clock
    BY <1>3, <2>1 DEF Grade
  <2>3. r \in SoundRow /\ r.at = log[k][n].at /\ r.by = log[k][n].by /\ r.past = log[k][n].past
    BY <1>1, <2>1, JobSound DEF Jobs
  <2> QED BY <1>1, <2>2, <2>3, PutQuiet
<1>4. ASSUME NEW outcome \in Outcomes, Finish(k, n, outcome)
      PROVE  Quiet
  <2>1. PICK r : r = [log[k][n] EXCEPT !.status = outcome, !.job = outcome, !.past = @ \cup {outcome}]
    OBVIOUS
  <2>2. Put(k, n, r) /\ clock' = clock
    BY <1>4, <2>1 DEF Finish
  <2>3. /\ r \in SoundRow /\ r.at = log[k][n].at /\ r.by = log[k][n].by
        /\ log[k][n].past \subseteq r.past
    BY <1>1, <2>1 DEF SoundRow, Row, Jobs, Outcomes
  <2> QED BY <1>1, <2>2, <2>3, PutQuiet
<1>5. CASE Emit(k, n)
  <2>1. PICK r \in Return(k, log[k][n]) : Put(k, n, r) /\ clock' = clock
    BY <1>5 DEF Emit
  <2>3. r \in SoundRow /\ r.at = log[k][n].at /\ r.by = log[k][n].by /\ r.past = log[k][n].past
    BY <1>1, <2>1, ReturnSound
  <2> QED BY <1>1, <2>1, <2>3, PutQuiet
<1>6. CASE BridgeText(k, n)
  <2>1. PICK p \in Bridge :
           log' = [log EXCEPT ![k] = [@ EXCEPT ![n].job = "bridged"],
                              ![p[2]] = Append(@, [NewRow("bridge") EXCEPT !.job = "running"])]
    BY <1>6 DEF BridgeText
  <2>2. PICK q : q = [log[k][n] EXCEPT !.job = "bridged"]
    OBVIOUS
  <2>3. PICK L : L = [log EXCEPT ![k] = [@ EXCEPT ![n] = q]]
    OBVIOUS
  <2>4. PICK r : r = [NewRow("bridge") EXCEPT !.job = "running"]
    OBVIOUS
  <2>5. log' = [L EXCEPT ![p[2]] = Append(@, r)] /\ clock' = clock + 1
    <3>1. L = [log EXCEPT ![k] = [@ EXCEPT ![n].job = "bridged"]]
      BY <2>2, <2>3
    <3>2. log' = [L EXCEPT ![p[2]] = Append(@, r)]
      <4>1. k \in DOMAIN log /\ p[2] \in DOMAIN log
        BY <1>1, PipelineAssumption DEF SoundLog
      <4>2. CASE k # p[2]
        BY <2>1, <2>4, <3>1, <4>1, <4>2
      <4>3. CASE k = p[2]
        BY <2>1, <2>4, <3>1, <4>1, <4>3
      <4> QED BY <4>2, <4>3
    <3> QED BY <1>6, <3>2 DEF BridgeText
  <2>6. q \in SoundRow /\ q.at = log[k][n].at /\ q.by = log[k][n].by /\ q.past = log[k][n].past
    BY <1>1, <2>2, JobSound DEF Jobs
  <2>7. r \in SoundRow /\ r.at = clock + 1 /\ r.by = "bridge"
    BY <1>1, <2>4, NewRowSound
  <2>8. L \in SoundLog
    BY <1>1, <2>3, <2>6, PutLog
  <2>9. \A j \in Kinds : DOMAIN L[j] = DOMAIN log[j] /\ Len(L[j]) = Len(log[j])
    BY <1>1, <2>3, <2>6, PutLog
  <2>10. \A j \in Kinds : \A m \in DOMAIN log[j] :
            L[j][m].at = log[j][m].at /\ L[j][m].by = log[j][m].by /\ L[j][m].past = log[j][m].past
    <3>1. \A j \in Kinds : j # k => L[j] = log[j]
      BY <1>1, <2>3, <2>6, PutLog
    <3>2. \A m \in DOMAIN log[k] : m # n => L[k][m] = log[k][m]
      BY <1>1, <2>3, <2>6, PutLog
    <3>3. L[k][n] = q
      BY <1>1, <2>3 DEF SoundLog
    <3> QED BY <2>6, <3>1, <3>2, <3>3
  <2>11. p[2] \in Kinds
    BY PipelineAssumption
  <2>12. Adds(p[2], "bridge")
    BY <1>1, <2>5, <2>6, <2>7, <2>8, <2>9, <2>10, <2>11, AppendAdds
  <2> QED BY <2>11, <2>12
<1>7. CASE BridgeDone(k, n)
  <2>1. Put(k, n, Gone(log[k][n])) /\ clock' = clock
    BY <1>7 DEF BridgeDone
  <2> QED BY <1>1, <2>1, GoneSound, PutQuiet
<1> QED BY <1>2, <1>3, <1>4, <1>5, <1>6, <1>7 DEF Work

\* A crash keeps the attempts.
LEMMA CrashLog ==
    ASSUME log \in SoundLog, Crash
    PROVE  Quiet
<1>1. /\ log' = [k \in Kinds |-> [n \in DOMAIN log[k] |-> Stall(log[k][n])]]
      /\ clock' = clock
  BY DEF Crash
<1>2. ASSUME NEW j \in Kinds
      PROVE  log'[j] \in Seq(SoundRow) /\ Same(j)
  <2>1. log'[j] = [n \in DOMAIN log[j] |-> Stall(log[j][n])]
    BY <1>1
  <2>2. DOMAIN log'[j] = DOMAIN log[j]
    BY <2>1
  <2>3. \A n \in DOMAIN log[j] : log'[j][n] = Stall(log[j][n])
    BY <2>1
  <2>4. \A n \in DOMAIN log[j] : log'[j][n] \in SoundRow
    BY <2>3, RowsSound, StallSound
  <2>5. log[j] \in Seq(SoundRow)
    BY DEF SoundLog
  <2>6. log'[j] = [n \in DOMAIN log[j] |-> log'[j][n]]
    BY <2>1
  <2>7. log'[j] \in Seq(SoundRow)
    BY <2>2, <2>4, <2>5, <2>6, MapSeq
  <2>8. Len(log'[j]) = Len(log[j])
    BY <2>2, <2>4, <2>5, <2>6, MapSeq
  <2>9. Persist(j)
    BY <2>2, <2>3, RowsSound, StallSound DEF Persist
  <2> QED BY <2>2, <2>7, <2>8, <2>9 DEF Same
<1>3. log' \in SoundLog
  BY <1>1, <1>2 DEF SoundLog
<1> QED BY <1>1, <1>2, <1>3 DEF Quiet

\* Every step keeps all attempts; only an evaluation that reached its append
\* adds one for the pipeline, and only while no other attempt is added.
LEMMA LogStep ==
    ASSUME TypeInv, [Next]_vars
    PROVE  \/ Quiet
           \/ \E k \in Kinds : EvalAppend(k) /\ Adds(k, "event")
           \/ \E k \in Kinds : \E by \in {"root", "manual", "bridge"} : Adds(k, by)
<1> USE DEF TypeInv
<1>1. log \in SoundLog /\ clock \in Nat
  BY DEF TypeOK, SoundLog
<1>2. ASSUME NEW k \in Kinds, Evaluate(k)
      PROVE  Quiet \/ (EvalAppend(k) /\ Adds(k, "event"))
  <2>1. CASE EvalRead(k) \/ EvalRoute(k) \/ EvalRelease(k)
    BY <1>1, <2>1, UnchangedQuiet DEF EvalRead, EvalRoute, EvalRelease
  <2>2. CASE EvalAppend(k)
    BY <1>1, <2>2, Append1Adds DEF EvalAppend
  <2>3. CASE EvalHand(k)
    <3>1. clock' = clock /\ (HandOver(k, eval[k].n) \/ log' = log)
      BY <2>3 DEF EvalHand
    <3> QED BY <1>1, <3>1, HandOverQuiet, UnchangedQuiet
  <2> QED BY <1>2, <2>1, <2>2, <2>3 DEF Evaluate
<1>3. CASE RootAppend
  <2>1. Roots[request.next] \in Kinds
    BY RootsAssumption, ElementOfSeq, LenProperties DEF TypeOK
  <2>2. CASE Append1(Roots[request.next], "root")
    BY <1>1, <2>1, <2>2, Append1Adds
  <2>3. CASE UNCHANGED <<log, clock>>
    BY <1>1, <2>3, UnchangedQuiet
  <2> QED BY <1>3, <2>1, <2>2, <2>3 DEF RootAppend
<1>4. CASE RootHand
  <2>1. Roots[request.next] \in Kinds
    BY RootsAssumption, ElementOfSeq, LenProperties DEF TypeOK
  <2>2. clock' = clock /\ (HandOver(Roots[request.next], request.n) \/ log' = log)
    BY <1>4 DEF RootHand
  <2> QED BY <1>1, <2>1, <2>2, HandOverQuiet, UnchangedQuiet
<1>5. ASSUME NEW h \in request.stale, Reclaim(h)
      PROVE  Quiet
  <2>1. h.kind \in Kinds
    BY DEF TypeOK, Handle
  <2>2. PICK r : r = [log[h.kind][h.n] EXCEPT !.status = "failed", !.past = @ \cup {"failed"}]
    OBVIOUS
  <2>3. Put(h.kind, h.n, r) /\ clock' = clock
    BY <1>5, <2>2 DEF Reclaim
  <2>4. ASSUME h.n \in DOMAIN log[h.kind]
        PROVE  /\ r \in SoundRow
               /\ r.at = log[h.kind][h.n].at /\ r.by = log[h.kind][h.n].by
               /\ log[h.kind][h.n].past \subseteq r.past
    <3>1. log[h.kind][h.n] \in SoundRow
      BY <1>1, <2>1, <2>4, RowsSound
    <3> QED BY <2>2, <3>1 DEF SoundRow, Row, Outcomes
  <2> QED BY <1>1, <2>1, <2>3, <2>4, PutQuiet
<1>6. CASE RetryAppend
  <2>1. manual.kind \in Kinds
    BY DEF TypeOK
  <2> QED BY <1>1, <1>6, <2>1, Append1Adds DEF RetryAppend
<1>7. CASE RetryHand
  <2>1. manual.kind \in Kinds
    BY DEF TypeOK
  <2>2. clock' = clock /\ (HandOver(manual.kind, manual.n) \/ log' = log)
    BY <1>7 DEF RetryHand
  <2> QED BY <1>1, <2>1, <2>2, HandOverQuiet, UnchangedQuiet
<1>8. CASE \/ Announce \/ Commit \/ Reprocess \/ UNCHANGED vars
           \/ \E k \in Kinds : Retry(k)
           \/ \E t \in Tiers : Override(t)
  <2>1. UNCHANGED <<log, clock>>
    BY <1>8 DEF Announce, Commit, Reprocess, Retry, Override, vars
  <2> QED BY <1>1, <2>1, UnchangedQuiet
<1>9. CASE Crash
  BY <1>1, <1>9, CrashLog
<1> QED BY <1>2, <1>3, <1>4, <1>5, <1>6, <1>7, <1>8, <1>9, WorkLog DEF Next, System, Outside

\* What may still happen is counted in naturals.
LEMMA SpendType ==
    ASSUME left \in [OutsideEvents -> Nat], NEW e \in OutsideEvents, Spend(e)
    PROVE  left' \in [OutsideEvents -> Nat]
<1>1. left[e] - 1 \in Nat
  BY DEF Spend
<1> QED BY <1>1 DEF Spend

\* A request that begins, or goes on to a root, is a request.
LEMMA RequestStart ==
    ASSUME NEW i \in Nat \ {0}
    PROVE  /\ Idle \in [pc : {"idle", "reclaim", "announce", "root", "hand"}, next : DOMAIN Roots,
                        n : Nat \ {0}, stale : SUBSET Handle, cur : Handle]
           /\ RootsFrom(i) \in [pc : {"idle", "reclaim", "announce", "root", "hand"},
                                next : DOMAIN Roots, n : Nat \ {0}, stale : SUBSET Handle, cur : Handle]
<1>1. Len(Roots) \in Nat \ {0} /\ DOMAIN Roots = 1 .. Len(Roots)
  BY RootsAssumption, EmptySeq, LenProperties
<1>2. Idle \in [pc : {"idle"}, next : DOMAIN Roots, n : Nat \ {0}, stale : SUBSET Handle, cur : Handle]
  BY <1>1, PipelineAssumption DEF Idle, Handle
<1>3. CASE i > Len(Roots)
  BY <1>2, <1>3 DEF RootsFrom
<1>4. CASE ~(i > Len(Roots))
  <2>1. i \in DOMAIN Roots
    BY <1>1, <1>4
  <2>2. RootsFrom(i) = [Idle EXCEPT !.pc = "root", !.next = i]
    BY <1>4 DEF RootsFrom
  <2> QED BY <1>2, <2>1, <2>2
<1> QED BY <1>2, <1>3, <1>4

\* A delivery gives evaluations.
LEMMA DeliverType ==
    ASSUME eval \in [Kinds -> [pc : EvalPcs, n : Nat \ {0}]], dropped \subseteq Kinds,
           NEW k \in Kinds, NEW outcome, Deliver(k, outcome)
    PROVE  eval' \in [Kinds -> [pc : EvalPcs, n : Nat \ {0}]] /\ dropped' \subseteq Kinds
<1>1. Woken(k, outcome) \subseteq Kinds
  BY DepsAssumption, PipelineAssumption DEF Woken, DependentsOf
<1>2. \A d \in Kinds : [eval[d] EXCEPT !.pc = "read"] \in [pc : EvalPcs, n : Nat \ {0}]
  BY DEF EvalPcs
<1> QED BY <1>1, <1>2 DEF Deliver

\* Every step keeps the types.
LEMMA TypeStep ==
    ASSUME TypeInv, [Next]_vars
    PROVE  TypeInv'
<1> DEFINE Requests == [pc : {"idle", "reclaim", "announce", "root", "hand"}, next : DOMAIN Roots,
                        n : Nat \ {0}, stale : SUBSET Handle, cur : Handle]
           Manuals == [pc : {"idle", "append", "hand"}, kind : Kinds, n : Nat \ {0}]
           Evals == [Kinds -> [pc : EvalPcs, n : Nat \ {0}]]
           Senses == [detected : Tiers, manual : Tiers, held : BOOLEAN]
           Lefts == [OutsideEvents -> Nat]
           Rest == /\ committed \in BOOLEAN
                   /\ request \in Requests
                   /\ manual \in Manuals
                   /\ eval \in Evals
                   /\ dropped \subseteq Kinds
                   /\ sens \in Senses
                   /\ left \in Lefts
<1>1. log \in SoundLog /\ clock \in Nat /\ Rest
  BY DEF TypeInv, TypeOK, SoundLog
<1>2. log' \in SoundLog /\ clock' \in Nat
  <2>1. \/ Quiet
        \/ \E k \in Kinds : EvalAppend(k) /\ Adds(k, "event")
        \/ \E k \in Kinds : \E by \in {"root", "manual", "bridge"} : Adds(k, by)
    BY LogStep
  <2> QED BY <1>1, <2>1 DEF Quiet, Adds
<1>3. \A k \in Kinds : Len(log[k]) + 1 \in Nat \ {0}
  BY <1>1, LenProperties DEF SoundLog
<1>4. Rest'
  <2>1. ASSUME NEW k \in Kinds, Evaluate(k)
        PROVE  Rest'
    <3>1. \A pc \in EvalPcs : Goto(k, pc) => eval' \in Evals
      BY <1>1 DEF Goto
    <3>2. CASE EvalRead(k)
      BY <1>1, <3>1, <3>2 DEF EvalRead, EvalPcs
    <3>3. CASE EvalRoute(k)
      <4>1. eval' \in Evals
        BY <3>1, <3>3 DEF EvalRoute, EvalPcs
      <4>2. sens' \in Senses
        BY <1>1, <3>3 DEF EvalRoute
      <4> QED BY <1>1, <3>3, <4>1, <4>2 DEF EvalRoute
    <3>4. CASE EvalAppend(k)
      BY <1>1, <1>3, <3>4 DEF EvalAppend, EvalPcs
    <3>5. CASE EvalHand(k)
      BY <1>1, <3>1, <3>5, SpendType DEF EvalHand, EvalPcs, OutsideEvents
    <3>6. CASE EvalRelease(k)
      BY <1>1, <3>1, <3>6 DEF EvalRelease, EvalPcs
    <3> QED BY <2>1, <3>2, <3>3, <3>4, <3>5, <3>6 DEF Evaluate
  <2>2. ASSUME NEW k \in Kinds, NEW n \in DOMAIN log[k], Work(k, n)
        PROVE  Rest'
    <3>1. CASE Start(k, n) \/ BridgeText(k, n) \/ BridgeDone(k, n)
      BY <1>1, <3>1 DEF Start, BridgeText, BridgeDone
    <3>2. CASE Grade(n)
      BY <1>1, <3>2, PipelineAssumption DEF Grade, Tiers
    <3>3. ASSUME NEW outcome \in Outcomes, Finish(k, n, outcome)
          PROVE  Rest'
      BY <1>1, <3>3, SpendType DEF Finish, OutsideEvents
    <3>4. CASE Emit(k, n)
      BY <1>1, <3>4, DeliverType DEF Emit
    <3> QED BY <2>2, <3>1, <3>2, <3>3, <3>4 DEF Work
  <2>3. CASE Commit
    BY <1>1, <2>3, RequestStart DEF Commit
  <2>4. CASE RootAppend
    <3>1. Roots[request.next] \in Kinds /\ request.next + 1 \in Nat \ {0}
      BY <1>1, RootsAssumption, ElementOfSeq, LenProperties
    <3>2. request' \in Requests
      <4>1. CASE request' = [request EXCEPT !.pc = "hand", !.n = Len(log[Roots[request.next]]) + 1]
        <5>1. PICK n \in Nat \ {0} : n = Len(log[Roots[request.next]]) + 1
          BY <1>3, <3>1
        <5> QED BY <1>1, <4>1, <5>1
      <4>2. CASE request' = RootsFrom(request.next + 1)
        BY <3>1, <4>2, RequestStart
      <4> QED BY <2>4, <4>1, <4>2 DEF RootAppend
    <3> QED BY <1>1, <2>4, <3>2 DEF RootAppend
  <2>5. CASE RootHand
    <3>1. request.next + 1 \in Nat \ {0}
      BY <1>1, RootsAssumption, LenProperties
    <3>2. request' \in Requests
      BY <2>5, <3>1, RequestStart DEF RootHand
    <3> QED BY <1>1, <2>5, <3>2, SpendType DEF RootHand, OutsideEvents
  <2>6. CASE Announce
    <3>1. request' \in Requests
      <4>1. RootsFrom(1) \in Requests
        BY RequestStart
      <4>2. [request EXCEPT !.pc = "reclaim"] \in Requests
        BY <1>1
      <4> QED BY <2>6, <4>1, <4>2 DEF Announce
    <3> QED BY <1>1, <2>6, <3>1, DeliverType DEF Announce, Handle
  <2>7. ASSUME NEW h \in request.stale, Reclaim(h)
        PROVE  Rest'
    BY <1>1, <2>7 DEF Reclaim
  <2>8. CASE RetryAppend \/ RetryHand
    <3>1. CASE RetryAppend
      <4>1. PICK n \in Nat \ {0} : n = Len(log[manual.kind]) + 1
        BY <1>1, <1>3
      <4>2. manual' = [manual EXCEPT !.pc = "hand", !.n = n]
        BY <3>1, <4>1 DEF RetryAppend
      <4>3. manual' \in Manuals
        BY <1>1, <4>2
      <4> QED BY <1>1, <3>1, <4>3 DEF RetryAppend
    <3>2. CASE RetryHand
      BY <1>1, <3>2, SpendType DEF RetryHand, OutsideEvents
    <3> QED BY <2>8, <3>1, <3>2
  <2>9. CASE Reprocess
    <3>1. Pending \subseteq Handle
      BY <1>1 DEF Pending, Handle
    <3>2. request' \in Requests
      <4>1. RootsFrom(1) \in Requests /\ Idle \in Requests
        BY RequestStart
      <4>2. [Idle EXCEPT !.pc = "reclaim", !.stale = Pending] \in Requests
        BY <3>1, <4>1
      <4> QED BY <2>9, <4>1, <4>2 DEF Reprocess
    <3> QED BY <1>1, <2>9, <3>2, SpendType DEF Reprocess, OutsideEvents
  <2>10. ASSUME NEW k \in Kinds, Retry(k)
         PROVE  Rest'
    BY <1>1, <2>10, SpendType DEF Retry, OutsideEvents
  <2>11. ASSUME NEW t \in Tiers, Override(t)
         PROVE  Rest'
    BY <1>1, <2>11, SpendType DEF Override, OutsideEvents, Tiers
  <2>12. CASE Crash
    <3>1. request' \in Requests
      <4>1. Idle \in Requests
        BY RequestStart
      <4> QED BY <2>12, <4>1 DEF Crash
    <3>2. eval' \in Evals /\ manual' \in Manuals
      BY <1>1, <2>12 DEF Crash, EvalPcs
    <3> QED BY <1>1, <2>12, <3>1, <3>2, SpendType DEF Crash, OutsideEvents
  <2>13. CASE UNCHANGED vars
    BY <1>1, <2>13 DEF vars
  <2> QED BY <2>1, <2>2, <2>3, <2>4, <2>5, <2>6, <2>7, <2>8, <2>9, <2>10, <2>11, <2>12, <2>13
          DEF Next, System, Outside
<1>5. (log \in [Kinds -> Seq(Row)])'
  BY <1>2, SoundLogs
<1> QED BY <1>2, <1>4, <1>5 DEF TypeInv, TypeOK, SoundLog

\* The types hold at the start.
LEMMA TypeInit ==
    ASSUME Init
    PROVE  TypeInv
<1>1. log \in SoundLog
  BY EmptySeq DEF Init, SoundLog
<1>2. Idle \in [pc : {"idle", "reclaim", "announce", "root", "hand"}, next : DOMAIN Roots,
                n : Nat \ {0}, stale : SUBSET Handle, cur : Handle]
  BY RequestStart
<1>3. log \in [Kinds -> Seq(Row)]
  BY <1>1, SoundLogs
<1>4. eval \in [Kinds -> [pc : EvalPcs, n : Nat \ {0}]]
  BY DEF Init, EvalPcs
<1>5. manual \in [pc : {"idle", "append", "hand"}, kind : Kinds, n : Nat \ {0}]
  BY PipelineAssumption DEF Init
<1>6. sens \in [detected : Tiers, manual : Tiers, held : BOOLEAN]
  BY DEF Init, Tiers
<1>7. clock \in Nat /\ committed \in BOOLEAN /\ dropped \subseteq Kinds
      /\ left \in [OutsideEvents -> Nat]
  BY PipelineAssumption DEF Init
<1>8. request = Idle
  BY DEF Init
<1> QED BY <1>1, <1>2, <1>3, <1>4, <1>5, <1>6, <1>7, <1>8 DEF TypeInv, TypeOK, SoundLog

\* The types, and that every row is sound, hold in every reachable state.
LEMMA TypeInvariant == Spec => []TypeInv
<1>1. Init => TypeInv
  BY TypeInit
<1>2. TypeInv /\ [Next]_vars => TypeInv'
  BY TypeStep
<1> QED BY <1>1, <1>2, PTL DEF Spec

\* The state has its types, however the pipeline is interrupted.
THEOREM TypeCorrect == Spec => []TypeOK
<1>1. TypeInv => TypeOK
  BY DEF TypeInv
<1> QED BY <1>1, TypeInvariant, PTL

(***************************************************************************)
(* One run per generation                                                  *)
(*                                                                         *)
(* OncePerGeneration is not inductive: it says nothing of the evaluation   *)
(* that has passed the coverage test and is about to append.  Fresh does:  *)
(* what entitled it to pass is still there when it appends, because no     *)
(* step but its own adds an event-driven attempt of its kind (`evaluating` *)
(* admits one evaluation per kind) and attempts keep their createdAt.      *)
(***************************************************************************)
\* Attempts of one kind are numbered in the order of their creation.
Ordered ==
    \A k \in Kinds : \A i \in DOMAIN log[k] :
        /\ log[k][i].at <= clock
        /\ \A j \in DOMAIN log[k] : i < j => log[k][i].at < log[k][j].at

\* Since the i-th attempt of k there is a newer input, or a failure.
NewInput(k, i) ==
    \E d \in DependsOn(k) : \E c \in DOMAIN log[d] : log[k][i].at < log[d][c].at
FailedSince(k, i) == \E f \in DOMAIN log[k] : i <= f /\ "failed" \in log[k][f].past

Fresh ==
    \A k \in Kinds : eval[k].pc \in {"route", "append"} =>
        \A i \in DOMAIN log[k] : log[k][i].by = "event" => NewInput(k, i) \/ FailedSince(k, i)

GenerationInv == TypeInv /\ Ordered /\ Fresh /\ OncePerGeneration

\* A kind waits for others.
LEMMA DependsOnKinds ==
    ASSUME NEW k \in Kinds, NEW d \in DependsOn(k)
    PROVE  d \in Kinds /\ d # k
BY DepsAssumption, NoSelfDependency DEF DependsOn

\* A sound log is a sequence of rows for every kind.
LEMMA Rows ==
    ASSUME log \in SoundLog, NEW k \in Kinds
    PROVE  /\ Len(log[k]) \in Nat /\ DOMAIN log[k] = 1 .. Len(log[k])
           /\ \A n \in DOMAIN log[k] : log[k][n].at \in Nat
<1>1. Len(log[k]) \in Nat /\ DOMAIN log[k] = 1 .. Len(log[k])
  BY LenProperties DEF SoundLog
<1>2. \A n \in DOMAIN log[k] : log[k][n].at \in Nat
  BY RowsSound DEF Row
<1> QED BY <1>1, <1>2

\* Every step keeps the attempts in the order of their creation.
LEMMA OrderedStep ==
    ASSUME TypeInv, Ordered, [Next]_vars
    PROVE  Ordered'
<1>1. log \in SoundLog /\ clock \in Nat
  BY DEF TypeInv, TypeOK, SoundLog
<1>2. CASE Quiet
  BY <1>2 DEF Ordered, Quiet, Same, Persist
<1>3. ASSUME NEW k \in Kinds, NEW by, Adds(k, by)
      PROVE  Ordered'
  <2>1. ASSUME NEW j \in Kinds, j # k
        PROVE  \A i \in DOMAIN log'[j] :
                  /\ log'[j][i].at <= clock'
                  /\ \A m \in DOMAIN log'[j] : i < m => log'[j][i].at < log'[j][m].at
    <3>1. Same(j) /\ clock' = clock + 1
      BY <1>3, <2>1 DEF Adds
    <3>2. \A i \in DOMAIN log[j] : log[j][i].at \in Nat /\ log[j][i].at <= clock
      BY <1>1, Rows DEF Ordered
    <3> QED BY <1>1, <3>1, <3>2 DEF Same, Persist, Ordered
  <2>2. \A i \in DOMAIN log'[k] :
           /\ log'[k][i].at <= clock'
           /\ \A m \in DOMAIN log'[k] : i < m => log'[k][i].at < log'[k][m].at
    <3>1. Len(log[k]) \in Nat /\ DOMAIN log[k] = 1 .. Len(log[k])
      BY <1>1, Rows
    <3>2. DOMAIN log'[k] = 1 .. Len(log[k]) + 1 /\ clock' = clock + 1
      BY <1>3 DEF Adds
    <3>3. log'[k][Len(log[k]) + 1].at = clock + 1
      BY <1>3 DEF Adds
    <3>4. \A i \in 1 .. Len(log[k]) : log'[k][i].at = log[k][i].at
      BY <1>3, <3>1 DEF Adds, Persist
    <3>5. \A i \in 1 .. Len(log[k]) : log[k][i].at \in Nat /\ log[k][i].at <= clock
      BY <1>1, <3>1, Rows DEF Ordered
    <3>6. \A i, m \in 1 .. Len(log[k]) : i < m => log[k][i].at < log[k][m].at
      BY <3>1 DEF Ordered
    <3>7. \A i \in 1 .. Len(log[k]) + 1 : i \in 1 .. Len(log[k]) \/ i = Len(log[k]) + 1
      BY <3>1
    <3>8. \A i \in 1 .. Len(log[k]) + 1 : log'[k][i].at <= clock + 1
      BY <1>1, <3>3, <3>4, <3>5, <3>7
    <3>9. ASSUME NEW i \in 1 .. Len(log[k]) + 1, NEW m \in 1 .. Len(log[k]) + 1, i < m
          PROVE  log'[k][i].at < log'[k][m].at
      <4>1. i \in 1 .. Len(log[k])
        BY <3>1, <3>9
      <4>2. CASE m \in 1 .. Len(log[k])
        BY <3>4, <3>6, <3>9, <4>1, <4>2
      <4>3. CASE m = Len(log[k]) + 1
        BY <1>1, <3>3, <3>4, <3>5, <4>1, <4>3
      <4> QED BY <3>7, <4>2, <4>3
    <3> QED BY <3>2, <3>8, <3>9
  <2> QED BY <2>1, <2>2 DEF Ordered
<1> QED BY <1>2, <1>3, LogStep

\* The coverage test lets an evaluation pass only towards a new generation.
LEMMA PassesWhenFresh ==
    ASSUME TypeInv, Ordered, NEW k \in Kinds, Ready(k), ~Covered(k),
           NEW i \in DOMAIN log[k]
    PROVE  NewInput(k, i) \/ FailedSince(k, i)
<1>1. log \in SoundLog /\ clock \in Nat
  BY DEF TypeInv, TypeOK, SoundLog
<1>2. Len(log[k]) \in Nat /\ DOMAIN log[k] = 1 .. Len(log[k]) /\ Has(k)
  BY <1>1, Rows DEF Has
<1>3. Len(log[k]) \in DOMAIN log[k] /\ i <= Len(log[k])
  BY <1>2
<1>4. CASE Latest(k).status = "failed"
  <2>1. "failed" \in log[k][Len(log[k])].past
    BY <1>1, <1>3, <1>4, RowsSound DEF Latest, SoundRow, Outcomes
  <2> QED BY <1>3, <2>1 DEF FailedSince
<1>5. CASE \E t \in Inputs(k) : ~(t <= Latest(k).at)
  <2>1. PICK e \in Deps : e.of = k /\ Has(e.kind) /\ ~(Latest(e.kind).at <= Latest(k).at)
    BY <1>5 DEF Inputs, PlainDeps, Members, Groups, Satisfies
  <2>2. e.kind \in DependsOn(k) /\ e.kind \in Kinds
    BY <2>1, DepsAssumption DEF DependsOn
  <2>3. Len(log[e.kind]) \in DOMAIN log[e.kind]
    BY <1>1, <2>1, <2>2, Rows, EmptySeq DEF Has, SoundLog
  <2>4. log[k][i].at <= Latest(k).at
    <3>1. CASE i = Len(log[k])
      BY <1>1, <1>3, <3>1, Rows DEF Latest
    <3>2. CASE i < Len(log[k])
      BY <1>1, <1>3, <3>2, Rows DEF Latest, Ordered
    <3> QED BY <1>2, <1>3, <3>1, <3>2
  <2>5. /\ log[k][i].at \in Nat /\ Latest(k).at \in Nat /\ Latest(e.kind).at \in Nat
    BY <1>1, <1>3, <2>2, <2>3, Rows DEF Latest
  <2>6. log[k][i].at < log[e.kind][Len(log[e.kind])].at
    BY <2>1, <2>4, <2>5 DEF Latest
  <2> QED BY <2>2, <2>3, <2>6 DEF NewInput
<1> QED BY <1>2, <1>4, <1>5 DEF Covered

\* New inputs and failures stay.
LEMMA FreshStays ==
    ASSUME TypeInv, NEW k \in Kinds, NEW i \in DOMAIN log[k],
           \A j \in Kinds : Persist(j), NewInput(k, i) \/ FailedSince(k, i)
    PROVE  NewInput(k, i)' \/ FailedSince(k, i)'
<1>1. CASE NewInput(k, i)
  BY <1>1, DependsOnKinds DEF NewInput, Persist
<1>2. CASE FailedSince(k, i)
  BY <1>2 DEF FailedSince, Persist
<1> QED BY <1>1, <1>2

\* An evaluation gets past the coverage test by its own read only.
LEMMA PassesByRead ==
    ASSUME TypeInv, [Next]_vars, NEW k \in Kinds, eval'[k].pc \in {"route", "append"}
    PROVE  \/ eval[k].pc \in {"route", "append"} /\ (eval'[k].pc = "route" => eval[k].pc = "route")
           \/ EvalRead(k) /\ Ready(k) /\ ~Covered(k)
<1>1. eval \in [Kinds -> [pc : EvalPcs, n : Nat \ {0}]]
  BY DEF TypeInv, TypeOK
<1>2. ASSUME NEW j \in Kinds, NEW pc, Goto(j, pc), pc \notin {"route", "append"}
      PROVE  eval[k].pc \in {"route", "append"} /\ eval'[k].pc = eval[k].pc
  BY <1>1, <1>2 DEF Goto
<1>3. ASSUME NEW d \in Kinds, NEW outcome, Deliver(d, outcome)
      PROVE  eval[k].pc \in {"route", "append"} /\ eval'[k].pc = eval[k].pc
  <2>1. eval'[k] = IF k \in Woken(d, outcome) /\ eval[k].pc = "idle"
                   THEN [eval[k] EXCEPT !.pc = "read"] ELSE eval[k]
    BY <1>3 DEF Deliver
  <2>2. eval[k].pc = "idle" => [eval[k] EXCEPT !.pc = "read"].pc = "read"
    BY <1>1
  <2> QED BY <2>1, <2>2
<1>4. ASSUME NEW j \in Kinds, Evaluate(j)
      PROVE  \/ eval[k].pc \in {"route", "append"} /\ (eval'[k].pc = "route" => eval[k].pc = "route")
             \/ EvalRead(k) /\ Ready(k) /\ ~Covered(k)
  <2>1. CASE EvalRead(j)
    <3>1. CASE j = k
      <4>1. Goto(k, "release") => eval'[k].pc = "release"
        BY <1>1 DEF Goto
      <4> QED BY <2>1, <3>1, <4>1 DEF EvalRead
    <3>2. CASE j # k
      BY <1>1, <2>1, <3>2 DEF EvalRead, Goto
    <3> QED BY <3>1, <3>2
  <2>2. CASE EvalRoute(j)
    <3>1. CASE j = k
      BY <2>2, <3>1 DEF EvalRoute, At
    <3>2. CASE j # k
      BY <1>1, <2>2, <3>2 DEF EvalRoute, Goto
    <3> QED BY <3>1, <3>2
  <2>3. CASE EvalAppend(j)
    <3>1. CASE j = k
      BY <2>3, <3>1 DEF EvalAppend, At
    <3>2. CASE j # k
      BY <1>1, <2>3, <3>2 DEF EvalAppend
    <3> QED BY <3>1, <3>2
  <2>4. CASE EvalHand(j) \/ EvalRelease(j)
    BY <1>2, <2>4 DEF EvalHand, EvalRelease
  <2> QED BY <1>4, <2>1, <2>2, <2>3, <2>4 DEF Evaluate
<1>5. ASSUME NEW j \in Kinds, NEW n \in DOMAIN log[j], Work(j, n)
      PROVE  eval[k].pc \in {"route", "append"} /\ eval'[k].pc = eval[k].pc
  <2>1. CASE Emit(j, n)
    BY <1>3, <2>1 DEF Emit
  <2>2. CASE ~Emit(j, n)
    BY <1>5, <2>2 DEF Work, Start, Grade, Finish, BridgeText, BridgeDone
  <2> QED BY <2>1, <2>2
<1>6. CASE Announce
  <2>1. request.cur.kind \in Kinds
    BY DEF TypeInv, TypeOK, Handle
  <2> QED BY <1>3, <1>6, <2>1 DEF Announce
<1>7. CASE Crash
  BY <1>7 DEF Crash
<1>8. CASE UNCHANGED eval
  BY <1>8
<1>9. \/ \E j \in Kinds : Evaluate(j)
      \/ \E j \in Kinds : \E n \in DOMAIN log[j] : Work(j, n)
      \/ Announce \/ Crash \/ UNCHANGED eval
  BY DEF Next, System, Outside, RootAppend, RootHand, Reclaim, RetryAppend, RetryHand,
         Commit, Reprocess, Retry, Override, vars
<1> QED BY <1>4, <1>5, <1>6, <1>7, <1>8, <1>9

\* Every step keeps the evaluations that passed the coverage test on a new generation.
LEMMA FreshStep ==
    ASSUME GenerationInv, [Next]_vars
    PROVE  Fresh'
<1> SUFFICES ASSUME NEW k \in Kinds, eval'[k].pc \in {"route", "append"},
                    NEW i \in DOMAIN log'[k], log'[k][i].by = "event"
             PROVE  NewInput(k, i)' \/ FailedSince(k, i)'
  BY DEF Fresh
<1> USE DEF GenerationInv
<1>1. log \in SoundLog /\ \A j \in Kinds : Persist(j)
  BY LogStep DEF TypeInv, TypeOK, SoundLog, Quiet, Adds, Same
<1>2. i \in DOMAIN log[k] /\ log[k][i].by = "event"
  <2>1. CASE Quiet
    BY <2>1 DEF Quiet, Same, Persist
  <2>2. ASSUME NEW j \in Kinds, EvalAppend(j), Adds(j, "event")
        PROVE  i \in DOMAIN log[k] /\ log[k][i].by = "event"
    <3>1. j # k
      BY <2>2 DEF EvalAppend, TypeInv, TypeOK
    <3> QED BY <2>2, <3>1 DEF Adds, Same, Persist
  <2>3. ASSUME NEW j \in Kinds, NEW by \in {"root", "manual", "bridge"}, Adds(j, by)
        PROVE  i \in DOMAIN log[k] /\ log[k][i].by = "event"
    <3>1. CASE j # k
      BY <2>3, <3>1 DEF Adds, Same, Persist
    <3>2. CASE j = k
      <4>1. DOMAIN log[k] = 1 .. Len(log[k]) /\ Len(log[k]) \in Nat
        BY <1>1, Rows
      <4>2. i \in 1 .. Len(log[k]) + 1 /\ i # Len(log[k]) + 1
        BY <2>3, <3>2 DEF Adds
      <4>3. i \in DOMAIN log[k]
        BY <4>1, <4>2
      <4> QED BY <1>1, <4>3 DEF Persist
    <3> QED BY <3>1, <3>2
  <2> QED BY <2>1, <2>2, <2>3, LogStep
<1>3. NewInput(k, i) \/ FailedSince(k, i)
  <2>1. CASE eval[k].pc \in {"route", "append"}
    BY <1>2, <2>1 DEF Fresh
  <2>2. CASE Ready(k) /\ ~Covered(k)
    BY <1>2, <2>2, PassesWhenFresh
  <2> QED BY <2>1, <2>2, PassesByRead
<1> QED BY <1>1, <1>2, <1>3, FreshStays

\* No step appends a second attempt for a generation.
LEMMA OnceStep ==
    ASSUME GenerationInv, [Next]_vars
    PROVE  OncePerGeneration'
<1> SUFFICES ASSUME NEW k \in Kinds, NEW i \in DOMAIN log'[k], NEW j \in DOMAIN log'[k],
                    i < j, log'[k][i].by = "event", log'[k][j].by = "event"
             PROVE  \/ \E d \in DependsOn(k) : \E c \in DOMAIN log'[d] :
                          log'[k][i].at < log'[d][c].at /\ log'[d][c].at < log'[k][j].at
                    \/ \E f \in i .. j - 1 : "failed" \in log'[k][f].past
  BY DEF OncePerGeneration
<1> USE DEF GenerationInv
<1>1. /\ log \in SoundLog /\ log' \in SoundLog /\ clock \in Nat
      /\ \A d \in Kinds : Persist(d)
  BY LogStep DEF TypeInv, TypeOK, SoundLog, Quiet, Adds, Same
<1>2. Len(log[k]) \in Nat /\ DOMAIN log[k] = 1 .. Len(log[k])
  BY <1>1, Rows
<1>3. i \in Nat \ {0} /\ j \in Nat
  <2>1. log'[k] \in Seq(SoundRow)
    BY <1>1 DEF SoundLog
  <2>2. DOMAIN log'[k] = 1 .. Len(log'[k]) /\ Len(log'[k]) \in Nat
    BY <2>1, LenProperties
  <2> QED BY <2>2
<1>4. CASE j \in DOMAIN log[k]
  <2>1. i \in DOMAIN log[k]
    BY <1>2, <1>3, <1>4
  <2>2. \/ \E d \in DependsOn(k) : \E c \in DOMAIN log[d] :
              log[k][i].at < log[d][c].at /\ log[d][c].at < log[k][j].at
        \/ \E f \in i .. j - 1 : "failed" \in log[k][f].past
    BY <1>1, <1>4, <2>1 DEF OncePerGeneration, Persist
  <2>3. ASSUME NEW d \in DependsOn(k), NEW c \in DOMAIN log[d],
               log[k][i].at < log[d][c].at, log[d][c].at < log[k][j].at
        PROVE  c \in DOMAIN log'[d] /\ log'[k][i].at < log'[d][c].at /\ log'[d][c].at < log'[k][j].at
    BY <1>1, <1>4, <2>1, <2>3, DependsOnKinds DEF Persist
  <2>4. ASSUME NEW f \in i .. j - 1, "failed" \in log[k][f].past
        PROVE  "failed" \in log'[k][f].past
    <3>1. f \in DOMAIN log[k]
      BY <1>2, <1>3, <1>4
    <3> QED BY <1>1, <2>4, <3>1 DEF Persist
  <2> QED BY <2>2, <2>3, <2>4
<1>5. CASE j \notin DOMAIN log[k]
  <2>1. EvalAppend(k) /\ Adds(k, "event")
    <3>1. ~Quiet
      BY <1>5 DEF Quiet, Same
    <3>2. ASSUME NEW b \in Kinds, NEW by, Adds(b, by)
          PROVE  b = k /\ by = "event"
      <4>1. b = k
        BY <1>5, <3>2 DEF Adds, Same
      <4>2. j = Len(log[k]) + 1
        BY <1>2, <1>3, <1>5, <3>2, <4>1 DEF Adds
      <4> QED BY <3>2, <4>1, <4>2 DEF Adds
    <3> QED BY <3>1, <3>2, LogStep
  <2>2. /\ j = Len(log[k]) + 1 /\ i \in DOMAIN log[k]
        /\ log'[k][j].at = clock + 1
    BY <1>2, <1>3, <1>5, <2>1 DEF Adds
  <2>3. log[k][i].by = "event" /\ log'[k][i].at = log[k][i].at
    BY <1>1, <2>2 DEF Persist
  <2>4. NewInput(k, i) \/ FailedSince(k, i)
    BY <2>1, <2>2, <2>3 DEF Fresh, EvalAppend, At
  <2>5. CASE NewInput(k, i)
    <3> PICK d \in DependsOn(k) : \E c \in DOMAIN log[d] : log[k][i].at < log[d][c].at
      BY <2>5 DEF NewInput
    <3>1. PICK c \in DOMAIN log[d] : log[k][i].at < log[d][c].at
      OBVIOUS
    <3>2. d \in Kinds
      BY DependsOnKinds
    <3>3. c \in DOMAIN log'[d] /\ log'[d][c].at = log[d][c].at
      BY <1>1, <3>2 DEF Persist
    <3>4. log[d][c].at \in Nat /\ log[d][c].at <= clock
      BY <1>1, <3>2, Rows DEF Ordered
    <3>5. log'[d][c].at < log'[k][j].at
      BY <1>1, <2>2, <3>3, <3>4
    <3> QED BY <2>3, <3>1, <3>3, <3>5
  <2>6. CASE FailedSince(k, i)
    <3>1. PICK f \in DOMAIN log[k] : i <= f /\ "failed" \in log[k][f].past
      BY <2>6 DEF FailedSince
    <3>2. f \in i .. j - 1
      BY <1>2, <1>3, <2>2, <3>1
    <3>3. "failed" \in log'[k][f].past
      BY <1>1, <3>1 DEF Persist
    <3> QED BY <3>2, <3>3
  <2> QED BY <2>4, <2>5, <2>6
<1> QED BY <1>4, <1>5

\* The invariant behind OncePerGeneration holds in every reachable state.
LEMMA GenerationInvariant == Spec => []GenerationInv
<1>1. ASSUME Init
      PROVE  GenerationInv
  <2>1. \A k \in Kinds : log[k] = <<>> /\ eval[k].pc = "idle"
    BY <1>1 DEF Init
  <2>2. \A k \in Kinds : \A i \in DOMAIN log[k] : FALSE
    <3>1. log \in SoundLog
      BY <1>1, TypeInit DEF TypeInv, SoundLog
    <3>2. \A k \in Kinds : DOMAIN log[k] = 1 .. 0
      BY <2>1, <3>1, Rows, EmptySeq
    <3> QED BY <3>2
  <2> QED BY <1>1, <2>1, <2>2, TypeInit DEF GenerationInv, Ordered, Fresh, OncePerGeneration
<1>2. GenerationInv /\ [Next]_vars => GenerationInv'
  BY TypeStep, OrderedStep, FreshStep, OnceStep DEF GenerationInv
<1> QED BY <1>1, <1>2, PTL DEF Spec

\* Two event-driven attempts of a kind are separated by a newer attempt of a
\* dependency or by a failure: the pipeline runs an extractor at most once per
\* input generation, whatever crashes, retries and reprocesses interleave.
THEOREM RunsOncePerGeneration == Spec => []OncePerGeneration
<1>1. GenerationInv => OncePerGeneration
  BY DEF GenerationInv
<1> QED BY <1>1, GenerationInvariant, PTL

(***************************************************************************)
(* The attempts table is an AttemptLedger                                  *)
(*                                                                         *)
(* What entitles an evaluation, a manual retry or OCR to start an attempt  *)
(* is read before the attempt is inserted.  The evidence stays, because    *)
(* attempts keep their outcomes, although their status may change.         *)
(***************************************************************************)
Entry(r) == [by |-> r.by, past |-> r.past]
Entries(s) == [n \in DOMAIN s |-> Entry(s[n])]

\* What an evaluation or a retry has read entitles it to start its attempt.
Entitled ==
    \A k \in Kinds :
        /\ eval[k].pc \in {"route", "append"} => Ledger!MayStart(k, "event")
        /\ manual.pc = "append" /\ manual.kind = k => Ledger!MayStart(k, "manual")

LedgerInv == TypeInv /\ Entitled

\* A step that starts an attempt, and one that gives an attempt an outcome.
Starts(k, by) == Recorded' = [Recorded EXCEPT ![k] = Append(@, [by |-> by, past |-> {}])]
Settles(k, n, outcome) ==
    Recorded' = [Recorded EXCEPT ![k][n].past = @ \cup {outcome}]

\* An update of an attempt is an update of its entry,
LEMMA EntrySeq ==
    ASSUME NEW s \in Seq(SoundRow)
    PROVE  Entries(s) \in Seq([by : {"root", "event", "manual", "bridge"}, past : SUBSET Outcomes])
           /\ DOMAIN Entries(s) = DOMAIN s /\ Len(Entries(s)) = Len(s)
<1> DEFINE S == [by : {"root", "event", "manual", "bridge"}, past : SUBSET Outcomes]
<1>1. Len(s) \in Nat /\ DOMAIN s = 1 .. Len(s)
  BY LenProperties
<1>2. \A n \in 1 .. Len(s) : s[n] \in Row
  BY <1>1, ElementOfSeq DEF SoundRow
<1>3. \A n \in 1 .. Len(s) : Entry(s[n]) \in S
  BY <1>2 DEF Entry, Row
<1>4. Entries(s) \in [1 .. Len(s) -> S]
  BY <1>1, <1>3 DEF Entries
<1> HIDE DEF S
<1>5. Entries(s) \in Seq(S)
  BY <1>1, <1>4, SeqDef
<1>6. DOMAIN Entries(s) = DOMAIN s
  BY DEF Entries
<1>7. Len(Entries(s)) = Len(s)
  BY <1>1, <1>5, <1>6, LenProperties
<1> QED BY <1>5, <1>6, <1>7 DEF S

\* and an insertion appends one.
LEMMA EntryAppend ==
    ASSUME NEW s \in Seq(SoundRow), NEW r \in SoundRow
    PROVE  Entries(Append(s, r)) = Append(Entries(s), Entry(r))
<1> DEFINE S == [by : {"root", "event", "manual", "bridge"}, past : SUBSET Outcomes]
           t == Append(s, r)
           u == Append(Entries(s), Entry(r))
<1>1. Entries(s) \in Seq(S) /\ DOMAIN Entries(s) = DOMAIN s /\ Len(Entries(s)) = Len(s)
  BY EntrySeq
<1>2. Entry(r) \in S
  BY DEF Entry, SoundRow, Row
<1>3. t \in Seq(SoundRow) /\ Len(t) = Len(s) + 1
      /\ (\A n \in 1 .. Len(s) : t[n] = s[n]) /\ t[Len(s) + 1] = r
  BY AppendProperties
<1>4. Entries(t) \in Seq(S) /\ DOMAIN Entries(t) = DOMAIN t /\ Len(Entries(t)) = Len(t)
  BY <1>3, EntrySeq
<1> HIDE DEF S, t
<1>5. u \in Seq(S) /\ Len(u) = Len(Entries(s)) + 1
      /\ (\A n \in 1 .. Len(Entries(s)) : u[n] = Entries(s)[n]) /\ u[Len(Entries(s)) + 1] = Entry(r)
  BY <1>1, <1>2, AppendProperties
<1> HIDE DEF u
<1>6. Len(s) \in Nat /\ DOMAIN s = 1 .. Len(s) /\ DOMAIN t = 1 .. Len(t)
  BY <1>3, LenProperties
<1>7. \A n \in 1 .. Len(s) + 1 : Entries(t)[n] = Entry(t[n])
  BY <1>3, <1>6 DEF Entries
<1>8. \A n \in 1 .. Len(s) : Entries(s)[n] = Entry(s[n])
  BY <1>6 DEF Entries
<1>9. \A n \in 1 .. Len(s) + 1 : Entries(t)[n] = u[n]
  <2> TAKE n \in 1 .. Len(s) + 1
  <2>1. CASE n \in 1 .. Len(s)
    BY <1>1, <1>3, <1>5, <1>7, <1>8, <2>1
  <2>2. CASE n = Len(s) + 1
    BY <1>1, <1>3, <1>5, <1>7, <2>2
  <2> QED BY <1>6, <2>1, <2>2
<1>10. Len(Entries(t)) = Len(s) + 1 /\ Len(u) = Len(s) + 1
  BY <1>1, <1>3, <1>4, <1>5
<1>11. Entries(t) = u
  BY <1>4, <1>5, <1>9, <1>10, SeqEqual
<1> QED BY <1>11 DEF t, u

\* An update of one attempt, seen in the ledger.
LEMMA PutLedger ==
    ASSUME log \in SoundLog, NEW k \in Kinds, NEW n, NEW r, Put(k, n, r),
           n \in DOMAIN log[k] => r \in SoundRow /\ r.by = log[k][n].by
    PROVE  /\ (n \in DOMAIN log[k] => r.past = log[k][n].past) => Recorded' = Recorded
           /\ n \in DOMAIN log[k] =>
                 Recorded' = [Recorded EXCEPT ![k][n].past = r.past]
<1>1. /\ log' \in SoundLog
      /\ \A j \in Kinds : DOMAIN log'[j] = DOMAIN log[j]
      /\ \A j \in Kinds : j # k => log'[j] = log[j]
      /\ \A m \in DOMAIN log[k] : m # n => log'[k][m] = log[k][m]
  <2> USE DEF Put
  <2>1. log' \in SoundLog
    BY PutLog
  <2>2. \A j \in Kinds : DOMAIN log'[j] = DOMAIN log[j]
    BY PutLog
  <2>3. \A j \in Kinds : j # k => log'[j] = log[j]
    BY PutLog
  <2>4. \A m \in DOMAIN log[k] : m # n => log'[k][m] = log[k][m]
    BY PutLog
  <2> QED BY <2>1, <2>2, <2>3, <2>4
<1>2. n \in DOMAIN log[k] => log'[k][n] = r
  BY DEF SoundLog, Put
<1>3. Recorded = [j \in Kinds |-> Entries(log[j])]
  BY DEF Recorded, Entries, Entry
<1>4. Recorded' = [j \in Kinds |-> Entries(log'[j])]
  BY DEF Recorded, Entries, Entry
<1>5. \A j \in Kinds : j # k => Entries(log'[j]) = Entries(log[j])
  BY <1>1
<1>6. (n \in DOMAIN log[k] => r.past = log[k][n].past) => Entries(log'[k]) = Entries(log[k])
  BY <1>1, <1>2 DEF Entries, Entry
<1>7. n \in DOMAIN log[k] => Entries(log'[k]) = [Entries(log[k]) EXCEPT ![n].past = r.past]
  BY <1>1, <1>2 DEF Entries, Entry
<1> HIDE DEF Entries
<1>8. (n \in DOMAIN log[k] => r.past = log[k][n].past) => Recorded' = Recorded
  BY <1>3, <1>4, <1>5, <1>6
<1>9. n \in DOMAIN log[k] =>
         Recorded' = [Recorded EXCEPT ![k][n].past = r.past]
  BY <1>3, <1>4, <1>5, <1>7
<1> QED BY <1>8, <1>9

\* An outcome settles the entry.
LEMMA SettleLedger ==
    ASSUME log \in SoundLog, NEW k \in Kinds, NEW n \in DOMAIN log[k], NEW outcome,
           NEW r \in SoundRow, Put(k, n, r), r.by = log[k][n].by,
           r.past = log[k][n].past \cup {outcome}
    PROVE  Settles(k, n, outcome)
<1>1. Recorded' = [Recorded EXCEPT ![k][n].past = r.past]
  BY PutLedger
<1>2. r.past = Recorded[k][n].past \cup {outcome}
  BY DEF Recorded
<1> QED BY <1>1, <1>2 DEF Settles

\* The insertion of an attempt, seen in the ledger.
LEMMA AppendLedger ==
    ASSUME NEW L \in SoundLog, log \in SoundLog,
           \A j \in Kinds : Entries(L[j]) = Entries(log[j]),
           NEW k \in Kinds, NEW r \in SoundRow, r.past = {},
           log' = [L EXCEPT ![k] = Append(@, r)]
    PROVE  Starts(k, r.by)
<1>1. Recorded = [j \in Kinds |-> Entries(L[j])]
  BY DEF Recorded, Entries, Entry
<1>2. Recorded' = [j \in Kinds |-> Entries(log'[j])]
  BY DEF Recorded, Entries, Entry
<1>3. L[k] \in Seq(SoundRow)
  BY DEF SoundLog
<1>4. Entries(Append(L[k], r)) = Append(Entries(L[k]), Entry(r))
  BY <1>3, EntryAppend
<1>5. Entry(r) = [by |-> r.by, past |-> {}]
  BY DEF Entry
<1>6. log'[k] = Append(L[k], r) /\ \A j \in Kinds : j # k => log'[j] = L[j]
  BY DEF SoundLog
<1> QED BY <1>1, <1>2, <1>4, <1>5, <1>6 DEF Starts

\* An insertion starts one,
LEMMA Append1Ledger ==
    ASSUME log \in SoundLog, clock \in Nat, NEW k \in Kinds,
           NEW by \in {"root", "event", "manual", "bridge"}, Append1(k, by)
    PROVE  Starts(k, by)
<1>1. NewRow(by) \in SoundRow
  BY NewRowSound
<1>2. NewRow(by).past = {} /\ NewRow(by).by = by
  BY DEF NewRow
<1>3. log' = [log EXCEPT ![k] = Append(@, NewRow(by))]
  BY DEF Append1
<1> QED BY <1>1, <1>2, <1>3, AppendLedger

\* and a hand-over is nothing to the ledger.
LEMMA HandOverLedger ==
    ASSUME log \in SoundLog, NEW k \in Kinds, NEW n, HandOver(k, n)
    PROVE  Recorded' = Recorded
<1>1. PICK r : r = [log[k][n] EXCEPT !.job = "waiting"]
  OBVIOUS
<1>2. Put(k, n, r)
  BY <1>1 DEF HandOver
<1>3. n \in DOMAIN log[k] => r \in SoundRow /\ r.by = log[k][n].by /\ r.past = log[k][n].past
  BY <1>1, RowsSound, JobSound DEF Jobs
<1> QED BY <1>2, <1>3, PutLedger

\* What the worker does, seen in the ledger.
LEMMA WorkLedger ==
    ASSUME TypeInv, NEW k \in Kinds, NEW n \in DOMAIN log[k], Work(k, n)
    PROVE  \/ Recorded' = Recorded
           \/ \E outcome \in Outcomes : Settles(k, n, outcome)
           \/ \E p \in Bridge : p[1] = k /\ "succeeded" \in log[k][n].past /\ Starts(p[2], "bridge")
<1>1. log \in SoundLog /\ clock \in Nat /\ log[k][n] \in SoundRow
  BY RowsSound DEF TypeInv, TypeOK, SoundLog
<1>2. ASSUME NEW r, Put(k, n, r), r \in SoundRow, r.by = log[k][n].by, r.past = log[k][n].past
      PROVE  Recorded' = Recorded
  BY <1>1, <1>2, PutLedger
<1>3. CASE Start(k, n)
  <2>1. PICK r : r = Taken(log[k][n], k)
    OBVIOUS
  <2>2. Put(k, n, r)
    BY <1>3, <2>1 DEF Start, Taken
  <2>3. r \in SoundRow /\ r.by = log[k][n].by /\ r.past = log[k][n].past
    BY <1>1, <2>1, StartSound
  <2> QED BY <1>2, <2>2, <2>3
<1>4. CASE k = Sentinel /\ Grade(n)
  <2>1. PICK r : r = [log[k][n] EXCEPT !.job = "graded"]
    OBVIOUS
  <2>2. Put(k, n, r)
    BY <1>4, <2>1 DEF Grade
  <2>3. r \in SoundRow /\ r.by = log[k][n].by /\ r.past = log[k][n].past
    BY <1>1, <2>1, JobSound DEF Jobs
  <2> QED BY <1>2, <2>2, <2>3
<1>5. ASSUME NEW outcome \in Outcomes, Finish(k, n, outcome)
      PROVE  Settles(k, n, outcome)
  <2>1. PICK r : r = [log[k][n] EXCEPT !.status = outcome, !.job = outcome, !.past = @ \cup {outcome}]
    OBVIOUS
  <2>2. Put(k, n, r)
    BY <1>5, <2>1 DEF Finish
  <2>3. r \in SoundRow /\ r.by = log[k][n].by /\ r.past = log[k][n].past \cup {outcome}
    BY <1>1, <2>1 DEF SoundRow, Row, Jobs, Outcomes
  <2> QED BY <1>1, <2>2, <2>3, SettleLedger
<1>6. CASE Emit(k, n)
  <2>1. PICK r \in Return(k, log[k][n]) : Put(k, n, r)
    BY <1>6 DEF Emit
  <2>2. r \in SoundRow /\ r.by = log[k][n].by /\ r.past = log[k][n].past
    BY <1>1, <2>1, ReturnSound
  <2> QED BY <1>2, <2>1, <2>2
<1>7. CASE BridgeText(k, n)
  <2>1. PICK p \in Bridge : p[1] = k /\
           log' = [log EXCEPT ![k] = [@ EXCEPT ![n].job = "bridged"],
                              ![p[2]] = Append(@, [NewRow("bridge") EXCEPT !.job = "running"])]
    BY <1>7 DEF BridgeText
  <2>2. PICK q : q = [log[k][n] EXCEPT !.job = "bridged"]
    OBVIOUS
  <2>3. PICK L : L = [log EXCEPT ![k] = [@ EXCEPT ![n] = q]]
    OBVIOUS
  <2>4. PICK r : r = [NewRow("bridge") EXCEPT !.job = "running"]
    OBVIOUS
  <2>5. log' = [L EXCEPT ![p[2]] = Append(@, r)]
    <3>1. L = [log EXCEPT ![k] = [@ EXCEPT ![n].job = "bridged"]]
      BY <2>2, <2>3
    <3>2. k \in DOMAIN log /\ p[2] \in DOMAIN log
      BY <1>1, PipelineAssumption DEF SoundLog
    <3>3. CASE k # p[2]
      BY <2>1, <2>4, <3>1, <3>2, <3>3
    <3>4. CASE k = p[2]
      BY <2>1, <2>4, <3>1, <3>2, <3>4
    <3> QED BY <3>3, <3>4
  <2>6. q \in SoundRow /\ q.by = log[k][n].by /\ q.past = log[k][n].past
    BY <1>1, <2>2, JobSound DEF Jobs
  <2>7. r \in SoundRow /\ r.by = "bridge" /\ r.past = {}
    <3>1. r \in SoundRow /\ r.by = "bridge"
      BY <1>1, <2>4, NewRowSound
    <3>2. r.past = {}
      BY <2>4 DEF NewRow
    <3> QED BY <3>1, <3>2
  <2>8. L \in SoundLog
    BY <1>1, <2>3, <2>6, PutLog
  <2>9. \A j \in Kinds : Entries(L[j]) = Entries(log[j])
    <3>1. \A j \in Kinds : j # k => L[j] = log[j]
      BY <1>1, <2>3, <2>6, PutLog
    <3>2. \A j \in Kinds : DOMAIN L[j] = DOMAIN log[j]
      BY <1>1, <2>3, <2>6, PutLog
    <3>3. \A m \in DOMAIN log[k] : m # n => L[k][m] = log[k][m]
      BY <1>1, <2>3, <2>6, PutLog
    <3>4. L[k][n] = q
      BY <1>1, <2>3 DEF SoundLog
    <3>5. Entries(L[k]) = Entries(log[k])
      BY <2>6, <3>2, <3>3, <3>4 DEF Entries, Entry
    <3> QED BY <3>1, <3>5
  <2>10. p[2] \in Kinds
    BY PipelineAssumption
  <2>11. Starts(p[2], r.by)
    BY <1>1, <2>5, <2>7, <2>8, <2>9, <2>10, AppendLedger
  <2>12. "succeeded" \in log[k][n].past
    BY <1>1, <1>7 DEF BridgeText, SoundRow
  <2> QED BY <2>1, <2>7, <2>11, <2>12
<1>8. CASE BridgeDone(k, n)
  <2>1. Put(k, n, Gone(log[k][n]))
    BY <1>8 DEF BridgeDone
  <2> QED BY <1>1, <1>2, <2>1, GoneSound
<1> QED BY <1>3, <1>4, <1>5, <1>6, <1>7, <1>8 DEF Work

\* Nor is a crash.
LEMMA CrashLedger ==
    ASSUME log \in SoundLog, Crash
    PROVE  Recorded' = Recorded
<1>1. log' = [k \in Kinds |-> [n \in DOMAIN log[k] |-> Stall(log[k][n])]]
  BY DEF Crash
<1>2. ASSUME NEW j \in Kinds
      PROVE  Entries(log'[j]) = Entries(log[j])
  <2>1. log'[j] = [n \in DOMAIN log[j] |-> Stall(log[j][n])]
    BY <1>1
  <2>2. \A n \in DOMAIN log[j] : Entry(log'[j][n]) = Entry(log[j][n])
    BY <2>1, RowsSound, StallSound DEF Entry
  <2> QED BY <2>1, <2>2 DEF Entries
<1> QED BY <1>2 DEF Recorded, Entries, Entry

\* The ledger remembers an outcome that some attempt has had.
LEMMA HadOutcome ==
    ASSUME NEW k \in Kinds, NEW outcome
    PROVE  /\ Ledger!Had(k, outcome) <=> \E n \in DOMAIN log[k] : outcome \in log[k][n].past
           /\ Ledger!Had(k, outcome)' <=> \E n \in DOMAIN log'[k] : outcome \in log'[k][n].past
BY DEF Ledger!Had, Recorded

\* Evidence stays.
LEMMA EvidenceStays ==
    ASSUME \A j \in Kinds : Persist(j), NEW k \in Kinds, NEW by, Ledger!MayStart(k, by)
    PROVE  Ledger!MayStart(k, by)'
<1>1. ASSUME NEW j \in Kinds, NEW outcome, Ledger!Had(j, outcome)
      PROVE  Ledger!Had(j, outcome)'
  BY <1>1, HadOutcome DEF Persist
<1>2. ASSUME NEW e \in Deps, Ledger!Supports(e)
      PROVE  Ledger!Supports(e)'
  <2>1. e.kind \in Kinds
    BY DepsAssumption
  <2> QED BY <1>1, <1>2, <2>1 DEF Ledger!Supports, Ledger!Settled
<1>3. Ledger!InputsMade(k) => Ledger!InputsMade(k)'
  BY <1>2 DEF Ledger!InputsMade, Ledger!Members
<1>4. \A e \in Ledger!PlainDeps(k) : e \in Deps
  BY DEF Ledger!PlainDeps
<1>5. \A p \in Bridge : p[1] \in Kinds
  BY PipelineAssumption
<1> QED BY <1>1, <1>2, <1>3, <1>4, <1>5 DEF Ledger!MayStart

\* An input that is ready has had the outcome required of it.
LEMMA InputSupports ==
    ASSUME TypeInv, NEW e \in Deps, Has(e.kind), ~Active(Latest(e.kind)),
           e.requires = "succeeded" => Latest(e.kind).status = "succeeded"
    PROVE  Ledger!Supports(e)
<1>1. log \in SoundLog /\ e.kind \in Kinds
  BY DepsAssumption DEF TypeInv, SoundLog
<1>2. Len(log[e.kind]) \in DOMAIN log[e.kind]
  BY <1>1, Rows, EmptySeq DEF Has, SoundLog
<1>3. Latest(e.kind) \in SoundRow
  BY <1>1, <1>2, RowsSound DEF Latest
<1>4. Latest(e.kind).status \in Outcomes /\ Latest(e.kind).status \in Latest(e.kind).past
  BY <1>3 DEF SoundRow, Row, Active
<1>5. Ledger!Had(e.kind, Latest(e.kind).status)
  BY <1>1, <1>2, <1>4, HadOutcome DEF Latest
<1> QED BY <1>4, <1>5 DEF Ledger!Supports, Ledger!Settled, Ledger!Outcomes, Outcomes

\* What is ready has the outcomes that entitle it.
LEMMA ReadyEntitles ==
    ASSUME TypeInv, NEW k \in Kinds
    PROVE  /\ k \in Relevant /\ Ready(k) => Ledger!MayStart(k, "event")
           /\ ManualReady(k) => Ledger!MayStart(k, "manual")
<1>1. \A e \in Deps : Satisfies(e) => Ledger!Supports(e)
  BY InputSupports DEF Satisfies
<1>2. (\A g \in Groups(k) : \E e \in Members(k, g) : Satisfies(e)) => Ledger!InputsMade(k)
  BY <1>1 DEF Ledger!InputsMade, Ledger!Groups, Ledger!Members, Groups, Members
<1>3. \A e \in PlainDeps(k) : e \in Deps
  BY DEF PlainDeps
<1>4. Ledger!PlainDeps(k) = PlainDeps(k)
  BY DEF Ledger!PlainDeps, PlainDeps
<1>5. \A e \in PlainDeps(k) :
         Met(e) => Ledger!Supports(e) \/ (e.kind \notin Relevant /\ e.requires = "settled")
  BY <1>3, InputSupports DEF Met
<1> QED BY <1>1, <1>2, <1>3, <1>4, <1>5 DEF Ready, ManualReady, Ledger!MayStart

\* Every step keeps those entitled who are about to insert an attempt.
LEMMA EntitledStep ==
    ASSUME LedgerInv, [Next]_vars
    PROVE  Entitled'
<1> USE DEF LedgerInv
<1>1. \A j \in Kinds : Persist(j)
  BY LogStep DEF Quiet, Adds, Same
<1>2. ASSUME NEW k \in Kinds, eval'[k].pc \in {"route", "append"}
      PROVE  Ledger!MayStart(k, "event")'
  <2>1. CASE eval[k].pc \in {"route", "append"}
    BY <1>1, <2>1, EvidenceStays DEF Entitled
  <2>2. CASE EvalRead(k) /\ Ready(k)
    <3>1. Goto(k, "release") => eval'[k].pc = "release"
      BY DEF Goto, TypeInv, TypeOK
    <3>2. k \in Relevant
      BY <1>2, <2>2, <3>1 DEF EvalRead
    <3> QED BY <1>1, <2>2, <3>2, ReadyEntitles, EvidenceStays
  <2> QED BY <1>2, <2>1, <2>2, PassesByRead
<1>3. ASSUME NEW k \in Kinds, manual'.pc = "append", manual'.kind = k
      PROVE  Ledger!MayStart(k, "manual")'
  <2>1. CASE manual' = manual
    BY <1>1, <1>3, <2>1, EvidenceStays DEF Entitled
  <2>2. CASE Retry(k)
    BY <1>1, <2>2, ReadyEntitles, EvidenceStays DEF Retry
  <2>3. ASSUME NEW j \in Kinds, Retry(j)
        PROVE  j = k
    BY <1>3, <2>3 DEF Retry
  <2>4. ASSUME NEW j \in Kinds, NEW n \in DOMAIN log[j], Work(j, n)
        PROVE  manual' = manual
    BY <2>4 DEF Work, Start, Grade, Finish, Emit, BridgeText, BridgeDone
  <2>5. ASSUME NEW j \in Kinds, Evaluate(j)
        PROVE  manual' = manual
    BY <2>5 DEF Evaluate, EvalRead, EvalRoute, EvalAppend, EvalHand, EvalRelease
  <2>6. ~RetryAppend /\ ~RetryHand /\ ~Crash
    <3>1. manual \in [pc : {"idle", "append", "hand"}, kind : Kinds, n : Nat \ {0}]
      BY DEF TypeInv, TypeOK
    <3> QED BY <1>3, <3>1 DEF RetryAppend, RetryHand, Crash
  <2> QED BY <2>1, <2>2, <2>3, <2>4, <2>5, <2>6 DEF Next, System, Outside, RootAppend, RootHand,
             Announce, Reclaim, Commit, Reprocess, Override, vars
<1> QED BY <1>2, <1>3 DEF Entitled

\* Every step of the pipeline is a step of the ledger, or changes nothing it shows.
LEMMA LedgerStep ==
    ASSUME LedgerInv, [Next]_vars
    PROVE  Ledger!Next \/ Recorded' = Recorded
<1>1. log \in SoundLog /\ clock \in Nat
  BY DEF LedgerInv, TypeInv, TypeOK, SoundLog
<1>2. ASSUME NEW k \in Kinds, NEW by \in {"root", "event", "manual", "bridge"},
             Starts(k, by), Ledger!MayStart(k, by)
      PROVE  Ledger!Next
  BY <1>2 DEF Ledger!Next, Ledger!Begin, Starts
<1>3. ASSUME NEW k \in Kinds, NEW n \in DOMAIN log[k], NEW outcome \in Outcomes,
             Settles(k, n, outcome)
      PROVE  Ledger!Next
  <2>1. n \in DOMAIN Recorded[k]
    BY DEF Recorded
  <2> QED BY <1>3, <2>1 DEF Ledger!Next, Ledger!Settle, Settles, Ledger!Outcomes, Outcomes
<1>4. ASSUME NEW k \in Kinds, Evaluate(k)
      PROVE  Ledger!Next \/ Recorded' = Recorded
  <2>1. CASE EvalAppend(k)
    <3>1. Starts(k, "event")
      BY <1>1, <2>1, Append1Ledger DEF EvalAppend
    <3>2. Ledger!MayStart(k, "event")
      BY <2>1 DEF EvalAppend, At, LedgerInv, Entitled
    <3> QED BY <1>2, <3>1, <3>2
  <2>2. CASE EvalHand(k)
    BY <1>1, <2>2, HandOverLedger DEF EvalHand, Recorded
  <2>3. CASE EvalRead(k) \/ EvalRoute(k) \/ EvalRelease(k)
    BY <2>3 DEF EvalRead, EvalRoute, EvalRelease, Recorded
  <2> QED BY <1>4, <2>1, <2>2, <2>3 DEF Evaluate
<1>5. ASSUME NEW k \in Kinds, NEW n \in DOMAIN log[k], Work(k, n)
      PROVE  Ledger!Next \/ Recorded' = Recorded
  <2>1. ASSUME NEW p \in Bridge, p[1] = k, "succeeded" \in log[k][n].past, Starts(p[2], "bridge")
        PROVE  Ledger!Next
    <3>1. p[2] \in Kinds
      BY PipelineAssumption
    <3>2. Ledger!MayStart(p[2], "bridge")
      BY <2>1, HadOutcome DEF Ledger!MayStart
    <3> QED BY <1>2, <2>1, <3>1, <3>2
  <2> QED BY <1>3, <1>5, <2>1, WorkLedger DEF LedgerInv
<1>6. Roots[request.next] \in Kinds /\ \A e \in Deps : e.of # Roots[request.next]
  <2>1. request.next \in DOMAIN Roots
    BY DEF LedgerInv, TypeInv, TypeOK
  <2> QED BY <2>1, RootsAssumption
<1>7. CASE RootAppend
  <2>1. Ledger!MayStart(Roots[request.next], "root")
    BY <1>6 DEF Ledger!MayStart
  <2>2. CASE Append1(Roots[request.next], "root")
    BY <1>1, <1>2, <1>6, <2>1, <2>2, Append1Ledger
  <2>3. CASE UNCHANGED log
    BY <2>3 DEF Recorded
  <2> QED BY <1>7, <2>2, <2>3 DEF RootAppend
<1>8. CASE RootHand
  BY <1>1, <1>6, <1>8, HandOverLedger DEF RootHand, Recorded
<1>9. ASSUME NEW h \in request.stale, Reclaim(h)
      PROVE  Ledger!Next \/ Recorded' = Recorded
  <2>1. h.kind \in Kinds
    BY DEF LedgerInv, TypeInv, TypeOK, Handle
  <2>2. PICK r : r = [log[h.kind][h.n] EXCEPT !.status = "failed", !.past = @ \cup {"failed"}]
    OBVIOUS
  <2>3. Put(h.kind, h.n, r)
    BY <1>9, <2>2 DEF Reclaim
  <2>4. CASE h.n \in DOMAIN log[h.kind]
    <3>1. log[h.kind][h.n] \in SoundRow
      BY <1>1, <2>1, <2>4, RowsSound
    <3>2. r \in SoundRow /\ r.by = log[h.kind][h.n].by /\ r.past = log[h.kind][h.n].past \cup {"failed"}
      BY <2>2, <3>1 DEF SoundRow, Row, Outcomes
    <3>3. Settles(h.kind, h.n, "failed")
      BY <1>1, <2>1, <2>3, <2>4, <3>2, SettleLedger
    <3> QED BY <1>3, <2>1, <2>4, <3>3 DEF Outcomes
  <2>5. CASE h.n \notin DOMAIN log[h.kind]
    BY <1>1, <2>1, <2>3, <2>5, PutLedger
  <2> QED BY <2>4, <2>5
<1>10. CASE RetryAppend
  <2>1. manual.kind \in Kinds
    BY DEF LedgerInv, TypeInv, TypeOK
  <2>2. Ledger!MayStart(manual.kind, "manual")
    BY <1>10, <2>1 DEF RetryAppend, LedgerInv, Entitled
  <2> QED BY <1>1, <1>2, <1>10, <2>1, <2>2, Append1Ledger DEF RetryAppend
<1>11. CASE RetryHand
  <2>1. manual.kind \in Kinds
    BY DEF LedgerInv, TypeInv, TypeOK
  <2> QED BY <1>1, <1>11, <2>1, HandOverLedger DEF RetryHand, Recorded
<1>12. CASE \/ Announce \/ Commit \/ Reprocess \/ UNCHANGED vars
            \/ \E k \in Kinds : Retry(k)
            \/ \E t \in Tiers : Override(t)
  <2>1. UNCHANGED log
    BY <1>12 DEF Announce, Commit, Reprocess, Retry, Override, vars
  <2> QED BY <2>1 DEF Recorded
<1>13. CASE Crash
  BY <1>1, <1>13, CrashLedger
<1> QED BY <1>4, <1>5, <1>7, <1>8, <1>9, <1>10, <1>11, <1>12, <1>13 DEF Next, System, Outside

\* The ledger is implemented: attempts are only appended, keep every outcome they
\* have had, and are started only on the strength of what others have produced.
THEOREM PipelineImplementsLedger == Spec => ImplementsLedger
<1>1. Init => LedgerInv
  <2> SUFFICES ASSUME Init PROVE Entitled
    BY TypeInit DEF LedgerInv
  <2> QED BY DEF Init, Entitled
<1>2. LedgerInv /\ [Next]_vars => LedgerInv'
  BY TypeStep, EntitledStep DEF LedgerInv
<1>3. Init => Ledger!Init
  <2> SUFFICES ASSUME Init PROVE Ledger!Init
    OBVIOUS
  <2>1. \A k \in Kinds : log[k] = << >>
    BY DEF Init
  <2>2. Entries(<< >>) = << >>
    <3>1. << >> \in Seq(SoundRow) /\ Len(<< >>) = 0
      BY EmptySeq
    <3>2. Len(Entries(<< >>)) = 0
          /\ Entries(<< >>) \in Seq([by : {"root", "event", "manual", "bridge"}, past : SUBSET Outcomes])
      BY <3>1, EntrySeq
    <3> QED BY <3>2, EmptySeq
  <2> QED BY <2>1, <2>2 DEF Ledger!Init, Recorded, Entries, Entry
<1>4. LedgerInv /\ [Next]_vars => [Ledger!Next]_Recorded
  BY LedgerStep
<1> QED BY <1>1, <1>2, <1>3, <1>4, PTL DEF Spec, ImplementsLedger, Ledger!Spec

(***************************************************************************)
(* Nothing is stranded and nothing is missed while nothing disturbs        *)
(*                                                                         *)
(* NoStrandedAttempt needs to know who holds an attempt that is not in the *)
(* queue: each is held once, and nobody hands over another's.              *)
(* NoMissedWork needs that too, for a job that announces an outcome is not *)
(* put back into the queue before it has.                                  *)
(***************************************************************************)
\* The three that hand attempts over.
EvalHolds(k, n) == eval[k].pc = "hand" /\ eval[k].n = n
RetryHolds(k, n) == manual.pc = "hand" /\ manual.kind = k /\ manual.n = n
RootHolds(k, n) == request.pc = "hand" /\ Roots[request.next] = k /\ request.n = n

Held ==
    \A k \in Kinds : \A n \in Nat \ {0} :
        /\ Handing(k, n) => n \in DOMAIN log[k] /\ log[k][n].job = "none"
        /\ ~(EvalHolds(k, n) /\ RetryHolds(k, n))
        /\ ~(EvalHolds(k, n) /\ RootHolds(k, n))
        /\ ~(RetryHolds(k, n) /\ RootHolds(k, n))

Routed == \A k \in Kinds : eval[k].pc = "route" => k \in Gated
Spared == \A e \in OutsideEvents : left[e] <= Budget[e]

WorkInv == TypeInv /\ Ordered /\ Held /\ Routed /\ Spared /\ NoStrandedAttempt /\ NoMissedWork

\* Handing is by one of three.
LEMMA HandingIs ==
    ASSUME NEW k, NEW n
    PROVE  /\ Handing(k, n) <=> EvalHolds(k, n) \/ RetryHolds(k, n) \/ RootHolds(k, n)
           /\ Handing(k, n)' <=> EvalHolds(k, n)' \/ RetryHolds(k, n)' \/ RootHolds(k, n)'
BY DEF Handing, EvalHolds, RetryHolds, RootHolds, At

\* What an update of one attempt, and an insertion, leave of the others.
LEMMA PutRow ==
    ASSUME log \in SoundLog, NEW k \in Kinds, NEW n \in DOMAIN log[k], NEW r \in SoundRow,
           Put(k, n, r)
    PROVE  \A j \in Kinds :
              /\ DOMAIN log'[j] = DOMAIN log[j] /\ Len(log'[j]) = Len(log[j])
              /\ \A m \in DOMAIN log[j] : log'[j][m] = IF j = k /\ m = n THEN r ELSE log[j][m]
<1> USE DEF Put
<1>1. \A j \in Kinds : DOMAIN log'[j] = DOMAIN log[j] /\ Len(log'[j]) = Len(log[j])
  BY PutLog
<1>2. \A j \in Kinds : j # k => log'[j] = log[j]
  BY PutLog
<1>3. \A m \in DOMAIN log[k] : m # n => log'[k][m] = log[k][m]
  BY PutLog
<1>4. log'[k][n] = r
  BY DEF SoundLog
<1> QED BY <1>1, <1>2, <1>3, <1>4

\* An insertion leaves the attempts there are, and puts the new one last.
LEMMA AddRow ==
    ASSUME log \in SoundLog, NEW k \in Kinds, NEW r \in SoundRow,
           log' = [log EXCEPT ![k] = Append(@, r)]
    PROVE  /\ \A j \in Kinds : j # k => log'[j] = log[j]
           /\ Len(log[k]) \in Nat /\ DOMAIN log[k] = 1 .. Len(log[k])
           /\ Len(log'[k]) = Len(log[k]) + 1 /\ DOMAIN log'[k] = 1 .. Len(log[k]) + 1
           /\ \A m \in DOMAIN log[k] : log'[k][m] = log[k][m]
           /\ log'[k][Len(log[k]) + 1] = r
<1>1. \A j \in Kinds : j # k => log'[j] = log[j]
  BY AppendLog
<1>2. Len(log'[k]) = Len(log[k]) + 1 /\ DOMAIN log'[k] = 1 .. Len(log[k]) + 1
  BY AppendLog
<1>3. \A m \in DOMAIN log[k] : log'[k][m] = log[k][m]
  BY AppendLog
<1>4. log'[k][Len(log[k]) + 1] = r
  BY AppendLog
<1> QED BY <1>1, <1>2, <1>3, <1>4, Rows

(***************************************************************************)
(* The outside events                                                      *)
(***************************************************************************)
\* An event that is spent has happened.
LEMMA SpendHappens ==
    ASSUME TypeInv, Spared, NEW e \in OutsideEvents, Spend(e)
    PROVE  Spared' /\ e \in Happened' /\ Happened \subseteq Happened'
<1>1. left \in [OutsideEvents -> Nat] /\ Budget \in [OutsideEvents -> Nat]
  BY PipelineAssumption DEF TypeInv, TypeOK
<1>2. left' = [left EXCEPT ![e] = left[e] - 1]
  BY DEF Spend
<1>3. left'[e] = left[e] - 1 /\ \A d \in OutsideEvents : d # e => left'[d] = left[d]
  BY <1>1, <1>2
<1>4. left[e] \in Nat /\ Budget[e] \in Nat
  BY <1>1
<1>5. \A d \in OutsideEvents : left'[d] <= Budget[d] /\ (left[d] < Budget[d] => left'[d] < Budget[d])
  <2> TAKE d \in OutsideEvents
  <2>1. left[d] \in Nat /\ Budget[d] \in Nat /\ left[d] <= Budget[d]
    BY <1>1 DEF Spared
  <2> QED BY <1>3, <2>1
<1>6. left'[e] < Budget[e]
  BY <1>3, <1>4 DEF Spared
<1> QED BY <1>5, <1>6 DEF Spared, Happened

\* While nothing disturbs, nothing has, and no queue fails.
LEMMA CalmStep ==
    ASSUME TypeInv, Spared, [Next]_vars
    PROVE  /\ Spared'
           /\ Undisturbed' => /\ Undisturbed
                              /\ ~Spend("crash") /\ ~Spend("queueDown") /\ ~Spend("override")
<1>1. left' = left \/ \E e \in OutsideEvents : Spend(e)
  <2>1. ASSUME NEW k \in Kinds, Evaluate(k)
        PROVE  left' = left \/ Spend("queueDown")
    BY <2>1 DEF Evaluate, EvalRead, EvalRoute, EvalAppend, EvalHand, EvalRelease
  <2>2. ASSUME NEW k \in Kinds, NEW n \in DOMAIN log[k], Work(k, n)
        PROVE  left' = left \/ Spend("fail")
    BY <2>2 DEF Work, Start, Grade, Finish, Emit, BridgeText, BridgeDone
  <2>3. RootAppend \/ Announce \/ RetryAppend \/ Commit \/ (\E h \in request.stale : Reclaim(h))
          \/ UNCHANGED vars => left' = left
    BY DEF RootAppend, Announce, RetryAppend, Commit, Reclaim, vars
  <2>4. RootHand \/ RetryHand \/ Reprocess \/ Crash \/ (\E k \in Kinds : Retry(k))
          \/ (\E t \in Tiers : Override(t)) => left' = left \/ \E e \in OutsideEvents : Spend(e)
    BY DEF RootHand, RetryHand, Reprocess, Crash, Retry, Override, OutsideEvents
  <2> QED BY <2>1, <2>2, <2>3, <2>4 DEF Next, System, Outside, OutsideEvents
<1>2. CASE left' = left
  <2>1. Spared' /\ Happened' = Happened
    BY <1>2 DEF Spared, Happened
  <2>2. \A e \in OutsideEvents : ~Spend(e)
    <3>1. left \in [OutsideEvents -> Nat]
      BY DEF TypeInv, TypeOK
    <3>2. ASSUME NEW e \in OutsideEvents, Spend(e)
          PROVE  FALSE
      <4>1. left'[e] = left[e] - 1 /\ left[e] \in Nat
        BY <3>1, <3>2 DEF Spend
      <4> QED BY <1>2, <4>1
    <3> QED BY <3>2
  <2> QED BY <2>1, <2>2 DEF Undisturbed, OutsideEvents
<1>3. ASSUME NEW e \in OutsideEvents, Spend(e)
      PROVE  Spared' /\ Happened \subseteq Happened'
  BY <1>3, SpendHappens
<1>4. \A e \in OutsideEvents : Spend(e) => e \in Happened'
  BY SpendHappens
<1>5. ASSUME NEW e \in OutsideEvents, Spend(e), Undisturbed'
      PROVE  Undisturbed
  BY <1>5, SpendHappens DEF Undisturbed
<1>6. Undisturbed' => ~Spend("crash") /\ ~Spend("queueDown") /\ ~Spend("override")
  BY <1>4 DEF Undisturbed, OutsideEvents
<1> QED BY <1>1, <1>2, <1>3, <1>5, <1>6

(***************************************************************************)
(* Who holds an attempt                                                    *)
(***************************************************************************)
InQueue(r) == r.job \in {"waiting", "running", "doomed", "graded"}
Attended ==
    \A k \in Kinds : \A n \in DOMAIN log[k] : Active(log[k][n]) => InQueue(log[k][n]) \/ Handing(k, n)

\* Nobody takes hold of another attempt.
HoldsNoMore(k, n) ==
    /\ EvalHolds(k, n)' => EvalHolds(k, n)
    /\ RetryHolds(k, n)' => RetryHolds(k, n)
    /\ RootHolds(k, n)' => RootHolds(k, n)

\* Held stays when nobody takes hold of an attempt and none that is held is queued.
LEMMA HeldKeeps ==
    ASSUME Held,
           \A k \in Kinds : \A n \in Nat \ {0} :
              /\ HoldsNoMore(k, n)
              /\ Handing(k, n)' /\ n \in DOMAIN log[k] /\ log[k][n].job = "none" =>
                    n \in DOMAIN log'[k] /\ log'[k][n].job = "none"
    PROVE  Held'
<1> SUFFICES ASSUME NEW k \in Kinds, NEW n \in Nat \ {0}
             PROVE  /\ Handing(k, n)' => n \in DOMAIN log'[k] /\ log'[k][n].job = "none"
                    /\ ~(EvalHolds(k, n) /\ RetryHolds(k, n))'
                    /\ ~(EvalHolds(k, n) /\ RootHolds(k, n))'
                    /\ ~(RetryHolds(k, n) /\ RootHolds(k, n))'
  BY DEF Held
<1>1. HoldsNoMore(k, n)
  OBVIOUS
<1>2. Handing(k, n)' => Handing(k, n)
  BY <1>1, HandingIs DEF HoldsNoMore
<1> QED BY <1>1, <1>2 DEF Held, HoldsNoMore

\* The worker updates an attempt that is not held, or leaves it unqueued.
LEMMA PutHolds ==
    ASSUME log \in SoundLog, Held, NEW k \in Kinds, NEW n \in DOMAIN log[k], NEW r \in SoundRow,
           Put(k, n, r), log[k][n].job = "none" => r.job = "none",
           \A j \in Kinds : \A m \in Nat \ {0} : HoldsNoMore(j, m) /\ (Handing(j, m) => Handing(j, m)')
    PROVE  Held' /\ (Attended /\ (Active(r) => InQueue(r)) => Attended')
<1>1. \A j \in Kinds :
         /\ DOMAIN log'[j] = DOMAIN log[j] /\ Len(log'[j]) = Len(log[j])
         /\ \A m \in DOMAIN log[j] : log'[j][m] = IF j = k /\ m = n THEN r ELSE log[j][m]
  BY PutRow
<1>2. Held'
  BY <1>1, HeldKeeps
<1>3. ASSUME Attended, Active(r) => InQueue(r), NEW j \in Kinds, NEW m \in DOMAIN log'[j],
             Active(log'[j][m])
      PROVE  InQueue(log'[j][m]) \/ Handing(j, m)'
  <2>1. m \in DOMAIN log[j] /\ m \in Nat \ {0}
    BY <1>1, Rows
  <2> QED BY <1>1, <1>3, <2>1 DEF Attended
<1> QED BY <1>2, <1>3 DEF Attended

\* A hand-over is of an attempt that is held, which nobody holds afterwards.
LEMMA HandOverHolds ==
    ASSUME log \in SoundLog, Held, NEW k \in Kinds, NEW n \in Nat \ {0}, HandOver(k, n),
           Handing(k, n), ~Handing(k, n)',
           \A j \in Kinds : \A m \in Nat \ {0} :
              HoldsNoMore(j, m) /\ (Handing(j, m) /\ ~(j = k /\ m = n) => Handing(j, m)')
    PROVE  Held' /\ (Attended => Attended')
<1>1. n \in DOMAIN log[k]
  BY DEF Held
<1>2. PICK r : r = [log[k][n] EXCEPT !.job = "waiting"]
  OBVIOUS
<1>3. r \in SoundRow /\ r.job = "waiting"
  <2>1. r \in SoundRow
    BY <1>1, <1>2, RowsSound, JobSound DEF Jobs
  <2>2. r.job = "waiting"
    BY <1>1, <1>2, RowsSound DEF Row
  <2> QED BY <2>1, <2>2
<1>4. \A j \in Kinds :
         /\ DOMAIN log'[j] = DOMAIN log[j] /\ Len(log'[j]) = Len(log[j])
         /\ \A m \in DOMAIN log[j] : log'[j][m] = IF j = k /\ m = n THEN r ELSE log[j][m]
  BY <1>1, <1>2, <1>3, PutRow DEF HandOver
<1>5. Held'
  BY <1>4, HeldKeeps
<1>6. ASSUME Attended, NEW j \in Kinds, NEW m \in DOMAIN log'[j], Active(log'[j][m])
      PROVE  InQueue(log'[j][m]) \/ Handing(j, m)'
  <2>1. m \in DOMAIN log[j] /\ m \in Nat \ {0}
    BY <1>4, Rows
  <2> QED BY <1>3, <1>4, <1>6, <2>1 DEF Attended, InQueue
<1> QED BY <1>5, <1>6 DEF Attended

\* Whoever inserts an attempt is the only one to hold it.
OneHolds(k, n) ==
    /\ Handing(k, n)
    /\ ~(EvalHolds(k, n) /\ RetryHolds(k, n))
    /\ ~(EvalHolds(k, n) /\ RootHolds(k, n))
    /\ ~(RetryHolds(k, n) /\ RootHolds(k, n))

\* Nobody else holds the attempt that is inserted, which nobody knew.
LEMMA AddHolds ==
    ASSUME log \in SoundLog, Held, NEW k \in Kinds, NEW r \in SoundRow,
           log' = [log EXCEPT ![k] = Append(@, r)], r.job = "none",
           NEW n, n = Len(log[k]) + 1, OneHolds(k, n)',
           \A j \in Kinds : \A m \in Nat \ {0} :
              ~(j = k /\ m = n) =>
                 HoldsNoMore(j, m) /\ (Handing(j, m) => Handing(j, m)')
    PROVE  Held' /\ (Attended => Attended')
<1>1. /\ \A j \in Kinds : j # k => log'[j] = log[j]
      /\ Len(log[k]) \in Nat /\ DOMAIN log[k] = 1 .. Len(log[k])
      /\ DOMAIN log'[k] = 1 .. Len(log[k]) + 1
      /\ \A m \in DOMAIN log[k] : log'[k][m] = log[k][m]
      /\ log'[k][Len(log[k]) + 1] = r
  BY AddRow
<1>2. ASSUME NEW j \in Kinds, NEW m \in Nat \ {0}
      PROVE  /\ Handing(j, m)' => m \in DOMAIN log'[j] /\ log'[j][m].job = "none"
             /\ ~(EvalHolds(j, m) /\ RetryHolds(j, m))'
             /\ ~(EvalHolds(j, m) /\ RootHolds(j, m))'
             /\ ~(RetryHolds(j, m) /\ RootHolds(j, m))'
  <2>1. CASE j = k /\ m = n
    BY <1>1, <2>1 DEF OneHolds
  <2>2. CASE ~(j = k /\ m = n)
    <3>1. HoldsNoMore(j, m)
      BY <2>2
    <3>2. Handing(j, m)' => Handing(j, m)
      BY <3>1, HandingIs DEF HoldsNoMore
    <3>3. m \in DOMAIN log[j] => m \in DOMAIN log'[j] /\ log'[j][m] = log[j][m]
      BY <1>1
    <3> QED BY <3>1, <3>2, <3>3 DEF Held, HoldsNoMore
  <2> QED BY <2>1, <2>2
<1>3. ASSUME Attended, NEW j \in Kinds, NEW m \in DOMAIN log'[j], Active(log'[j][m])
      PROVE  InQueue(log'[j][m]) \/ Handing(j, m)'
  <2>1. CASE j = k /\ m = n
    BY <2>1 DEF OneHolds
  <2>2. CASE ~(j = k /\ m = n)
    <3>1. m \in DOMAIN log[j] /\ log'[j][m] = log[j][m]
      BY <1>1, <2>2
    <3>2. m \in Nat \ {0}
      BY <3>1, Rows
    <3> QED BY <1>3, <2>2, <3>1, <3>2 DEF Attended
  <2> QED BY <2>1, <2>2
<1> QED BY <1>2, <1>3 DEF Held, Attended

\* OCR's own attempt moves on, and its text gets an attempt that is being run.
LEMMA BridgeRows ==
    ASSUME TypeInv, NEW k \in Kinds, NEW n \in DOMAIN log[k], BridgeText(k, n)
    PROVE  \E b \in Kinds :
              /\ \A j \in Kinds : \A m \in DOMAIN log[j] :
                    /\ m \in DOMAIN log'[j]
                    /\ log'[j][m] = IF j = k /\ m = n THEN [log[k][n] EXCEPT !.job = "bridged"]
                                    ELSE log[j][m]
              /\ \A j \in Kinds : j # b => DOMAIN log'[j] = DOMAIN log[j] /\ Len(log'[j]) = Len(log[j])
              /\ Len(log[b]) \in Nat /\ DOMAIN log[b] = 1 .. Len(log[b])
              /\ Len(log'[b]) = Len(log[b]) + 1 /\ DOMAIN log'[b] = 1 .. Len(log[b]) + 1
              /\ log'[b][Len(log[b]) + 1] = [NewRow("bridge") EXCEPT !.job = "running"]
<1>1. log \in SoundLog /\ clock \in Nat /\ log[k][n] \in SoundRow
  BY RowsSound DEF TypeInv, TypeOK, SoundLog
<1>2. PICK p \in Bridge :
         log' = [log EXCEPT ![k] = [@ EXCEPT ![n].job = "bridged"],
                            ![p[2]] = Append(@, [NewRow("bridge") EXCEPT !.job = "running"])]
  BY DEF BridgeText
<1>3. PICK b \in Kinds : b = p[2]
  BY PipelineAssumption
<1>4. PICK q : q = [log[k][n] EXCEPT !.job = "bridged"]
  OBVIOUS
<1>5. PICK L : L = [log EXCEPT ![k] = [@ EXCEPT ![n] = q]]
  OBVIOUS
<1>6. PICK r : r = [NewRow("bridge") EXCEPT !.job = "running"]
  OBVIOUS
<1>7. log' = [L EXCEPT ![b] = Append(@, r)]
  <2>1. L = [log EXCEPT ![k] = [@ EXCEPT ![n].job = "bridged"]]
    BY <1>4, <1>5
  <2>2. k \in DOMAIN log /\ b \in DOMAIN log
    BY <1>1 DEF SoundLog
  <2>3. CASE k # b
    BY <1>2, <1>3, <1>6, <2>1, <2>2, <2>3
  <2>4. CASE k = b
    BY <1>2, <1>3, <1>6, <2>1, <2>2, <2>4
  <2> QED BY <2>3, <2>4
<1>8. q \in SoundRow /\ r \in SoundRow
  <2>1. q \in SoundRow
    BY <1>1, <1>4, JobSound DEF Jobs
  <2> QED BY <1>1, <1>6, <2>1, NewRowSound
<1>9. L \in SoundLog /\ \A j \in Kinds : DOMAIN L[j] = DOMAIN log[j] /\ Len(L[j]) = Len(log[j])
  <2>1. L \in SoundLog
    BY <1>1, <1>5, <1>8, PutLog
  <2>2. \A j \in Kinds : DOMAIN L[j] = DOMAIN log[j] /\ Len(L[j]) = Len(log[j])
    BY <1>1, <1>5, <1>8, PutLog
  <2> QED BY <2>1, <2>2
<1>10. \A j \in Kinds : \A m \in DOMAIN log[j] : L[j][m] = IF j = k /\ m = n THEN q ELSE log[j][m]
  <2>1. \A j \in Kinds : j # k => L[j] = log[j]
    BY <1>1, <1>5, <1>8, PutLog
  <2>2. \A m \in DOMAIN log[k] : m # n => L[k][m] = log[k][m]
    BY <1>1, <1>5, <1>8, PutLog
  <2>3. L[k][n] = q
    BY <1>1, <1>5 DEF SoundLog
  <2> QED BY <2>1, <2>2, <2>3
<1>11. \A j \in Kinds : j # b => log'[j] = L[j]
  BY <1>7, <1>8, <1>9, AppendLog
<1>12. Len(log'[b]) = Len(L[b]) + 1 /\ DOMAIN log'[b] = 1 .. Len(L[b]) + 1
  BY <1>7, <1>8, <1>9, AppendLog
<1>13. \A m \in DOMAIN L[b] : log'[b][m] = L[b][m]
  BY <1>7, <1>8, <1>9, AppendLog
<1>14. log'[b][Len(L[b]) + 1] = r
  BY <1>7, <1>8, <1>9, AppendLog
<1>15. Len(log[b]) \in Nat /\ DOMAIN log[b] = 1 .. Len(log[b])
  BY <1>1, Rows
<1>16. ASSUME NEW j \in Kinds, NEW m \in DOMAIN log[j]
       PROVE  m \in DOMAIN log'[j] /\ log'[j][m] = IF j = k /\ m = n THEN q ELSE log[j][m]
  <2>1. m \in DOMAIN L[j] /\ L[j][m] = IF j = k /\ m = n THEN q ELSE log[j][m]
    BY <1>9, <1>10
  <2>2. CASE j # b
    BY <1>11, <2>1, <2>2
  <2>3. CASE j = b
    BY <1>9, <1>12, <1>13, <1>15, <2>1, <2>3
  <2> QED BY <2>2, <2>3
<1>17. \A j \in Kinds : j # b => DOMAIN log'[j] = DOMAIN log[j] /\ Len(log'[j]) = Len(log[j])
  BY <1>9, <1>11
<1>18. /\ Len(log'[b]) = Len(log[b]) + 1 /\ DOMAIN log'[b] = 1 .. Len(log[b]) + 1
       /\ log'[b][Len(log[b]) + 1] = r
  BY <1>9, <1>12, <1>14
<1> QED BY <1>4, <1>6, <1>15, <1>16, <1>17, <1>18

HoldsSame == \A j \in Kinds : \A m \in Nat \ {0} : HoldsNoMore(j, m) /\ (Handing(j, m) => Handing(j, m)')

\* An evaluation that is not handing over may get on, or be woken.
LEMMA SameHolds ==
    ASSUME UNCHANGED manual, request' = request \/ (request.pc # "hand" /\ request'.pc # "hand"),
           \A j \in Kinds : eval'[j] = eval[j] \/ (eval[j].pc # "hand" /\ eval'[j].pc # "hand")
    PROVE  HoldsSame
BY HandingIs DEF HoldsSame, HoldsNoMore, EvalHolds, RetryHolds, RootHolds

\* An evaluation that gets on without an attempt holds none,
LEMMA GotoHolds ==
    ASSUME TypeInv, UNCHANGED <<manual, request>>, NEW k \in Kinds, eval[k].pc # "hand",
           NEW pc, pc # "hand", Goto(k, pc)
    PROVE  HoldsSame
BY SameHolds DEF TypeInv, TypeOK, Goto

\* and none holds one for having been woken.
LEMMA DeliverHolds ==
    ASSUME TypeInv, UNCHANGED manual,
           request' = request \/ (request.pc # "hand" /\ request'.pc # "hand"),
           NEW k, NEW outcome, Deliver(k, outcome)
    PROVE  HoldsSame
<1>1. \A j \in Kinds : eval'[j] = eval[j] \/ (eval[j].pc # "hand" /\ eval'[j].pc # "hand")
  BY DEF TypeInv, TypeOK, Deliver
<1> QED BY <1>1, SameHolds

\* When nothing is written and nobody lets go, all are attended as they were.
LEMMA IdleHolds ==
    ASSUME log \in SoundLog, Held, UNCHANGED log, HoldsSame
    PROVE  Held' /\ (Attended => Attended')
<1>1. Held'
  BY HeldKeeps DEF HoldsSame
<1>2. ASSUME Attended, NEW j \in Kinds, NEW m \in DOMAIN log[j], Active(log[j][m])
      PROVE  InQueue(log[j][m]) \/ Handing(j, m)'
  <2>1. m \in Nat \ {0}
    BY Rows
  <2> QED BY <1>2, <2>1 DEF Attended, HoldsSame
<1> QED BY <1>1, <1>2 DEF Attended

\* What BullMQ makes of an attempt is not its status.
LEMMA ReturnStatus ==
    ASSUME NEW q \in SoundRow, NEW k, NEW r \in Return(k, q)
    PROVE  r.status = q.status /\ r.job \in {"waiting", "bridging", "gone"}
BY DEF Return, Gone, SoundRow, Row

\* Evaluations insert, hold and hand over their own attempts.
LEMMA EvaluateHolds ==
    ASSUME TypeInv, Held, NEW k \in Kinds, Evaluate(k)
    PROVE  Held' /\ (Attended /\ ~Spend("queueDown") => Attended')
<1>1. log \in SoundLog /\ clock \in Nat /\ eval \in [Kinds -> [pc : EvalPcs, n : Nat \ {0}]]
  BY DEF TypeInv, TypeOK, SoundLog
<1>2. CASE EvalRead(k)
  <2>1. \E pc \in EvalPcs \ {"hand"} : Goto(k, pc)
    BY <1>2 DEF EvalRead, EvalPcs
  <2> QED BY <1>1, <1>2, <2>1, GotoHolds, IdleHolds DEF EvalRead, At
<1>3. CASE EvalRoute(k)
  <2>1. Goto(k, "release") \/ Goto(k, "append")
    BY <1>3 DEF EvalRoute
  <2>2. HoldsSame
    BY <1>3, <2>1, GotoHolds DEF EvalRoute, At
  <2> QED BY <1>1, <1>3, <2>2, IdleHolds DEF EvalRoute
<1>4. CASE EvalRelease(k)
  <2>1. HoldsSame
    BY <1>4, GotoHolds DEF EvalRelease, At
  <2> QED BY <1>1, <1>4, <2>1, IdleHolds DEF EvalRelease
<1>5. CASE EvalAppend(k)
  <2>1. PICK n \in Nat \ {0} : n = Len(log[k]) + 1
    BY <1>1, Rows
  <2>2. eval' = [eval EXCEPT ![k] = [pc |-> "hand", n |-> n]] /\ UNCHANGED <<manual, request>>
    BY <1>5, <2>1 DEF EvalAppend
  <2>3. EvalHolds(k, n)'
    BY <1>1, <2>2 DEF EvalHolds
  <2>4. ~Handing(k, n)
    BY <1>1, <2>1, Rows DEF Held
  <2>5. ~RetryHolds(k, n)' /\ ~RootHolds(k, n)'
    BY <2>2, <2>4, HandingIs DEF RetryHolds, RootHolds
  <2>6. OneHolds(k, n)'
    BY <2>3, <2>5, HandingIs DEF OneHolds
  <2>7. \A j \in Kinds : \A m \in Nat \ {0} :
           ~(j = k /\ m = n) => HoldsNoMore(j, m) /\ (Handing(j, m) => Handing(j, m)')
    <3> TAKE j \in Kinds, m \in Nat \ {0}
    <3>1. CASE j # k
      BY <1>1, <2>2, <3>1, HandingIs DEF HoldsNoMore, EvalHolds, RetryHolds, RootHolds
    <3>2. CASE j = k /\ m # n
      <4>1. ~EvalHolds(k, m)' /\ ~EvalHolds(k, m)
        BY <1>1, <1>5, <2>2, <3>2 DEF EvalHolds, EvalAppend, At
      <4> QED BY <2>2, <3>2, <4>1, HandingIs DEF HoldsNoMore, RetryHolds, RootHolds
    <3> QED BY <3>1, <3>2
  <2>8. NewRow("event") \in SoundRow /\ NewRow("event").job = "none"
    BY <1>1, NewRowSound DEF NewRow
  <2>9. log' = [log EXCEPT ![k] = Append(@, NewRow("event"))]
    BY <1>5 DEF EvalAppend, Append1
  <2> QED BY <1>1, <2>1, <2>6, <2>7, <2>8, <2>9, AddHolds
<1>6. CASE EvalHand(k)
  <2>1. PICK n \in Nat \ {0} : n = eval[k].n
    BY <1>1
  <2>2. EvalHolds(k, n) /\ Handing(k, n)
    BY <1>6, <2>1, HandingIs DEF EvalHand, At, EvalHolds
  <2>3. eval' = [eval EXCEPT ![k].pc = "release"] /\ UNCHANGED <<manual, request>>
    BY <1>6 DEF EvalHand, Goto
  <2>4. ~Handing(k, n)'
    <3>1. ~EvalHolds(k, n)'
      BY <1>1, <2>3 DEF EvalHolds
    <3>2. ~RetryHolds(k, n)' /\ ~RootHolds(k, n)'
      BY <2>2, <2>3 DEF Held, RetryHolds, RootHolds
    <3> QED BY <3>1, <3>2, HandingIs
  <2>5. \A j \in Kinds : \A m \in Nat \ {0} :
           HoldsNoMore(j, m) /\ (Handing(j, m) /\ ~(j = k /\ m = n) => Handing(j, m)')
    <3> TAKE j \in Kinds, m \in Nat \ {0}
    <3>1. CASE j # k
      BY <1>1, <2>3, <3>1, HandingIs DEF HoldsNoMore, EvalHolds, RetryHolds, RootHolds
    <3>2. CASE j = k
      <4>1. ~EvalHolds(k, m)' /\ (EvalHolds(k, m) => m = n)
        BY <1>1, <2>1, <2>3 DEF EvalHolds
      <4> QED BY <2>3, <3>2, <4>1, HandingIs DEF HoldsNoMore, RetryHolds, RootHolds
    <3> QED BY <3>1, <3>2
  <2>6. CASE HandOver(k, n)
    BY <1>1, <2>2, <2>4, <2>5, <2>6, HandOverHolds
  <2>7. CASE Spend("queueDown") /\ log' = log
    BY <2>5, <2>7, HeldKeeps
  <2> QED BY <1>6, <2>1, <2>6, <2>7 DEF EvalHand
<1> QED BY <1>2, <1>3, <1>4, <1>5, <1>6 DEF Evaluate

\* The worker moves attempts that are queued or done, which nobody holds.
LEMMA WorkHolds ==
    ASSUME TypeInv, Held, NEW k \in Kinds, NEW n \in DOMAIN log[k], Work(k, n)
    PROVE  Held' /\ (Attended => Attended')
<1>1. log \in SoundLog /\ clock \in Nat /\ log[k][n] \in SoundRow /\ n \in Nat \ {0}
  BY RowsSound, Rows DEF TypeInv, TypeOK, SoundLog
<1>2. HoldsSame
  <2>1. CASE Emit(k, n)
    BY <2>1, DeliverHolds DEF Emit
  <2>2. CASE ~Emit(k, n)
    <3>1. UNCHANGED <<manual, request, eval>>
      BY <2>2 DEF Work, Start, Grade, Finish, BridgeText, BridgeDone
    <3> QED BY <3>1, SameHolds
  <2> QED BY <2>1, <2>2
<1>3. ASSUME NEW r \in SoundRow, Put(k, n, r), log[k][n].job # "none",
             Attended /\ Active(r) => InQueue(r)
      PROVE  Held' /\ (Attended => Attended')
  <2>1. \A j \in Kinds : \A m \in Nat \ {0} : HoldsNoMore(j, m) /\ (Handing(j, m) => Handing(j, m)')
    BY <1>2 DEF HoldsSame
  <2> QED BY <1>1, <1>3, <2>1, PutHolds
<1>4. Attended /\ Active(log[k][n]) => InQueue(log[k][n]) \/ log[k][n].job = "none"
  BY <1>1 DEF Attended, Held
<1>5. CASE Start(k, n)
  <2>1. PICK r : r = Taken(log[k][n], k)
    OBVIOUS
  <2>2. r \in SoundRow /\ r.job \in {"running", "doomed"}
    BY <1>1, <2>1, StartSound
  <2> QED BY <1>3, <1>5, <2>1, <2>2 DEF Start, Taken, InQueue
<1>6. CASE k = Sentinel /\ Grade(n)
  <2>1. PICK r : r = [log[k][n] EXCEPT !.job = "graded"]
    OBVIOUS
  <2>2. r \in SoundRow /\ r.job = "graded"
    BY <1>1, <2>1 DEF SoundRow, Row, Jobs, Outcomes
  <2> QED BY <1>3, <1>6, <2>1, <2>2 DEF Grade, InQueue
<1>7. ASSUME NEW outcome \in Outcomes, Finish(k, n, outcome)
      PROVE  Held' /\ (Attended => Attended')
  <2>1. PICK r : r = [log[k][n] EXCEPT !.status = outcome, !.job = outcome, !.past = @ \cup {outcome}]
    OBVIOUS
  <2>2. r \in SoundRow /\ ~Active(r)
    BY <1>1, <2>1 DEF SoundRow, Row, Jobs, Outcomes, Active
  <2>3. log[k][n].job # "none"
    BY <1>7 DEF Finish
  <2> QED BY <1>3, <1>7, <2>1, <2>2, <2>3 DEF Finish
<1>8. CASE Emit(k, n)
  <2>1. PICK r \in Return(k, log[k][n]) : Put(k, n, r)
    BY <1>8 DEF Emit
  <2>2. r \in SoundRow /\ (r.status = log[k][n].status)
    BY <1>1, <2>1, ReturnSound, ReturnStatus
  <2>3. log[k][n].job \in Outcomes
    BY <1>8 DEF Emit
  <2> QED BY <1>3, <1>4, <2>1, <2>2, <2>3 DEF Outcomes, InQueue, Active
<1>9. CASE BridgeDone(k, n)
  <2>1. Gone(log[k][n]) \in SoundRow /\ Gone(log[k][n]).status = log[k][n].status
    BY <1>1, GoneSound DEF Gone, SoundRow, Row
  <2> QED BY <1>3, <1>4, <1>9, <2>1 DEF BridgeDone, InQueue, Active
<1>10. CASE BridgeText(k, n)
  <2>1. PICK b \in Kinds :
              /\ \A j \in Kinds : \A m \in DOMAIN log[j] :
                    /\ m \in DOMAIN log'[j]
                    /\ log'[j][m] = IF j = k /\ m = n THEN [log[k][n] EXCEPT !.job = "bridged"]
                                    ELSE log[j][m]
              /\ \A j \in Kinds : j # b => DOMAIN log'[j] = DOMAIN log[j] /\ Len(log'[j]) = Len(log[j])
              /\ Len(log[b]) \in Nat /\ DOMAIN log[b] = 1 .. Len(log[b])
              /\ Len(log'[b]) = Len(log[b]) + 1 /\ DOMAIN log'[b] = 1 .. Len(log[b]) + 1
              /\ log'[b][Len(log[b]) + 1] = [NewRow("bridge") EXCEPT !.job = "running"]
    BY <1>10, BridgeRows
  <2>2. log[k][n].job = "bridging" /\ ~Handing(k, n)
    BY <1>1, <1>10 DEF BridgeText, Held
  <2>3. Held'
    <3>1. \A j \in Kinds : \A m \in Nat \ {0} :
             /\ HoldsNoMore(j, m)
             /\ Handing(j, m)' /\ m \in DOMAIN log[j] /\ log[j][m].job = "none" =>
                   m \in DOMAIN log'[j] /\ log'[j][m].job = "none"
      BY <1>2, <2>1, <2>2 DEF HoldsSame
    <3> QED BY <3>1, HeldKeeps
  <2>4. ASSUME Attended, NEW j \in Kinds, NEW m \in DOMAIN log'[j], Active(log'[j][m])
        PROVE  InQueue(log'[j][m]) \/ Handing(j, m)'
    <3>1. CASE m \in DOMAIN log[j] /\ ~(j = k /\ m = n)
      <4>1. m \in Nat \ {0}
        BY <1>1, <3>1, Rows
      <4> QED BY <1>2, <2>1, <2>4, <3>1, <4>1 DEF Attended, HoldsSame
    <3>2. CASE j = k /\ m = n
      <4>1. log'[j][m].status = log[k][n].status
        BY <1>1, <2>1, <3>2 DEF SoundRow, Row
      <4> QED BY <1>4, <2>2, <2>4, <4>1 DEF Active, InQueue
    <3>3. CASE m \notin DOMAIN log[j]
      <4>1. j = b /\ m = Len(log[b]) + 1
        BY <2>1, <3>3
      <4>2. [NewRow("bridge") EXCEPT !.job = "running"].job = "running"
        BY DEF NewRow
      <4> QED BY <2>1, <4>1, <4>2 DEF InQueue
    <3> QED BY <3>1, <3>2, <3>3
  <2> QED BY <2>3, <2>4 DEF Attended
<1> QED BY <1>5, <1>6, <1>7, <1>8, <1>9, <1>10 DEF Work

\* Requests insert, hold and hand over their own attempts,
LEMMA RequestHolds ==
    ASSUME TypeInv, Held,
           RootAppend \/ RootHand \/ Announce \/ Commit \/ Reprocess
              \/ \E h \in request.stale : Reclaim(h)
    PROVE  Held' /\ (Attended /\ ~Spend("queueDown") => Attended')
<1>1. log \in SoundLog /\ clock \in Nat
  BY DEF TypeInv, TypeOK, SoundLog
<1>2. request.next \in DOMAIN Roots /\ request.next + 1 \in Nat /\ Roots[request.next] \in Kinds
      /\ request.n \in Nat \ {0} /\ request.stale \subseteq Handle
      /\ request \in [pc : {"idle", "reclaim", "announce", "root", "hand"}, next : DOMAIN Roots,
                      n : Nat \ {0}, stale : SUBSET Handle, cur : Handle]
  <2>1. request.next \in DOMAIN Roots /\ request.n \in Nat \ {0} /\ request.stale \subseteq Handle
        /\ request \in [pc : {"idle", "reclaim", "announce", "root", "hand"}, next : DOMAIN Roots,
                        n : Nat \ {0}, stale : SUBSET Handle, cur : Handle]
    BY DEF TypeInv, TypeOK
  <2>2. request.next \in 1 .. Len(Roots) /\ Len(Roots) \in Nat
    BY <2>1, RootsAssumption, LenProperties
  <2> QED BY <2>1, <2>2, RootsAssumption, ElementOfSeq
<1>3. \A i : Idle.pc # "hand" /\ RootsFrom(i).pc # "hand"
  BY DEF Idle, RootsFrom
<1>4. CASE RootAppend
  <2>1. CASE Append1(Roots[request.next], "root")
    <3>1. PICK k \in Kinds : k = Roots[request.next]
      BY <1>2
    <3>2. PICK n \in Nat \ {0} : n = Len(log[k]) + 1
      BY <1>1, Rows
    <3>3. CASE request' = [request EXCEPT !.pc = "hand", !.n = n]
      <4>1. request'.pc = "hand" /\ request'.n = n /\ request'.next = request.next
            /\ request.pc = "root"
        BY <1>2, <1>4, <3>3 DEF RootAppend
      <4>2. UNCHANGED <<manual, eval>>
        BY <1>4 DEF RootAppend
      <4>3. ~Handing(k, n)
        BY <1>1, <3>2, Rows DEF Held
      <4>4. OneHolds(k, n)'
        BY <3>1, <4>1, <4>2, <4>3, HandingIs DEF OneHolds, EvalHolds, RetryHolds, RootHolds
      <4>5. \A j \in Kinds : \A m \in Nat \ {0} :
               ~(j = k /\ m = n) => HoldsNoMore(j, m) /\ (Handing(j, m) => Handing(j, m)')
        BY <3>1, <4>1, <4>2, HandingIs DEF HoldsNoMore, EvalHolds, RetryHolds, RootHolds
      <4>6. NewRow("root") \in SoundRow /\ NewRow("root").job = "none"
        BY <1>1, NewRowSound DEF NewRow
      <4>7. log' = [log EXCEPT ![k] = Append(@, NewRow("root"))]
        BY <2>1, <3>1 DEF Append1
      <4> QED BY <1>1, <3>2, <4>4, <4>5, <4>6, <4>7, AddHolds
    <3>4. CASE UNCHANGED <<log, clock>>
      <4>1. clock' = clock + 1
        BY <2>1 DEF Append1
      <4> QED BY <1>1, <3>4, <4>1
    <3> QED BY <1>4, <3>1, <3>2, <3>3, <3>4 DEF RootAppend
  <2>2. CASE request' = RootsFrom(request.next + 1) /\ UNCHANGED <<log, clock>>
    <3>1. HoldsSame
      BY <1>3, <1>4, <2>2, SameHolds DEF RootAppend
    <3> QED BY <1>1, <2>2, <3>1, IdleHolds
  <2> QED BY <1>4, <2>1, <2>2 DEF RootAppend
<1>5. CASE RootHand
  <2>1. PICK k \in Kinds : k = Roots[request.next]
    BY <1>2
  <2>2. PICK n \in Nat \ {0} : n = request.n
    BY <1>2
  <2>3. RootHolds(k, n) /\ Handing(k, n)
    BY <1>5, <2>1, <2>2, HandingIs DEF RootHand, RootHolds
  <2>4. request'.pc # "hand" /\ UNCHANGED <<manual, eval>>
    BY <1>3, <1>5 DEF RootHand
  <2>5. ~Handing(k, n)'
    BY <2>3, <2>4, HandingIs DEF Held, EvalHolds, RetryHolds, RootHolds
  <2>6. \A j \in Kinds : \A m \in Nat \ {0} :
           HoldsNoMore(j, m) /\ (Handing(j, m) /\ ~(j = k /\ m = n) => Handing(j, m)')
    BY <2>1, <2>2, <2>4, HandingIs DEF HoldsNoMore, EvalHolds, RetryHolds, RootHolds
  <2>7. CASE HandOver(k, n)
    BY <1>1, <2>3, <2>5, <2>6, <2>7, HandOverHolds
  <2>8. CASE Spend("queueDown") /\ log' = log
    BY <2>6, <2>8, HeldKeeps
  <2> QED BY <1>5, <2>1, <2>2, <2>7, <2>8 DEF RootHand
<1>6. CASE Announce
  <2>1. request.pc # "hand" /\ request'.pc # "hand"
    BY <1>2, <1>3, <1>6 DEF Announce
  <2>2. HoldsSame
    BY <1>6, <2>1, DeliverHolds DEF Announce
  <2> QED BY <1>1, <1>6, <2>2, IdleHolds DEF Announce
<1>7. CASE Commit \/ Reprocess
  <2>1. request.pc # "hand" /\ request'.pc # "hand" /\ UNCHANGED <<log, manual, eval>>
    BY <1>3, <1>7 DEF Commit, Reprocess, Idle
  <2> QED BY <1>1, <2>1, SameHolds, IdleHolds
<1>8. ASSUME NEW h \in request.stale, Reclaim(h)
      PROVE  Held' /\ (Attended => Attended')
  <2>1. h.kind \in Kinds
    BY <1>2 DEF Handle
  <2>2. HoldsSame
    BY <1>2, <1>8, SameHolds DEF Reclaim
  <2>3. PICK r : r = [log[h.kind][h.n] EXCEPT !.status = "failed", !.past = @ \cup {"failed"}]
    OBVIOUS
  <2>4. Put(h.kind, h.n, r)
    BY <1>8, <2>3 DEF Reclaim
  <2>5. CASE h.n \in DOMAIN log[h.kind]
    <3>1. log[h.kind][h.n] \in SoundRow
      BY <1>1, <2>1, <2>5, RowsSound
    <3>2. r \in SoundRow /\ ~Active(r) /\ r.job = log[h.kind][h.n].job
      BY <2>3, <3>1 DEF SoundRow, Row, Outcomes, Active
    <3> QED BY <1>1, <2>1, <2>2, <2>4, <2>5, <3>2, PutHolds DEF HoldsSame
  <2>6. CASE h.n \notin DOMAIN log[h.kind]
    <3>1. log' = log
      BY <1>1, <2>1, <2>4, <2>6 DEF Put, SoundLog
    <3> QED BY <1>1, <2>2, <3>1, IdleHolds
  <2> QED BY <2>5, <2>6
<1> QED BY <1>4, <1>5, <1>6, <1>7, <1>8

\* and so do manual retries.
LEMMA RetryHoldsStep ==
    ASSUME TypeInv, Held, RetryAppend \/ RetryHand \/ \E k \in Kinds : Retry(k)
    PROVE  Held' /\ (Attended /\ ~Spend("queueDown") => Attended')
<1>1. log \in SoundLog /\ clock \in Nat
      /\ manual \in [pc : {"idle", "append", "hand"}, kind : Kinds, n : Nat \ {0}]
  BY DEF TypeInv, TypeOK, SoundLog
<1>2. PICK k \in Kinds : k = manual.kind
  BY <1>1
<1>3. CASE RetryAppend
  <2>1. PICK n \in Nat \ {0} : n = Len(log[k]) + 1
    BY <1>1, Rows
  <2>2. manual' = [manual EXCEPT !.pc = "hand", !.n = n] /\ manual.pc = "append"
        /\ UNCHANGED <<request, eval>>
    BY <1>2, <1>3, <2>1 DEF RetryAppend
  <2>3. manual'.pc = "hand" /\ manual'.n = n /\ manual'.kind = k
    BY <1>1, <1>2, <2>2
  <2>4. ~Handing(k, n)
    BY <1>1, <2>1, Rows DEF Held
  <2>5. OneHolds(k, n)'
    BY <2>2, <2>3, <2>4, HandingIs DEF OneHolds, EvalHolds, RetryHolds, RootHolds
  <2>6. \A j \in Kinds : \A m \in Nat \ {0} :
           ~(j = k /\ m = n) => HoldsNoMore(j, m) /\ (Handing(j, m) => Handing(j, m)')
    BY <2>2, <2>3, HandingIs DEF HoldsNoMore, EvalHolds, RetryHolds, RootHolds
  <2>7. NewRow("manual") \in SoundRow /\ NewRow("manual").job = "none"
    BY <1>1, NewRowSound DEF NewRow
  <2>8. log' = [log EXCEPT ![k] = Append(@, NewRow("manual"))]
    BY <1>2, <1>3 DEF RetryAppend, Append1
  <2> QED BY <1>1, <2>1, <2>5, <2>6, <2>7, <2>8, AddHolds
<1>4. CASE RetryHand
  <2>1. PICK n \in Nat \ {0} : n = manual.n
    BY <1>1
  <2>2. RetryHolds(k, n) /\ Handing(k, n)
    BY <1>2, <1>4, <2>1, HandingIs DEF RetryHand, RetryHolds
  <2>3. manual'.pc # "hand" /\ UNCHANGED <<request, eval>>
    BY <1>1, <1>4 DEF RetryHand
  <2>4. ~Handing(k, n)'
    BY <2>2, <2>3, HandingIs DEF Held, EvalHolds, RetryHolds, RootHolds
  <2>5. \A j \in Kinds : \A m \in Nat \ {0} :
           HoldsNoMore(j, m) /\ (Handing(j, m) /\ ~(j = k /\ m = n) => Handing(j, m)')
    BY <1>2, <2>1, <2>3, HandingIs DEF HoldsNoMore, EvalHolds, RetryHolds, RootHolds
  <2>6. CASE HandOver(k, n)
    BY <1>1, <2>2, <2>4, <2>5, <2>6, HandOverHolds
  <2>7. CASE Spend("queueDown") /\ log' = log
    BY <2>5, <2>7, HeldKeeps
  <2> QED BY <1>2, <1>4, <2>1, <2>6, <2>7 DEF RetryHand
<1>5. CASE \E j \in Kinds : Retry(j)
  <2>1. manual.pc # "hand" /\ manual'.pc # "hand" /\ UNCHANGED <<log, request, eval>>
    BY <1>5 DEF Retry
  <2>2. HoldsSame
    BY <2>1, HandingIs DEF HoldsSame, HoldsNoMore, EvalHolds, RetryHolds, RootHolds
  <2> QED BY <1>1, <2>1, <2>2, IdleHolds
<1> QED BY <1>3, <1>4, <1>5

\* Every step keeps each attempt held once, and none stranded.
LEMMA HeldStep ==
    ASSUME TypeInv, Spared, Held, NoStrandedAttempt, [Next]_vars
    PROVE  Held' /\ NoStrandedAttempt'
<1>1. NoStrandedAttempt <=> (Undisturbed => Attended)
  BY DEF NoStrandedAttempt, Attended, InQueue
<1>2. NoStrandedAttempt' <=> (Undisturbed' => Attended')
  BY DEF NoStrandedAttempt, Attended, InQueue
<1>3. Undisturbed' => Attended /\ ~Spend("queueDown") /\ ~Spend("crash")
  BY <1>1, CalmStep
<1>4. CASE UNCHANGED vars \/ \E t \in Tiers : Override(t)
  <2>1. UNCHANGED <<log, request, manual, eval>>
    BY <1>4 DEF vars, Override
  <2>2. HoldsSame
    BY <2>1, SameHolds
  <2>3. log \in SoundLog
    BY DEF TypeInv, SoundLog
  <2> QED BY <1>2, <1>3, <2>1, <2>2, <2>3, IdleHolds
<1>5. CASE Crash
  <2>1. \A k \in Kinds : \A n \in Nat \ {0} :
           ~EvalHolds(k, n)' /\ ~RetryHolds(k, n)' /\ ~RootHolds(k, n)'
    <3>1. manual'.pc = "idle" /\ request'.pc = "idle" /\ \A k \in Kinds : eval'[k].pc = "idle"
      BY <1>5 DEF Crash, Idle, TypeInv, TypeOK
    <3> QED BY <3>1 DEF EvalHolds, RetryHolds, RootHolds
  <2>2. Held'
    BY <2>1, HandingIs DEF Held
  <2> QED BY <1>2, <1>3, <1>5, <2>2 DEF Crash
<1>6. ASSUME NEW k \in Kinds, Evaluate(k)
      PROVE  Held' /\ NoStrandedAttempt'
  BY <1>2, <1>3, <1>6, EvaluateHolds
<1>7. ASSUME NEW k \in Kinds, NEW n \in DOMAIN log[k], Work(k, n)
      PROVE  Held' /\ NoStrandedAttempt'
  BY <1>2, <1>3, <1>7, WorkHolds
<1>8. CASE RootAppend \/ RootHand \/ Announce \/ Commit \/ Reprocess
              \/ \E h \in request.stale : Reclaim(h)
  BY <1>2, <1>3, <1>8, RequestHolds
<1>9. CASE RetryAppend \/ RetryHand \/ \E k \in Kinds : Retry(k)
  BY <1>2, <1>3, <1>9, RetryHoldsStep
<1> QED BY <1>4, <1>5, <1>6, <1>7, <1>8, <1>9 DEF Next, System, Outside

(***************************************************************************)
(* What is due                                                             *)
(***************************************************************************)
\* The latest attempt of j has kept its status, or is pending: the evidence for
\* dependents has not grown.
Calmer(j) ==
    \/ Has(j) /\ Has(j)' /\ Latest(j)'.at = Latest(j).at /\ Latest(j)'.status = Latest(j).status
    \/ ~Has(j) /\ ~Has(j)'
    \/ Has(j)' /\ Active(Latest(j))'

Routable(k) == k \in Gated => Decision(k) \in {"external", "local"}

\* The latest attempt is there when there is one.
LEMMA LatestIs ==
    ASSUME log \in SoundLog, NEW k \in Kinds
    PROVE  /\ Has(k) <=> Len(log[k]) # 0
           /\ Has(k) => Len(log[k]) \in DOMAIN log[k]
           /\ Len(log[k]) \in Nat
<1>1. Len(log[k]) \in Nat /\ DOMAIN log[k] = 1 .. Len(log[k]) /\ log[k] \in Seq(SoundRow)
  BY Rows DEF SoundLog
<1>2. Has(k) <=> Len(log[k]) # 0
  BY <1>1, EmptySeq DEF Has
<1> QED BY <1>1, <1>2

\* What was not due is not due now.
LEMMA LessDue ==
    ASSUME NEW k \in Kinds, \A e \in Deps : e.of = k => Calmer(e.kind),
           Has(k) => Has(k)' /\ \A t \in Nat : Latest(k)'.at < t => Latest(k).at < t,
           \A e \in Deps : Has(e.kind)' => Latest(e.kind)'.at \in Nat,
           Routable(k)' => Routable(k), Due(k)'
    PROVE  Due(k)
<1>1. k \in Relevant /\ Ready(k)' /\ Routable(k)
  BY DEF Due, Routable
<1>2. ASSUME NEW e \in Deps, e.of = k, Met(e)'
      PROVE  Met(e)
  BY <1>2 DEF Calmer, Met, Active
<1>3. ASSUME NEW e \in Deps, e.of = k, Satisfies(e)'
      PROVE  Satisfies(e) /\ Latest(e.kind)'.at = Latest(e.kind).at
  BY <1>3 DEF Calmer, Satisfies, Active
<1>4. ASSUME NEW e \in Deps, e.of = k, Met(e)', Has(e.kind)'
      PROVE  Has(e.kind) /\ Latest(e.kind)'.at = Latest(e.kind).at
  BY <1>4 DEF Calmer, Met, Active
<1>5. Ready(k)
  BY <1>1, <1>2, <1>3 DEF Ready, PlainDeps, Members
<1>6. \E t \in Inputs(k) : Has(k) => Latest(k).at < t
  <2>1. PICK t \in Inputs(k)' : Has(k)' => Latest(k)'.at < t
    BY DEF Due
  <2>2. PICK e \in Deps : /\ e.of = k /\ t = Latest(e.kind)'.at /\ Has(e.kind)'
                          /\ \/ e \in PlainDeps(k)
                             \/ (\E g \in Groups(k) : e \in Members(k, g)) /\ Satisfies(e)'
    BY <2>1 DEF Inputs, PlainDeps, Members, Satisfies
  <2>3. t \in Nat /\ (Has(k) => Latest(k).at < t)
    BY <2>1, <2>2
  <2>4. CASE e \in PlainDeps(k)
    <3>1. Met(e)'
      BY <1>1, <2>4 DEF Ready, PlainDeps
    <3>2. Has(e.kind) /\ t = Latest(e.kind).at
      BY <1>4, <2>2, <3>1
    <3> QED BY <2>3, <2>4, <3>2 DEF Inputs
  <2>5. CASE (\E g \in Groups(k) : e \in Members(k, g)) /\ Satisfies(e)'
    <3>1. Satisfies(e) /\ t = Latest(e.kind).at
      BY <1>3, <2>2, <2>5
    <3> QED BY <2>3, <2>5, <3>1 DEF Inputs
  <2> QED BY <2>2, <2>4, <2>5
<1> QED BY <1>1, <1>5, <1>6 DEF Due, Routable

\* An update that settles nothing leaves every kind as calm as it was.
LEMMA PutCalmer ==
    ASSUME log \in SoundLog, NEW k \in Kinds, NEW n \in DOMAIN log[k], NEW r \in SoundRow,
           Put(k, n, r), r.at = log[k][n].at, NEW j \in Kinds
    PROVE  /\ Has(j)' <=> Has(j)
           /\ Has(j) => Latest(j)'.at = Latest(j).at
           /\ r.status = log[k][n].status \/ Active(r) \/ j # k => Calmer(j)
<1>1. /\ DOMAIN log'[j] = DOMAIN log[j] /\ Len(log'[j]) = Len(log[j])
      /\ \A m \in DOMAIN log[j] : log'[j][m] = IF j = k /\ m = n THEN r ELSE log[j][m]
  BY PutRow
<1>2. log' \in SoundLog
  BY PutLog DEF Put
<1>3. Has(j) <=> Len(log[j]) # 0
  BY LatestIs
<1>4. Has(j)' <=> Len(log'[j]) # 0
  BY <1>2, EmptySeq, LenProperties DEF Has, SoundLog
<1>5. Has(j)' <=> Has(j)
  BY <1>1, <1>3, <1>4
<1>6. CASE Has(j)
  <2>1. Len(log[j]) \in DOMAIN log[j]
    BY <1>6, LatestIs
  <2>2. Latest(j)' = IF j = k /\ Len(log[j]) = n THEN r ELSE Latest(j)
    BY <1>1, <2>1 DEF Latest
  <2>3. j = k /\ Len(log[j]) = n => Latest(j) = log[k][n]
    BY DEF Latest
  <2> QED BY <1>5, <1>6, <2>2, <2>3 DEF Calmer, Active
<1>7. CASE ~Has(j)
  BY <1>5, <1>7 DEF Calmer
<1> QED BY <1>5, <1>6, <1>7

\* Times are natural numbers, up to the clock.
LEMMA LatestAt ==
    ASSUME log \in SoundLog, NEW k \in Kinds, Has(k)
    PROVE  Latest(k).at \in Nat /\ (Ordered => Latest(k).at <= clock)
BY LatestIs, Rows DEF Latest, Ordered

\* An edge joins two kinds.
LEMMA DepKinds ==
    ASSUME NEW e \in Deps
    PROVE  e.kind \in Kinds /\ e.of \in Kinds /\ e.kind # e.of
BY DepsAssumption, NoSelfDependency

(***************************************************************************)
(* Who is served                                                           *)
(***************************************************************************)
OnTheWay(k) == eval[k].pc \in {"read", "route", "append"}
Served(k) == Due(k) => k \in dropped \/ OnTheWay(k) \/ WakeupPending(k)

\* Nothing is missed when all are served.
LEMMA NoMissedIs ==
    /\ NoMissedWork <=> (Undisturbed => \A k \in Kinds : Served(k))
    /\ NoMissedWork' <=> (Undisturbed' => \A k \in Kinds : Served(k)')
BY DEF NoMissedWork, Served, OnTheWay

\* Outcomes that are still to be announced.
JobsStay ==
    \A d \in Kinds : \A n \in DOMAIN log[d] :
        log[d][n].job \in Outcomes \cup {"graded"} =>
            n \in DOMAIN log'[d] /\ log'[d][n].job = log[d][n].job
AnnounceStays == request.pc = "announce" => request'.pc = "announce" /\ request'.cur = request.cur

\* A wakeup that is to come is still to come while nothing is announced.
LEMMA PendingStays ==
    ASSUME JobsStay, AnnounceStays, NEW k \in Kinds, WakeupPending(k)
    PROVE  WakeupPending(k)'
<1>1. ASSUME NEW d \in Kinds, NEW n \in DOMAIN log[d],
             log[d][n].job \in Outcomes, k \in Woken(d, log[d][n].job)
      PROVE  WakeupPending(k)'
  <2>1. n \in DOMAIN log'[d] /\ log'[d][n].job = log[d][n].job
    BY <1>1 DEF JobsStay
  <2> QED BY <1>1, <2>1 DEF WakeupPending
<1>2. ASSUME k \in Gated, NEW n \in DOMAIN log[Sentinel], log[Sentinel][n].job = "graded"
      PROVE  WakeupPending(k)'
  <2>1. n \in DOMAIN log'[Sentinel] /\ log'[Sentinel][n].job = "graded"
    BY <1>2, PipelineAssumption DEF JobsStay
  <2> QED BY <1>2, <2>1 DEF WakeupPending
<1>3. CASE request.pc = "announce" /\ k \in Woken(request.cur.kind, "failed")
  BY <1>3 DEF AnnounceStays, WakeupPending
<1> QED BY <1>1, <1>2, <1>3 DEF WakeupPending

\* A step that does not make k due, nor takes from it what serves it.
LEMMA ServedStays ==
    ASSUME NEW k \in Kinds, Served(k), Due(k)' => Due(k), JobsStay, AnnounceStays,
           k \in dropped => k \in dropped', OnTheWay(k) => OnTheWay(k)'
    PROVE  Served(k)'
BY PendingStays DEF Served

\* The pipeline and the requests hold on to what they have to do.
RestStays ==
    /\ dropped' = dropped /\ sens' = sens /\ AnnounceStays
    /\ \A k \in Kinds : OnTheWay(k) => OnTheWay(k)'

\* A mark on the sensitivity row makes nothing due.
LEMMA SameDue ==
    ASSUME UNCHANGED log, sens'.detected = sens.detected, sens'.manual = sens.manual, NEW k
    PROVE  Due(k)' <=> Due(k)
<1>1. \A j : (Has(j)' <=> Has(j)) /\ Latest(j)' = Latest(j)
  BY DEF Has, Latest
<1>2. \A e : (Met(e)' <=> Met(e)) /\ (Satisfies(e)' <=> Satisfies(e))
  BY <1>1 DEF Met, Satisfies, Active
<1>3. Ready(k)' <=> Ready(k)
  BY <1>2 DEF Ready
<1>4. Inputs(k)' = Inputs(k)
  BY <1>1, <1>2 DEF Inputs
<1>5. Decision(k)' = Decision(k)
  BY DEF Decision
<1> QED BY <1>1, <1>3, <1>4, <1>5 DEF Due

\* When nothing is written and nobody lets go, all are served as they were,
LEMMA SameServed ==
    ASSUME \A k \in Kinds : Served(k), UNCHANGED log, RestStays
    PROVE  \A k \in Kinds : Served(k)'
<1>1. \A k \in Kinds : Due(k)' => Due(k)
  BY SameDue DEF RestStays
<1>2. JobsStay
  BY DEF JobsStay
<1> QED BY <1>1, <1>2, ServedStays DEF RestStays

\* and also when an attempt is updated that has nothing to announce.
LEMMA PutServed ==
    ASSUME log \in SoundLog, \A k \in Kinds : Served(k),
           NEW d \in Kinds, NEW n \in DOMAIN log[d], NEW r \in SoundRow, Put(d, n, r),
           r.at = log[d][n].at, r.status = log[d][n].status \/ Active(r),
           log[d][n].job \notin Outcomes \cup {"graded"}, RestStays
    PROVE  \A k \in Kinds : Served(k)'
<1> TAKE k \in Kinds
<1>1. \A j \in Kinds :
         /\ Has(j)' <=> Has(j)
         /\ Has(j) => Latest(j)'.at = Latest(j).at
         /\ Calmer(j)
  BY PutCalmer
<1>2. JobsStay
  BY PutRow DEF JobsStay
<1>3. Routable(k)' => Routable(k)
  BY DEF Routable, Decision, RestStays
<1>4. \A e \in Deps : Has(e.kind)' => Latest(e.kind)'.at \in Nat
  BY <1>1, DepKinds, LatestAt
<1>5. Due(k)' => Due(k)
  BY <1>1, <1>3, <1>4, DepKinds, LessDue
<1> QED BY <1>2, <1>5, ServedStays DEF RestStays

\* A wakeup leaves each kind that it reaches on the way, or dropped.
LEMMA DeliverServes ==
    ASSUME TypeInv, NEW d, NEW outcome, Deliver(d, outcome), NEW k \in Kinds
    PROVE  /\ k \in Woken(d, outcome) => k \in dropped' \/ OnTheWay(k)'
           /\ OnTheWay(k) => OnTheWay(k)'
           /\ k \in dropped => k \in dropped'
<1>1. eval[k].pc \in EvalPcs /\ [eval[k] EXCEPT !.pc = "read"].pc = "read"
  BY DEF TypeInv, TypeOK
<1>2. eval'[k] = IF k \in Woken(d, outcome) /\ eval[k].pc = "idle"
                 THEN [eval[k] EXCEPT !.pc = "read"] ELSE eval[k]
  BY DEF Deliver
<1>3. dropped' = dropped \cup {j \in Woken(d, outcome) : eval[j].pc \notin {"idle", "read"}}
  BY DEF Deliver
<1> QED BY <1>1, <1>2, <1>3 DEF OnTheWay

\* An attempt that gets an outcome makes only dependents of its kind due.
LEMMA SettleDue ==
    ASSUME log \in SoundLog, NEW d \in Kinds, NEW n \in DOMAIN log[d], NEW r \in SoundRow,
           Put(d, n, r), r.at = log[d][n].at, sens' = sens,
           NEW k \in Kinds, k \notin DependentsOf(d), Due(k)'
    PROVE  Due(k)
<1>1. \A j \in Kinds :
         /\ Has(j)' <=> Has(j)
         /\ Has(j) => Latest(j)'.at = Latest(j).at
         /\ j # d => Calmer(j)
  BY PutCalmer
<1>2. \A e \in Deps : e.of = k => e.kind # d
  BY DEF DependentsOf
<1>3. Routable(k)' => Routable(k)
  BY DEF Routable, Decision
<1>4. \A e \in Deps : Has(e.kind)' => Latest(e.kind)'.at \in Nat
  BY <1>1, DepKinds, LatestAt
<1> QED BY <1>1, <1>2, <1>3, <1>4, DepKinds, LessDue

\* An outcome makes kinds due, and is announced to all that it makes due.
LEMMA FinishServed ==
    ASSUME TypeInv, \A k \in Kinds : Served(k),
           NEW d \in Kinds, NEW n \in DOMAIN log[d], NEW outcome \in Outcomes, Finish(d, n, outcome)
    PROVE  \A k \in Kinds : Served(k)'
<1> TAKE k \in Kinds
<1>1. log \in SoundLog /\ log[d][n] \in SoundRow
  BY RowsSound DEF TypeInv, SoundLog
<1>2. PICK r : r = [log[d][n] EXCEPT !.status = outcome, !.job = outcome, !.past = @ \cup {outcome}]
  OBVIOUS
<1>3. Put(d, n, r) /\ UNCHANGED <<request, eval, dropped, sens>>
  BY <1>2 DEF Finish
<1>4. r \in SoundRow /\ r.at = log[d][n].at /\ r.job = outcome
  BY <1>1, <1>2 DEF SoundRow, Row, Jobs, Outcomes
<1>5. \A j \in Kinds :
         /\ DOMAIN log'[j] = DOMAIN log[j]
         /\ \A m \in DOMAIN log[j] : log'[j][m] = IF j = d /\ m = n THEN r ELSE log[j][m]
  BY <1>1, <1>3, <1>4, PutRow
<1>6. CASE k \in Woken(d, outcome)
  <2>1. n \in DOMAIN log'[d] /\ log'[d][n].job \in Outcomes /\ log'[d][n].job = outcome
    BY <1>4, <1>5
  <2>2. WakeupPending(k)'
    BY <1>6, <2>1 DEF WakeupPending
  <2> QED BY <2>2 DEF Served
<1>7. CASE k \notin Woken(d, outcome)
  <2>1. Due(k)' => Due(k)
    BY <1>1, <1>3, <1>4, <1>7, SettleDue DEF Woken
  <2>2. log[d][n].job \notin Outcomes /\ (log[d][n].job = "graded" => d = Sentinel /\ outcome = "succeeded")
    BY DEF Finish, Outcomes
  <2>3. WakeupPending(k) => WakeupPending(k)'
    <3>1. ASSUME NEW j \in Kinds, NEW m \in DOMAIN log[j], log[j][m].job \in Outcomes,
                 k \in Woken(j, log[j][m].job)
          PROVE  WakeupPending(k)'
      <4>1. m \in DOMAIN log'[j] /\ log'[j][m] = log[j][m]
        BY <1>5, <2>2, <3>1
      <4> QED BY <3>1, <4>1 DEF WakeupPending
    <3>2. ASSUME k \in Gated, NEW m \in DOMAIN log[Sentinel], log[Sentinel][m].job = "graded"
          PROVE  WakeupPending(k)'
      <4>1. ~(Sentinel = d /\ m = n)
        BY <1>7, <2>2, <3>2 DEF Woken
      <4>2. m \in DOMAIN log'[Sentinel] /\ log'[Sentinel][m] = log[Sentinel][m]
        BY <1>5, <4>1, PipelineAssumption
      <4> QED BY <3>2, <4>2 DEF WakeupPending
    <3>3. request.pc = "announce" /\ k \in Woken(request.cur.kind, "failed") => WakeupPending(k)'
      BY <1>3 DEF WakeupPending
    <3> QED BY <3>1, <3>2, <3>3 DEF WakeupPending
  <2> QED BY <1>3, <2>1, <2>3 DEF Served, OnTheWay
<1> QED BY <1>6, <1>7

\* So is the failure of an attempt that reprocess reclaims.
LEMMA ReclaimServed ==
    ASSUME TypeInv, \A k \in Kinds : Served(k), NEW h \in request.stale, Reclaim(h)
    PROVE  \A k \in Kinds : Served(k)'
<1> TAKE k \in Kinds
<1>1. log \in SoundLog /\ h.kind \in Kinds
  BY DEF TypeInv, TypeOK, SoundLog, Handle
<1>2. request'.pc = "announce" /\ request'.cur = h /\ request.pc = "reclaim"
      /\ UNCHANGED <<eval, dropped, sens>>
  BY DEF Reclaim, TypeInv, TypeOK
<1>3. CASE k \in DependentsOf(h.kind)
  <2>1. k \in Woken(request'.cur.kind, "failed")
    BY <1>2, <1>3 DEF Woken
  <2> QED BY <1>2, <2>1 DEF Served, WakeupPending
<1>4. CASE k \notin DependentsOf(h.kind)
  <2>1. PICK r : r = [log[h.kind][h.n] EXCEPT !.status = "failed", !.past = @ \cup {"failed"}]
    OBVIOUS
  <2>2. Put(h.kind, h.n, r)
    BY <2>1 DEF Reclaim
  <2>3. CASE h.n \in DOMAIN log[h.kind]
    <3>1. log[h.kind][h.n] \in SoundRow
      BY <1>1, <2>3, RowsSound
    <3>2. r \in SoundRow /\ r.at = log[h.kind][h.n].at /\ r.job = log[h.kind][h.n].job
      BY <2>1, <3>1 DEF SoundRow, Row, Outcomes
    <3>3. Due(k)' => Due(k)
      BY <1>1, <1>2, <1>4, <2>2, <2>3, <3>2, SettleDue
    <3>4. JobsStay
      BY <1>1, <2>2, <2>3, <3>2, PutRow DEF JobsStay
    <3> QED BY <1>2, <3>3, <3>4, ServedStays DEF AnnounceStays, OnTheWay
  <2>4. CASE h.n \notin DOMAIN log[h.kind]
    <3>1. log' = log
      BY <1>1, <2>2, <2>4 DEF Put, SoundLog
    <3> QED BY <1>2, <3>1, SameServed DEF RestStays, AnnounceStays, OnTheWay
  <2> QED BY <2>3, <2>4
<1> QED BY <1>3, <1>4

\* The event serves all that the outcome made due.
LEMMA EmitServed ==
    ASSUME TypeInv, \A k \in Kinds : Served(k),
           NEW d \in Kinds, NEW n \in DOMAIN log[d], Emit(d, n)
    PROVE  \A k \in Kinds : Served(k)'
<1> TAKE k \in Kinds
<1>1. log \in SoundLog /\ log[d][n] \in SoundRow
  BY RowsSound DEF TypeInv, SoundLog
<1>2. PICK r \in Return(d, log[d][n]) : Put(d, n, r)
  BY DEF Emit
<1>3. r \in SoundRow /\ r.at = log[d][n].at /\ r.status = log[d][n].status
  BY <1>1, ReturnSound, ReturnStatus
<1>4. Deliver(d, log[d][n].job) /\ log[d][n].job \in Outcomes /\ UNCHANGED <<request, sens>>
  BY DEF Emit
<1>5. CASE k \in Woken(d, log[d][n].job)
  BY <1>4, <1>5, DeliverServes DEF Served
<1>6. CASE k \notin Woken(d, log[d][n].job)
  <2>1. Due(k)' => Due(k)
    BY <1>1, <1>2, <1>3, <1>4, <1>6, SettleDue DEF Woken
  <2>2. \A j \in Kinds :
           /\ DOMAIN log'[j] = DOMAIN log[j]
           /\ \A m \in DOMAIN log[j] : log'[j][m] = IF j = d /\ m = n THEN r ELSE log[j][m]
    BY <1>1, <1>2, <1>3, PutRow
  <2>3. WakeupPending(k) => WakeupPending(k)'
    <3>1. ASSUME NEW j \in Kinds, NEW m \in DOMAIN log[j], log[j][m].job \in Outcomes,
                 k \in Woken(j, log[j][m].job)
          PROVE  WakeupPending(k)'
      <4>1. m \in DOMAIN log'[j] /\ log'[j][m] = log[j][m]
        BY <1>6, <2>2, <3>1
      <4> QED BY <3>1, <4>1 DEF WakeupPending
    <3>2. ASSUME k \in Gated, NEW m \in DOMAIN log[Sentinel], log[Sentinel][m].job = "graded"
          PROVE  WakeupPending(k)'
      <4>1. m \in DOMAIN log'[Sentinel] /\ log'[Sentinel][m] = log[Sentinel][m]
        BY <1>4, <2>2, <3>2, PipelineAssumption DEF Outcomes
      <4> QED BY <3>2, <4>1 DEF WakeupPending
    <3>3. request.pc = "announce" /\ k \in Woken(request.cur.kind, "failed") => WakeupPending(k)'
      BY <1>4 DEF WakeupPending
    <3> QED BY <3>1, <3>2, <3>3 DEF WakeupPending
  <2> QED BY <1>4, <2>1, <2>3, DeliverServes DEF Served
<1> QED BY <1>5, <1>6

\* The event of a reclaimed attempt does, too.
LEMMA AnnounceServed ==
    ASSUME TypeInv, \A k \in Kinds : Served(k), Announce
    PROVE  \A k \in Kinds : Served(k)'
<1> TAKE k \in Kinds
<1>1. Deliver(request.cur.kind, "failed") /\ UNCHANGED <<log, sens>>
  BY DEF Announce
<1>2. CASE k \in Woken(request.cur.kind, "failed")
  BY <1>1, <1>2, DeliverServes DEF Served
<1>3. CASE k \notin Woken(request.cur.kind, "failed")
  <2>1. Due(k)' => Due(k)
    BY <1>1, SameDue
  <2>2. WakeupPending(k) => WakeupPending(k)'
    BY <1>1, <1>3 DEF WakeupPending
  <2> QED BY <1>1, <2>1, <2>2, DeliverServes DEF Served
<1> QED BY <1>2, <1>3

(***************************************************************************)
(* A new attempt of b                                                      *)
(***************************************************************************)
Grows(b) ==
    /\ \A j \in Kinds : \A m \in DOMAIN log[j] :
          /\ m \in DOMAIN log'[j]
          /\ log'[j][m].at = log[j][m].at /\ log'[j][m].status = log[j][m].status
    /\ JobsStay
    /\ \A j \in Kinds : j # b => Len(log'[j]) = Len(log[j])
    /\ Len(log'[b]) = Len(log[b]) + 1
    /\ log'[b][Len(log[b]) + 1].at = clock + 1
    /\ Active(log'[b][Len(log[b]) + 1])

\* A new attempt is pending: it is no evidence for dependents, and younger than all.
LEMMA GrowsCalmer ==
    ASSUME log \in SoundLog, log' \in SoundLog, clock \in Nat, Ordered,
           NEW b \in Kinds, Grows(b), NEW j \in Kinds
    PROVE  /\ Calmer(j)
           /\ Has(j) => Has(j)' /\ \A t \in Nat : Latest(j)'.at < t => Latest(j).at < t
           /\ j # b => (Has(j)' => Has(j)) /\ (Has(j) => Latest(j)'.at = Latest(j).at)
           /\ j = b => Has(j)' /\ Latest(j)'.at = clock + 1
<1>1. Has(j) <=> Len(log[j]) # 0
  BY LatestIs
<1>2. Has(j)' <=> Len(log'[j]) # 0
  BY EmptySeq, LenProperties DEF Has, SoundLog
<1>3. Len(log[j]) \in Nat
  BY LatestIs
<1>4. CASE j # b
  <2>1. Has(j)' <=> Has(j)
    BY <1>1, <1>2, <1>4 DEF Grows
  <2>2. Has(j) => Latest(j)'.at = Latest(j).at /\ Latest(j)'.status = Latest(j).status
    BY <1>4, LatestIs DEF Grows, Latest
  <2> QED BY <1>4, <2>1, <2>2 DEF Calmer
<1>5. CASE j = b
  <2>1. Len(log'[j]) = Len(log[j]) + 1
    BY <1>5 DEF Grows
  <2>2. Has(j)' /\ Latest(j)' = log'[j][Len(log[j]) + 1]
    BY <1>2, <1>3, <2>1 DEF Latest
  <2>3. Latest(j)'.at = clock + 1 /\ Active(Latest(j)')
    BY <1>5, <2>2 DEF Grows
  <2>4. Has(j) => Latest(j).at \in Nat /\ Latest(j).at <= clock
    BY LatestAt
  <2>5. Calmer(j)
    BY <2>2, <2>3 DEF Calmer, Active
  <2> QED BY <1>5, <2>2, <2>3, <2>4, <2>5
<1> QED BY <1>4, <1>5

\* So it makes nothing due, and its own kind is due no more.
LEMMA GrowsDue ==
    ASSUME log \in SoundLog, log' \in SoundLog, clock \in Nat, Ordered,
           NEW b \in Kinds, Grows(b), sens' = sens, NEW k \in Kinds, Due(k)'
    PROVE  Due(k) /\ k # b
<1>1. \A j \in Kinds :
         /\ Calmer(j)
         /\ Has(j) => Has(j)' /\ \A t \in Nat : Latest(j)'.at < t => Latest(j).at < t
         /\ j # b => (Has(j)' => Has(j)) /\ (Has(j) => Latest(j)'.at = Latest(j).at)
         /\ j = b => Has(j)' /\ Latest(j)'.at = clock + 1
  BY GrowsCalmer
<1>2. \A e \in Deps : Has(e.kind)' => Latest(e.kind)'.at \in Nat
  BY <1>1, DepKinds, LatestAt
<1>3. Routable(k)' => Routable(k)
  BY DEF Routable, Decision
<1>4. Due(k)
  BY <1>1, <1>2, <1>3, DepKinds, LessDue
<1>5. ASSUME k = b
      PROVE  FALSE
  <2>1. PICK t \in Inputs(k)' : clock + 1 < t
    BY <1>1, <1>5 DEF Due
  <2>2. PICK e \in Deps : e.of = k /\ t = Latest(e.kind)'.at /\ Has(e.kind)'
    BY <2>1 DEF Inputs, PlainDeps, Members, Satisfies
  <2>3. e.kind \in Kinds /\ e.kind # b
    BY <1>5, <2>2, DepKinds
  <2>4. t = Latest(e.kind).at /\ Has(e.kind)
    BY <1>1, <2>2, <2>3
  <2>5. t \in Nat /\ t <= clock
    BY <2>3, <2>4, LatestAt
  <2> QED BY <2>1, <2>5
<1> QED BY <1>4, <1>5

\* Append1 grows the attempts of one kind,
LEMMA AppendGrows ==
    ASSUME TypeInv, NEW k \in Kinds, NEW by \in {"root", "event", "manual", "bridge"}, Append1(k, by)
    PROVE  Grows(k) /\ log' \in SoundLog
<1>1. log \in SoundLog /\ clock \in Nat
  BY DEF TypeInv, TypeOK, SoundLog
<1>2. NewRow(by) \in SoundRow /\ NewRow(by).at = clock + 1 /\ Active(NewRow(by))
  BY <1>1, NewRowSound DEF NewRow, Active
<1>3. log' = [log EXCEPT ![k] = Append(@, NewRow(by))]
  BY DEF Append1
<1>4. /\ \A j \in Kinds : j # k => log'[j] = log[j]
      /\ Len(log[k]) \in Nat /\ DOMAIN log[k] = 1 .. Len(log[k])
      /\ Len(log'[k]) = Len(log[k]) + 1 /\ DOMAIN log'[k] = 1 .. Len(log[k]) + 1
      /\ \A m \in DOMAIN log[k] : log'[k][m] = log[k][m]
      /\ log'[k][Len(log[k]) + 1] = NewRow(by)
  BY <1>1, <1>2, <1>3, AddRow
<1>5. \A j \in Kinds : \A m \in DOMAIN log[j] : m \in DOMAIN log'[j] /\ log'[j][m] = log[j][m]
  BY <1>4
<1>6. log' \in SoundLog
  BY <1>1, <1>2, <1>3, AppendLog
<1> QED BY <1>2, <1>4, <1>5, <1>6 DEF Grows, JobsStay

\* and so does the text that OCR bridges.
LEMMA BridgeGrows ==
    ASSUME TypeInv, NEW k \in Kinds, NEW n \in DOMAIN log[k], BridgeText(k, n)
    PROVE  \E b \in Kinds : Grows(b)
<1>1. log \in SoundLog /\ clock \in Nat /\ log[k][n] \in SoundRow
  BY RowsSound DEF TypeInv, TypeOK, SoundLog
<1>2. PICK b \in Kinds :
              /\ \A j \in Kinds : \A m \in DOMAIN log[j] :
                    /\ m \in DOMAIN log'[j]
                    /\ log'[j][m] = IF j = k /\ m = n THEN [log[k][n] EXCEPT !.job = "bridged"]
                                    ELSE log[j][m]
              /\ \A j \in Kinds : j # b => DOMAIN log'[j] = DOMAIN log[j] /\ Len(log'[j]) = Len(log[j])
              /\ Len(log[b]) \in Nat /\ DOMAIN log[b] = 1 .. Len(log[b])
              /\ Len(log'[b]) = Len(log[b]) + 1 /\ DOMAIN log'[b] = 1 .. Len(log[b]) + 1
              /\ log'[b][Len(log[b]) + 1] = [NewRow("bridge") EXCEPT !.job = "running"]
  BY BridgeRows
<1>3. PICK q : q = [log[k][n] EXCEPT !.job = "bridged"]
  OBVIOUS
<1>4. q.at = log[k][n].at /\ q.status = log[k][n].status
  BY <1>1, <1>3 DEF SoundRow, Row
<1>5. log[k][n].job = "bridging"
  BY DEF BridgeText
<1>6. PICK r : r = [NewRow("bridge") EXCEPT !.job = "running"]
  OBVIOUS
<1>7. r.at = clock + 1 /\ Active(r)
  BY <1>6 DEF NewRow, Active
<1>8. JobsStay
  BY <1>2, <1>5 DEF JobsStay, Outcomes
<1>9. ASSUME NEW j \in Kinds, NEW m \in DOMAIN log[j]
      PROVE  /\ m \in DOMAIN log'[j]
             /\ log'[j][m].at = log[j][m].at /\ log'[j][m].status = log[j][m].status
  <2>1. m \in DOMAIN log'[j] /\ log'[j][m] = IF j = k /\ m = n THEN q ELSE log[j][m]
    BY <1>2, <1>3
  <2> QED BY <1>4, <2>1
<1>10. log'[b][Len(log[b]) + 1] = r /\ Len(log'[b]) = Len(log[b]) + 1
       /\ \A j \in Kinds : j # b => Len(log'[j]) = Len(log[j])
  BY <1>2, <1>6
<1>11. log'[b][Len(log[b]) + 1].at = clock + 1 /\ Active(log'[b][Len(log[b]) + 1])
  BY <1>7, <1>10 DEF Active
<1> QED BY <1>8, <1>9, <1>10, <1>11 DEF Grows

\* An attempt that is inserted serves its own kind, and takes nothing from others.
LEMMA GrowsServed ==
    ASSUME log \in SoundLog, log' \in SoundLog, clock \in Nat, Ordered,
           \A k \in Kinds : Served(k), NEW b \in Kinds, Grows(b), sens' = sens, dropped' = dropped,
           AnnounceStays, \A k \in Kinds : k # b /\ OnTheWay(k) => OnTheWay(k)'
    PROVE  \A k \in Kinds : Served(k)'
<1> TAKE k \in Kinds
<1>1. CASE ~Due(k)'
  BY <1>1 DEF Served
<1>2. CASE Due(k)'
  <2>1. Due(k) /\ k # b
    BY <1>2, GrowsDue
  <2> QED BY <2>1, ServedStays DEF Grows
<1> QED BY <1>1, <1>2

\* Nothing is let go when evaluations, requests and sensitivity stay.
LEMMA PutRests ==
    ASSUME UNCHANGED <<request, eval, dropped, sens>>
    PROVE  RestStays
BY DEF RestStays, AnnounceStays, OnTheWay

\* Whatever an evaluation does, the others go on.
LEMMA GotoOthers ==
    ASSUME TypeInv, NEW k \in Kinds, NEW pc, Goto(k, pc)
    PROVE  /\ eval'[k].pc = pc
           /\ \A j \in Kinds : j # k => (OnTheWay(j) <=> OnTheWay(j)')
<1>1. eval \in [Kinds -> [pc : EvalPcs, n : Nat \ {0}]]
  BY DEF TypeInv, TypeOK
<1> QED BY <1>1 DEF Goto, OnTheWay

\* A kind that is due passes the gates of the snapshot.
LEMMA ReadServed ==
    ASSUME TypeInv, \A k \in Kinds : Served(k), NEW d \in Kinds, EvalRead(d)
    PROVE  \A k \in Kinds : Served(k)'
<1> TAKE k \in Kinds
<1>1. UNCHANGED <<log, request, sens>> /\ dropped' = dropped \ {d}
  BY DEF EvalRead
<1>2. Due(k)' <=> Due(k)
  BY <1>1, SameDue
<1>3. CASE k = d
  <2>1. ASSUME Due(d)
        PROVE  d \in Relevant /\ Ready(d) /\ ~Covered(d)
    <3>1. ASSUME Covered(d)
          PROVE  FALSE
      <4>1. Has(d) /\ \A t \in Inputs(d) : t <= Latest(d).at
        BY <3>1 DEF Covered
      <4>2. PICK t \in Inputs(d) : Latest(d).at < t
        BY <2>1, <4>1 DEF Due
      <4>3. t \in Nat
        <5>1. PICK e \in Deps : t = Latest(e.kind).at /\ Has(e.kind)
          BY <4>2 DEF Inputs, PlainDeps, Members, Satisfies
        <5> QED BY <5>1, DepKinds, LatestAt DEF TypeInv, SoundLog
      <4>4. Latest(d).at \in Nat
        BY <4>1, LatestAt DEF TypeInv, SoundLog
      <4> QED BY <4>1, <4>2, <4>3, <4>4
    <3> QED BY <2>1, <3>1 DEF Due
  <2>2. Due(d) => eval'[d].pc \in {"route", "append"}
    BY <2>1, GotoOthers DEF EvalRead
  <2> QED BY <1>2, <1>3, <2>2 DEF Served, OnTheWay
<1>4. CASE k # d
  <2>1. OnTheWay(k) <=> OnTheWay(k)'
    BY <1>4, GotoOthers DEF EvalRead
  <2>2. JobsStay /\ AnnounceStays
    BY <1>1 DEF JobsStay, AnnounceStays
  <2> QED BY <1>1, <1>2, <1>4, <2>1, <2>2, ServedStays
<1> QED BY <1>3, <1>4

\* A kind that is due and gated passes the routing guard.
LEMMA RouteServed ==
    ASSUME TypeInv, Routed, \A k \in Kinds : Served(k), NEW d \in Kinds, EvalRoute(d)
    PROVE  \A k \in Kinds : Served(k)'
<1> TAKE k \in Kinds
<1>1. UNCHANGED <<log, request, dropped>>
  BY DEF EvalRoute
<1>2. sens'.detected = sens.detected /\ sens'.manual = sens.manual
  <2>1. sens \in [detected : Tiers, manual : Tiers, held : BOOLEAN]
    BY DEF TypeInv, TypeOK
  <2>2. sens' = sens \/ sens' = [sens EXCEPT !.held = TRUE] \/ sens' = [sens EXCEPT !.held = FALSE]
    BY DEF EvalRoute
  <2> QED BY <2>1, <2>2
<1>3. Due(k)' <=> Due(k)
  BY <1>1, <1>2, SameDue
<1>4. CASE k = d
  <2>1. d \in Gated
    BY DEF EvalRoute, At, Routed
  <2>2. ASSUME Due(d)
        PROVE  eval'[d].pc = "append"
    <3>1. Decision(d) # "wait" /\ Decision(d) # "hold"
      BY <2>1, <2>2 DEF Due
    <3>2. Goto(d, "append")
      BY <3>1 DEF EvalRoute
    <3> QED BY <3>2, GotoOthers
  <2> QED BY <1>3, <1>4, <2>2 DEF Served, OnTheWay
<1>5. CASE k # d
  <2>1. OnTheWay(k) <=> OnTheWay(k)'
    <3>1. \E pc : Goto(d, pc)
      BY DEF EvalRoute
    <3> QED BY <1>5, <3>1, GotoOthers
  <2>2. JobsStay /\ AnnounceStays
    BY <1>1 DEF JobsStay, AnnounceStays
  <2> QED BY <1>1, <1>3, <2>1, <2>2, ServedStays
<1> QED BY <1>4, <1>5

\* An evaluation of a kind that is due goes on until the attempt is inserted.
LEMMA EvaluateServed ==
    ASSUME TypeInv, Ordered, Held, Routed, \A k \in Kinds : Served(k), NEW d \in Kinds, Evaluate(d),
           ~Spend("queueDown")
    PROVE  \A k \in Kinds : Served(k)'
<1>1. log \in SoundLog /\ clock \in Nat /\ eval \in [Kinds -> [pc : EvalPcs, n : Nat \ {0}]]
  BY DEF TypeInv, TypeOK, SoundLog
<1>2. CASE EvalAppend(d)
  <2>1. Grows(d) /\ log' \in SoundLog
    BY <1>2, AppendGrows DEF EvalAppend
  <2>2. \A k \in Kinds : k # d /\ OnTheWay(k) => OnTheWay(k)'
    BY <1>1, <1>2 DEF EvalAppend, OnTheWay
  <2>3. sens' = sens /\ dropped' = dropped /\ AnnounceStays
    BY <1>2 DEF EvalAppend, AnnounceStays
  <2> QED BY <1>1, <2>1, <2>2, <2>3, GrowsServed
<1>3. CASE EvalHand(d)
  <2>1. PICK n \in Nat \ {0} : n = eval[d].n
    BY <1>1
  <2>2. HandOver(d, n) /\ UNCHANGED <<request, dropped, sens>>
    BY <1>3, <2>1 DEF EvalHand
  <2>3. n \in DOMAIN log[d] /\ log[d][n].job = "none"
    BY <1>3, <2>1 DEF EvalHand, Held, Handing
  <2>4. PICK r : r = [log[d][n] EXCEPT !.job = "waiting"]
    OBVIOUS
  <2>5. r \in SoundRow /\ r.at = log[d][n].at /\ r.status = log[d][n].status
    <3>1. log[d][n] \in SoundRow
      BY <1>1, <2>3, RowsSound
    <3>2. r \in SoundRow
      BY <2>4, <3>1, JobSound DEF Jobs
    <3>3. r.at = log[d][n].at /\ r.status = log[d][n].status
      BY <2>4, <3>1 DEF SoundRow, Row
    <3> QED BY <3>2, <3>3
  <2>6. \A k \in Kinds : OnTheWay(k) => OnTheWay(k)'
    BY <1>1, <1>3 DEF EvalHand, At, Goto, OnTheWay
  <2>7. RestStays
    BY <2>2, <2>6 DEF RestStays, AnnounceStays
  <2>8. Put(d, n, r)
    BY <2>2, <2>4 DEF HandOver
  <2>9. log[d][n].job \notin Outcomes \cup {"graded"}
    BY <2>3 DEF Outcomes
  <2> QED BY <1>1, <2>3, <2>5, <2>7, <2>8, <2>9, PutServed
<1>4. CASE EvalRelease(d)
  <2>1. \A k \in Kinds : OnTheWay(k) => OnTheWay(k)'
    BY <1>1, <1>4 DEF EvalRelease, At, Goto, OnTheWay
  <2>2. RestStays /\ UNCHANGED log
    BY <1>4, <2>1 DEF EvalRelease, RestStays, AnnounceStays
  <2> QED BY <2>2, SameServed
<1> QED BY <1>2, <1>3, <1>4, ReadServed, RouteServed DEF Evaluate

\* A grade may make gated kinds due; the event of the sentinel's attempt wakes them.
LEMMA GradeServed ==
    ASSUME TypeInv, \A k \in Kinds : Served(k), NEW n \in DOMAIN log[Sentinel], Grade(n)
    PROVE  \A k \in Kinds : Served(k)'
<1> TAKE k \in Kinds
<1>1. log \in SoundLog /\ Sentinel \in Kinds
  BY PipelineAssumption DEF TypeInv, SoundLog
<1>2. log[Sentinel][n] \in SoundRow
  BY <1>1, RowsSound
<1>3. PICK r : r = [log[Sentinel][n] EXCEPT !.job = "graded"]
  OBVIOUS
<1>4. r \in SoundRow
  BY <1>2, <1>3, JobSound DEF Jobs
<1>5. r.at = log[Sentinel][n].at /\ r.status = log[Sentinel][n].status /\ r.job = "graded"
  BY <1>2, <1>3 DEF SoundRow, Row
<1>6. Put(Sentinel, n, r) /\ UNCHANGED <<request, eval, dropped>>
  BY <1>3 DEF Grade
<1>7. \A j \in Kinds :
         /\ DOMAIN log'[j] = DOMAIN log[j]
         /\ \A m \in DOMAIN log[j] : log'[j][m] = IF j = Sentinel /\ m = n THEN r ELSE log[j][m]
  BY <1>1, <1>4, <1>6, PutRow
<1>8. CASE k \in Gated
  <2>1. n \in DOMAIN log'[Sentinel] /\ log'[Sentinel][n].job = "graded"
    BY <1>1, <1>5, <1>7
  <2> QED BY <1>8, <2>1 DEF Served, WakeupPending
<1>9. CASE k \notin Gated
  <2>1. \A j \in Kinds :
           /\ Has(j)' <=> Has(j)
           /\ Has(j) => Latest(j)'.at = Latest(j).at
           /\ Calmer(j)
    BY <1>1, <1>4, <1>5, <1>6, PutCalmer
  <2>2. \A e \in Deps : Has(e.kind)' => Latest(e.kind)'.at \in Nat
    BY <1>1, <2>1, DepKinds, LatestAt
  <2>3. Routable(k)
    BY <1>9 DEF Routable
  <2>4. Due(k)' => Due(k)
    BY <2>1, <2>2, <2>3, DepKinds, LessDue
  <2>5. JobsStay
    BY <1>7 DEF JobsStay, Grade, Outcomes
  <2> QED BY <1>6, <2>4, <2>5, ServedStays DEF AnnounceStays, OnTheWay
<1> QED BY <1>8, <1>9

\* What the worker makes due, it announces.
LEMMA WorkServed ==
    ASSUME TypeInv, Ordered, \A k \in Kinds : Served(k),
           NEW d \in Kinds, NEW n \in DOMAIN log[d], Work(d, n), log' \in SoundLog
    PROVE  \A k \in Kinds : Served(k)'
<1>1. log \in SoundLog /\ clock \in Nat /\ log[d][n] \in SoundRow
  BY RowsSound DEF TypeInv, TypeOK, SoundLog
<1>2. CASE Start(d, n)
  <2>1. PICK r : r = Taken(log[d][n], d)
    OBVIOUS
  <2>2. r \in SoundRow /\ r.at = log[d][n].at /\ Active(r)
    BY <1>1, <2>1, StartSound
  <2>4. log[d][n].job \notin Outcomes \cup {"graded"} /\ RestStays
    BY <1>2, PutRests DEF Start, Outcomes
  <2>5. Put(d, n, r)
    BY <1>2, <2>1 DEF Start, Taken
  <2> QED BY <1>1, <2>2, <2>4, <2>5, PutServed
<1>3. CASE BridgeDone(d, n)
  <2>1. PICK r : r = Gone(log[d][n])
    OBVIOUS
  <2>2. r \in SoundRow /\ r.at = log[d][n].at /\ r.status = log[d][n].status
    BY <1>1, <2>1 DEF Gone, SoundRow, Row, Jobs
  <2>3. log[d][n].job \notin Outcomes \cup {"graded"} /\ RestStays /\ Put(d, n, r)
    BY <1>3, <2>1, PutRests DEF BridgeDone, Outcomes
  <2> QED BY <1>1, <2>2, <2>3, PutServed
<1>4. CASE BridgeText(d, n)
  <2>1. PICK b \in Kinds : Grows(b)
    BY <1>4, BridgeGrows
  <2>2. sens' = sens /\ dropped' = dropped /\ AnnounceStays
    BY <1>4 DEF BridgeText, AnnounceStays
  <2>3. \A k \in Kinds : k # b /\ OnTheWay(k) => OnTheWay(k)'
    BY <1>4 DEF BridgeText, OnTheWay
  <2> QED BY <1>1, <2>1, <2>2, <2>3, GrowsServed
<1> QED BY <1>2, <1>3, <1>4, FinishServed, EmitServed, GradeServed DEF Work

\* Requests make nothing due,
LEMMA RequestServed ==
    ASSUME TypeInv, Ordered, Held, \A k \in Kinds : Served(k), ~Spend("queueDown"),
           RootAppend \/ RootHand \/ Commit \/ Reprocess
    PROVE  \A k \in Kinds : Served(k)'
<1>1. log \in SoundLog /\ clock \in Nat
  BY DEF TypeInv, TypeOK, SoundLog
<1>2. Roots[request.next] \in Kinds /\ request.n \in Nat \ {0}
  BY RootsAssumption, ElementOfSeq DEF TypeInv, TypeOK
<1>3. PICK k \in Kinds : k = Roots[request.next]
  BY <1>2
<1>4. UNCHANGED <<eval, dropped, sens>> /\ AnnounceStays
  BY DEF RootAppend, RootHand, Commit, Reprocess, AnnounceStays
<1>5. RestStays
  BY <1>4 DEF RestStays, OnTheWay
<1>6. CASE UNCHANGED log
  BY <1>5, <1>6, SameServed
<1>7. CASE RootAppend /\ Append1(k, "root")
  <2>1. Grows(k) /\ log' \in SoundLog
    BY <1>7, AppendGrows
  <2> QED BY <1>1, <1>4, <1>5, <2>1, GrowsServed DEF RestStays
<1>8. CASE RootHand /\ HandOver(k, request.n)
  <2>1. PICK n \in Nat \ {0} : n = request.n
    BY <1>2
  <2>2. n \in DOMAIN log[k] /\ log[k][n].job = "none"
    BY <1>3, <1>8, <2>1 DEF RootHand, Held, Handing
  <2>3. PICK r : r = [log[k][n] EXCEPT !.job = "waiting"]
    OBVIOUS
  <2>4. log[k][n] \in SoundRow
    BY <1>1, <2>2, RowsSound
  <2>5. r \in SoundRow
    BY <2>3, <2>4, JobSound DEF Jobs
  <2>6. r.at = log[k][n].at /\ r.status = log[k][n].status
    BY <2>3, <2>4 DEF SoundRow, Row
  <2>7. Put(k, n, r)
    BY <1>8, <2>1, <2>3 DEF HandOver
  <2>8. log[k][n].job \notin Outcomes \cup {"graded"}
    BY <2>2 DEF Outcomes
  <2> QED BY <1>1, <1>5, <2>2, <2>5, <2>6, <2>7, <2>8, PutServed
<1> QED BY <1>3, <1>6, <1>7, <1>8 DEF RootAppend, RootHand, Commit, Reprocess

\* nor do manual retries.
LEMMA RetryServed ==
    ASSUME TypeInv, Ordered, Held, \A k \in Kinds : Served(k), ~Spend("queueDown"),
           RetryAppend \/ RetryHand \/ \E j \in Kinds : Retry(j)
    PROVE  \A k \in Kinds : Served(k)'
<1>1. log \in SoundLog /\ clock \in Nat /\ manual.kind \in Kinds /\ manual.n \in Nat \ {0}
  BY DEF TypeInv, TypeOK, SoundLog
<1>2. PICK k \in Kinds : k = manual.kind
  BY <1>1
<1>3. UNCHANGED <<request, eval, dropped, sens>>
  BY DEF RetryAppend, RetryHand, Retry
<1>4. RestStays
  BY <1>3, PutRests
<1>5. CASE UNCHANGED log
  BY <1>4, <1>5, SameServed
<1>6. CASE Append1(k, "manual")
  <2>1. Grows(k) /\ log' \in SoundLog
    BY <1>6, AppendGrows
  <2> QED BY <1>1, <1>4, <2>1, GrowsServed DEF RestStays
<1>7. CASE RetryHand /\ HandOver(k, manual.n)
  <2>1. PICK n \in Nat \ {0} : n = manual.n
    BY <1>1
  <2>2. n \in DOMAIN log[k] /\ log[k][n].job = "none"
    BY <1>2, <1>7, <2>1 DEF RetryHand, Held, Handing
  <2>3. PICK r : r = [log[k][n] EXCEPT !.job = "waiting"]
    OBVIOUS
  <2>4. log[k][n] \in SoundRow
    BY <1>1, <2>2, RowsSound
  <2>5. r \in SoundRow
    BY <2>3, <2>4, JobSound DEF Jobs
  <2>6. r.at = log[k][n].at /\ r.status = log[k][n].status
    BY <2>3, <2>4 DEF SoundRow, Row
  <2>7. Put(k, n, r)
    BY <1>7, <2>1, <2>3 DEF HandOver
  <2>8. log[k][n].job \notin Outcomes \cup {"graded"}
    BY <2>2 DEF Outcomes
  <2> QED BY <1>1, <1>4, <2>2, <2>5, <2>6, <2>7, <2>8, PutServed
<1> QED BY <1>2, <1>5, <1>6, <1>7 DEF RetryAppend, RetryHand, Retry

(***************************************************************************)
(* The invariant                                                           *)
(***************************************************************************)
\* Only the evaluation of a gated kind gets to the guard.
LEMMA RoutedStep ==
    ASSUME TypeInv, Routed, [Next]_vars
    PROVE  Routed'
<1> SUFFICES ASSUME NEW k \in Kinds, eval'[k].pc = "route"
             PROVE  k \in Gated
  BY DEF Routed
<1>1. CASE eval[k].pc = "route"
  BY <1>1 DEF Routed
<1>2. CASE EvalRead(k) /\ k \notin Gated
  <2>1. Goto(k, "append") \/ Goto(k, "release")
    BY <1>2 DEF EvalRead
  <2> QED BY <2>1, GotoOthers
<1> QED BY <1>1, <1>2, PassesByRead

\* Every step leaves all served, unless it disturbs.
LEMMA MissedStep ==
    ASSUME WorkInv, [Next]_vars
    PROVE  NoMissedWork'
<1> SUFFICES ASSUME Undisturbed'
             PROVE  \A k \in Kinds : Served(k)'
  BY NoMissedIs
<1> USE DEF WorkInv
<1>1. Undisturbed /\ ~Spend("crash") /\ ~Spend("queueDown") /\ ~Spend("override")
  BY CalmStep
<1>2. \A k \in Kinds : Served(k)
  BY <1>1, NoMissedIs
<1>3. log' \in SoundLog
  BY LogStep DEF Quiet, Adds
<1>4. ASSUME NEW k \in Kinds, Evaluate(k)
      PROVE  \A j \in Kinds : Served(j)'
  BY <1>1, <1>2, <1>4, EvaluateServed
<1>5. ASSUME NEW k \in Kinds, NEW n \in DOMAIN log[k], Work(k, n)
      PROVE  \A j \in Kinds : Served(j)'
  BY <1>2, <1>3, <1>5, WorkServed
<1>6. CASE RootAppend \/ RootHand \/ Commit \/ Reprocess
  BY <1>1, <1>2, <1>6, RequestServed
<1>7. CASE RetryAppend \/ RetryHand \/ \E k \in Kinds : Retry(k)
  BY <1>1, <1>2, <1>7, RetryServed
<1>8. CASE Announce
  BY <1>2, <1>8, AnnounceServed
<1>9. ASSUME NEW h \in request.stale, Reclaim(h)
      PROVE  \A j \in Kinds : Served(j)'
  BY <1>2, <1>9, ReclaimServed
<1>10. CASE UNCHANGED vars
  BY <1>2, <1>10, SameServed, PutRests DEF vars
<1>11. ~Crash /\ \A t \in Tiers : ~Override(t)
  BY <1>1 DEF Crash, Override
<1> QED BY <1>4, <1>5, <1>6, <1>7, <1>8, <1>9, <1>10, <1>11 DEF Next, System, Outside

\* The invariant holds at the start.
LEMMA WorkInit ==
    ASSUME Init
    PROVE  WorkInv
<1>1. TypeInv
  BY TypeInit
<1>2. \A k \in Kinds : log[k] = <<>> /\ DOMAIN log[k] = {} /\ eval[k].pc = "idle"
  <2>1. \A k \in Kinds : log[k] = <<>> /\ eval[k].pc = "idle"
    BY DEF Init
  <2>2. log \in SoundLog
    BY <1>1 DEF TypeInv, SoundLog
  <2>3. \A k \in Kinds : DOMAIN log[k] = {}
    <3> TAKE k \in Kinds
    <3>1. DOMAIN log[k] = 1 .. Len(log[k])
      BY <2>2, Rows
    <3>2. Len(log[k]) = 0
      BY <2>1, EmptySeq
    <3> QED BY <3>1, <3>2
  <2> QED BY <2>1, <2>3
<1>3. manual.pc = "idle" /\ request.pc = "idle"
  BY DEF Init, Idle
<1>4. \A k \in Kinds : \A n : ~EvalHolds(k, n) /\ ~RetryHolds(k, n) /\ ~RootHolds(k, n)
  BY <1>2, <1>3 DEF EvalHolds, RetryHolds, RootHolds
<1>5. Held
  BY <1>4, HandingIs DEF Held
<1>6. Ordered /\ Routed /\ NoStrandedAttempt
  BY <1>2 DEF Ordered, Routed, NoStrandedAttempt
<1>7. Spared
  BY PipelineAssumption DEF Init, Spared
<1>8. \A k \in Kinds : ~Due(k)
  <2> TAKE k \in Kinds
  <2>1. \A e \in Deps : ~Has(e.kind) /\ ~Satisfies(e)
    BY <1>2, DepKinds DEF Satisfies, Has
  <2>2. Inputs(k) = {}
    BY <2>1 DEF Inputs, PlainDeps, Members
  <2> QED BY <2>2 DEF Due
<1>9. NoMissedWork
  BY <1>8 DEF NoMissedWork
<1> QED BY <1>1, <1>5, <1>6, <1>7, <1>9 DEF WorkInv

\* The invariant holds in every reachable state.
LEMMA WorkInvariant == Spec => []WorkInv
<1>1. Init => WorkInv
  BY WorkInit
<1>2. ASSUME WorkInv, [Next]_vars
      PROVE  WorkInv'
  <2>1. TypeInv' /\ Ordered'
    BY <1>2, TypeStep, OrderedStep DEF WorkInv
  <2>2. Held' /\ NoStrandedAttempt'
    BY <1>2, HeldStep DEF WorkInv
  <2>3. Routed' /\ Spared' /\ NoMissedWork'
    BY <1>2, RoutedStep, CalmStep, MissedStep DEF WorkInv
  <2> QED BY <2>1, <2>2, <2>3 DEF WorkInv
<1>3. WorkInv /\ [Next]_vars => WorkInv'
  BY <1>2
<1> QED BY <1>1, <1>3, PTL DEF Spec

\* NoStrandedAttempt: without a crash or a failing queue, a pending attempt is in the queue,
\* being run, or about to be handed over.
THEOREM NothingStranded == Spec => []NoStrandedAttempt
<1>1. WorkInv => NoStrandedAttempt
  BY DEF WorkInv
<1> QED BY <1>1, WorkInvariant, PTL

\* NoMissedWork: without a crash, a failing queue or an override, a kind that should run is
\* being evaluated or will be woken, unless its last wakeup met a busy evaluation.
THEOREM NothingMissed == Spec => []NoMissedWork
<1>1. WorkInv => NoMissedWork
  BY DEF WorkInv
<1> QED BY <1>1, WorkInvariant, PTL
=============================================================================
