------------------------ MODULE TopicDocumentsProofs ------------------------
(***************************************************************************)
(* Theorems about TopicDocuments, for any items, any number of versions    *)
(* kept and of tries, and every bound.                                     *)
(***************************************************************************)
EXTENDS TopicDocuments, TLAPS, FiniteSetTheorems, WellFoundedInduction

(***************************************************************************)
(* The inductive invariant                                                 *)
(***************************************************************************)
\* A job has runs left, is not done before it has generated, and generates of something;
JobOk(j) ==
    /\ j.pc = "none" => j = NoDocJob
    /\ j.pc # "none" => j.left # 0
    /\ j.pc \in {"waiting", "started", "empty", "generating"} => ~j.ok
    /\ j.pc = "generating" => j.sources # {}

\* what a job has read, a generation has read since it was assigned.
JobsStand == \A v \in Versions : JobOk(jobs[v]) /\ jobs[v].sources \subseteq seen.read

\* A row d beside its job j: what the job has come to says what the row says,
\* unless pruneOrphans or a prune has taken the row.
RowOk(d, j) ==
    /\ d.status = "none" => d = NoDoc
    /\ d.status = "succeeded" => d.sources # {}
    /\ j.pc \in {"started", "empty", "generating"} => d.status = "processing"
    /\ j.pc \in {"keeping", "pruning"} => j.ok
    /\ j.pc \in {"keeping", "pruning", "recheck", "ending"} =>
          IF j.ok THEN /\ d.status \in {"none", "succeeded"}
                       /\ d.status = "succeeded" => d.sources = j.sources
          ELSE d.status = "failed"

RowsStand == \A v \in Versions : RowOk(docs[v], jobs[v])

\* A request stands for its caller: a job waits for its own, the sweep is over.
RequestsStand ==
    /\ \A c \in Callers : requests[c].pc = "idle" => requests[c] = NoDocRequest
    /\ \A v \in Versions : requests[v].pc # "idle" => jobs[v].pc = "ending"
    /\ sweep => requests[Boot].pc = "idle"

\* A row that is about to be handed over is queued, without a job, and by one request.
HandsOver ==
    \A c \in Callers : requests[c].pc = "hand" =>
        /\ requests[c].version \in Versions
        /\ docs[requests[c].version].status = "queued"
        /\ jobs[requests[c].version].pc = "none"
        /\ \A d \in Callers \ {c} : requests[d].pc = "hand" =>
              requests[d].version # requests[c].version

InsertsAt == \A c \in Callers : requests[c].pc = "insert" => requests[c].version \in Versions

\* The timer is armed, or the event that arms it is to come.
Alarmed(i) == timer \/ tagging[i] = "tagged"

\* A run that found the topic empty was overtaken by items whose timer outlasts it.
EmptyWaits == (\E v \in Versions : jobs[v].pc = "empty") => \A i \in assigned : Alarmed(i)

\* Of a version that succeeded, or is being generated, since holds all it has not read.
SinceOk(d, j, items, read) ==
    /\ d.status = "succeeded" => items \ read \subseteq d.since /\ items \ d.sources \subseteq d.since
    /\ j.pc = "generating" => items \ read \subseteq d.since /\ items \ j.sources \subseteq d.since

SinceTold == \A v \in Versions : SinceOk(docs[v], jobs[v], assigned, seen.read)

\* From k on, enough written versions stay.
KeptAt(k) == Cardinality({w \in Written : w >= k}) >= Retention
Prunes == \A v \in Versions : jobs[v].pc = "pruning" => KeptAt(jobs[v].cutoff)

\* Until versions overlap, the newest one is the one that runs.
InOrder == ~seen.overtaken => \A v \in Versions : docs[v].status = "processing" => v = Latest

\* A row in flight that no job and no request will move.
Lost(v) == /\ docs[v].status \in {"queued", "processing"} /\ jobs[v].pc = "none"
           /\ \A c \in Callers : requests[c].pc = "hand" => requests[c].version # v

\* A request that will insert a row, or hand one over;
Asking(c) == \/ requests[c].pc \in {"check", "count", "hand"}
             \/ requests[c].pc = "insert" /\ docs[requests[c].version] = NoDoc
\* a job that will read the items, or is overtaken by what is read later;
Reading(d, j) == \/ j.pc = "waiting" /\ d.status \in {"queued", "processing", "failed"}
                 \/ j.pc \in {"started", "generating"}
\* a job that will look at the items again.
Rechecking(j) == j.pc \in {"keeping", "pruning", "recheck"}

\* Somebody will read item i yet, or has to answer for it; only the jobs of V look again.
Due(i, V) ==
    \/ Alarmed(i) \/ sweep \/ seen.skipped
    \/ \E c \in Callers : Asking(c)
    \/ \E v \in Versions : Lost(v) \/ Reading(docs[v], jobs[v])
    \/ \E v \in V : Rechecking(jobs[v])

UnreadDue == \A i \in assigned \ seen.read : Due(i, Versions)

NewestRow == {v \in Versions : v = Latest}

\* The newest version holds the item, or failed.
Covers(d, i) == d.status = "failed" \/ (d.status = "succeeded" /\ i \in d.sources)
UncoveredDue ==
    ~seen.overtaken =>
        \A i \in assigned : Due(i, NewestRow) \/ \E v \in NewestRow : Covers(docs[v], i)

Settles == UnreadDue /\ UncoveredDue
LiveInv == /\ RowsStand /\ RequestsStand /\ HandsOver /\ InsertsAt /\ EmptyWaits /\ SinceTold
           /\ Prunes /\ InOrder /\ Settles
TopicInv == TopicTypeOK /\ JobsStand /\ (topic # "deleted" => LiveInv)
-----------------------------------------------------------------------------
(* Least and greatest numbers, and the versions a prune keeps. *)

\* A set of numbers has a least one,
LEMMA LeastIs ==
    ASSUME NEW S \in SUBSET Nat, S # {}
    PROVE  \E m \in S : \A y \in S : m <= y
<1>1. PICK m \in S : \A y \in S : ~(<<y, m>> \in OpToRel(<, Nat))
  BY NatLessThanWellFounded, WFMin
<1>2. \A y \in S : ~(y < m)
  BY <1>1 DEF OpToRel
<1> QED
  BY <1>2

\* so a bounded one has a greatest.
LEMMA MaxIs ==
    ASSUME NEW n \in Nat, NEW S \in SUBSET (0 .. n), S # {}
    PROVE  Max(S) \in S /\ \A y \in S : y <= Max(S)
<1> DEFINE U == {n - x : x \in S}
<1>1. U \in SUBSET Nat /\ U # {}
  <2>1. \A x \in S : n - x \in Nat
    OBVIOUS
  <2> QED
    BY <2>1
<1>2. PICK m \in U : \A y \in U : m <= y
  <2> HIDE DEF U
  <2> QED
    BY <1>1, LeastIs
<1>3. PICK x \in S : m = n - x
  BY <1>2
<1>4. \A y \in S : x >= y
  <2> SUFFICES ASSUME NEW y \in S PROVE x >= y
    OBVIOUS
  <2>1. m <= n - y
    BY <1>2
  <2> QED
    BY <1>3, <2>1
<1> QED
  BY <1>4 DEF Max

\* The members of S from x on.
From(S, x) == {w \in S : w >= x}

\* Of a bounded set with at least r members, r are as great as some member.
LEMMA KeptIs ==
    ASSUME NEW n \in Nat, NEW S \in SUBSET (1 .. n), NEW r \in Nat \ {0}, Cardinality(S) >= r
    PROVE  \E k \in S : Cardinality(From(S, k)) = r
<1> DEFINE Above(k) == {w \in S : w >= k}
           K == {k \in 0 .. n : Cardinality(Above(k)) >= r}
<1>0. \A w \in S : w \in Nat /\ w <= n
  OBVIOUS
<1>1. IsFiniteSet(S)
  <2>1. IsFiniteSet(1 .. n)
    BY FS_Interval
  <2> QED
    BY <2>1, FS_Subset
<1>2. \A k \in Nat : IsFiniteSet(Above(k)) /\ Cardinality(Above(k)) \in Nat
  BY <1>1, FS_Subset, FS_CardinalityType
<1>3. 0 \in K
  <2>1. \A w \in S : w >= 0
    BY <1>0
  <2>2. Above(0) = S
    BY <2>1
  <2> QED
    BY <2>2
<1>4. Max(K) \in K /\ \A y \in K : y <= Max(K)
  <2>1. K \in SUBSET (0 .. n) /\ K # {}
    BY <1>3
  <2> HIDE DEF K
  <2> QED
    BY <2>1, MaxIs
<1> DEFINE k == Max(K)
<1>5. k \in 0 .. n /\ Cardinality(Above(k)) >= r /\ \A y \in 0 .. n : y > k => y \notin K
  <2>1. k \in 0 .. n /\ Cardinality(Above(k)) >= r
    BY <1>4
  <2>2. \A y \in K : y <= k
    BY <1>4
  <2> HIDE DEF K, k
  <2> QED
    BY <2>1, <2>2
<1> HIDE DEF k
<1>6. Cardinality(Above(k + 1)) < r
  <2>1. CASE k = n
    <3>1. Above(k + 1) = {}
      <4>1. \A w \in S : ~(w >= k + 1)
        BY <1>0, <2>1
      <4> QED
        BY <4>1
    <3>2. Cardinality(Above(k + 1)) = 0
      BY <3>1, FS_EmptySet
    <3> QED
      BY <3>2
  <2>2. CASE k # n
    <3>1. k + 1 \in 0 .. n
      BY <1>5, <2>2
    <3>3. k + 1 \notin K
      <4> HIDE DEF K
      <4> QED
        BY <1>5, <3>1
    <3>2. ~(Cardinality(Above(k + 1)) >= r)
      BY <3>1, <3>3
    <3>4. Cardinality(Above(k + 1)) \in Nat
      BY <1>2, <1>5
    <3> HIDE DEF Above
    <3> QED
      BY <3>2, <3>4
  <2> QED
    BY <2>1, <2>2
<1> HIDE DEF K
<1>7. k \in S
  <2> SUFFICES ASSUME k \notin S PROVE FALSE
    OBVIOUS
  <2>1. Above(k) = Above(k + 1)
    <3>1. \A w \in S : w >= k <=> w >= k + 1
      BY <1>0, <1>5
    <3> QED
      BY <3>1
  <2> QED
    BY <1>2, <1>5, <1>6, <2>1
<1>8. Above(k) = Above(k + 1) \cup {k} /\ k \notin Above(k + 1)
  <2>1. \A w \in S : w >= k <=> w >= k + 1 \/ w = k
    BY <1>0, <1>5
  <2>2. ~(k >= k + 1) /\ k >= k
    BY <1>5
  <2> QED
    BY <1>7, <2>1, <2>2
<1>9. Cardinality(Above(k)) = Cardinality(Above(k + 1)) + 1
  <2>1. IsFiniteSet(Above(k + 1))
    BY <1>2, <1>5
  <2> HIDE DEF Above
  <2> QED
    BY <1>8, <2>1, FS_AddElement
<1>10. Cardinality(Above(k)) = r
  <2> Cardinality(Above(k + 1)) \in Nat
    BY <1>2, <1>5
  <2> HIDE DEF Above
  <2> QED
    BY <1>5, <1>6, <1>9
<1> QED
  BY <1>7, <1>10 DEF From
-----------------------------------------------------------------------------
(* The lemmas the steps share. *)

\* The empty row, job and request are ones.
LEMMA NoneIs ==
    ASSUME TopicAssumption
    PROVE  /\ NoDoc \in Doc /\ NoDocJob \in DocJob /\ NoDocRequest \in DocRequest
           /\ NoDoc.status = "none" /\ NoDoc.sources = {} /\ NoDoc.since = {}
           /\ NoDocJob.pc = "none" /\ NoDocJob.sources = {} /\ NoDocJob.left = 0
           /\ NoDocJob.ok = FALSE
           /\ NoDocRequest.pc = "idle" /\ NoDocRequest.version = 0
BY DEF TopicAssumption, NoDoc, Doc, NoDocJob, DocJob, NoDocRequest, DocRequest

\* The callers of enqueueRegeneration are told apart.
LEMMA CallersAre ==
    ASSUME TopicAssumption
    PROVE  /\ Versions \subseteq Callers /\ {Debounce, User, Boot} \subseteq Callers
           /\ Debounce \notin Versions /\ User \notin Versions /\ Boot \notin Versions
           /\ Debounce # User /\ Debounce # Boot /\ User # Boot
           /\ Versions \subseteq Nat /\ 0 \notin Versions
BY DEF TopicAssumption, Versions, Callers, Debounce, User, Boot

\* There are finitely many versions.
LEMMA VersionsFinite == ASSUME TopicAssumption PROVE IsFiniteSet(Versions)
BY FS_Interval DEF TopicAssumption, Versions

\* The newest version of a table is its highest number.
IsNewest(D, L) ==
    /\ L \in 0 .. MaxVersions /\ (L # 0 => L \in Versions /\ D[L].status # "none")
    /\ \A v \in Versions : D[v].status # "none" => v <= L

\* Latest is that number,
LEMMA NewestIs ==
    ASSUME TopicAssumption, NEW D \in [Versions -> Doc], NEW L,
           L = Max({v \in Versions : D[v].status \in {"queued", "processing", "succeeded", "failed"}}
                   \cup {0})
    PROVE  IsNewest(D, L)
<1> DEFINE S == {v \in Versions : D[v].status \in {"queued", "processing", "succeeded", "failed"}}
                \cup {0}
<1>1. S \in SUBSET (0 .. MaxVersions) /\ S # {} /\ MaxVersions \in Nat
  BY DEF TopicAssumption, Versions
<1>2. L \in S /\ \A y \in S : y <= L
  <2> HIDE DEF S
  <2>1. L = Max(S)
    BY DEF S
  <2> QED
    BY <1>1, <2>1, MaxIs
<1>3. \A v \in Versions : D[v].status # "none" => v \in S
  BY DEF Doc
<1>4. L # 0 => L \in Versions /\ D[L].status # "none"
  BY <1>2
<1> HIDE DEF S
<1> QED
  BY <1>1, <1>2, <1>3, <1>4 DEF IsNewest

\* now
LEMMA LatestIs == ASSUME TopicAssumption, docs \in [Versions -> Doc] PROVE IsNewest(docs, Latest)
<1>1. Latest = Max({v \in Versions : docs[v].status \in {"queued", "processing", "succeeded",
                                                         "failed"}} \cup {0})
  BY DEF Latest, Rows
<1> QED
  BY <1>1, NewestIs

\* and after a step,
LEMMA LatestWillBe ==
    ASSUME TopicAssumption, docs' \in [Versions -> Doc] PROVE IsNewest(docs', Latest')
<1>1. Latest' = Max({v \in Versions : docs'[v].status \in {"queued", "processing", "succeeded",
                                                           "failed"}} \cup {0})
  BY DEF Latest, Rows
<1> QED
  BY <1>1, NewestIs

\* and there is one.
LEMMA OneNewest ==
    ASSUME TopicAssumption, NEW D, NEW L, NEW M, IsNewest(D, L), IsNewest(D, M)
    PROVE  L = M
BY DEF IsNewest, Versions, TopicAssumption

\* Latest stays while the same versions have rows, or only older ones go.
LEMMA LatestStays ==
    ASSUME TopicAssumption, docs \in [Versions -> Doc], docs' \in [Versions -> Doc],
           \A v \in Versions : docs'[v].status # "none" => docs[v].status # "none",
           \A v \in Versions : docs[v].status # "none" /\ docs'[v].status = "none" =>
              \E w \in Versions : w > v /\ docs[w].status # "none"
    PROVE  Latest' = Latest /\ NewestRow' = NewestRow
<1>1. IsNewest(docs, Latest) /\ IsNewest(docs', Latest')
  BY LatestIs, LatestWillBe
<1>2. IsNewest(docs', Latest)
  <2>1. Latest \in 0 .. MaxVersions /\ \A v \in Versions : docs'[v].status # "none" => v <= Latest
    BY <1>1 DEF IsNewest
  <2>2. ASSUME Latest # 0 PROVE Latest \in Versions /\ docs'[Latest].status # "none"
    <3>1. Latest \in Versions /\ docs[Latest].status # "none"
      BY <1>1, <2>2 DEF IsNewest
    <3>2. \A w \in Versions : docs[w].status # "none" => ~(w > Latest)
      BY <1>1, <3>1, CallersAre DEF IsNewest
    <3> QED
      BY <3>1, <3>2
  <2> QED
    BY <2>1, <2>2 DEF IsNewest
<1>3. Latest' = Latest
  BY <1>1, <1>2, OneNewest
<1> QED
  BY <1>3 DEF NewestRow

\* Written versions stay written, or give way to as many newer ones.
LEMMA KeptStays ==
    ASSUME TopicAssumption, NEW k, KeptAt(k), Written \subseteq Written'
    PROVE  KeptAt(k)'
<1>1. {w \in Written : w >= k} \in SUBSET {w \in Written' : w >= k}
  OBVIOUS
<1>2. IsFiniteSet({w \in Written' : w >= k})
  <2>1. {w \in Written' : w >= k} \in SUBSET Versions
    BY DEF Written
  <2> QED
    BY <2>1, VersionsFinite, FS_Subset
<1>3. Cardinality({w \in Written : w >= k}) <= Cardinality({w \in Written' : w >= k})
  BY <1>1, <1>2, FS_Subset
<1>4. /\ Cardinality({w \in Written : w >= k}) \in Nat
      /\ Cardinality({w \in Written' : w >= k}) \in Nat
  BY <1>1, <1>2, FS_Subset, FS_CardinalityType
<1> QED
  BY <1>3, <1>4 DEF KeptAt, TopicAssumption

\* The parts of the invariant: while the topic is there,
LEMMA LiveParts ==
    ASSUME TopicInv, topic # "deleted"
    PROVE  /\ RowsStand /\ RequestsStand /\ HandsOver /\ InsertsAt /\ EmptyWaits /\ SinceTold
           /\ Prunes /\ InOrder /\ UnreadDue /\ UncoveredDue
BY DEF TopicInv, LiveInv, Settles

\* and always.
LEMMA TypeParts ==
    ASSUME TopicInv
    PROVE  /\ topic \in {"active", "archived", "deleted"} /\ assigned \subseteq Items
           /\ tagging \in [Items -> {"idle", "known", "unknown", "tagged"}]
           /\ timer \in BOOLEAN /\ sweep \in BOOLEAN
           /\ requests \in [Callers -> DocRequest] /\ docs \in [Versions -> Doc]
           /\ jobs \in [Versions -> DocJob] /\ seen \in TopicHistory
           /\ tags \in 0 .. MaxTags /\ others \in 0 .. MaxOthers
           /\ JobsStand
BY DEF TopicInv, TopicTypeOK

\* What a step of one job, with its row, must keep.
JobKeeps(v, j, d, read, overtaken) ==
    /\ RowOk(d, j) /\ SinceOk(d, j, assigned, read)
    /\ d.status = "none" <=> docs[v].status = "none"
    /\ docs[v].sources # {} => d.sources # {}
    /\ requests[v].pc # "idle" => j.pc = "ending"
    /\ j.pc = "empty" => \A i \in assigned : Alarmed(i)
    /\ j.pc = "pruning" => KeptAt(j.cutoff)
    /\ ~overtaken /\ d.status = "processing" => v = Latest
    /\ \A i \in assigned \ read :
          Reading(docs[v], jobs[v]) \/ Rechecking(jobs[v]) => Reading(d, j) \/ Rechecking(j)
    /\ ~overtaken =>
          \A i \in assigned :
             Reading(docs[v], jobs[v])
             \/ (v = Latest /\ (Rechecking(jobs[v]) \/ Covers(docs[v], i))) =>
                Reading(d, j) \/ (v = Latest /\ (Rechecking(j) \/ Covers(d, i)))

\* Such a step keeps the invariant.
LEMMA DocJobMoves ==
    ASSUME TopicAssumption, TopicInv, TopicTypeOK',
           NEW v \in Versions, NEW j \in DocJob, NEW d \in Doc,
           jobs' = [jobs EXCEPT ![v] = j], docs' = [docs EXCEPT ![v] = d],
           UNCHANGED <<topic, assigned, tagging, timer, sweep, requests>>,
           seen'.skipped = seen.skipped, seen.read \subseteq seen'.read,
           seen.overtaken => seen'.overtaken,
           jobs[v].pc # "none", JobOk(j), j.sources \subseteq seen'.read,
           topic # "deleted" => JobKeeps(v, j, d, seen'.read, seen'.overtaken)
    PROVE  TopicInv'
<1>1. /\ jobs'[v] = j /\ docs'[v] = d
      /\ \A w \in Versions \ {v} : jobs'[w] = jobs[w] /\ docs'[w] = docs[w]
  BY TypeParts
<1>2. JobsStand'
  BY <1>1, TypeParts DEF JobsStand
<1>3. ASSUME topic # "deleted" PROVE LiveInv'
  <2>1. JobKeeps(v, j, d, seen'.read, seen'.overtaken)
    BY <1>3
  <2>2. /\ RowsStand /\ RequestsStand /\ HandsOver /\ InsertsAt /\ EmptyWaits /\ SinceTold
        /\ Prunes /\ InOrder /\ UnreadDue /\ UncoveredDue
    BY <1>3, LiveParts
  <2>3. Latest' = Latest /\ NewestRow' = NewestRow
    <3>1. \A w \in Versions : docs'[w].status = "none" <=> docs[w].status = "none"
      BY <1>1, <2>1 DEF JobKeeps
    <3>2. docs \in [Versions -> Doc] /\ docs' \in [Versions -> Doc]
      BY TypeParts DEF TopicTypeOK
    <3> QED
      BY <3>1, <3>2, LatestStays
  <2>4. RowsStand'
    BY <1>1, <2>1, <2>2 DEF RowsStand, JobKeeps
  <2>5. RequestsStand'
    BY <1>1, <2>1, <2>2 DEF RequestsStand, JobKeeps
  <2>6. HandsOver' /\ InsertsAt'
    BY <1>1, <2>2 DEF HandsOver, InsertsAt
  <2>7. EmptyWaits'
    BY <1>1, <2>1, <2>2 DEF EmptyWaits, JobKeeps, Alarmed
  <2>8. SinceTold'
    <3>1. ASSUME NEW w \in Versions \ {v} PROVE SinceOk(docs[w], jobs[w], assigned, seen'.read)
      BY <2>2 DEF SinceTold, SinceOk
    <3> QED
      BY <1>1, <2>1, <3>1 DEF SinceTold, JobKeeps
  <2>9. Prunes'
    <3>1. Written \subseteq Written'
      BY <1>1, <2>1 DEF Written, JobKeeps
    <3>2. \A w \in Versions : jobs'[w].pc = "pruning" => KeptAt(jobs'[w].cutoff)
      BY <1>1, <2>1, <2>2 DEF Prunes, JobKeeps
    <3> QED
      BY <3>1, <3>2, KeptStays DEF Prunes
  <2>10. InOrder'
    BY <1>1, <2>1, <2>2, <2>3 DEF InOrder, JobKeeps
  <2>11. \A w \in Versions : Lost(w) => w # v /\ Lost(w)'
    BY <1>1 DEF Lost
  <2>12. \A c \in Callers : Asking(c) => Asking(c)'
    <3>1. docs[v] = NoDoc => d = NoDoc
      BY <2>1, NoneIs DEF JobKeeps, RowOk
    <3> QED
      BY <1>1, <2>2, <3>1 DEF Asking, InsertsAt
  <2>13. UnreadDue'
    <3> SUFFICES ASSUME NEW i \in assigned \ seen'.read PROVE Due(i, Versions)'
      BY DEF UnreadDue
    <3>1. Due(i, Versions)
      BY <2>2 DEF UnreadDue
    <3>2. Reading(docs[v], jobs[v]) \/ Rechecking(jobs[v]) => Reading(d, j) \/ Rechecking(j)
      BY <2>1 DEF JobKeeps
    <3> QED
      BY <1>1, <2>11, <2>12, <3>1, <3>2 DEF Due, Alarmed
  <2>14. UncoveredDue'
    <3> SUFFICES ASSUME ~seen'.overtaken, NEW i \in assigned
                 PROVE  Due(i, NewestRow)' \/ \E w \in NewestRow' : Covers(docs'[w], i)
      BY DEF UncoveredDue
    <3>1. Due(i, NewestRow) \/ \E w \in NewestRow : Covers(docs[w], i)
      BY <2>2 DEF UncoveredDue
    <3>2. Reading(docs[v], jobs[v])
          \/ (v = Latest /\ (Rechecking(jobs[v]) \/ Covers(docs[v], i))) =>
             Reading(d, j) \/ (v = Latest /\ (Rechecking(j) \/ Covers(d, i)))
      BY <2>1 DEF JobKeeps
    <3>3. \A w \in Versions : w \in NewestRow <=> w = Latest
      BY DEF NewestRow
    <3>4. NewestRow \subseteq Versions
      BY DEF NewestRow
    <3> QED
      BY <1>1, <2>3, <2>11, <2>12, <3>1, <3>2, <3>3, <3>4 DEF Due, Alarmed
  <2> QED
    BY <2>4, <2>5, <2>6, <2>7, <2>8, <2>9, <2>10, <2>13, <2>14 DEF LiveInv, Settles
<1> QED
  BY <1>2, <1>3 DEF TopicInv

\* A step of one request that hands nothing over.
LEMMA AskerMoves ==
    ASSUME TopicAssumption, TopicInv, TopicTypeOK', NEW c \in Callers, NEW r \in DocRequest,
           requests' = [requests EXCEPT ![c] = r],
           UNCHANGED <<topic, assigned, jobs>>, topic # "deleted" => docs' = docs,
           seen'.read = seen.read, seen'.overtaken = seen.overtaken,
           topic # "deleted" =>
              /\ r.pc \in {"idle", "check", "count", "insert"} /\ (r.pc = "idle" => r = NoDocRequest)
              /\ r.pc = "insert" => r.version \in Versions
              /\ c \in Versions => r.pc = "idle" \/ jobs[c].pc = "ending"
              /\ sweep' => sweep /\ (c = Boot => r.pc = "idle")
              /\ EmptyWaits' /\ Settles'
    PROVE  TopicInv'
<1>1. requests'[c] = r /\ \A d \in Callers \ {c} : requests'[d] = requests[d]
  BY TypeParts
<1>2. JobsStand'
  BY TypeParts DEF JobsStand
<1>3. ASSUME topic # "deleted" PROVE LiveInv'
  <2>1. /\ RowsStand /\ RequestsStand /\ HandsOver /\ InsertsAt /\ SinceTold
        /\ Prunes /\ InOrder
    BY <1>3, LiveParts
  <2>2. /\ docs' = docs /\ EmptyWaits' /\ Settles'
        /\ r.pc \in {"idle", "check", "count", "insert"} /\ (r.pc = "idle" => r = NoDocRequest)
        /\ r.pc = "insert" => r.version \in Versions
        /\ c \in Versions => r.pc = "idle" \/ jobs[c].pc = "ending"
        /\ sweep' => sweep /\ (c = Boot => r.pc = "idle")
    BY <1>3
  <2>3. RowsStand' /\ SinceTold' /\ Prunes' /\ InOrder'
    BY <2>1, <2>2 DEF RowsStand, SinceTold, Prunes, KeptAt, Written, InOrder, Latest, Rows
  <2>4. RequestsStand'
    BY <1>1, <2>1, <2>2, CallersAre DEF RequestsStand
  <2>5. HandsOver' /\ InsertsAt'
    BY <1>1, <2>1, <2>2 DEF HandsOver, InsertsAt
  <2> QED
    BY <2>2, <2>3, <2>4, <2>5 DEF LiveInv
<1> QED
  BY <1>2, <1>3 DEF TopicInv

\* While somebody asks, an alarm is set, or a version is to be read or lost, everything is due.
LEMMA AllDueNext ==
    ASSUME \/ \E c \in Callers : Asking(c)'
           \/ \E v \in Versions : Lost(v)' \/ Reading(docs'[v], jobs'[v])
           \/ timer' \/ sweep' \/ seen'.skipped
    PROVE  Settles'
BY DEF Settles, UnreadDue, UncoveredDue, Due, Alarmed

\* Nobody need ask about i: an alarm, a hand-over or a reading is to come.
Tracked(i) ==
    \/ Alarmed(i)
    \/ \E c \in Callers : requests[c].pc = "hand"
    \/ \E v \in Versions : Lost(v) \/ Reading(docs[v], jobs[v])

\* So it is while a version is in flight: a request may leave the items to it.
LEMMA InFlightTracked ==
    ASSUME TopicAssumption, TopicInv, topic # "deleted", NEW v \in InFlight, NEW i \in assigned
    PROVE  Tracked(i)
<1>1. v \in Versions /\ docs[v].status \in {"queued", "processing"}
  BY DEF InFlight, Rows
<1>2. jobs[v] \in DocJob /\ RowOk(docs[v], jobs[v])
  BY <1>1, TypeParts, LiveParts DEF RowsStand
<1>3. jobs[v].pc \in {"none", "waiting", "started", "empty", "generating"}
  BY <1>1, <1>2 DEF DocJob, RowOk
<1>4. CASE jobs[v].pc = "none"
  BY <1>1, <1>4 DEF Tracked, Lost
<1>5. CASE jobs[v].pc = "empty"
  BY <1>1, <1>5, LiveParts DEF EmptyWaits, Tracked
<1>6. CASE jobs[v].pc \in {"waiting", "started", "generating"}
  BY <1>1, <1>6 DEF Tracked, Reading
<1> QED
  BY <1>3, <1>4, <1>5, <1>6
-----------------------------------------------------------------------------
(* The taxonomy, and the classification of items. *)

\* Steps of the taxonomy.
LEMMA AlarmsMove ==
    ASSUME TopicAssumption, TopicInv, TopicTypeOK',
           topic' # "deleted" => topic # "deleted" /\ assigned' = assigned,
           \A i \in assigned : Alarmed(i) => Alarmed(i)',
           UNCHANGED <<sweep, requests, docs, jobs, seen>>
    PROVE  TopicInv'
<1>1. JobsStand'
  BY TypeParts DEF JobsStand
<1>2. ASSUME topic' # "deleted" PROVE LiveInv'
  <2>1. /\ RowsStand /\ RequestsStand /\ HandsOver /\ InsertsAt /\ EmptyWaits /\ SinceTold
        /\ Prunes /\ InOrder /\ UnreadDue /\ UncoveredDue
    BY <1>2, LiveParts
  <2>2. assigned' = assigned
    BY <1>2
  <2>3. RowsStand' /\ RequestsStand' /\ HandsOver' /\ InsertsAt'
    BY <2>1 DEF RowsStand, RequestsStand, HandsOver, InsertsAt
  <2>4. EmptyWaits'
    BY <2>1, <2>2 DEF EmptyWaits
  <2>5. SinceTold' /\ Prunes' /\ InOrder'
    BY <2>1, <2>2 DEF SinceTold, Prunes, KeptAt, Written, InOrder, Latest, Rows
  <2>6. NewestRow' = NewestRow
    BY DEF NewestRow, Latest, Rows
  <2>7. \A i \in assigned, V \in SUBSET Versions : Due(i, V) => Due(i, V)'
    BY DEF Due, Asking, Lost
  <2>8. UnreadDue'
    BY <2>1, <2>2, <2>7 DEF UnreadDue
  <2>9. UncoveredDue'
    <3> SUFFICES ASSUME ~seen'.overtaken, NEW i \in assigned
                 PROVE  Due(i, NewestRow)' \/ \E v \in NewestRow' : Covers(docs'[v], i)
      BY <2>2 DEF UncoveredDue
    <3>1. Due(i, NewestRow) \/ \E v \in NewestRow : Covers(docs[v], i)
      BY <2>1 DEF UncoveredDue
    <3>2. Due(i, NewestRow) => Due(i, NewestRow)'
      BY <2>6 DEF Due, Asking, Lost
    <3> QED
      BY <2>6, <3>1, <3>2
  <2> QED
    BY <2>3, <2>4, <2>5, <2>8, <2>9 DEF LiveInv, Settles
<1> QED
  BY <1>1, <1>2 DEF TopicInv

\* EditTopic drops the assignments with the topic, or leaves them.
LEMMA EditTopicStep ==
    ASSUME TopicAssumption, TopicInv, NEW to \in {"active", "archived", "deleted"}, EditTopic(to)
    PROVE  TopicInv'
<1>1. TopicTypeOK'
  BY TypeParts DEF EditTopic, TopicTypeOK, alarms, TopicAssumption, TopicInv
<1> QED
  BY <1>1, AlarmsMove DEF EditTopic, alarms, Alarmed

\* A classification that begins disarms nothing,
LEMMA ClassifyStep ==
    ASSUME TopicAssumption, TopicInv, NEW i \in Items, Classify(i) PROVE TopicInv'
<1>1. tagging' = [tagging EXCEPT ![i] = Known] /\ Known \in {"known", "unknown"}
  BY DEF Classify, Known
<1>2. TopicTypeOK'
  BY <1>1, TypeParts DEF Classify, TopicTypeOK, alarms, TopicAssumption, TopicInv
<1>3. \A q \in Items : tagging[q] = "tagged" => tagging'[q] = "tagged"
  BY <1>1, TypeParts DEF Classify
<1> QED
  BY <1>2, <1>3, AlarmsMove, TypeParts DEF Classify, alarms, Alarmed

\* and the event it ends with arms the timer.
LEMMA OnTopicsAssignedStep ==
    ASSUME TopicAssumption, TopicInv, NEW i \in Items, OnTopicsAssigned(i) PROVE TopicInv'
<1>1. TopicTypeOK'
  BY TypeParts DEF OnTopicsAssigned, TopicTypeOK, TopicInv, spent
<1> QED
  BY <1>1, AlarmsMove DEF OnTopicsAssigned, Alarmed

\* An assignment is told to every row, and its event is to come.
LEMMA AssignStep ==
    ASSUME TopicAssumption, TopicInv, NEW i \in Items, NEW lands \in BOOLEAN, Assign(i, lands)
    PROVE  TopicInv'
<1>1. /\ assigned' = IF lands THEN assigned \cup {i} ELSE assigned \ {i}
      /\ tagging' = [tagging EXCEPT ![i] = IF lands THEN "tagged" ELSE "idle"]
      /\ UNCHANGED <<topic, timer, sweep, requests, jobs, tags, others>>
  BY DEF Assign, alarms, spent
<1>2. /\ docs' \in [Versions -> Doc]
      /\ \A v \in Versions : /\ docs'[v].status = docs[v].status
                             /\ docs'[v].sources = docs[v].sources
                             /\ docs[v].since \subseteq docs'[v].since
                             /\ lands /\ docs[v] # NoDoc => i \in docs'[v].since
                             /\ docs[v] = NoDoc => docs'[v] = NoDoc
  <2>1. docs' = [v \in Versions |->
                   IF lands /\ docs[v] # NoDoc THEN [docs[v] EXCEPT !.since = @ \cup {i}]
                   ELSE docs[v]]
    BY DEF Assign
  <2>2. ASSUME NEW d \in Doc
        PROVE  LET e == [d EXCEPT !.since = @ \cup {i}] IN
               e \in Doc /\ e.status = d.status /\ e.sources = d.sources
               /\ e.since = d.since \cup {i}
    BY DEF Doc
  <2> QED
    BY <2>1, <2>2, TypeParts
<1>3. /\ seen' \in TopicHistory /\ seen'.overtaken = seen.overtaken
      /\ seen'.skipped = seen.skipped
      /\ seen'.read \subseteq seen.read /\ seen.read \ {i} \subseteq seen'.read
      /\ (\E v \in Versions : i \in jobs[v].sources) => seen'.read = seen.read
  <2>1. seen \in TopicHistory
    BY TypeParts
  <2>2. CASE \E v \in Versions : i \in jobs[v].sources
    BY <2>1, <2>2 DEF Assign, TopicHistory
  <2>3. CASE ~\E v \in Versions : i \in jobs[v].sources
    BY <2>1, <2>3 DEF Assign, TopicHistory
  <2> QED
    BY <2>2, <2>3
<1>4. TopicTypeOK'
  BY <1>1, <1>2, <1>3, TypeParts DEF TopicTypeOK, TopicInv
<1>5. JobsStand'
  BY <1>1, <1>3, TypeParts DEF JobsStand
<1>6. ASSUME topic # "deleted" PROVE LiveInv'
  <2>1. /\ RowsStand /\ RequestsStand /\ HandsOver /\ InsertsAt /\ EmptyWaits /\ SinceTold
        /\ Prunes /\ InOrder /\ UnreadDue /\ UncoveredDue
    BY <1>6, LiveParts
  <2>2. Latest' = Latest /\ NewestRow' = NewestRow
    BY <1>2, LatestStays, TypeParts
  <2>3. RowsStand' /\ RequestsStand' /\ HandsOver' /\ InsertsAt'
    BY <1>1, <1>2, <2>1 DEF RowsStand, RowOk, RequestsStand, HandsOver, InsertsAt
  <2>4. lands => Alarmed(i)'
    BY <1>1, TypeParts DEF Alarmed
  <2>5. \A q \in assigned' : q # i => q \in assigned /\ (Alarmed(q) => Alarmed(q)')
    BY <1>1, TypeParts DEF Alarmed
  <2>6. i \in assigned' => lands
    BY <1>1
  <2>7. EmptyWaits'
    BY <1>1, <2>1, <2>4, <2>5, <2>6 DEF EmptyWaits
  <2>8. SinceTold'
    <3> SUFFICES ASSUME NEW v \in Versions PROVE SinceOk(docs'[v], jobs[v], assigned', seen'.read)
      BY <1>1 DEF SinceTold
    <3>1. SinceOk(docs[v], jobs[v], assigned, seen.read) /\ RowOk(docs[v], jobs[v])
      BY <2>1 DEF SinceTold, RowsStand
    <3>2. docs[v].status \in {"succeeded", "processing"} => docs[v] # NoDoc
      BY NoneIs
    <3> QED
      BY <1>2, <1>3, <2>5, <2>6, <3>1, <3>2 DEF SinceOk, RowOk
  <2>9. Prunes' /\ InOrder'
    <3>1. Written' = Written
      BY <1>2 DEF Written
    <3> QED
      BY <1>1, <1>2, <1>3, <2>1, <2>2, <3>1 DEF Prunes, KeptAt, InOrder
  <2>10. ASSUME NEW q \in assigned', q # i, NEW V, Due(q, V) PROVE Due(q, V)'
    BY <1>1, <1>2, <1>3, <2>1, <2>5, <2>10 DEF Due, Asking, Lost, Reading, InsertsAt
  <2>11. \A V : i \in assigned' => Due(i, V)'
    BY <2>4, <2>6 DEF Due
  <2>12. UnreadDue'
    <3> SUFFICES ASSUME NEW q \in assigned' \ seen'.read PROVE Due(q, Versions)'
      BY DEF UnreadDue
    <3>1. CASE q = i
      BY <3>1, <2>11
    <3>2. CASE q # i
      <4>1. q \in assigned \ seen.read
        BY <1>3, <2>5, <3>2
      <4>2. Due(q, Versions)
        BY <2>1, <4>1 DEF UnreadDue
      <4> QED
        BY <2>10, <3>2, <4>2
    <3> QED
      BY <3>1, <3>2
  <2>13. UncoveredDue'
    <3> SUFFICES ASSUME ~seen'.overtaken, NEW q \in assigned'
                 PROVE  Due(q, NewestRow)' \/ \E v \in NewestRow' : Covers(docs'[v], q)
      BY DEF UncoveredDue
    <3>1. CASE q = i
      BY <2>4, <2>6, <3>1 DEF Due
    <3>2. CASE q # i
      <4>1. q \in assigned
        BY <2>5, <3>2
      <4>2. CASE Due(q, NewestRow)
        <5>1. ASSUME NEW V, V = NewestRow PROVE Due(q, V)'
          BY <2>10, <3>2, <4>2, <5>1
        <5> QED
          BY <2>2, <5>1 DEF Due
      <4>3. CASE \E v \in NewestRow : Covers(docs[v], q)
        BY <1>2, <2>2, <4>3 DEF Covers, NewestRow
      <4> QED
        BY <1>3, <2>1, <4>1, <4>2, <4>3 DEF UncoveredDue
    <3> QED
      BY <3>1, <3>2
  <2> QED
    BY <2>3, <2>7, <2>8, <2>9, <2>12, <2>13 DEF LiveInv, Settles
<1> QED
  BY <1>1, <1>4, <1>5, <1>6 DEF TopicInv
-----------------------------------------------------------------------------
(* Who asks for a version, and enqueueRegeneration. *)

\* While everything assigned is attended to, nothing is dropped.
LEMMA AttendedSettles ==
    ASSUME assigned' = assigned, \A i \in assigned : Tracked(i)'
    PROVE  Settles'
BY DEF Settles, UnreadDue, UncoveredDue, Due, Tracked, Asking

\* EmptyWaits is of the jobs, the items and the alarms.
LEMMA EmptyStays ==
    ASSUME EmptyWaits, UNCHANGED <<jobs, assigned, timer, tagging>> PROVE EmptyWaits'
BY DEF EmptyWaits, Alarmed

\* The timer hands its alarm on to a request.
LEMMA FireTimerStep == ASSUME TopicAssumption, TopicInv, FireTimer PROVE TopicInv'
<1> DEFINE r == [NoDocRequest EXCEPT !.pc = "check"]
<1>1. r \in DocRequest /\ r.pc = "check"
  BY NoneIs DEF DocRequest, NoDocRequest
<1>2. requests' = [requests EXCEPT ![Debounce] = r]
  BY CallersAre, TypeParts DEF FireTimer, AskVersion
<1> HIDE DEF r
<1>3. /\ UNCHANGED <<topic, assigned, tagging, sweep, docs, jobs, tags, others, seen>>
      /\ timer' = FALSE /\ \A v \in Versions : jobs[v].pc # "empty"
  BY DEF FireTimer, taxonomy, spent
<1>4. TopicTypeOK'
  BY <1>1, <1>2, <1>3, TypeParts DEF TopicTypeOK, TopicInv
<1>5. Debounce \in Callers /\ Debounce \notin Versions /\ Debounce # Boot
  BY CallersAre
<1>6. Settles'
  <2>1. Asking(Debounce)'
    BY <1>1, <1>2, <1>5, TypeParts DEF Asking
  <2> QED
    BY <1>5, <2>1, AllDueNext
<1>7. EmptyWaits'
  BY <1>3 DEF EmptyWaits
<1> QED
  BY <1>1, <1>2, <1>3, <1>4, <1>5, <1>6, <1>7, AskerMoves

\* The user asks beside whatever is under way.
LEMMA RegenerateStep == ASSUME TopicAssumption, TopicInv, Regenerate PROVE TopicInv'
<1> DEFINE r == [NoDocRequest EXCEPT !.pc = "check"]
<1>1. r \in DocRequest /\ r.pc = "check"
  BY NoneIs DEF DocRequest, NoDocRequest
<1>2. requests' = [requests EXCEPT ![User] = r]
  BY CallersAre, TypeParts DEF Regenerate, AskVersion
<1> HIDE DEF r
<1>3. /\ UNCHANGED <<topic, assigned, tagging, timer, sweep, docs, jobs, tags, seen>>
      /\ others < MaxOthers /\ others' = others + 1 /\ topic # "deleted"
  BY DEF Regenerate, taxonomy, alarms
<1>4. TopicTypeOK'
  <2>1. others' \in 0 .. MaxOthers
    BY <1>3, TypeParts DEF TopicAssumption
  <2> QED
    BY <1>1, <1>2, <1>3, <2>1, TypeParts DEF TopicTypeOK, TopicInv
<1>5. User \in Callers /\ User \notin Versions /\ User # Boot
  BY CallersAre
<1>6. Settles'
  <2>1. Asking(User)'
    BY <1>1, <1>2, <1>5, TypeParts DEF Asking
  <2> QED
    BY <1>5, <2>1, AllDueNext
<1>7. EmptyWaits'
  BY <1>3, LiveParts, EmptyStays
<1> QED
  BY <1>1, <1>2, <1>3, <1>4, <1>5, <1>6, <1>7, AskerMoves

\* The document shown is the newest one that succeeded.
LEMMA CurrentIs ==
    ASSUME TopicAssumption, docs \in [Versions -> Doc]
    PROVE  /\ Current \in Succeeded \cup {0}
           /\ \A v \in Succeeded : v <= Current
           /\ Succeeded # {} => Current \in Succeeded
<1>1. Succeeded \cup {0} \in SUBSET (0 .. MaxVersions) /\ MaxVersions \in Nat
  BY DEF Succeeded, Rows, Versions, TopicAssumption
<1>2. Current \in Succeeded \cup {0} /\ \A y \in Succeeded \cup {0} : y <= Current
  BY <1>1, MaxIs DEF Current
<1>3. ASSUME Succeeded # {} PROVE Current # 0
  <2>1. PICK v \in Succeeded : TRUE
    BY <1>3
  <2>2. v \in Nat /\ v # 0
    BY CallersAre DEF Succeeded, Rows
  <2> QED
    BY <1>2, <2>2
<1> QED
  BY <1>2, <1>3

\* The sweep asks, or finds the document complete, or a version in flight.
LEMMA SweepTopicsStep == ASSUME TopicAssumption, TopicInv, SweepTopics PROVE TopicInv'
<1>1. /\ UNCHANGED <<topic, assigned, tagging, timer, jobs, tags, others>>
      /\ sweep /\ sweep' = FALSE
      /\ docs' = IF topic = "deleted" THEN [v \in Versions |-> NoDoc] ELSE docs
      /\ seen' = [seen EXCEPT !.skipped = @ \/ topic = "archived"]
  BY DEF SweepTopics, taxonomy, spent
<1>2. /\ seen' \in TopicHistory /\ seen'.read = seen.read /\ seen'.overtaken = seen.overtaken
      /\ seen'.skipped = (seen.skipped \/ topic = "archived")
  BY <1>1, TypeParts DEF TopicHistory
<1>3. Boot \in Callers /\ Boot \notin Versions
  BY CallersAre
<1>4. docs' \in [Versions -> Doc]
  BY <1>1, NoneIs, TypeParts
<1>5. CASE NeedsRegeneration
  <2> DEFINE r == [requests[Boot] EXCEPT !.pc = "check"]
  <2>1. r \in DocRequest /\ r.pc = "check"
    BY <1>3, TypeParts DEF DocRequest
  <2>2. requests' = [requests EXCEPT ![Boot] = r] /\ topic = "active"
    BY <1>5 DEF SweepTopics, AskVersion, NeedsRegeneration
  <2> HIDE DEF r
  <2>3. TopicTypeOK'
    BY <1>1, <1>2, <1>4, <2>1, <2>2, TypeParts DEF TopicTypeOK, TopicInv
  <2>4. Settles'
    <3>1. Asking(Boot)'
      BY <1>3, <2>1, <2>2, TypeParts DEF Asking
    <3> QED
      BY <1>3, <3>1, AllDueNext
  <2>5. EmptyWaits'
    BY <1>1, <2>2, LiveParts, EmptyStays
  <2> QED
    BY <1>1, <1>2, <1>3, <2>1, <2>2, <2>3, <2>4, <2>5, AskerMoves
<1>6. CASE ~NeedsRegeneration
  <2>1. requests' = requests /\ requests' = [requests EXCEPT ![Boot] = requests[Boot]]
    BY <1>6, TypeParts DEF SweepTopics
  <2>2. requests[Boot] \in DocRequest
    BY <1>3, TypeParts
  <2>3. TopicTypeOK'
    BY <1>1, <1>2, <1>4, <2>1, TypeParts DEF TopicTypeOK, TopicInv
  <2>4. ASSUME topic # "deleted"
        PROVE  /\ requests[Boot].pc = "idle" /\ requests[Boot] = NoDocRequest
               /\ docs' = docs /\ EmptyWaits'
    BY <1>1, <1>3, <2>4, LiveParts, EmptyStays DEF RequestsStand
  <2>5. ASSUME topic # "deleted" PROVE Settles'
    <3>1. CASE topic = "archived"
      BY <1>2, <3>1, AllDueNext
    <3>2. CASE assigned = {}
      BY <1>1, <3>2 DEF Settles, UnreadDue, UncoveredDue
    <3>3. CASE topic = "active" /\ assigned # {}
      <4>1. Succeeded # {} /\ docs[Current].since \cap assigned = {}
        BY <1>6, <3>3 DEF NeedsRegeneration
      <4>2. Current \in Succeeded /\ \A v \in Succeeded : v <= Current
        BY <4>1, CurrentIs, TypeParts
      <4>3. Current \in Versions /\ docs[Current].status = "succeeded"
        BY <4>2 DEF Succeeded, Rows
      <4>4. assigned \subseteq seen.read /\ assigned \subseteq docs[Current].sources
        BY <2>5, <4>1, <4>3, LiveParts DEF SinceTold, SinceOk
      <4>5. UnreadDue'
        BY <1>1, <1>2, <4>4 DEF UnreadDue
      <4>6. IsNewest(docs, Latest)
        BY LatestIs, TypeParts
      <4>7. Current <= Latest /\ Latest \in Versions /\ docs[Latest].status # "none"
        BY <4>3, <4>6, CallersAre DEF IsNewest
      <4>8. NewestRow' = {Latest} /\ docs' = docs
        BY <2>4, <2>5, <4>7 DEF NewestRow, Latest, Rows
      <4>9. docs[Latest].status \in {"queued", "processing", "succeeded", "failed"}
        BY <4>7, TypeParts DEF Doc
      <4>10. CASE docs[Latest].status = "failed"
        BY <1>1, <4>5, <4>8, <4>10 DEF Settles, UncoveredDue, Covers
      <4>11. CASE docs[Latest].status = "succeeded"
        <5>1. Latest = Current
          <6>1. Latest <= Current
            BY <4>2, <4>7, <4>11 DEF Succeeded, Rows
          <6> QED
            BY <4>3, <4>7, <6>1, CallersAre
        <5> QED
          BY <1>1, <4>3, <4>4, <4>5, <4>8, <5>1 DEF Settles, UncoveredDue, Covers
      <4>12. CASE docs[Latest].status \in {"queued", "processing"}
        <5>1. Latest \in InFlight
          BY <4>7, <4>12 DEF InFlight, Rows
        <5>2. \A i \in assigned : Tracked(i)
          BY <2>5, <5>1, InFlightTracked
        <5>3. \A i \in assigned : Tracked(i)'
          BY <1>1, <2>1, <4>8, <5>2 DEF Tracked, Alarmed, Lost
        <5> QED
          BY <1>1, <5>3, AttendedSettles
      <4> QED
        BY <4>9, <4>10, <4>11, <4>12
    <3> QED
      BY <2>5, <3>1, <3>2, <3>3, TypeParts
  <2> QED
    BY <1>1, <1>2, <1>3, <2>1, <2>2, <2>3, <2>4, <2>5, AskerMoves
<1> QED
  BY <1>5, <1>6

\* A request gives up only beside a version in flight.
LEMMA CheckInFlightStep ==
    ASSUME TopicAssumption, TopicInv, NEW c \in Callers, CheckInFlight(c) PROVE TopicInv'
<1>1. /\ UNCHANGED <<topic, assigned, tagging, timer, sweep, docs, jobs, tags, others, seen>>
      /\ requests[c].pc = "check"
  BY DEF CheckInFlight, taxonomy, alarms, spent
<1>2. requests[c] \in DocRequest
  BY TypeParts
<1>3. ASSUME topic # "deleted"
      PROVE  /\ c \in Versions => jobs[c].pc = "ending"
             /\ sweep => c # Boot
             /\ EmptyWaits'
  BY <1>1, <1>3, LiveParts, EmptyStays DEF RequestsStand
<1>4. CASE InFlight # {}
  <2>1. requests' = [requests EXCEPT ![c] = NoDocRequest]
    BY <1>4 DEF CheckInFlight
  <2>2. TopicTypeOK'
    BY <1>1, <2>1, NoneIs, TypeParts DEF TopicTypeOK, TopicInv
  <2>3. ASSUME topic # "deleted" PROVE Settles'
    <3>1. \A i \in assigned : Tracked(i)
      BY <1>4, <2>3, InFlightTracked
    <3>2. \A d \in Callers : requests[d].pc = "hand" => requests'[d] = requests[d]
      BY <1>1, <2>1, TypeParts
    <3>3. \A v \in Versions : Lost(v) => Lost(v)'
      <4>1. \A d \in Callers : requests'[d].pc = "hand" => requests'[d] = requests[d]
        BY <2>1, NoneIs, TypeParts
      <4> QED
        BY <1>1, <4>1 DEF Lost
    <3>4. \A i \in assigned : Tracked(i)'
      BY <1>1, <3>1, <3>2, <3>3 DEF Tracked, Alarmed
    <3> QED
      BY <1>1, <3>4, AttendedSettles
  <2> QED
    BY <1>1, <1>3, <2>1, <2>2, <2>3, NoneIs, AskerMoves
<1>5. CASE InFlight = {}
  <2> DEFINE r == [requests[c] EXCEPT !.pc = "count"]
  <2>1. r \in DocRequest /\ r.pc = "count"
    BY <1>2 DEF DocRequest
  <2>2. requests' = [requests EXCEPT ![c] = r]
    BY <1>5, TypeParts DEF CheckInFlight
  <2> HIDE DEF r
  <2>3. TopicTypeOK'
    BY <1>1, <2>1, <2>2, TypeParts DEF TopicTypeOK, TopicInv
  <2>4. Settles'
    <3>1. Asking(c)'
      BY <2>1, <2>2, TypeParts DEF Asking
    <3> QED
      BY <3>1, AllDueNext
  <2> QED
    BY <1>1, <1>3, <2>1, <2>2, <2>3, <2>4, AskerMoves
<1> QED
  BY <1>4, <1>5

\* The number it takes is free;
LEMMA CountVersionsStep ==
    ASSUME TopicAssumption, TopicInv, NEW c \in Callers, CountVersions(c) PROVE TopicInv'
<1> DEFINE r == [pc |-> "insert", version |-> Latest + 1]
<1>1. /\ UNCHANGED <<topic, assigned, tagging, timer, sweep, docs, jobs, tags, others, seen>>
      /\ requests[c].pc = "count" /\ Latest < MaxVersions
      /\ requests' = [requests EXCEPT ![c] = r]
  BY DEF CountVersions, taxonomy, alarms, spent
<1>2. IsNewest(docs, Latest)
  BY LatestIs, TypeParts
<1>3. r \in DocRequest /\ r.pc = "insert" /\ r.version \in Versions
  BY <1>1, <1>2 DEF IsNewest, DocRequest, Versions, TopicAssumption
<1>4. docs[r.version].status = "none"
  BY <1>2, <1>3, TypeParts DEF IsNewest
<1> HIDE DEF r
<1>5. ASSUME topic # "deleted"
      PROVE  /\ c \in Versions => jobs[c].pc = "ending"
             /\ sweep => c # Boot
             /\ EmptyWaits' /\ Settles'
  <2>1. docs[r.version] = NoDoc
    BY <1>3, <1>4, <1>5, LiveParts DEF RowsStand, RowOk
  <2>2. Asking(c)'
    BY <1>1, <1>3, <2>1, TypeParts DEF Asking
  <2> QED
    BY <1>1, <1>5, <2>2, AllDueNext, LiveParts, EmptyStays DEF RequestsStand
<1>6. TopicTypeOK'
  BY <1>1, <1>3, TypeParts DEF TopicTypeOK, TopicInv
<1> QED
  BY <1>1, <1>3, <1>5, <1>6, AskerMoves

\* a row whose hand-over fails is lost.
LEMMA HandOverVersionFailsStep ==
    ASSUME TopicAssumption, TopicInv, NEW c \in Callers, HandOverVersionFails(c) PROVE TopicInv'
<1>1. /\ UNCHANGED <<topic, assigned, tagging, timer, sweep, docs, jobs, tags, seen>>
      /\ requests[c].pc = "hand" /\ others < MaxOthers /\ others' = others + 1
      /\ requests' = [requests EXCEPT ![c] = NoDocRequest]
  BY DEF HandOverVersionFails, taxonomy, alarms
<1>2. TopicTypeOK'
  BY <1>1, NoneIs, TypeParts DEF TopicTypeOK, TopicInv, TopicAssumption
<1>3. ASSUME topic # "deleted"
      PROVE  /\ c \in Versions => jobs[c].pc = "ending"
             /\ sweep => c # Boot
             /\ EmptyWaits' /\ Settles'
  <2>1. PICK v \in Versions : v = requests[c].version
    BY <1>1, <1>3, LiveParts DEF HandsOver
  <2>2. Lost(v)'
    <3>1. requests'[c].pc # "hand" /\ \A d \in Callers \ {c} : requests'[d] = requests[d]
      BY <1>1, NoneIs, TypeParts
    <3>2. /\ docs[v].status = "queued" /\ jobs[v].pc = "none"
          /\ \A d \in Callers \ {c} : requests[d].pc = "hand" => requests[d].version # v
      BY <1>1, <1>3, <2>1, LiveParts DEF HandsOver
    <3> QED
      BY <1>1, <3>1, <3>2 DEF Lost
  <2> QED
    BY <1>1, <1>3, <2>2, AllDueNext, LiveParts, EmptyStays DEF RequestsStand
<1> QED
  BY <1>1, <1>2, <1>3, NoneIs, AskerMoves

\* Who loses the race for a number leaves it to who has won.
LEMMA InsertVersionStep ==
    ASSUME TopicAssumption, TopicInv, NEW c \in Callers, InsertVersion(c) PROVE TopicInv'
<1>1. /\ UNCHANGED <<topic, assigned, tagging, timer, sweep, jobs, tags, others>>
      /\ requests[c].pc = "insert"
  BY DEF InsertVersion, taxonomy, alarms, spent
<1>2. PICK v : v = requests[c].version
  OBVIOUS
<1>3. ASSUME topic # "deleted"
      PROVE  /\ c \in Versions => jobs[c].pc = "ending"
             /\ sweep => c # Boot
             /\ EmptyWaits' /\ v \in Versions
  BY <1>1, <1>2, <1>3, LiveParts, EmptyStays DEF RequestsStand, InsertsAt
<1>4. CASE docs[v] # NoDoc /\ requests' = [requests EXCEPT ![c] = NoDocRequest]
           /\ UNCHANGED <<docs, seen>>
  <2>1. TopicTypeOK'
    BY <1>1, <1>4, NoneIs, TypeParts DEF TopicTypeOK, TopicInv
  <2>2. ASSUME topic # "deleted" PROVE Settles'
    <3>1. /\ requests'[c].pc = "idle" /\ ~Asking(c)
          /\ \A d \in Callers \ {c} : requests'[d] = requests[d]
      BY <1>1, <1>2, <1>4, NoneIs, TypeParts DEF Asking
    <3>2. \A d \in Callers : Asking(d) => Asking(d)'
      BY <1>4, <3>1 DEF Asking
    <3>3. \A w \in Versions : Lost(w) => Lost(w)'
      BY <1>1, <1>4, <3>1 DEF Lost
    <3>4. UnreadDue'
      BY <1>1, <1>4, <2>2, <3>2, <3>3, LiveParts DEF UnreadDue, Due, Alarmed
    <3>5. NewestRow' = NewestRow
      BY <1>4 DEF NewestRow, Latest, Rows
    <3>6. UncoveredDue'
      <4> SUFFICES ASSUME ~seen.overtaken, NEW i \in assigned
                   PROVE  Due(i, NewestRow)' \/ \E w \in NewestRow' : Covers(docs'[w], i)
        BY <1>1, <1>4 DEF UncoveredDue
      <4>1. Due(i, NewestRow) \/ \E w \in NewestRow : Covers(docs[w], i)
        BY <2>2, LiveParts DEF UncoveredDue
      <4>2. Due(i, NewestRow) => Due(i, NewestRow)'
        BY <1>1, <1>4, <3>2, <3>3, <3>5 DEF Due, Alarmed
      <4> QED
        BY <1>4, <3>5, <4>1, <4>2
    <3> QED
      BY <3>4, <3>6 DEF Settles
  <2> QED
    BY <1>1, <1>3, <1>4, <2>1, <2>2, NoneIs, AskerMoves
<1>5. CASE /\ docs[v] = NoDoc /\ jobs[v] = NoDocJob
           /\ requests' = [requests EXCEPT ![c].pc = "hand"]
           /\ docs' = [docs EXCEPT ![v] = [NoDoc EXCEPT !.status = "queued"]]
           /\ seen' = [seen EXCEPT !.overtaken = @ \/ InFlight # {}]
  <2> DEFINE d == [NoDoc EXCEPT !.status = "queued"]
             r == [requests[c] EXCEPT !.pc = "hand"]
  <2>1. d \in Doc /\ d.status = "queued" /\ d.sources = {}
    BY NoneIs DEF Doc, NoDoc
  <2>2. r \in DocRequest /\ r.pc = "hand" /\ r.version = v
    BY <1>2, TypeParts DEF DocRequest
  <2>3. requests' = [requests EXCEPT ![c] = r] /\ docs' = [docs EXCEPT ![v] = d]
    BY <1>5, TypeParts
  <2> HIDE DEF d, r
  <2>4. /\ seen' \in TopicHistory /\ seen'.read = seen.read /\ seen'.skipped = seen.skipped
        /\ seen'.overtaken = (seen.overtaken \/ InFlight # {})
    BY <1>5, TypeParts DEF TopicHistory
  <2>5. TopicTypeOK'
    BY <1>1, <2>1, <2>2, <2>3, <2>4, TypeParts DEF TopicTypeOK, TopicInv
  <2>6. JobsStand'
    BY <1>1, <2>4, TypeParts DEF JobsStand
  <2>7. ASSUME topic # "deleted" PROVE LiveInv'
    <3>1. /\ RowsStand /\ RequestsStand /\ HandsOver /\ InsertsAt /\ SinceTold
          /\ Prunes /\ InOrder
      BY <2>7, LiveParts
    <3>2. v \in Versions /\ EmptyWaits'
      BY <1>3, <2>7
    <3>3. /\ requests'[c] = r /\ docs'[v] = d
          /\ \A e \in Callers \ {c} : requests'[e] = requests[e]
          /\ \A w \in Versions \ {v} : docs'[w] = docs[w]
      BY <2>3, <3>2, TypeParts
    <3>4. docs[v].status = "none" /\ docs[v].sources = {} /\ jobs[v].pc = "none"
      BY <1>5, NoneIs
    <3>5. RowsStand'
      BY <1>1, <2>1, <3>1, <3>3, <3>4 DEF RowsStand, RowOk
    <3>6. RequestsStand'
      BY <1>1, <2>2, <3>1, <3>3, CallersAre DEF RequestsStand
    <3>7. HandsOver'
      BY <1>1, <2>1, <2>2, <3>1, <3>2, <3>3, <3>4 DEF HandsOver
    <3>8. InsertsAt'
      BY <2>2, <3>1, <3>3 DEF InsertsAt
    <3>9. SinceTold'
      BY <1>1, <2>1, <2>4, <3>1, <3>3, <3>4 DEF SinceTold, SinceOk
    <3>10. Prunes'
      <4>1. Written' = Written
        BY <2>1, <3>3, <3>4 DEF Written
      <4> QED
        BY <1>1, <3>1, <4>1 DEF Prunes, KeptAt
    <3>11. InOrder'
      <4> SUFFICES ASSUME ~seen'.overtaken, NEW w \in Versions, docs'[w].status = "processing"
                   PROVE  FALSE
        BY DEF InOrder
      <4>1. w # v /\ w \in InFlight
        BY <2>1, <3>3 DEF InFlight, Rows
      <4> QED
        BY <2>4, <4>1
    <3>12. Settles'
      <4>1. Asking(c)'
        BY <2>2, <3>3 DEF Asking
      <4> QED
        BY <4>1, AllDueNext
    <3> QED
      BY <3>2, <3>5, <3>6, <3>7, <3>8, <3>9, <3>10, <3>11, <3>12 DEF LiveInv
  <2> QED
    BY <1>1, <2>5, <2>6, <2>7 DEF TopicInv
<1> QED
  BY <1>2, <1>4, <1>5 DEF InsertVersion

\* A version handed over is to be read.
LEMMA HandOverVersionStep ==
    ASSUME TopicAssumption, TopicInv, NEW c \in Callers, HandOverVersion(c) PROVE TopicInv'
<1> DEFINE j == [NoDocJob EXCEPT !.pc = "waiting", !.left = JobTries]
<1>1. /\ j \in DocJob /\ j.pc = "waiting" /\ j.left # 0 /\ j.ok = FALSE /\ j.sources = {}
  <2>1. JobTries \in 0 .. JobTries /\ JobTries # 0
    BY DEF TopicAssumption
  <2> QED
    BY <2>1, NoneIs DEF DocJob, NoDocJob
<1>2. PICK v : v = requests[c].version
  OBVIOUS
<1>3. /\ UNCHANGED <<topic, assigned, tagging, timer, sweep, docs, tags, others, seen>>
      /\ requests[c].pc = "hand" /\ requests' = [requests EXCEPT ![c] = NoDocRequest]
      /\ jobs' = [jobs EXCEPT ![v] = j]
  BY <1>2 DEF HandOverVersion, taxonomy, alarms, spent
<1> HIDE DEF j
<1>4. TopicTypeOK'
  BY <1>1, <1>3, NoneIs, TypeParts DEF TopicTypeOK, TopicInv
<1>5. JobsStand'
  <2>1. JobOk(j) /\ j.sources \subseteq seen.read
    BY <1>1 DEF JobOk
  <2> QED
    BY <1>3, <2>1, TypeParts DEF JobsStand
<1>6. ASSUME topic # "deleted" PROVE LiveInv'
  <2>1. /\ RowsStand /\ RequestsStand /\ HandsOver /\ InsertsAt /\ EmptyWaits /\ SinceTold
        /\ Prunes /\ InOrder
    BY <1>6, LiveParts
  <2>2. v \in Versions /\ docs[v].status = "queued" /\ jobs[v].pc = "none"
    BY <1>2, <1>3, <2>1 DEF HandsOver
  <2>3. /\ jobs'[v] = j /\ \A w \in Versions \ {v} : jobs'[w] = jobs[w]
        /\ requests'[c] = NoDocRequest /\ \A d \in Callers \ {c} : requests'[d] = requests[d]
    BY <1>3, <2>2, TypeParts
  <2>4. RowsStand'
    BY <1>1, <1>3, <2>1, <2>2, <2>3 DEF RowsStand, RowOk
  <2>5. RequestsStand'
    BY <1>3, <2>1, <2>2, <2>3, NoneIs DEF RequestsStand
  <2>6. HandsOver'
    BY <1>2, <1>3, <2>1, <2>3, NoneIs DEF HandsOver
  <2>7. InsertsAt'
    BY <2>1, <2>3, NoneIs DEF InsertsAt
  <2>8. EmptyWaits'
    BY <1>1, <1>3, <2>1, <2>3 DEF EmptyWaits, Alarmed
  <2>9. SinceTold'
    BY <1>1, <1>3, <2>1, <2>3 DEF SinceTold, SinceOk
  <2>10. Prunes'
    BY <1>1, <1>3, <2>1, <2>3 DEF Prunes, KeptAt, Written
  <2>11. InOrder'
    BY <1>3, <2>1 DEF InOrder, Latest, Rows
  <2>12. Settles'
    <3>1. Reading(docs'[v], jobs'[v])
      BY <1>1, <1>3, <2>2, <2>3 DEF Reading
    <3> QED
      BY <2>2, <3>1, AllDueNext
  <2> QED
    BY <2>4, <2>5, <2>6, <2>7, <2>8, <2>9, <2>10, <2>11, <2>12 DEF LiveInv
<1> QED
  BY <1>3, <1>4, <1>5, <1>6 DEF TopicInv
-----------------------------------------------------------------------------
(* The job of a version. *)

\* What is left of a job that has ended.
LEMMA JobAfterIs ==
    ASSUME TopicAssumption, TopicInv, NEW v \in Versions, jobs[v].pc # "none"
    PROVE  /\ JobAfter(v) \in DocJob /\ JobOk(JobAfter(v)) /\ JobAfter(v).sources = {}
           /\ JobAfter(v).pc \in {"none", "waiting"}
<1>1. jobs[v] \in DocJob /\ JobOk(jobs[v])
  BY TypeParts DEF JobsStand
<1>2. CASE jobs[v].ok \/ jobs[v].left = 1
  BY <1>2, NoneIs DEF JobAfter, JobOk
<1>3. CASE ~(jobs[v].ok \/ jobs[v].left = 1)
  <2>1. jobs[v].left - 1 \in 0 .. JobTries /\ jobs[v].left - 1 # 0
    BY <1>1, <1>3 DEF JobOk, DocJob, TopicAssumption
  <2>2. PICK n : n = jobs[v].left - 1
    OBVIOUS
  <2>3. JobAfter(v) = [NoDocJob EXCEPT !.pc = "waiting", !.left = n]
    BY <1>3, <2>2 DEF JobAfter
  <2>4. /\ JobAfter(v) \in DocJob /\ JobAfter(v).pc = "waiting" /\ JobAfter(v).left = n
        /\ JobAfter(v).ok = FALSE /\ JobAfter(v).sources = {}
    BY <2>1, <2>2, <2>3, NoneIs DEF DocJob, NoDocJob
  <2> QED
    BY <2>1, <2>2, <2>4 DEF JobOk
<1> QED
  BY <1>2, <1>3

\* What a step of a job may rely on.
LEMMA JobStands ==
    ASSUME TopicAssumption, TopicInv, NEW v \in Versions
    PROVE  /\ jobs[v] \in DocJob /\ docs[v] \in Doc /\ JobOk(jobs[v])
           /\ jobs[v].sources \subseteq seen.read
           /\ topic # "deleted" =>
                 /\ RowOk(docs[v], jobs[v]) /\ SinceOk(docs[v], jobs[v], assigned, seen.read)
                 /\ requests[v].pc # "idle" => jobs[v].pc = "ending"
                 /\ ~seen.overtaken /\ docs[v].status = "processing" => v = Latest
BY TypeParts, LiveParts DEF JobsStand, RowsStand, SinceTold, RequestsStand, InOrder

\* A job begins, unless its row is gone,
LEMMA TakeVersionStep ==
    ASSUME TopicAssumption, TopicInv, NEW v \in Versions, TakeVersion(v) PROVE TopicInv'
<1>1. /\ UNCHANGED <<topic, assigned, tagging, timer, sweep, requests, tags, others>>
      /\ jobs[v].pc = "waiting"
  BY DEF TakeVersion, taxonomy, alarms, spent
<1>2. CASE /\ docs[v] = NoDoc /\ jobs' = [jobs EXCEPT ![v] = NoDocJob]
           /\ UNCHANGED <<docs, seen>>
  <2>1. docs' = [docs EXCEPT ![v] = docs[v]]
    BY <1>2, TypeParts
  <2>2. TopicTypeOK'
    BY <1>1, <1>2, NoneIs, TypeParts DEF TopicTypeOK, TopicInv
  <2>3. JobOk(NoDocJob)
    BY NoneIs DEF JobOk
  <2>4. topic # "deleted" => JobKeeps(v, NoDocJob, docs[v], seen'.read, seen'.overtaken)
    BY <1>1, <1>2, NoneIs, JobStands
       DEF JobKeeps, RowOk, SinceOk, Reading, Rechecking, Covers
  <2> QED
    BY <1>1, <1>2, <2>1, <2>2, <2>3, <2>4, NoneIs, JobStands, DocJobMoves
<1>3. CASE /\ docs[v] # NoDoc /\ GotoJob(v, "started")
           /\ SetRow(v, [docs[v] EXCEPT !.status = "processing"])
           /\ seen' = [seen EXCEPT !.overtaken = @ \/ v < Latest]
  <2> DEFINE j == [jobs[v] EXCEPT !.pc = "started"]
             d == [docs[v] EXCEPT !.status = "processing"]
  <2>1. /\ j \in DocJob /\ j.pc = "started" /\ j.left = jobs[v].left /\ j.ok = jobs[v].ok
        /\ j.sources = jobs[v].sources
    BY JobStands DEF DocJob
  <2>2. d \in Doc /\ d.status = "processing" /\ d.sources = docs[v].sources
    BY JobStands DEF Doc
  <2>3. jobs' = [jobs EXCEPT ![v] = j] /\ docs' = [docs EXCEPT ![v] = d]
    BY <1>3, TypeParts DEF GotoJob, SetRow
  <2> HIDE DEF j, d
  <2>4. /\ seen' \in TopicHistory /\ seen'.read = seen.read /\ seen'.skipped = seen.skipped
        /\ seen'.overtaken = (seen.overtaken \/ v < Latest)
    BY <1>3, TypeParts DEF TopicHistory
  <2>5. TopicTypeOK'
    BY <1>1, <2>1, <2>2, <2>3, <2>4, TypeParts DEF TopicTypeOK, TopicInv
  <2>6. JobOk(j)
    BY <1>1, <2>1, JobStands DEF JobOk
  <2>7. ASSUME topic # "deleted" PROVE JobKeeps(v, j, d, seen'.read, seen'.overtaken)
    <3>1. docs[v].status # "none"
      BY <1>3, <2>7, JobStands DEF RowOk
    <3>2. ~seen'.overtaken => v = Latest
      <4>1. v < Latest => seen'.overtaken
        BY <2>4
      <4>2. v <= Latest /\ v \in Nat /\ Latest \in Nat
        BY <3>1, LatestIs, TypeParts, CallersAre DEF IsNewest, TopicAssumption
      <4> QED
        BY <4>1, <4>2
    <3>3. requests[v].pc = "idle"
      BY <1>1, <2>7, JobStands
    <3> QED
      BY <2>1, <2>2, <3>1, <3>2, <3>3 DEF JobKeeps, RowOk, SinceOk, Reading
  <2> QED
    BY <1>1, <2>1, <2>2, <2>3, <2>4, <2>5, <2>6, <2>7, JobStands, DocJobMoves
<1> QED
  BY <1>2, <1>3 DEF TakeVersion

\* reads the items,
LEMMA ReadItemsStep ==
    ASSUME TopicAssumption, TopicInv, NEW v \in Versions, ReadItems(v) PROVE TopicInv'
<1>1. /\ UNCHANGED <<topic, assigned, tagging, timer, sweep, requests, docs, tags, others>>
      /\ jobs[v].pc = "started" /\ docs' = [docs EXCEPT ![v] = docs[v]]
  BY TypeParts DEF ReadItems, taxonomy, alarms, spent
<1>2. CASE (topic = "deleted" \/ assigned = {}) /\ GotoJob(v, "empty") /\ UNCHANGED seen
  <2> DEFINE j == [jobs[v] EXCEPT !.pc = "empty"]
  <2>1. /\ j \in DocJob /\ j.pc = "empty" /\ j.left = jobs[v].left /\ j.ok = jobs[v].ok
        /\ j.sources = jobs[v].sources
    BY JobStands DEF DocJob
  <2>2. jobs' = [jobs EXCEPT ![v] = j]
    BY <1>2, TypeParts DEF GotoJob
  <2> HIDE DEF j
  <2>3. TopicTypeOK'
    BY <1>1, <1>2, <2>1, <2>2, TypeParts DEF TopicTypeOK, TopicInv
  <2>4. JobOk(j)
    BY <1>1, <2>1, JobStands DEF JobOk
  <2>5. topic # "deleted" => JobKeeps(v, j, docs[v], seen'.read, seen'.overtaken)
    BY <1>1, <1>2, <2>1, JobStands DEF JobKeeps, RowOk, SinceOk
  <2> QED
    BY <1>1, <1>2, <2>1, <2>2, <2>3, <2>4, <2>5, JobStands, DocJobMoves
<1>3. CASE /\ topic # "deleted" /\ assigned # {}
           /\ jobs' = [jobs EXCEPT ![v].pc = "generating", ![v].sources = assigned]
           /\ seen' = [seen EXCEPT !.read = @ \cup assigned]
  <2> DEFINE j == [jobs[v] EXCEPT !.pc = "generating", !.sources = assigned]
  <2>1. /\ j \in DocJob /\ j.pc = "generating" /\ j.left = jobs[v].left /\ j.ok = jobs[v].ok
        /\ j.sources = assigned
    BY JobStands, TypeParts DEF DocJob
  <2>2. jobs' = [jobs EXCEPT ![v] = j]
    BY <1>3, TypeParts
  <2> HIDE DEF j
  <2>3. /\ seen' \in TopicHistory /\ seen'.read = seen.read \cup assigned
        /\ seen'.skipped = seen.skipped /\ seen'.overtaken = seen.overtaken
    BY <1>3, TypeParts DEF TopicHistory
  <2>4. TopicTypeOK'
    BY <1>1, <2>1, <2>2, <2>3, TypeParts DEF TopicTypeOK, TopicInv
  <2>5. JobOk(j)
    BY <1>1, <1>3, <2>1, JobStands DEF JobOk
  <2>6. JobKeeps(v, j, docs[v], seen'.read, seen'.overtaken)
    BY <1>1, <1>3, <2>1, <2>3, JobStands DEF JobKeeps, RowOk, SinceOk, Reading
  <2> QED
    BY <1>1, <2>1, <2>2, <2>3, <2>4, <2>5, <2>6, JobStands, DocJobMoves
<1> QED
  BY <1>2, <1>3 DEF ReadItems

\* writes them,
LEMMA GenerateStep ==
    ASSUME TopicAssumption, TopicInv, NEW v \in Versions, Generate(v) PROVE TopicInv'
<1> DEFINE j == [jobs[v] EXCEPT !.pc = "keeping", !.ok = TRUE]
           e == [docs[v] EXCEPT !.status = "succeeded", !.sources = jobs[v].sources]
           d == IF docs[v] = NoDoc THEN NoDoc ELSE e
<1>1. /\ UNCHANGED <<topic, assigned, tagging, timer, sweep, requests, seen, tags, others>>
      /\ jobs[v].pc = "generating" /\ docs' = [docs EXCEPT ![v] = d]
      /\ jobs' = [jobs EXCEPT ![v] = j]
  BY TypeParts DEF Generate, taxonomy, alarms, spent, SetRow
<1>2. /\ j \in DocJob /\ j.pc = "keeping" /\ j.left = jobs[v].left /\ j.ok
      /\ j.sources = jobs[v].sources
  BY JobStands DEF DocJob
<1>3. /\ e \in Doc /\ e.status = "succeeded" /\ e.sources = jobs[v].sources
      /\ e.since = docs[v].since
  <2>1. jobs[v].sources \in SUBSET Items
    BY JobStands DEF DocJob
  <2> QED
    BY <2>1, JobStands DEF Doc
<1> HIDE DEF j, e
<1>4. d \in Doc
  BY <1>3, NoneIs
<1>5. topic # "deleted" => d = e
  BY <1>1, NoneIs, JobStands DEF RowOk
<1> HIDE DEF d
<1>6. TopicTypeOK'
  BY <1>1, <1>2, <1>4, TypeParts DEF TopicTypeOK, TopicInv
<1>7. JobOk(j)
  BY <1>1, <1>2, JobStands DEF JobOk
<1>8. ASSUME topic # "deleted" PROVE JobKeeps(v, j, d, seen'.read, seen'.overtaken)
  <2>1. /\ d = e /\ docs[v].status = "processing" /\ jobs[v].sources # {}
        /\ SinceOk(docs[v], jobs[v], assigned, seen.read) /\ requests[v].pc = "idle"
        /\ ~seen.overtaken => v = Latest
    BY <1>1, <1>5, <1>8, JobStands DEF RowOk, JobOk
  <2> QED
    BY <1>1, <1>2, <1>3, <2>1 DEF JobKeeps, RowOk, SinceOk, Rechecking
<1> QED
  BY <1>1, <1>2, <1>4, <1>6, <1>7, <1>8, JobStands, DocJobMoves

\* or fails;
LEMMA FailStep ==
    ASSUME TopicAssumption, TopicInv, NEW v \in Versions, Fail(v) PROVE TopicInv'
<1> DEFINE e == [docs[v] EXCEPT !.status = "failed"]
           d == IF docs[v] = NoDoc THEN NoDoc ELSE e
<1>1. /\ UNCHANGED <<topic, assigned, tagging, timer, sweep, requests, seen>>
      /\ jobs[v].pc \in {"empty", "generating"} /\ docs' = [docs EXCEPT ![v] = d]
  BY TypeParts DEF Fail, taxonomy, alarms, SetRow
<1>2. e \in Doc /\ e.status = "failed" /\ e.sources = docs[v].sources
  BY JobStands DEF Doc
<1> HIDE DEF e
<1>3. d \in Doc
  BY <1>2, NoneIs
<1>4. topic # "deleted" => d = e
  BY <1>1, NoneIs, JobStands DEF RowOk
<1> HIDE DEF d
<1>5. topic # "deleted" => docs[v].status = "processing" /\ requests[v].pc = "idle"
  BY <1>1, JobStands DEF RowOk
<1>6. CASE jobs[v].pc = "empty" /\ EndJob(v) /\ UNCHANGED spent
  <2>1. jobs' = [jobs EXCEPT ![v] = JobAfter(v)] /\ UNCHANGED <<tags, others>>
    BY <1>6 DEF EndJob, spent
  <2>2. TopicTypeOK'
    BY <1>1, <1>3, <1>6, <2>1, JobAfterIs, TypeParts DEF TopicTypeOK, TopicInv
  <2>3. topic # "deleted" => JobKeeps(v, JobAfter(v), d, seen'.read, seen'.overtaken)
    BY <1>1, <1>2, <1>4, <1>5, <1>6, JobAfterIs
       DEF JobKeeps, RowOk, SinceOk, Reading, Rechecking, Covers
  <2> QED
    BY <1>1, <1>3, <1>6, <2>1, <2>2, <2>3, JobAfterIs, DocJobMoves
<1>7. CASE /\ jobs[v].pc = "generating" /\ others < MaxOthers
           /\ GotoJob(v, "recheck")
           /\ others' = others + 1 /\ UNCHANGED tags
  <2> DEFINE j == [jobs[v] EXCEPT !.pc = "recheck"]
  <2>1. /\ j \in DocJob /\ j.pc = "recheck" /\ j.left = jobs[v].left /\ j.ok = jobs[v].ok
        /\ j.sources = jobs[v].sources
    BY JobStands DEF DocJob
  <2>2. jobs' = [jobs EXCEPT ![v] = j]
    BY <1>7, TypeParts DEF GotoJob
  <2> HIDE DEF j
  <2>3. others' \in 0 .. MaxOthers
    BY <1>7, TypeParts DEF TopicAssumption
  <2>4. TopicTypeOK'
    BY <1>1, <1>3, <1>7, <2>1, <2>2, <2>3, TypeParts DEF TopicTypeOK, TopicInv
  <2>5. JobOk(j)
    BY <1>7, <2>1, JobStands DEF JobOk
  <2>6. ASSUME topic # "deleted" PROVE JobKeeps(v, j, d, seen'.read, seen'.overtaken)
    <3>1. ~seen.overtaken => v = Latest
      BY <1>5, <2>6, JobStands
    <3>2. ~j.ok
      BY <1>7, <2>1, JobStands DEF JobOk
    <3> QED
      BY <1>1, <1>2, <1>4, <1>5, <2>1, <2>6, <3>1, <3>2
         DEF JobKeeps, RowOk, SinceOk, Rechecking
  <2> QED
    BY <1>1, <1>3, <1>7, <2>1, <2>2, <2>4, <2>5, <2>6, JobStands, DocJobMoves
<1> QED
  BY <1>6, <1>7 DEF Fail

\* it ends when the request it made has.
LEMMA FollowedUpStep ==
    ASSUME TopicAssumption, TopicInv, NEW v \in Versions, FollowedUp(v) PROVE TopicInv'
<1>1. /\ UNCHANGED <<topic, assigned, tagging, timer, sweep, requests, docs, tags, others, seen>>
      /\ jobs[v].pc = "ending" /\ docs' = [docs EXCEPT ![v] = docs[v]]
      /\ requests[v].pc = "idle" /\ jobs' = [jobs EXCEPT ![v] = JobAfter(v)]
  BY NoneIs, TypeParts DEF FollowedUp, taxonomy, alarms, spent, EndJob
<1>2. TopicTypeOK'
  BY <1>1, JobAfterIs, TypeParts DEF TopicTypeOK, TopicInv
<1>3. topic # "deleted" => JobKeeps(v, JobAfter(v), docs[v], seen'.read, seen'.overtaken)
  BY <1>1, JobAfterIs, JobStands DEF JobKeeps, RowOk, SinceOk, Reading, Rechecking
<1> QED
  BY <1>1, <1>2, <1>3, JobAfterIs, JobStands, DocJobMoves

\* What a prune reads: the newest versions to keep stay, so do those it compares with.
LEMMA FindKeptStep ==
    ASSUME TopicAssumption, TopicInv, NEW v \in Versions, FindKept(v) PROVE TopicInv'
<1>1. /\ UNCHANGED <<topic, assigned, tagging, timer, sweep, requests, docs, tags, others, seen>>
      /\ jobs[v].pc = "keeping" /\ docs' = [docs EXCEPT ![v] = docs[v]]
  BY TypeParts DEF FindKept, taxonomy, alarms, spent
<1>2. PICK j \in DocJob :
         /\ jobs' = [jobs EXCEPT ![v] = j] /\ j.pc \in {"recheck", "pruning"}
         /\ j.left = jobs[v].left /\ j.ok = jobs[v].ok /\ j.sources = jobs[v].sources
         /\ j.pc = "pruning" => Cardinality({w \in Succeeded : w >= j.cutoff}) = Retention
  <2>1. CASE Cardinality(Succeeded) < Retention
    <3> DEFINE j == [jobs[v] EXCEPT !.pc = "recheck"]
    <3>1. /\ j \in DocJob /\ j.pc = "recheck" /\ j.left = jobs[v].left /\ j.ok = jobs[v].ok
          /\ j.sources = jobs[v].sources
      BY JobStands DEF DocJob
    <3>2. jobs' = [jobs EXCEPT ![v] = j]
      BY <2>1, TypeParts DEF FindKept, GotoJob
    <3> HIDE DEF j
    <3> QED
      BY <3>1, <3>2
  <2>2. CASE ~(Cardinality(Succeeded) < Retention)
    <3> DEFINE k == CHOOSE x \in Succeeded : Cardinality({w \in Succeeded : w >= x}) = Retention
               j == [jobs[v] EXCEPT !.pc = "pruning", !.cutoff = k]
    <3>1. k \in Succeeded /\ Cardinality({w \in Succeeded : w >= k}) = Retention
      <4>1. Succeeded \in SUBSET (1 .. MaxVersions) /\ MaxVersions \in Nat
            /\ Retention \in Nat \ {0}
        BY DEF Succeeded, Rows, Versions, TopicAssumption
      <4>2. Cardinality(Succeeded) \in Nat
        <5>1. IsFiniteSet(Succeeded)
          BY <4>1, VersionsFinite, FS_Subset DEF Versions
        <5> QED
          BY <5>1, FS_CardinalityType
      <4>3. Cardinality(Succeeded) >= Retention
        BY <2>2, <4>1, <4>2
      <4>4. \E x \in Succeeded : Cardinality({w \in Succeeded : w >= x}) = Retention
        <5>1. \E x \in Succeeded : Cardinality(From(Succeeded, x)) = Retention
          BY <4>1, <4>3, KeptIs
        <5> QED
          BY <5>1 DEF From
      <4> QED
        BY <4>4
    <3> HIDE DEF k
    <3>2. k \in 0 .. MaxVersions
      BY <3>1 DEF Succeeded, Rows, Versions, TopicAssumption
    <3>3. /\ j \in DocJob /\ j.pc = "pruning" /\ j.left = jobs[v].left /\ j.ok = jobs[v].ok
          /\ j.sources = jobs[v].sources /\ j.cutoff = k
      BY <3>2, JobStands DEF DocJob
    <3>4. jobs' = [jobs EXCEPT ![v] = j]
      BY <2>2, TypeParts DEF FindKept, k
    <3> HIDE DEF j
    <3> QED
      BY <3>1, <3>3, <3>4
  <2> QED
    BY <2>1, <2>2
<1>3. TopicTypeOK'
  BY <1>1, <1>2, TypeParts DEF TopicTypeOK, TopicInv
<1>4. JobOk(j)
  BY <1>1, <1>2, JobStands DEF JobOk
<1>5. ASSUME topic # "deleted" PROVE JobKeeps(v, j, docs[v], seen'.read, seen'.overtaken)
  <2>1. j.pc = "pruning" => KeptAt(j.cutoff)
    <3> SUFFICES ASSUME j.pc = "pruning" PROVE KeptAt(j.cutoff)
      OBVIOUS
    <3>1. Cardinality({w \in Succeeded : w >= j.cutoff}) = Retention
      BY <1>2
    <3>2. {w \in Succeeded : w >= j.cutoff} \in SUBSET {w \in Written : w >= j.cutoff}
      BY <1>5, JobStands DEF Succeeded, Rows, Written, RowOk
    <3>3. IsFiniteSet({w \in Written : w >= j.cutoff})
      <4>1. {w \in Written : w >= j.cutoff} \in SUBSET Versions
        BY DEF Written
      <4> QED
        BY <4>1, VersionsFinite, FS_Subset
    <3> QED
      BY <3>1, <3>2, <3>3, FS_Subset, FS_CardinalityType DEF KeptAt, TopicAssumption
  <2>2. requests[v].pc = "idle" /\ RowOk(docs[v], jobs[v])
        /\ SinceOk(docs[v], jobs[v], assigned, seen.read)
        /\ (~seen.overtaken /\ docs[v].status = "processing" => v = Latest)
    BY <1>1, <1>5, JobStands
  <2> QED
    BY <1>1, <1>2, <2>1, <2>2 DEF JobKeeps, RowOk, SinceOk, Reading, Rechecking
<1> QED
  BY <1>1, <1>2, <1>3, <1>4, <1>5, JobStands, DocJobMoves

\* A prune takes no version another prune counts on, nor the newest.
LEMMA DeleteOldStep ==
    ASSUME TopicAssumption, TopicInv, NEW v \in Versions, DeleteOld(v) PROVE TopicInv'
<1> DEFINE j == [jobs[v] EXCEPT !.pc = "recheck"]
<1>1. PICK k \in 0 .. MaxVersions : k = jobs[v].cutoff
  BY JobStands DEF DocJob
<1>2. /\ UNCHANGED <<topic, assigned, tagging, timer, sweep, requests, tags, others, seen>>
      /\ jobs[v].pc = "pruning" /\ jobs' = [jobs EXCEPT ![v] = j]
      /\ docs' = [w \in Versions |-> IF w \in Succeeded /\ w < k THEN NoDoc ELSE docs[w]]
  BY <1>1, TypeParts DEF DeleteOld, taxonomy, alarms, spent, GotoJob
<1>3. /\ j \in DocJob /\ j.pc = "recheck" /\ j.left = jobs[v].left /\ j.ok = jobs[v].ok
      /\ j.sources = jobs[v].sources
  BY JobStands DEF DocJob
<1> HIDE DEF j
<1>4. /\ jobs'[v] = j /\ \A w \in Versions \ {v} : jobs'[w] = jobs[w]
  BY <1>2, TypeParts
<1>5. /\ docs' \in [Versions -> Doc]
      /\ \A w \in Versions : /\ w \in Succeeded /\ w < k => docs'[w] = NoDoc
                             /\ ~(w \in Succeeded /\ w < k) => docs'[w] = docs[w]
  BY <1>2, NoneIs, TypeParts
<1>6. TopicTypeOK'
  BY <1>2, <1>3, <1>5, TypeParts DEF TopicTypeOK, TopicInv
<1>7. JobsStand'
  <2>1. JobOk(j) /\ j.sources \subseteq seen.read
    BY <1>2, <1>3, JobStands DEF JobOk
  <2> QED
    BY <1>2, <1>4, <2>1, TypeParts DEF JobsStand
<1>8. ASSUME topic # "deleted" PROVE LiveInv'
  <2>1. /\ RowsStand /\ RequestsStand /\ HandsOver /\ InsertsAt /\ EmptyWaits /\ SinceTold
        /\ Prunes /\ InOrder /\ UnreadDue /\ UncoveredDue
    BY <1>8, LiveParts
  <2>2. KeptAt(k)
    BY <1>1, <1>2, <2>1 DEF Prunes
  <2>3. PICK u \in Written : u >= k
    <3>1. {w \in Written : w >= k} # {}
      <4> SUFFICES ASSUME {w \in Written : w >= k} = {} PROVE FALSE
        OBVIOUS
      <4>1. Cardinality({w \in Written : w >= k}) = 0
        BY FS_EmptySet
      <4> QED
        BY <2>2, <4>1 DEF KeptAt, TopicAssumption
    <3> QED
      BY <3>1
  <2>4. u \in Versions /\ docs[u].status # "none" /\ u \in Nat
    BY <2>1, NoneIs, CallersAre DEF Written, RowsStand, RowOk
  <2>5. \A w \in Versions : docs'[w] = docs[w] \/ (docs[w].status = "succeeded" /\ docs'[w] = NoDoc)
    BY <1>5 DEF Succeeded, Rows
  <2>6. Latest' = Latest /\ NewestRow' = NewestRow
    <3>1. \A w \in Versions : docs'[w].status # "none" => docs[w].status # "none"
      BY <2>5
    <3>2. ASSUME NEW w \in Versions, docs[w].status # "none", docs'[w].status = "none"
          PROVE  u > w
      <4>1. w < k /\ w \in Nat
        BY <1>5, <3>2, CallersAre
      <4> QED
        BY <2>3, <2>4, <4>1
    <3> QED
      BY <1>5, <2>4, <3>1, <3>2, LatestStays, TypeParts
  <2>7. \A w \in NewestRow : docs'[w] = docs[w]
    <3> SUFFICES ASSUME NEW w \in NewestRow PROVE docs'[w] = docs[w]
      OBVIOUS
    <3>1. u <= w /\ w \in Nat
      <4>1. w \in Versions /\ w = Latest /\ IsNewest(docs, Latest)
        BY LatestIs, TypeParts DEF NewestRow
      <4> QED
        BY <2>4, <4>1, CallersAre DEF IsNewest
    <3>2. ~(w < k)
      BY <2>3, <2>4, <3>1
    <3> QED
      BY <1>5, <3>2 DEF NewestRow
  <2>8. RowsStand'
    <3> SUFFICES ASSUME NEW w \in Versions PROVE RowOk(docs'[w], jobs'[w])
      BY DEF RowsStand
    <3>1. RowOk(docs[w], jobs[w])
      BY <2>1 DEF RowsStand
    <3>2. RowOk(docs[w], jobs'[w])
      BY <1>2, <1>3, <1>4, <3>1 DEF RowOk
    <3>3. docs[w].status = "succeeded" => RowOk(NoDoc, jobs'[w])
      BY <3>2, NoneIs DEF RowOk
    <3> QED
      BY <2>5, <3>2, <3>3
  <2>9. RequestsStand'
    BY <1>2, <1>4, <2>1 DEF RequestsStand
  <2>10. HandsOver'
    BY <1>2, <1>4, <2>1, <2>5 DEF HandsOver
  <2>11. InsertsAt'
    BY <1>2, <2>1 DEF InsertsAt
  <2>12. EmptyWaits'
    BY <1>2, <1>3, <1>4, <2>1 DEF EmptyWaits, Alarmed
  <2>13. SinceTold'
    <3> SUFFICES ASSUME NEW w \in Versions PROVE SinceOk(docs'[w], jobs'[w], assigned, seen.read)
      BY <1>2 DEF SinceTold
    <3>1. SinceOk(docs[w], jobs[w], assigned, seen.read) /\ RowOk(docs[w], jobs[w])
      BY <2>1 DEF SinceTold, RowsStand
    <3>2. SinceOk(docs[w], jobs'[w], assigned, seen.read)
      BY <1>3, <1>4, <3>1 DEF SinceOk
    <3>3. docs[w].status = "succeeded" => SinceOk(NoDoc, jobs'[w], assigned, seen.read)
      BY <1>3, <1>4, <3>1, NoneIs DEF SinceOk, RowOk
    <3> QED
      BY <2>5, <3>2, <3>3
  <2>14. \A w \in Written : w >= k => w \in Written'
    BY <1>5, CallersAre DEF Written
  <2>15. Prunes'
    <3> SUFFICES ASSUME NEW w \in Versions, jobs'[w].pc = "pruning" PROVE KeptAt(jobs[w].cutoff)'
      BY DEF Prunes
    <3>1. w # v /\ jobs'[w] = jobs[w]
      BY <1>3, <1>4
    <3>2. PICK a \in 0 .. MaxVersions : a = jobs'[w].cutoff
      BY <3>1, JobStands DEF DocJob
    <3>3. KeptAt(a)
      BY <2>1, <3>1, <3>2 DEF Prunes
    <3>4. PICK b \in {a, k} : b >= a /\ b >= k /\ KeptAt(b)
      BY <2>2, <3>3 DEF TopicAssumption
    <3>5. {x \in Written : x >= b} \in SUBSET {x \in Written' : x >= a}
      <4> SUFFICES ASSUME NEW x \in Written, x >= b PROVE x >= a /\ x >= k
        BY <2>14
      <4>1. x \in Nat /\ a \in Nat /\ k \in Nat /\ b \in Nat
        BY CallersAre DEF Written, TopicAssumption
      <4> QED
        BY <3>4, <4>1
    <3>6. IsFiniteSet({x \in Written' : x >= a})
      <4>1. {x \in Written' : x >= a} \in SUBSET Versions
        BY DEF Written
      <4> QED
        BY <4>1, VersionsFinite, FS_Subset
    <3>7. KeptAt(a)'
      <4>1. /\ Cardinality({x \in Written : x >= b}) <= Cardinality({x \in Written' : x >= a})
            /\ IsFiniteSet({x \in Written : x >= b})
        BY <3>5, <3>6, FS_Subset
      <4>2. /\ Cardinality({x \in Written : x >= b}) \in Nat
            /\ Cardinality({x \in Written' : x >= a}) \in Nat
        BY <3>6, <4>1, FS_CardinalityType
      <4>3. Cardinality({x \in Written : x >= b}) >= Retention
        BY <3>4 DEF KeptAt
      <4>4. Cardinality({x \in Written' : x >= a}) >= Retention
        BY <4>1, <4>2, <4>3 DEF TopicAssumption
      <4> QED
        BY <4>4 DEF KeptAt
    <3> QED
      BY <3>2, <3>7 DEF KeptAt
  <2>16. InOrder'
    BY <1>2, <2>1, <2>5, <2>6, NoneIs DEF InOrder
  <2>17. \A w \in Versions : Lost(w) => Lost(w)'
    BY <1>2, <1>4, <2>5 DEF Lost
  <2>18. \A c \in Callers : Asking(c) => Asking(c)'
    BY <1>2, <2>1, <2>5 DEF Asking, InsertsAt
  <2>19. \A w \in Versions :
            /\ Reading(docs[w], jobs[w]) => Reading(docs'[w], jobs'[w])
            /\ Rechecking(jobs[w]) => Rechecking(jobs'[w])
    <3> SUFFICES ASSUME NEW w \in Versions
                 PROVE  /\ Reading(docs[w], jobs[w]) => Reading(docs'[w], jobs'[w])
                        /\ Rechecking(jobs[w]) => Rechecking(jobs'[w])
      OBVIOUS
    <3>1. CASE w = v
      BY <1>2, <1>3, <1>4, <3>1 DEF Reading, Rechecking
    <3>2. CASE w # v
      BY <1>4, <2>5, <3>2 DEF Reading, Rechecking
    <3> QED
      BY <3>1, <3>2
  <2>20. UnreadDue'
    BY <1>2, <2>1, <2>17, <2>18, <2>19 DEF UnreadDue, Due, Alarmed
  <2>21. UncoveredDue'
    <3> SUFFICES ASSUME ~seen.overtaken, NEW i \in assigned
                 PROVE  Due(i, NewestRow)' \/ \E w \in NewestRow' : Covers(docs'[w], i)
      BY <1>2 DEF UncoveredDue
    <3>1. Due(i, NewestRow) \/ \E w \in NewestRow : Covers(docs[w], i)
      BY <2>1 DEF UncoveredDue
    <3>2. Due(i, NewestRow) => Due(i, NewestRow)'
      <4>1. NewestRow \subseteq Versions
        BY DEF NewestRow
      <4> QED
        BY <1>2, <2>6, <2>17, <2>18, <2>19, <4>1 DEF Due, Alarmed
    <3> QED
      BY <2>6, <2>7, <3>1, <3>2
  <2> QED
    BY <2>8, <2>9, <2>10, <2>11, <2>12, <2>13, <2>15, <2>16, <2>20, <2>21 DEF LiveInv, Settles
<1> QED
  BY <1>2, <1>6, <1>7, <1>8 DEF TopicInv

\* The re-check finds all items read, or asks.
LEMMA RecheckStep ==
    ASSUME TopicAssumption, TopicInv, NEW v \in Versions, Recheck(v) PROVE TopicInv'
<1>1. /\ UNCHANGED <<topic, assigned, tagging, timer, sweep, docs, tags, others, seen>>
      /\ jobs[v].pc = "recheck" /\ docs' = [docs EXCEPT ![v] = docs[v]]
  BY TypeParts DEF Recheck, taxonomy, alarms, spent
<1>2. CASE assigned \subseteq jobs[v].sources /\ EndJob(v) /\ UNCHANGED requests
  <2>1. jobs' = [jobs EXCEPT ![v] = JobAfter(v)]
    BY <1>2 DEF EndJob
  <2>2. TopicTypeOK'
    BY <1>1, <1>2, <2>1, JobAfterIs, TypeParts DEF TopicTypeOK, TopicInv
  <2>3. ASSUME topic # "deleted"
        PROVE  JobKeeps(v, JobAfter(v), docs[v], seen'.read, seen'.overtaken)
    <3>1. /\ requests[v].pc = "idle" /\ RowOk(docs[v], jobs[v])
          /\ SinceOk(docs[v], jobs[v], assigned, seen.read)
          /\ jobs[v].sources \subseteq seen.read
          /\ (~seen.overtaken /\ docs[v].status = "processing" => v = Latest)
      BY <1>1, <2>3, JobStands
    <3>2. v = Latest => docs[v].status # "none"
      BY LatestIs, TypeParts, CallersAre DEF IsNewest
    <3>3. v = Latest => \A i \in assigned : Covers(docs[v], i)
      BY <1>1, <1>2, <3>1, <3>2 DEF RowOk, Covers
    <3> QED
      BY <1>1, <1>2, <3>1, <3>3, JobAfterIs DEF JobKeeps, RowOk, SinceOk, Reading
  <2> QED
    BY <1>1, <1>2, <2>1, <2>2, <2>3, JobAfterIs, JobStands, DocJobMoves
<1>3. CASE GotoJob(v, "ending") /\ AskVersion(v)
  <2> DEFINE j == [jobs[v] EXCEPT !.pc = "ending"]
             r == [requests[v] EXCEPT !.pc = "check"]
  <2>1. /\ j \in DocJob /\ j.pc = "ending" /\ j.left = jobs[v].left /\ j.ok = jobs[v].ok
        /\ j.sources = jobs[v].sources
    BY JobStands DEF DocJob
  <2>2. r \in DocRequest /\ r.pc = "check"
    BY CallersAre, TypeParts DEF DocRequest
  <2>3. jobs' = [jobs EXCEPT ![v] = j] /\ requests' = [requests EXCEPT ![v] = r]
    BY <1>3, TypeParts DEF GotoJob, AskVersion
  <2> HIDE DEF j, r
  <2>4. /\ jobs'[v] = j /\ \A w \in Versions \ {v} : jobs'[w] = jobs[w]
        /\ requests'[v] = r /\ \A c \in Callers \ {v} : requests'[c] = requests[c]
    BY <2>3, CallersAre, TypeParts
  <2>5. TopicTypeOK'
    BY <1>1, <2>1, <2>2, <2>3, TypeParts DEF TopicTypeOK, TopicInv
  <2>6. JobsStand'
    <3>1. JobOk(j) /\ j.sources \subseteq seen.read
      BY <1>1, <2>1, JobStands DEF JobOk
    <3> QED
      BY <1>1, <2>4, <3>1, TypeParts DEF JobsStand
  <2>7. ASSUME topic # "deleted" PROVE LiveInv'
    <3>1. /\ RowsStand /\ RequestsStand /\ HandsOver /\ InsertsAt /\ EmptyWaits /\ SinceTold
          /\ Prunes /\ InOrder
      BY <2>7, LiveParts
    <3>2. RowsStand'
      BY <1>1, <2>1, <2>4, <3>1 DEF RowsStand, RowOk
    <3>3. RequestsStand'
      BY <1>1, <2>1, <2>2, <2>4, <3>1, CallersAre DEF RequestsStand
    <3>4. HandsOver'
      BY <1>1, <2>2, <2>4, <3>1 DEF HandsOver
    <3>5. InsertsAt'
      BY <2>2, <2>4, <3>1 DEF InsertsAt
    <3>6. EmptyWaits'
      BY <1>1, <2>1, <2>4, <3>1 DEF EmptyWaits, Alarmed
    <3>7. SinceTold'
      BY <1>1, <2>1, <2>4, <3>1 DEF SinceTold, SinceOk
    <3>8. Prunes'
      BY <1>1, <2>1, <2>4, <3>1 DEF Prunes, KeptAt, Written
    <3>9. InOrder'
      BY <1>1, <3>1 DEF InOrder, Latest, Rows
    <3>10. Settles'
      <4>1. Asking(v)' /\ v \in Callers
        BY <2>2, <2>4, CallersAre DEF Asking
      <4> QED
        BY <4>1, AllDueNext
    <3> QED
      BY <3>2, <3>3, <3>4, <3>5, <3>6, <3>7, <3>8, <3>9, <3>10 DEF LiveInv
  <2> QED
    BY <1>1, <2>5, <2>6, <2>7 DEF TopicInv
<1> QED
  BY <1>2, <1>3 DEF Recheck

\* A crash leaves it to the sweep of the next boot.
LEMMA TopicCrashStep == ASSUME TopicAssumption, TopicInv, TopicCrash PROVE TopicInv'
<1> DEFINE j(v) == [NoDocJob EXCEPT !.pc = "waiting", !.left = jobs[v].left]
<1>1. /\ UNCHANGED <<topic, assigned, docs, seen, tags>>
      /\ others < MaxOthers /\ others' = others + 1
      /\ timer' = FALSE /\ sweep' = TRUE
      /\ requests' = [c \in Callers |-> NoDocRequest]
      /\ jobs' = [v \in Versions |-> IF jobs[v] = NoDocJob THEN NoDocJob ELSE j(v)]
      /\ tagging' = [i \in Items |-> IF tagging[i] = "idle" THEN "idle" ELSE Known]
  BY DEF TopicCrash
<1>2. \A v \in Versions : /\ j(v) \in DocJob /\ j(v).pc = "waiting" /\ j(v).ok = FALSE
                          /\ j(v).left = jobs[v].left /\ j(v).sources = {}
  <2> SUFFICES ASSUME NEW v \in Versions
               PROVE  /\ j(v) \in DocJob /\ j(v).pc = "waiting" /\ j(v).ok = FALSE
                      /\ j(v).left = jobs[v].left /\ j(v).sources = {}
    OBVIOUS
  <2>1. jobs[v].left \in 0 .. JobTries
    BY JobStands DEF DocJob
  <2> QED
    BY <2>1, NoneIs DEF DocJob, NoDocJob
<1> HIDE DEF j
<1>3. \A v \in Versions : /\ jobs'[v] \in DocJob /\ JobOk(jobs'[v])
                          /\ jobs'[v].pc \in {"none", "waiting"} /\ jobs'[v].sources = {}
  <2> SUFFICES ASSUME NEW v \in Versions
               PROVE  /\ jobs'[v] \in DocJob /\ JobOk(jobs'[v])
                      /\ jobs'[v].pc \in {"none", "waiting"} /\ jobs'[v].sources = {}
    OBVIOUS
  <2>1. CASE jobs[v] = NoDocJob
    BY <1>1, <2>1, NoneIs DEF JobOk
  <2>2. CASE jobs[v] # NoDocJob
    <3>1. jobs'[v] = j(v) /\ jobs[v].left # 0
      BY <1>1, <2>2, JobStands DEF JobOk
    <3> QED
      BY <1>2, <3>1 DEF JobOk
  <2> QED
    BY <2>1, <2>2
<1>4. others' \in 0 .. MaxOthers
  BY <1>1, TypeParts DEF TopicAssumption
<1>5. /\ jobs' \in [Versions -> DocJob] /\ requests' \in [Callers -> DocRequest]
      /\ tagging' \in [Items -> {"idle", "known", "unknown", "tagged"}]
  <2>1. jobs' \in [Versions -> DocJob]
    <3>1. jobs' = [v \in Versions |-> jobs'[v]]
      BY <1>1
    <3> QED
      BY <1>3, <3>1
  <2> QED
    BY <1>1, <2>1, NoneIs DEF Known
<1>6. TopicTypeOK'
  BY <1>1, <1>4, <1>5, TypeParts DEF TopicTypeOK, TopicInv
<1>7. JobsStand'
  BY <1>3 DEF JobsStand
<1>8. ASSUME topic # "deleted" PROVE LiveInv'
  <2>1. RowsStand /\ SinceTold /\ InOrder
    BY <1>8, LiveParts
  <2>2. RowsStand'
    BY <1>1, <1>3, <2>1 DEF RowsStand, RowOk
  <2>3. \A c \in Callers : requests'[c] = NoDocRequest /\ requests'[c].pc = "idle"
    BY <1>1, NoneIs
  <2>4. RequestsStand' /\ HandsOver' /\ InsertsAt'
    BY <2>3, CallersAre DEF RequestsStand, HandsOver, InsertsAt
  <2>5. EmptyWaits' /\ Prunes'
    BY <1>3 DEF EmptyWaits, Prunes
  <2>6. SinceTold'
    BY <1>1, <1>3, <2>1 DEF SinceTold, SinceOk
  <2>7. InOrder'
    BY <1>1, <2>1 DEF InOrder, Latest, Rows
  <2>8. Settles'
    BY <1>1, AllDueNext
  <2> QED
    BY <2>2, <2>4, <2>5, <2>6, <2>7, <2>8 DEF LiveInv
<1> QED
  BY <1>1, <1>6, <1>7, <1>8 DEF TopicInv
-----------------------------------------------------------------------------
(* The theorems. *)

\* It holds at the start,
LEMMA TopicStarts == ASSUME TopicAssumption, TopicInit PROVE TopicInv
<1>1. /\ requests \in [Callers -> DocRequest] /\ docs \in [Versions -> Doc]
      /\ jobs \in [Versions -> DocJob]
      /\ \A c \in Callers : requests[c] = NoDocRequest
      /\ \A v \in Versions : docs[v] = NoDoc /\ jobs[v] = NoDocJob
  BY NoneIs DEF TopicInit
<1>2. seen \in TopicHistory
  BY DEF TopicInit, TopicHistory
<1>3. TopicTypeOK
  <2>1. 0 \in 0 .. MaxTags /\ 0 \in 0 .. MaxOthers
    BY DEF TopicAssumption
  <2>2. tagging \in [Items -> {"idle", "known", "unknown", "tagged"}]
    BY DEF TopicInit
  <2> QED
    BY <1>1, <1>2, <2>1, <2>2 DEF TopicInit, TopicTypeOK
<1>4. JobsStand
  BY <1>1, NoneIs DEF JobsStand, JobOk
<1>5. RowsStand /\ SinceTold /\ InOrder
  BY <1>1, NoneIs DEF RowsStand, RowOk, SinceTold, SinceOk, InOrder
<1>6. RequestsStand /\ HandsOver /\ InsertsAt
  BY <1>1, NoneIs, CallersAre DEF RequestsStand, HandsOver, InsertsAt
<1>7. EmptyWaits /\ Prunes
  BY <1>1, NoneIs DEF EmptyWaits, Prunes
<1>8. Settles
  BY DEF TopicInit, Settles, UnreadDue, UncoveredDue
<1> QED
  BY <1>3, <1>4, <1>5, <1>6, <1>7, <1>8 DEF TopicInv, LiveInv

\* while nothing happens,
LEMMA TopicStutters == ASSUME TopicInv, UNCHANGED topicVars PROVE TopicInv'
<1>1. UNCHANGED <<topic, assigned, tagging, timer, sweep, requests, docs, jobs, tags, others, seen>>
  BY DEF topicVars
<1>2. TopicTypeOK' /\ JobsStand'
  BY <1>1, TypeParts DEF TopicTypeOK, JobsStand
<1>3. ASSUME topic # "deleted" PROVE LiveInv'
  <2>1. RowsStand' /\ RequestsStand' /\ HandsOver' /\ InsertsAt'
    BY <1>1, <1>3, LiveParts DEF RowsStand, RequestsStand, HandsOver, InsertsAt
  <2>2. EmptyWaits' /\ SinceTold' /\ Prunes' /\ InOrder'
    BY <1>1, <1>3, LiveParts
       DEF EmptyWaits, Alarmed, SinceTold, Prunes, KeptAt, Written, InOrder, Latest, Rows
  <2>3. UnreadDue' /\ UncoveredDue'
    BY <1>1, <1>3, LiveParts
       DEF UnreadDue, UncoveredDue, Due, Alarmed, Asking, Lost, NewestRow, Latest, Rows
  <2> QED
    BY <2>1, <2>2, <2>3 DEF LiveInv, Settles
<1> QED
  BY <1>1, <1>2, <1>3 DEF TopicInv

\* through every step,
LEMMA TopicSteps == ASSUME TopicAssumption, TopicInv, [TopicNext]_topicVars PROVE TopicInv'
<1>1. ASSUME NEW i \in Items, TagStep(i) PROVE TopicInv'
  BY <1>1, AssignStep, OnTopicsAssignedStep DEF TagStep
<1>2. ASSUME NEW c \in Callers, RequestStep(c) PROVE TopicInv'
  BY <1>2, CheckInFlightStep, CountVersionsStep, InsertVersionStep, HandOverVersionStep
     DEF RequestStep
<1>3. ASSUME NEW v \in Versions, JobStep(v) PROVE TopicInv'
  BY <1>3, TakeVersionStep, ReadItemsStep, GenerateStep, FindKeptStep, DeleteOldStep, RecheckStep,
     FollowedUpStep DEF JobStep
<1>4. CASE Progress
  BY <1>1, <1>2, <1>3, <1>4, FireTimerStep, SweepTopicsStep, FailStep DEF Progress
<1>5. CASE UNCHANGED topicVars
  BY <1>5, TopicStutters
<1> QED
  BY <1>4, <1>5, RegenerateStep, TopicCrashStep, EditTopicStep, ClassifyStep,
     HandOverVersionFailsStep DEF TopicNext

\* and so always.
LEMMA TopicHolds == TopicSpec => []TopicInv
<1>1. TopicInit => TopicInv
  BY TopicStarts, TopicAssumption
<1>2. TopicInv /\ [TopicNext]_topicVars => TopicInv'
  BY TopicSteps, TopicAssumption
<1> QED
  BY <1>1, <1>2, PTL DEF TopicSpec

\* Every variable keeps to its type.
THEOREM TopicTypeCorrect == TopicSpec => []TopicTypeOK
<1>1. TopicInv => TopicTypeOK
  BY DEF TopicInv
<1> QED
  BY <1>1, TopicHolds, PTL

\* Once all is quiet nothing is due.
LEMMA NothingDue ==
    ASSUME TopicAssumption, TopicInv, Tended, NEW i \in Items, NEW V \in SUBSET Versions
    PROVE  ~Due(i, V)
<1>1. /\ ~timer /\ ~sweep /\ ~seen.skipped /\ tagging[i] = "idle" /\ ~Stuck
      /\ \A c \in Callers : requests[c].pc = "idle"
      /\ \A v \in Versions : jobs[v] = NoDocJob /\ jobs[v].pc = "none"
  BY NoneIs DEF Tended, Idle
<1>2. ~Alarmed(i) /\ \A c \in Callers : ~Asking(c)
  BY <1>1 DEF Alarmed, Asking
<1>3. \A v \in Versions : ~Lost(v)
  BY <1>1 DEF Lost, Stuck, InFlight, Rows
<1>4. \A v \in Versions : ~Reading(docs[v], jobs[v]) /\ ~Rechecking(jobs[v])
  BY <1>1 DEF Reading, Rechecking
<1> QED
  BY <1>1, <1>2, <1>3, <1>4 DEF Due

\* Once all is quiet, some generation has read every item since it was assigned:
\* enqueueRegeneration that defers to a version in flight, a job that fails or is run
\* again, and a crash never drop a trigger.
THEOREM NothingDropped == TopicSpec => []NoItemDropped
<1>1. TopicInv => NoItemDropped
  <2> SUFFICES ASSUME TopicInv, Tended, NEW i \in assigned PROVE i \in seen.read
    BY DEF NoItemDropped
  <2>1. i \in Items /\ UnreadDue
    BY LiveParts, TypeParts DEF Tended
  <2>2. ~Due(i, Versions)
    BY <2>1, NothingDue, TopicAssumption
  <2> QED
    BY <2>1, <2>2 DEF UnreadDue
<1> QED
  BY <1>1, TopicHolds, PTL

\* The document getDocument shows once all is quiet is built from every item,
\* unless the newest generation failed or versions overlapped.
THEOREM ShowsComplete == TopicSpec => []ShownIsComplete
<1>1. TopicInv => ShownIsComplete
  <2> SUFFICES ASSUME TopicInv, Tended, ~seen.overtaken, assigned # {},
                      docs[Latest].status # "failed"
               PROVE  assigned \subseteq docs[Current].sources
    BY DEF ShownIsComplete
  <2>1. ASSUME NEW i \in assigned
        PROVE  /\ Latest \in Versions /\ docs[Latest].status = "succeeded"
               /\ i \in docs[Latest].sources
    <3>1. i \in Items /\ UncoveredDue
      BY LiveParts, TypeParts DEF Tended
    <3>2. NewestRow \in SUBSET Versions
      BY DEF NewestRow
    <3>3. ~Due(i, NewestRow)
      BY <3>1, <3>2, NothingDue, TopicAssumption
    <3>4. PICK v \in NewestRow : Covers(docs[v], i)
      BY <3>1, <3>3 DEF UncoveredDue
    <3> QED
      BY <3>4 DEF NewestRow, Covers
  <2>2. Latest \in Versions /\ docs[Latest].status = "succeeded"
    BY <2>1
  <2>3. Current = Latest
    <3>1. Latest \in Succeeded
      BY <2>2 DEF Succeeded, Rows
    <3>2. Current \in Succeeded /\ Latest <= Current
      BY <3>1, CurrentIs, TypeParts, TopicAssumption
    <3>3. Current \in Versions /\ docs[Current].status # "none"
      BY <3>2 DEF Succeeded, Rows
    <3>4. Current <= Latest
      BY <3>3, LatestIs, TypeParts, TopicAssumption DEF IsNewest
    <3> QED
      BY <2>2, <3>2, <3>3, <3>4, CallersAre, TopicAssumption
  <2> QED
    BY <2>1, <2>3
<1> QED
  BY <1>1, TopicHolds, PTL

\* Only a prune, or the sweep over a topic that is gone, takes rows away.
LEMMA RowsStay ==
    ASSUME TopicAssumption, TopicInv, [TopicNext]_topicVars, topic # "deleted",
           NEW v \in Versions, docs[v].status # "none", docs'[v].status = "none"
    PROVE  \E w \in Versions : DeleteOld(w)
<1>1. docs \in [Versions -> Doc] /\ docs' # docs /\ docs[v] # NoDoc
  BY NoneIs, TypeParts
<1>2. ASSUME NEW i \in Items, TagStep(i) PROVE FALSE
  <2>1. PICK lands \in BOOLEAN : Assign(i, lands)
    BY <1>1, <1>2 DEF TagStep, OnTopicsAssigned
  <2>2. ASSUME NEW d \in Doc PROVE [d EXCEPT !.since = @ \cup {i}].status = d.status
    BY DEF Doc
  <2>3. docs'[v] \in {docs[v], [docs[v] EXCEPT !.since = @ \cup {i}]}
    BY <2>1 DEF Assign
  <2> QED
    BY <1>1, <2>2, <2>3
<1>3. ASSUME NEW c \in Callers, RequestStep(c) PROVE FALSE
  <2>1. InsertVersion(c)
    BY <1>1, <1>3 DEF RequestStep, CheckInFlight, CountVersions, HandOverVersion
  <2>2. docs'[v] = docs[v]
    BY <1>1, <2>1 DEF InsertVersion
  <2> QED
    BY <2>2
<1>4. ASSUME NEW w \in Versions, NEW s \in {"processing", "succeeded", "failed"}, NEW x,
             SetRow(w, [docs[w] EXCEPT !.status = s])
             \/ SetRow(w, [docs[w] EXCEPT !.status = s, !.sources = x])
      PROVE  FALSE
  <2>1. docs'[v] \in {docs[v], [docs[w] EXCEPT !.status = s],
                      [docs[w] EXCEPT !.status = s, !.sources = x]}
    BY <1>1, <1>4 DEF SetRow
  <2>2. /\ [docs[w] EXCEPT !.status = s].status = s
        /\ [docs[w] EXCEPT !.status = s, !.sources = x].status = s
    BY <1>1 DEF Doc
  <2> QED
    BY <2>1, <2>2
<1>5. ASSUME NEW w \in Versions, JobStep(w) \/ Fail(w) PROVE DeleteOld(w)
  <2>1. TakeVersion(w) \/ Generate(w) \/ DeleteOld(w) \/ Fail(w)
    BY <1>1, <1>5 DEF JobStep, ReadItems, FindKept, Recheck, FollowedUp
  <2> QED
    BY <1>1, <1>4, <2>1 DEF TakeVersion, Generate, Fail
<1>6. ~FireTimer /\ ~SweepTopics /\ ~Regenerate /\ ~TopicCrash
  BY <1>1 DEF FireTimer, SweepTopics, Regenerate, TopicCrash
<1>7. /\ \A to \in {"active", "archived", "deleted"} : ~EditTopic(to)
      /\ \A i \in Items : ~Classify(i)
      /\ \A c \in Callers : ~HandOverVersionFails(c)
      /\ ~UNCHANGED topicVars
  BY <1>1 DEF EditTopic, Classify, HandOverVersionFails, topicVars
<1> QED
  BY <1>2, <1>3, <1>5, <1>6, <1>7 DEF TopicNext, Progress

\* pruneTopicDocumentHistory deletes a written version only beside enough newer ones,
\* however prunes, generations and repeated jobs interleave.
THEOREM KeepsHistory == TopicSpec => HistoryKept
<1> DEFINE Kept ==
      topic # "deleted" =>
         \A v \in Written : docs'[v] = NoDoc => Cardinality({w \in Written : w > v}) >= Retention
<1>1. TopicInv /\ [TopicNext]_topicVars => Kept
  <2> SUFFICES ASSUME TopicInv, [TopicNext]_topicVars, topic # "deleted",
                      NEW v \in Written, docs'[v] = NoDoc
               PROVE  Cardinality({w \in Written : w > v}) >= Retention
    OBVIOUS
  <2> USE TopicAssumption
  <2>1. v \in Versions /\ docs[v].status # "none" /\ docs'[v].status = "none" /\ v \in Nat
    BY NoneIs, LiveParts, CallersAre DEF Written, RowsStand, RowOk
  <2>2. PICK u \in Versions : DeleteOld(u)
    BY <2>1, RowsStay
  <2>3. PICK k \in 0 .. MaxVersions : k = jobs[u].cutoff
    BY JobStands DEF DocJob
  <2>4. v < k
    BY <2>1, <2>2, <2>3, NoneIs DEF DeleteOld
  <2>5. KeptAt(k)
    BY <2>2, <2>3, LiveParts DEF DeleteOld, Prunes
  <2>6. {w \in Written : w >= k} \in SUBSET {w \in Written : w > v}
    <3> SUFFICES ASSUME NEW w \in Written, w >= k PROVE w > v
      OBVIOUS
    <3>1. w \in Nat /\ k \in Nat
      BY CallersAre DEF Written, TopicAssumption
    <3> QED
      BY <2>1, <2>4, <3>1
  <2>7. IsFiniteSet({w \in Written : w > v})
    <3>1. {w \in Written : w > v} \in SUBSET Versions
      BY DEF Written
    <3> QED
      BY <3>1, VersionsFinite, FS_Subset
  <2>8. /\ Cardinality({w \in Written : w >= k}) <= Cardinality({w \in Written : w > v})
        /\ Cardinality({w \in Written : w >= k}) \in Nat
        /\ Cardinality({w \in Written : w > v}) \in Nat
    BY <2>6, <2>7, FS_Subset, FS_CardinalityType
  <2> QED
    BY <2>5, <2>8 DEF KeptAt, TopicAssumption
<1>2. TopicInv /\ [TopicNext]_topicVars => [Kept]_topicVars
  BY <1>1
<1> QED
  BY <1>2, TopicHolds, PTL DEF TopicSpec, HistoryKept
=============================================================================
