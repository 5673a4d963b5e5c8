----------------------- MODULE FactsSupersessionProofs -----------------------
(***************************************************************************)
(* Theorems about FactsSupersession, for any items, values, extractions    *)
(* and workers, and every bound.                                           *)
(***************************************************************************)
EXTENDS FactsSupersession, TLAPS, WellFoundedInduction

(***************************************************************************)
(* Types                                                                   *)
(***************************************************************************)
\* Functions on a part of D.
Partial(D, S) == UNION {[E -> S] : E \in SUBSET D}
Stages == {"idle", "resolve", "store", "save", "complete", "drop"}
TxRec == [pc : Stages, todo : Partial(Values, BOOLEAN), seen : RowIds \cup {Null},
          stmt : Values \cup {Null}, old : Row \cup NotRows, touched : BOOLEAN,
          writes : Partial(RowIds, Row \cup NotRows), cites : SUBSET RowIds,
          orphans : SUBSET RowIds, plan : Partial(RowIds, Row)]
Table == [RowIds -> Row \cup NotRows]
Statuses == {"none", "queued", "processing", "succeeded", "failed", "deleted"}

\* The statement under way is one of those to store, and the row it found is a row.
Storing(r) == r.pc = "store" => r.stmt \in DOMAIN r.todo /\ (r.seen # Null => r.old \in Row)

\* Every variable has its type; an ingest drops nothing, a deletion stores nothing.
TypeInv ==
    /\ facts \in Table
    /\ cites \subseteq Attempts \X RowIds
    /\ status \in [Attempts -> Statuses]
    /\ tries \in [Attempts -> 0 .. MaxTries]
    /\ tx \in [Txs -> TxRec]
    /\ overlap \in {"none", "jobs", "delete"}
    /\ \A t \in Txs : Storing(tx[t])
    /\ \A x \in Attempts : tx[x].pc # "drop"
    /\ \A d \in Deletes : tx[d].pc \in {"idle", "drop", "save"}

\* A partial function is a function on a part of the domain.
LEMMA PartialIs ==
    ASSUME NEW D, NEW S, NEW f
    PROVE  f \in Partial(D, S) <=> \E E \in SUBSET D : f \in [E -> S]
BY DEF Partial

\* The empty function is partial on every set.
LEMMA EmptyPartial == ASSUME NEW D, NEW S PROVE <<>> \in Partial(D, S)
<1>1. <<>> \in [{} -> S]
  OBVIOUS
<1> QED BY <1>1 DEF Partial

\* A partial function is defined on a part of its domain.
LEMMA PartialDomain ==
    ASSUME NEW D, NEW S, NEW f \in Partial(D, S)
    PROVE  DOMAIN f \subseteq D /\ f \in [DOMAIN f -> S]
BY DEF Partial

\* One write over another is a write,
LEMMA OverPartial ==
    ASSUME NEW D, NEW S, NEW f \in Partial(D, S), NEW g \in Partial(D, S)
    PROVE  Over(f, g) \in Partial(D, S) /\ DOMAIN Over(f, g) = DOMAIN f \cup DOMAIN g
<1>1. DOMAIN f \subseteq D /\ f \in [DOMAIN f -> S] /\ DOMAIN g \subseteq D /\ g \in [DOMAIN g -> S]
  BY PartialDomain
<1>2. Over(f, g) \in [DOMAIN f \cup DOMAIN g -> S]
  BY <1>1 DEF Over
<1> QED BY <1>1, <1>2 DEF Partial

\* and a write over a table is the table, but for the rows written.
LEMMA OverTable ==
    ASSUME NEW w \in Partial(RowIds, Row \cup NotRows), NEW F \in Table
    PROVE  /\ Over(w, F) \in Table
           /\ \A r \in RowIds : Over(w, F)[r] = IF r \in DOMAIN w THEN w[r] ELSE F[r]
<1>1. DOMAIN w \subseteq RowIds /\ w \in [DOMAIN w -> Row \cup NotRows]
  BY PartialDomain
<1> QED BY <1>1 DEF Over, Table

\* Writing nothing changes nothing.
LEMMA OverNothing == ASSUME NEW F \in Table PROVE Over(<<>>, F) = F
<1>1. DOMAIN <<>> = {}
  OBVIOUS
<1>2. Over(<<>>, F) = [r \in DOMAIN F |-> F[r]]
  BY <1>1 DEF Over
<1> QED BY <1>2 DEF Table

\* What a recompute saves are rows.
LEMMA PlanIsWrite ==
    ASSUME NEW f \in Partial(RowIds, Row) PROVE f \in Partial(RowIds, Row \cup NotRows)
<1>1. PICK E \in SUBSET RowIds : f \in [E -> Row]
  BY DEF Partial
<1>2. f \in [E -> Row \cup NotRows]
  BY <1>1
<1> QED BY <1>2 DEF Partial

\* An id has a row, or is not created yet, or its row is deleted.
LEMMA RowsAre ==
    ASSUME NEW F \in Table, NEW r \in RowIds
    PROVE  r \in Rows(F) <=> F[r] \in Row
BY RowsAssumption DEF Rows, Table

\* The columns of a row.
LEMMA RowParts ==
    ASSUME NEW f \in Row
    PROVE  f.value \in Values /\ f.exclusive \in BOOLEAN /\ f.last \in Nat /\ f.by \in RowIds \cup {Null}
BY DEF Row

\* No row has the id that stands for none.
LEMMA NullIsNoRow == Null \notin RowIds
BY FactsAssumption DEF Null, RowIds

(***************************************************************************)
(* The winner                                                              *)
(***************************************************************************)
\* What may win, and what does.
Eligible(F, live) == {r \in Rows(F) \cap live : F[r].exclusive}
Best(F, E, w) == w \in E /\ \A r \in E \ {w} : Newer(w, r, F)

\* Of two rows one is newer: the one that was stated last, then the one created last.
LEMMA NewerOrders ==
    ASSUME NEW F \in Table, NEW a \in Rows(F), NEW b \in Rows(F), NEW c \in Rows(F)
    PROVE  /\ a # b => Newer(a, b, F) \/ Newer(b, a, F)
           /\ ~(Newer(a, b, F) /\ Newer(b, a, F))
           /\ Newer(a, b, F) /\ Newer(b, c, F) => Newer(a, c, F)
<1>1. a \in Nat /\ b \in Nat /\ c \in Nat
  BY FactsAssumption DEF Rows, RowIds
<1>2. F[a].last \in Nat /\ F[b].last \in Nat /\ F[c].last \in Nat
  BY RowsAre, RowParts DEF Rows
<1> QED BY <1>1, <1>2 DEF Newer

\* There is at most one newest row,
LEMMA OneBest ==
    ASSUME NEW F \in Table, NEW E, E \subseteq Rows(F), NEW v, NEW w, Best(F, E, v), Best(F, E, w)
    PROVE  v = w
<1>1. SUFFICES ASSUME v # w PROVE FALSE
  OBVIOUS
<1>2. Newer(v, w, F) /\ Newer(w, v, F) /\ v \in Rows(F) /\ w \in Rows(F)
  BY <1>1 DEF Best
<1> QED BY <1>2, NewerOrders

\* and there is one among any rows there are: if not, take a smallest bound on the ids
\* of rows without a newest; the row at the bound is the newest, or that of the rest is.
LEMMA BestExists ==
    ASSUME NEW F \in Table, NEW E, E \subseteq Rows(F), E # {}
    PROVE  \E w \in E : Best(F, E, w)
<1> DEFINE Bad(n) == \E T \in SUBSET E : T # {} /\ T \subseteq 1 .. n /\ \A w \in T : ~Best(F, T, w)
           B == {n \in Nat : Bad(n)}
<1>1. E \subseteq RowIds /\ MaxRows \in Nat
  BY FactsAssumption DEF Rows
<1>2. CASE B = {}
  <2>1. ~Bad(MaxRows)
    BY <1>1, <1>2
  <2>2. E \in SUBSET E /\ E \subseteq 1 .. MaxRows
    BY <1>1 DEF RowIds
  <2> QED BY <2>1, <2>2
<1>3. CASE B # {}
  <2>1. PICK m \in B : \A n \in B : ~(<<n, m>> \in OpToRel(<, Nat))
    <3> HIDE DEF Bad
    <3>1. B \subseteq Nat
      OBVIOUS
    <3> HIDE DEF B
    <3> QED BY <1>3, <3>1, NatLessThanWellFounded, WFMin
  <2>2. m \in Nat /\ Bad(m)
    OBVIOUS
  <2>3. PICK T \in SUBSET E : T # {} /\ T \subseteq 1 .. m /\ \A w \in T : ~Best(F, T, w)
    BY <2>2
  <2>4. m # 0 /\ m - 1 \in Nat
    <3>1. PICK k \in 1 .. m : TRUE
      BY <2>3
    <3>2. m \in Nat
      BY <2>2
    <3> HIDE DEF Bad, B
    <3> QED BY <3>1, <3>2
  <2>5. ~Bad(m - 1)
    <3>1. <<m - 1, m>> \in OpToRel(<, Nat)
      BY <2>2, <2>4 DEF OpToRel
    <3>2. m - 1 \notin B
      <4> HIDE DEF B
      <4> QED BY <2>1, <3>1
    <3> QED BY <3>2, <2>4
  <2> DEFINE U == T \ {m}
  <2>6. U \in SUBSET E /\ U \subseteq 1 .. m - 1
    <3> HIDE DEF Bad, B
    <3>1. \A r \in U : r \in 1 .. m /\ r # m
      BY <2>3
    <3>2. \A r \in U : r \in 1 .. m - 1
      BY <3>1, <2>2
    <3> QED BY <3>2
  <2>7. CASE U = {}
    <3>1. T = {m}
      BY <2>3, <2>7
    <3> QED BY <3>1, <2>3 DEF Best
  <2>8. CASE U # {}
    <3>1. PICK w \in U : Best(F, U, w)
      BY <2>5, <2>6, <2>8
    <3> HIDE DEF Bad, B
    <3>2. CASE m \notin T
      <4>1. U = T
        BY <3>2
      <4> QED BY <4>1, <3>1, <2>3
    <3>3. CASE m \in T
      <4>1. m \in Rows(F) /\ w \in Rows(F) /\ m # w /\ w \in T
        BY <3>3, <3>1
      <4>2. CASE Newer(w, m, F)
        <5>1. Best(F, T, w)
          BY <3>1, <4>1, <4>2 DEF Best
        <5> QED BY <5>1, <4>1, <2>3
      <4>3. CASE Newer(m, w, F)
        <5>1. ASSUME NEW r \in T \ {m} PROVE Newer(m, r, F)
          <6>1. r \in Rows(F) /\ r \in U
            OBVIOUS
          <6>2. r = w \/ Newer(w, r, F)
            BY <6>1, <3>1 DEF Best
          <6> QED BY <6>1, <6>2, <4>1, <4>3, NewerOrders
        <5>2. Best(F, T, m)
          BY <5>1, <3>3 DEF Best
        <5> QED BY <5>2, <3>3, <2>3
      <4> QED BY <4>1, <4>2, <4>3, NewerOrders
    <3> QED BY <3>2, <3>3
  <2> QED BY <2>7, <2>8
<1> QED BY <1>2, <1>3

\* The winner is the newest of the rows that are exclusive and live.
LEMMA WinnerIs ==
    ASSUME NEW F \in Table, NEW live
    PROVE  /\ Eligible(F, live) = {} => Winner(F, live) = Null
           /\ Eligible(F, live) # {} => Best(F, Eligible(F, live), Winner(F, live))
<1> DEFINE E == Eligible(F, live)
<1>1. E \subseteq Rows(F)
  BY DEF Eligible
<1>2. Winner(F, live) = IF E = {} THEN Null ELSE CHOOSE w \in E : \A r \in E \ {w} : Newer(w, r, F)
  BY DEF Winner, Eligible
<1> HIDE DEF E
<1>3. E # {} => \E w \in E : \A r \in E \ {w} : Newer(w, r, F)
  BY <1>1, BestExists DEF Best
<1>4. E # {} => Best(F, E, Winner(F, live))
  BY <1>2, <1>3 DEF Best
<1> QED BY <1>2, <1>4 DEF E

\* The winner is a row, or none.
LEMMA WinnerType ==
    ASSUME NEW F \in Table, NEW live
    PROVE  Winner(F, live) \in Rows(F) \cup {Null}
BY WinnerIs DEF Best, Eligible

(***************************************************************************)
(* Pointing the rows at a winner                                           *)
(***************************************************************************)
\* Where row r points when w has won, the rows that changes, and the state in which it
\* changes none.
Owner(F, w, r) == IF F[r].exclusive /\ r # w THEN w ELSE Null
Repoint(F, w) ==
    [r \in {r \in Rows(F) : F[r].by # Owner(F, w, r)} |-> [F[r] EXCEPT !.by = Owner(F, w, r)]]
Pointed(F, w) == \A r \in Rows(F) : F[r].by = Owner(F, w, r)

\* A recompute points the rows at the winner.
LEMMA RecomputeRepoints ==
    ASSUME NEW F, NEW live
    PROVE  Recompute(F, live) = Repoint(F, Winner(F, live))
BY DEF Recompute, Repoint, Owner

\* What it saves are rows,
LEMMA RepointType ==
    ASSUME NEW F \in Table, NEW w \in RowIds \cup {Null}
    PROVE  Repoint(F, w) \in Partial(RowIds, Row)
<1> DEFINE D == {r \in Rows(F) : F[r].by # Owner(F, w, r)}
<1>1. D \in SUBSET RowIds
  BY DEF Rows
<1>2. ASSUME NEW r \in D PROVE [F[r] EXCEPT !.by = Owner(F, w, r)] \in Row
  <2>1. F[r] \in Row /\ Owner(F, w, r) \in RowIds \cup {Null}
    BY RowsAre DEF Owner, Rows
  <2> QED BY <2>1 DEF Row
<1>3. Repoint(F, w) \in [D -> Row]
  BY <1>2 DEF Repoint
<1> QED BY <1>1, <1>3 DEF Partial

\* the same ones, which then point at the winner and differ in nothing else.
LEMMA Repointed ==
    ASSUME NEW F \in Table, NEW w \in RowIds \cup {Null}, NEW G, G = Over(Repoint(F, w), F)
    PROVE  /\ G \in Table
           /\ Rows(G) = Rows(F)
           /\ Pointed(G, w)
           /\ \A r \in Rows(F) : G[r] = [F[r] EXCEPT !.by = Owner(F, w, r)]
<1> DEFINE P == Repoint(F, w)
<1>1. P \in Partial(RowIds, Row) /\ P \in Partial(RowIds, Row \cup NotRows)
  BY RepointType, PlanIsWrite
<1>2. G \in Table /\ \A r \in RowIds : G[r] = IF r \in DOMAIN P THEN P[r] ELSE F[r]
  <2> HIDE DEF P
  <2> QED BY <1>1, OverTable DEF P
<1>3. DOMAIN P = {r \in Rows(F) : F[r].by # Owner(F, w, r)}
  BY DEF Repoint
<1>4. ASSUME NEW r \in Rows(F) PROVE G[r] = [F[r] EXCEPT !.by = Owner(F, w, r)] /\ G[r] \in Row
  <2>1. r \in RowIds /\ F[r] \in Row
    BY RowsAre DEF Rows
  <2>2. [F[r] EXCEPT !.by = Owner(F, w, r)] \in Row
    BY <2>1 DEF Owner, Row
  <2>3. CASE F[r].by = Owner(F, w, r)
    <3>1. G[r] = F[r]
      BY <1>2, <1>3, <2>1, <2>3
    <3>2. [F[r] EXCEPT !.by = Owner(F, w, r)] = F[r]
      BY <2>1, <2>3 DEF Row
    <3> QED BY <3>1, <3>2, <2>1
  <2>4. CASE F[r].by # Owner(F, w, r)
    <3>1. r \in DOMAIN P
      BY <1>3, <2>4
    <3>2. P[r] = [F[r] EXCEPT !.by = Owner(F, w, r)]
      BY <3>1, <1>3 DEF Repoint
    <3> QED BY <3>1, <3>2, <1>2, <2>1, <2>2
  <2> QED BY <2>3, <2>4
<1>5. Rows(G) = Rows(F)
  <2>1. ASSUME NEW r \in RowIds PROVE r \in Rows(G) <=> r \in Rows(F)
    <3>1. r \in Rows(F) => r \in Rows(G)
      BY <1>4, <1>2, RowsAre
    <3>2. r \notin Rows(F) => G[r] = F[r]
      BY <1>2, <1>3
    <3> QED BY <3>1, <3>2 DEF Rows
  <2> QED BY <2>1 DEF Rows
<1>6. ASSUME NEW r \in Rows(G) PROVE G[r].by = Owner(G, w, r)
  <2>1. r \in Rows(F) /\ r \in RowIds /\ F[r] \in Row
    BY <1>5, RowsAre DEF Rows
  <2>2. G[r] = [F[r] EXCEPT !.by = Owner(F, w, r)]
    BY <1>4, <2>1
  <2>3. G[r].exclusive = F[r].exclusive /\ G[r].by = Owner(F, w, r)
    BY <2>1, <2>2 DEF Row
  <2> QED BY <2>3 DEF Owner
<1> QED BY <1>2, <1>4, <1>5, <1>6 DEF Pointed

\* A recompute saves rows.
LEMMA RecomputeType ==
    ASSUME NEW F \in Table, NEW live
    PROVE  Recompute(F, live) \in Partial(RowIds, Row)
BY WinnerType, RepointType, RecomputeRepoints DEF Rows

(***************************************************************************)
(* The types are kept                                                      *)
(***************************************************************************)
\* What the type invariant says of the transactions.
TxTyped(f) ==
    /\ f \in [Txs -> TxRec]
    /\ \A t \in Txs : Storing(f[t])
    /\ \A x \in Attempts : f[x].pc # "drop"
    /\ \A d \in Deletes : f[d].pc \in {"idle", "drop", "save"}

\* An extraction is not a deletion, and belongs to an item.
LEMMA TwoKinds ==
    /\ Attempts \subseteq Txs /\ Deletes \subseteq Txs /\ Txs = Attempts \cup Deletes
    /\ Attempts \cap Deletes = {}
    /\ \A x \in Attempts :
         Item(x) \in Items /\ x[2] \in 1 .. MaxAttempts[Item(x)] /\ x = <<Item(x), x[2]>>
    /\ \A d \in Deletes : Item(d) \in Items /\ d = <<Item(d), 0>>
<1>1. \A x \in Attempts :
         Item(x) \in Items /\ x[2] \in 1 .. MaxAttempts[Item(x)] /\ x = <<Item(x), x[2]>>
  BY DEF Attempts, Item
<1>2. \A d \in Deletes : Item(d) \in Items /\ d = <<Item(d), 0>> /\ d[2] = 0
  BY FactsAssumption DEF Deletes, Item
<1>3. \A x \in Attempts : x[2] # 0
  BY <1>1, FactsAssumption
<1> QED BY <1>1, <1>2, <1>3 DEF Txs

\* A transaction that is not open is a transaction.
LEMMA IdleType == Idle \in TxRec /\ Storing(Idle) /\ Idle.pc = "idle"
<1>1. /\ <<>> \in Partial(Values, BOOLEAN) /\ <<>> \in Partial(RowIds, Row)
      /\ <<>> \in Partial(RowIds, Row \cup NotRows)
  BY EmptyPartial
<1>2. NoRow \in NotRows
  BY DEF NotRows
<1> QED BY <1>1, <1>2 DEF Idle, TxRec, Stages, Storing

\* The types hold when one transaction changes to another that is well typed.
LEMMA Moves ==
    ASSUME TypeInv, NEW t \in Txs, NEW rec \in TxRec, Storing(rec),
           tx' = [tx EXCEPT ![t] = rec],
           t \in Attempts => rec.pc # "drop",
           t \in Deletes => rec.pc \in {"idle", "drop", "save"}
    PROVE  TxTyped(tx')
BY TwoKinds DEF TypeInv, TxTyped

\* A transaction sees a table: its own writes, else what is committed.
LEMMA ViewType ==
    ASSUME TypeInv, NEW t \in Txs
    PROVE  /\ View(t) \in Table
           /\ \A r \in RowIds :
                 View(t)[r] = IF r \in DOMAIN tx[t].writes THEN tx[t].writes[r] ELSE facts[r]
<1>1. tx[t].writes \in Partial(RowIds, Row \cup NotRows) /\ facts \in Table
  BY DEF TypeInv, TxRec
<1> QED BY <1>1, OverTable DEF View

\* A transaction that opens is well typed,
LEMMA BeginType ==
    ASSUME TypeInv, NEW x \in Attempts, Begin(x)
    PROVE  TxTyped(tx')
<1>1. PICK s \in Says[Item(x)] :
        tx' = [tx EXCEPT ![x] = [Idle EXCEPT !.pc = "resolve", !.todo = s, !.touched = CitedBefore(x)]]
  BY DEF Begin
<1> DEFINE rec == [Idle EXCEPT !.pc = "resolve", !.todo = s, !.touched = CitedBefore(x)]
<1>2. s \in Partial(Values, BOOLEAN)
  BY FactsAssumption, TwoKinds DEF Partial
<1>3. CitedBefore(x) \in BOOLEAN
  BY DEF CitedBefore
<1>4. rec \in TxRec /\ rec.pc = "resolve"
  BY <1>2, <1>3, IdleType DEF TxRec, Stages
<1>5. Storing(rec)
  BY <1>4 DEF Storing
<1> HIDE DEF rec
<1> QED BY <1>1, <1>4, <1>5, Moves, TwoKinds DEF rec

\* one that has looked a value up,
LEMMA FindType ==
    ASSUME TypeInv, NEW x \in Attempts, Find(x)
    PROVE  TxTyped(tx')
<1>1. PICK v \in DOMAIN tx[x].todo :
        LET known == {r \in Rows(View(x)) : View(x)[r].value = v}
            r == IF known = {} THEN Null ELSE CHOOSE k \in known : TRUE
        IN  tx' = [tx EXCEPT ![x].pc = "store", ![x].stmt = v, ![x].seen = r,
                             ![x].old = IF r = Null THEN NoRow ELSE View(x)[r]]
  BY DEF Find
<1> DEFINE known == {r \in Rows(View(x)) : View(x)[r].value = v}
           r == IF known = {} THEN Null ELSE CHOOSE k \in known : TRUE
           old == IF r = Null THEN NoRow ELSE View(x)[r]
           rec == [tx[x] EXCEPT !.pc = "store", !.stmt = v, !.seen = r, !.old = old]
<1>2. x \in Txs /\ tx[x] \in TxRec
  BY TwoKinds DEF TypeInv
<1>3. tx' = [tx EXCEPT ![x] = rec]
  BY <1>1, <1>2 DEF TypeInv
<1>4. r \in Rows(View(x)) \cup {Null}
  OBVIOUS
<1>5. r # Null => r \in RowIds /\ View(x)[r] \in Row
  BY <1>4, <1>2, ViewType, RowsAre DEF Rows
<1>6. old \in Row \cup NotRows /\ (r # Null => old \in Row)
  BY <1>5 DEF NotRows
<1>7. v \in Values
  BY <1>2, PartialDomain DEF TxRec
<1>8. r \in RowIds \cup {Null}
  BY <1>5
<1> HIDE DEF old, r
<1>9. rec \in TxRec /\ rec.pc = "store" /\ rec.stmt = v /\ rec.seen = r /\ rec.old = old
      /\ rec.todo = tx[x].todo
  BY <1>2, <1>6, <1>7, <1>8 DEF TxRec, Stages
<1> HIDE DEF rec
<1>10. Storing(rec)
  BY <1>9, <1>6 DEF Storing
<1> QED BY <1>3, <1>9, <1>10, <1>2, Moves, TwoKinds

\* The transaction of x once it has stored row r.
StoredRec(x, r, write) ==
    [tx[x] EXCEPT
              !.pc = "resolve", !.touched = TRUE, !.seen = Null, !.stmt = Null, !.old = NoRow,
              !.todo = [v \in DOMAIN tx[x].todo \ {tx[x].stmt} |-> tx[x].todo[v]],
              !.writes = Over(write, tx[x].writes), !.cites = tx[x].cites \cup {r}]

\* What the lookup of a value changes.
LEMMA FindMoves ==
    ASSUME TypeInv, NEW x \in Attempts, Find(x)
    PROVE  LET v == tx'[x].stmt
               r == tx'[x].seen
               known == {q \in Rows(View(x)) : View(x)[q].value = v}
           IN  /\ \A t \in Txs \ {x} : tx'[t] = tx[t]
               /\ tx'[x] = [tx[x] EXCEPT !.pc = "store", !.stmt = v, !.seen = r, !.old = tx'[x].old]
               /\ tx'[x].pc = "store" /\ tx'[x].writes = tx[x].writes
               /\ tx'[x].touched = tx[x].touched /\ tx'[x].cites = tx[x].cites
               /\ v \in DOMAIN tx[x].todo
               /\ known = {} => r = Null
               /\ known # {} => r \in known /\ tx'[x].old = View(x)[r]
<1>1. PICK v \in DOMAIN tx[x].todo :
        LET known == {r \in Rows(View(x)) : View(x)[r].value = v}
            r == IF known = {} THEN Null ELSE CHOOSE k \in known : TRUE
        IN  tx' = [tx EXCEPT ![x].pc = "store", ![x].stmt = v, ![x].seen = r,
                             ![x].old = IF r = Null THEN NoRow ELSE View(x)[r]]
  BY DEF Find
<1> DEFINE known == {r \in Rows(View(x)) : View(x)[r].value = v}
           r == IF known = {} THEN Null ELSE CHOOSE k \in known : TRUE
           old == IF r = Null THEN NoRow ELSE View(x)[r]
           rec == [tx[x] EXCEPT !.pc = "store", !.stmt = v, !.seen = r, !.old = old]
<1>2. x \in Txs /\ tx[x] \in TxRec /\ tx \in [Txs -> TxRec]
  BY TwoKinds DEF TypeInv
<1>3. tx' = [tx EXCEPT ![x] = rec]
  BY <1>1, <1>2
<1>4. (known = {} => r = Null) /\ (known # {} => r \in known)
  OBVIOUS
<1>5. known # {} => r # Null /\ old = View(x)[r]
  <2>1. known \subseteq RowIds
    BY DEF Rows
  <2> HIDE DEF known
  <2>2. known # {} => r # Null
    BY <1>4, <2>1, NullIsNoRow
  <2> QED BY <2>2
<1> HIDE DEF old, r
<1>6. tx'[x] = rec /\ \A t \in Txs \ {x} : tx'[t] = tx[t]
  BY <1>2, <1>3
<1>7. rec.stmt = v /\ rec.seen = r /\ rec.old = old /\ rec.pc = "store"
      /\ rec.writes = tx[x].writes
      /\ rec.touched = tx[x].touched /\ rec.cites = tx[x].cites
  BY <1>2 DEF TxRec
<1> QED BY <1>4, <1>5, <1>6, <1>7

\* A transaction that has stored a value is well typed.
LEMMA StoredType ==
    ASSUME TypeInv, NEW x \in Attempts, NEW r \in RowIds,
           NEW write \in Partial(RowIds, Row \cup NotRows), Stored(x, r, write)
    PROVE  /\ TxTyped(tx')
           /\ tx'[x] = StoredRec(x, r, write)
           /\ StoredRec(x, r, write) \in TxRec
           /\ \A t \in Txs \ {x} : tx'[t] = tx[t]
<1>1. x \in Txs /\ tx[x] \in TxRec
  BY TwoKinds DEF TypeInv
<1> DEFINE rec == StoredRec(x, r, write)
           rest == [v \in DOMAIN tx[x].todo \ {tx[x].stmt} |-> tx[x].todo[v]]
           over == Over(write, tx[x].writes)
<1>2. tx' = [tx EXCEPT ![x] = rec]
  BY DEF Stored, StoredRec
<1>3. rest \in Partial(Values, BOOLEAN)
  <2>1. DOMAIN tx[x].todo \subseteq Values /\ tx[x].todo \in [DOMAIN tx[x].todo -> BOOLEAN]
    BY <1>1, PartialDomain DEF TxRec
  <2>2. rest \in [DOMAIN tx[x].todo \ {tx[x].stmt} -> BOOLEAN]
    BY <2>1
  <2> QED BY <2>1, <2>2 DEF Partial
<1>4. over \in Partial(RowIds, Row \cup NotRows)
  BY <1>1, OverPartial DEF TxRec
<1> HIDE DEF rest, over
<1>5. rec = [tx[x] EXCEPT !.pc = "resolve", !.touched = TRUE, !.seen = Null, !.stmt = Null, !.old = NoRow,
                  !.todo = rest, !.writes = over, !.cites = tx[x].cites \cup {r}]
  BY DEF StoredRec, rest, over
<1>6. rec \in TxRec /\ rec.pc = "resolve"
  <2>1. tx[x].cites \cup {r} \in SUBSET RowIds
    BY <1>1 DEF TxRec
  <2>2. NoRow \in Row \cup NotRows /\ "resolve" \in Stages
    BY DEF NotRows, Stages
  <2> DEFINE r1 == [tx[x] EXCEPT !.pc = "resolve", !.touched = TRUE, !.seen = Null,
                          !.stmt = Null, !.old = NoRow]
  <2>3. r1 \in TxRec /\ r1.pc = "resolve"
    BY <1>1, <2>2 DEF TxRec
  <2>4. rec = [r1 EXCEPT !.todo = rest, !.writes = over, !.cites = tx[x].cites \cup {r}]
    BY <1>1, <1>5 DEF TxRec
  <2> HIDE DEF r1
  <2> QED BY <1>3, <1>4, <2>1, <2>3, <2>4 DEF TxRec
<1> HIDE DEF rec
<1>7. Storing(rec)
  BY <1>6 DEF Storing
<1>8. TxTyped(tx')
  BY <1>1, <1>2, <1>6, <1>7, Moves, TwoKinds
<1>9. tx'[x] = rec /\ \A t \in Txs \ {x} : tx'[t] = tx[t]
  BY <1>1, <1>2 DEF TypeInv
<1> QED BY <1>6, <1>8, <1>9 DEF rec

\* A refreshed row keeps its value and its pointer.
LEMMA RefreshedType ==
    ASSUME TypeInv, NEW x \in Attempts, tx[x].pc = "store", tx[x].seen # Null
    PROVE  /\ tx[x].seen \in RowIds
           /\ Refreshed(x) \in Row
           /\ Refreshed(x).value = tx[x].old.value
           /\ Refreshed(x).by = tx[x].old.by
<1>1. x \in Txs /\ tx[x] \in TxRec /\ Storing(tx[x])
  BY TwoKinds DEF TypeInv
<1>2. tx[x].old \in Row /\ tx[x].stmt \in DOMAIN tx[x].todo /\ tx[x].todo \in Partial(Values, BOOLEAN)
  BY <1>1 DEF Storing, TxRec
<1>3. tx[x].todo[tx[x].stmt] \in BOOLEAN
  BY <1>2, PartialDomain
<1>4. OccurredAt[Item(x)] \in Nat
  BY TwoKinds, FactsAssumption
<1>5. tx[x].old.last \in Nat
  BY <1>2 DEF Row
<1> DEFINE l == IF OccurredAt[Item(x)] > tx[x].old.last THEN OccurredAt[Item(x)] ELSE tx[x].old.last
<1>6. Refreshed(x) = [tx[x].old EXCEPT !.exclusive = tx[x].todo[tx[x].stmt], !.last = l]
  BY <1>2 DEF Refreshed, Row
<1>7. l \in Nat
  BY <1>4, <1>5
<1> HIDE DEF l
<1>8. tx[x].seen \in RowIds
  BY <1>1 DEF TxRec
<1> QED BY <1>2, <1>3, <1>6, <1>7, <1>8 DEF Row

\* What a refresh and a creation write.
Written1(x) == IF Refreshed(x) = tx[x].old THEN <<>> ELSE [r \in {tx[x].seen} |-> Refreshed(x)]
New(x, r) == [q \in {r} |-> [value |-> tx[x].stmt, exclusive |-> tx[x].todo[tx[x].stmt],
                             last |-> OccurredAt[Item(x)], by |-> Null]]

\* A refresh stores the row it found, or nothing,
LEMMA RefreshStores ==
    ASSUME TypeInv, NEW x \in Attempts, Refresh(x)
    PROVE  /\ tx[x].seen \in RowIds
           /\ Written1(x) \in Partial(RowIds, Row \cup NotRows)
           /\ Stored(x, tx[x].seen, Written1(x))
<1>1. tx[x].pc = "store" /\ tx[x].seen # Null /\ Stored(x, tx[x].seen, Written1(x))
  BY DEF Refresh, Written1
<1>2. tx[x].seen \in RowIds /\ Refreshed(x) \in Row
  BY <1>1, RefreshedType
<1>3. [r \in {tx[x].seen} |-> Refreshed(x)] \in [{tx[x].seen} -> Row \cup NotRows]
  BY <1>2
<1>4. Written1(x) \in Partial(RowIds, Row \cup NotRows)
  BY <1>2, <1>3, EmptyPartial DEF Written1, Partial
<1> QED BY <1>1, <1>2, <1>4

\* and a creation stores a row under an id that nobody has used.
LEMMA CreateStores ==
    ASSUME TypeInv, NEW x \in Attempts, Create(x)
    PROVE  \E r \in RowIds :
             /\ facts[r] = NoRow /\ \A o \in Txs : r \notin Written(o)
             /\ New(x, r) \in Partial(RowIds, Row \cup NotRows)
             /\ New(x, r)[r] \in Row /\ New(x, r)[r].value = tx[x].stmt
             /\ Stored(x, r, New(x, r))
<1>1. PICK r \in RowIds : /\ facts[r] = NoRow /\ \A o \in Txs : r \notin Written(o)
                          /\ Stored(x, r, New(x, r))
  BY DEF Create, New
<1>2. x \in Txs /\ tx[x] \in TxRec /\ Storing(tx[x]) /\ tx[x].pc = "store"
  BY TwoKinds DEF TypeInv, Create
<1>3. tx[x].stmt \in DOMAIN tx[x].todo /\ tx[x].todo \in Partial(Values, BOOLEAN)
  BY <1>2 DEF Storing, TxRec
<1>4. tx[x].todo[tx[x].stmt] \in BOOLEAN /\ tx[x].stmt \in Values
  BY <1>3, PartialDomain
<1>5. OccurredAt[Item(x)] \in Nat
  BY TwoKinds, FactsAssumption
<1>6. New(x, r) \in [{r} -> Row] /\ New(x, r)[r] \in Row /\ New(x, r)[r].value = tx[x].stmt
  BY <1>4, <1>5 DEF New, Row
<1>7. New(x, r) \in Partial(RowIds, Row \cup NotRows)
  <2>1. New(x, r) \in [{r} -> Row \cup NotRows]
    BY <1>6
  <2> QED BY <2>1 DEF Partial
<1> QED BY <1>1, <1>6, <1>7

\* A transaction that has recomputed is well typed,
LEMMA LockGroupType ==
    ASSUME TypeInv, NEW x \in Attempts, LockGroup(x)
    PROVE  TxTyped(tx')
<1> DEFINE plan == IF tx[x].touched THEN Recompute(View(x), LiveFacts(ViewCites(x), {x})) ELSE <<>>
           rec == [tx[x] EXCEPT !.pc = "save", !.plan = plan]
<1>1. x \in Txs /\ tx[x] \in TxRec
  BY TwoKinds DEF TypeInv
<1>2. plan \in Partial(RowIds, Row)
  BY <1>1, ViewType, RecomputeType, EmptyPartial
<1>3. tx' = [tx EXCEPT ![x] = rec]
  BY <1>1 DEF TypeInv, LockGroup
<1> HIDE DEF plan
<1>4. rec \in TxRec /\ rec.pc = "save"
  BY <1>1, <1>2 DEF TxRec, Stages
<1> HIDE DEF rec
<1>5. Storing(rec)
  BY <1>4 DEF Storing
<1> QED BY <1>1, <1>3, <1>4, <1>5, Moves, TwoKinds

\* one that has ended,
LEMMA ToIdle ==
    ASSUME TypeInv, NEW t \in Txs, tx' = [tx EXCEPT ![t] = Idle]
    PROVE  TxTyped(tx')
BY IdleType, Moves

\* one that has committed, which leaves a table,
LEMMA CommitType ==
    ASSUME TypeInv, NEW x \in Attempts, Commit(x)
    PROVE  TxTyped(tx') /\ facts' \in Table /\ cites' \subseteq Attempts \X RowIds
<1>1. x \in Txs /\ tx[x] \in TxRec
  BY TwoKinds DEF TypeInv
<1> DEFINE rec == [Idle EXCEPT !.pc = "complete"]
<1>2. rec \in TxRec /\ rec.pc = "complete"
  BY IdleType DEF TxRec, Stages
<1>3. tx' = [tx EXCEPT ![x] = rec]
  BY DEF Commit
<1> HIDE DEF rec
<1>4. TxTyped(tx')
  <2>1. Storing(rec)
    BY <1>2 DEF Storing
  <2> QED BY <2>1, <1>1, <1>2, <1>3, Moves, TwoKinds
<1>5. facts' \in Table
  <2>1. tx[x].plan \in Partial(RowIds, Row \cup NotRows) /\ View(x) \in Table
    BY <1>1, PlanIsWrite, ViewType DEF TxRec
  <2> QED BY <2>1, OverTable DEF Commit
<1>6. cites' \subseteq Attempts \X RowIds
  BY <1>1 DEF Commit, ViewCites, TxRec, TypeInv
<1> QED BY <1>4, <1>5, <1>6

\* a deletion that opens,
LEMMA BeginDeleteType ==
    ASSUME TypeInv, NEW d \in Deletes, BeginDelete(d)
    PROVE  TxTyped(tx')
<1> DEFINE cited == {c[2] : c \in Own(d)}
           orphans == cited \ {c[2] : c \in cites \ Own(d)}
           pc == IF cited = {} THEN "save" ELSE "drop"
           rec == [Idle EXCEPT !.pc = pc, !.orphans = orphans]
<1>1. tx' = [tx EXCEPT ![d] = rec]
  BY DEF BeginDelete
<1>2. orphans \subseteq RowIds
  BY DEF Own, TypeInv
<1>3. pc \in {"save", "drop"}
  OBVIOUS
<1> HIDE DEF orphans, pc
<1>4. rec \in TxRec /\ rec.pc \in {"save", "drop"}
  BY <1>2, <1>3, IdleType DEF TxRec, Stages
<1> HIDE DEF rec
<1>5. Storing(rec)
  BY <1>4 DEF Storing
<1> QED BY <1>1, <1>4, <1>5, TwoKinds, Moves

\* What a deletion writes before its recompute.
Dropped(d) ==
    LET orphans == tx[d].orphans
        pointing == {q \in Rows(facts) : facts[q].by \in orphans}
    IN  [r \in orphans \cup pointing |->
           IF r \in orphans THEN Gone ELSE [facts[r] EXCEPT !.by = Null]]

\* one that writes over the rows it drops and those that point there,
LEMMA DroppedType ==
    ASSUME TypeInv, NEW d \in Deletes
    PROVE  Dropped(d) \in Partial(RowIds, Row \cup NotRows)
<1> DEFINE orphans == tx[d].orphans
           pointing == {q \in Rows(facts) : facts[q].by \in orphans}
<1>1. orphans \subseteq RowIds /\ pointing \subseteq Rows(facts) /\ pointing \subseteq RowIds
  BY TwoKinds DEF TypeInv, TxRec, Rows
<1>2. ASSUME NEW r \in pointing PROVE [facts[r] EXCEPT !.by = Null] \in Row
  <2>1. facts[r] \in Row
    BY <1>1, RowsAre DEF TypeInv
  <2> QED BY <2>1 DEF Row
<1>3. Dropped(d) \in [orphans \cup pointing -> Row \cup NotRows]
  BY <1>1, <1>2 DEF Dropped, NotRows
<1> QED BY <1>1, <1>3 DEF Partial

\* has dropped them and recomputed,
LEMMA DropOrphansType ==
    ASSUME TypeInv, NEW d \in Deletes, DropOrphans(d)
    PROVE  /\ TxTyped(tx')
           /\ tx'[d] = [tx[d] EXCEPT !.pc = "save", !.writes = Dropped(d),
                            !.plan = Recompute(Over(Dropped(d), facts), LiveFacts(cites \ Own(d), {}))]
           /\ \A t \in Txs \ {d} : tx'[t] = tx[t]
<1> DEFINE writes == Dropped(d)
           plan == Recompute(Over(writes, facts), LiveFacts(cites \ Own(d), {}))
           rec == [tx[d] EXCEPT !.pc = "save", !.writes = writes, !.plan = plan]
<1>1. d \in Txs /\ tx[d] \in TxRec
  BY TwoKinds DEF TypeInv
<1>2. tx' = [tx EXCEPT ![d] = rec]
  BY <1>1 DEF DropOrphans, Dropped, TypeInv
<1>3. writes \in Partial(RowIds, Row \cup NotRows)
  BY DroppedType
<1>4. plan \in Partial(RowIds, Row)
  <2>1. Over(writes, facts) \in Table
    BY <1>3, OverTable DEF TypeInv
  <2> QED BY <2>1, RecomputeType
<1>5. tx'[d] = rec /\ \A t \in Txs \ {d} : tx'[t] = tx[t]
  BY <1>1, <1>2 DEF TypeInv
<1> HIDE DEF writes, plan
<1>6. rec \in TxRec /\ rec.pc = "save"
  BY <1>1, <1>3, <1>4 DEF TxRec, Stages
<1> HIDE DEF rec
<1>7. Storing(rec)
  BY <1>6 DEF Storing
<1>8. TxTyped(tx')
  BY <1>1, <1>2, <1>6, <1>7, Moves, TwoKinds
<1> QED BY <1>8, <1>5 DEF rec, writes, plan

\* and has committed.
LEMMA CommitDeleteType ==
    ASSUME TypeInv, NEW d \in Deletes, CommitDelete(d)
    PROVE  /\ TxTyped(tx') /\ facts' \in Table /\ cites' \subseteq Attempts \X RowIds
           /\ status' \in [Attempts -> Statuses]
<1>1. d \in Txs /\ tx[d] \in TxRec
  BY TwoKinds DEF TypeInv
<1>2. TxTyped(tx')
  BY <1>1, ToIdle DEF CommitDelete
<1>3. tx[d].plan \in Partial(RowIds, Row \cup NotRows) /\ View(d) \in Table
  BY <1>1, PlanIsWrite, ViewType DEF TxRec
<1>4. facts' \in Table
  BY <1>3, OverTable DEF CommitDelete
<1>5. cites' \subseteq Attempts \X RowIds
  BY DEF CommitDelete, TypeInv
<1>6. status' \in [Attempts -> Statuses]
  BY DEF CommitDelete, TypeInv, Statuses
<1> QED BY <1>2, <1>4, <1>5, <1>6

\* So are all when the process dies.
LEMMA AllIdle ==
    ASSUME tx' = [t \in Txs |-> Idle]
    PROVE  TxTyped(tx')
BY IdleType, TwoKinds DEF TxTyped

\* The history is one of three.
LEMMA OverlapType ==
    ASSUME TypeInv, NEW d, NEW j
    PROVE  Overlap(d, j) \in {"none", "jobs", "delete"}
BY DEF Overlap, TypeInv

\* The types hold at the start.
LEMMA TypeInit == Init => TypeInv
<1> SUFFICES ASSUME Init PROVE TypeInv
  OBVIOUS
<1>1. facts \in Table
  BY DEF Init, Table, NotRows
<1>2. tries \in [Attempts -> 0 .. MaxTries]
  BY FactsAssumption DEF Init
<1>3. tx \in [Txs -> TxRec] /\ \A t \in Txs : tx[t] = Idle
  BY IdleType DEF Init
<1> QED BY <1>1, <1>2, <1>3, IdleType, TwoKinds DEF Init, TypeInv, Statuses

\* The parts of the type invariant.
LEMMA TypeHolds ==
    ASSUME TxTyped(tx'), facts' \in Table, cites' \subseteq Attempts \X RowIds,
           status' \in [Attempts -> Statuses], tries' \in [Attempts -> 0 .. MaxTries],
           overlap' \in {"none", "jobs", "delete"}
    PROVE  TypeInv'
BY DEF TypeInv, TxTyped

\* Every step keeps the types.
LEMMA TypeStep == TypeInv /\ [Next]_vars => TypeInv'
<1> SUFFICES ASSUME TypeInv, [Next]_vars PROVE TypeInv'
  OBVIOUS
<1>0. TxTyped(tx) /\ facts \in Table /\ cites \subseteq Attempts \X RowIds
      /\ status \in [Attempts -> Statuses] /\ tries \in [Attempts -> 0 .. MaxTries]
      /\ overlap \in {"none", "jobs", "delete"}
  BY DEF TypeInv, TxTyped
<1>1. ASSUME NEW i \in Items, AppendRun(i) PROVE TypeInv'
  BY <1>0, <1>1, TypeHolds DEF AppendRun, Statuses
<1>2. ASSUME NEW x \in Attempts, Begin(x) \/ ProviderFails(x) PROVE TypeInv'
  <2>1. TxTyped(tx')
    BY <1>0, <1>2, BeginType DEF ProviderFails
  <2>2. tries[x] \in 0 .. MaxTries /\ tries[x] < MaxTries /\ tries' = [tries EXCEPT ![x] = @ + 1]
    BY <1>0, <1>2 DEF Begin, ProviderFails, CanRun
  <2>3. tries' \in [Attempts -> 0 .. MaxTries]
    <3>1. tries[x] + 1 \in 0 .. MaxTries
      BY <2>2, FactsAssumption
    <3> QED BY <1>0, <2>2, <3>1
  <2>4. status' \in [Attempts -> Statuses]
    BY <1>0, <1>2 DEF Begin, ProviderFails, Statuses
  <2>5. overlap' \in {"none", "jobs", "delete"}
    BY <1>0, <1>2 DEF Begin, ProviderFails, Overlap
  <2>6. facts' \in Table /\ cites' \subseteq Attempts \X RowIds
    BY <1>0, <1>2 DEF Begin, ProviderFails
  <2> QED BY <2>1, <2>3, <2>4, <2>5, <2>6, TypeHolds
<1>3. ASSUME NEW x \in Attempts, Ingest(x) PROVE TypeInv'
  <2>1. CASE Find(x)
    BY <1>0, <2>1, FindType, TypeHolds DEF Find
  <2>2. CASE Refresh(x)
    <3>1. TxTyped(tx')
      BY <2>2, RefreshStores, StoredType
    <3> QED BY <3>1, <1>0, <2>2, TypeHolds DEF Refresh
  <2>3. CASE Create(x)
    <3>1. TxTyped(tx')
      BY <2>3, CreateStores, StoredType
    <3> QED BY <3>1, <1>0, <2>3, TypeHolds DEF Create
  <2>4. CASE Fail(x)
    <3>1. TxTyped(tx')
      BY <2>4, ToIdle, TwoKinds DEF Fail
    <3> QED BY <3>1, <1>0, <2>4, TypeHolds DEF Fail, Statuses
  <2>5. CASE LockGroup(x)
    BY <1>0, <2>5, LockGroupType, TypeHolds DEF LockGroup
  <2>6. CASE Commit(x)
    BY <1>0, <2>6, CommitType, TypeHolds DEF Commit
  <2>7. CASE Complete(x)
    <3>1. TxTyped(tx')
      BY <2>7, ToIdle, TwoKinds DEF Complete
    <3> QED BY <3>1, <1>0, <2>7, TypeHolds DEF Complete, Statuses
  <2> QED BY <1>3, <2>1, <2>2, <2>3, <2>4, <2>5, <2>6, <2>7 DEF Ingest
<1>4. ASSUME NEW d \in Deletes, BeginDelete(d) PROVE TypeInv'
  <2>1. overlap' \in {"none", "jobs", "delete"}
    BY <1>4, OverlapType DEF BeginDelete
  <2> QED BY <2>1, <1>0, <1>4, BeginDeleteType, TypeHolds DEF BeginDelete
<1>5. ASSUME NEW d \in Deletes, Delete(d) PROVE TypeInv'
  <2>1. CASE DropOrphans(d)
    BY <1>0, <2>1, DropOrphansType, TypeHolds DEF DropOrphans
  <2>2. CASE CommitDelete(d)
    BY <1>0, <2>2, CommitDeleteType, TypeHolds DEF CommitDelete
  <2>3. CASE FailDelete(d)
    <3>1. TxTyped(tx')
      BY <2>3, ToIdle, TwoKinds DEF FailDelete
    <3> QED BY <3>1, <1>0, <2>3, TypeHolds DEF FailDelete
  <2> QED BY <1>5, <2>1, <2>2, <2>3 DEF Delete
<1>6. CASE Crash
  BY <1>0, <1>6, AllIdle, TypeHolds DEF Crash
<1>7. CASE UNCHANGED vars
  BY <1>0, <1>7, TypeHolds DEF vars
<1> QED BY <1>1, <1>2, <1>3, <1>4, <1>5, <1>6, <1>7 DEF Next

\* The invariant says of what type everything is.
LEMMA FactsTypes == TypeInv => TypeOK
<1> SUFFICES ASSUME TypeInv PROVE TypeOK
  OBVIOUS
<1>1. ASSUME NEW t \in Txs
      PROVE  /\ tx[t].pc \in Stages
             /\ \A r \in DOMAIN tx[t].writes \cup DOMAIN tx[t].plan : r \in RowIds
  <2>1. tx[t] \in TxRec
    BY DEF TypeInv
  <2>2. tx[t].writes \in Partial(RowIds, Row \cup NotRows) /\ tx[t].plan \in Partial(RowIds, Row)
    BY <2>1 DEF TxRec
  <2>3. DOMAIN tx[t].writes \subseteq RowIds /\ DOMAIN tx[t].plan \subseteq RowIds
    BY <2>2, PartialDomain
  <2> QED BY <2>1, <2>3 DEF TxRec
<1> QED BY <1>1 DEF TypeInv, TypeOK, Table, Statuses, Stages

\* Every reachable state of the facts, their citations and transactions is well typed,
\* and no job is run more often than its queue allows.
THEOREM FactsTypeCorrect == Spec => []TypeOK
<1> QED BY FactsTypes, TypeInit, TypeStep, PTL DEF Spec

(***************************************************************************)
(* One winner: the inductive invariant and its steps                       *)
(***************************************************************************)
\* Unless a delete has overlapped another transaction: who is open is being processed,
\* and a deletion that is open is alone.
Alone ==
    overlap # "delete" =>
        /\ \A x \in Attempts : tx[x].pc # "idle" => status[x] = "processing"
        /\ \A d \in Deletes : tx[d].pc # "idle" => \A t \in Txs \ {d} : tx[t].pc = "idle"
\* One ingest holds the lock of the group,
OneHolder == \A x, y \in Attempts : HoldsGroup(x) /\ HoldsGroup(y) => x = y
\* one that has not touched the group has written nothing,
Untouched == \A x \in Attempts : ~tx[x].touched => tx[x].writes = <<>>
\* and who is about to save repoints the rows it sees, if anything.
Planned(t) ==
    tx[t].pc = "save" =>
        \/ tx[t].plan = <<>> /\ tx[t].writes = <<>>
        \/ /\ t \in Attempts => tx[t].touched
           /\ overlap # "delete" =>
                \E w \in Rows(View(t)) \cup {Null} : tx[t].plan = Repoint(View(t), w)
GroupInv == TypeInv /\ Alone /\ OneHolder /\ Untouched /\ (\A t \in Txs : Planned(t)) /\ OneWinner

\* What a transaction is about to save stays right while it and the table stay the same,
LEMMA PlannedKept ==
    ASSUME facts' = facts, overlap' # "delete" => overlap # "delete", NEW t, tx'[t] = tx[t], Planned(t)
    PROVE  Planned(t)'
<1>1. View(t)' = View(t)
  BY DEF View
<1> QED BY <1>1 DEF Planned

\* and so does the winner.
LEMMA WinnerKept ==
    ASSUME facts' = facts, overlap' # "delete" => overlap # "delete", OneWinner
    PROVE  OneWinner'
BY DEF OneWinner, PointersOf

\* A step of one transaction that commits nothing keeps the invariant.
LEMMA GroupMoves ==
    ASSUME GroupInv, NEW t \in Txs, facts' = facts, overlap' # "delete" => overlap # "delete",
           \A u \in Txs \ {t} : tx'[u] = tx[u],
           Planned(t)',
           t \in Attempts /\ ~tx'[t].touched => tx'[t].writes = <<>>,
           HoldsGroup(t)' => HoldsGroup(t) \/ \A y \in Attempts \ {t} : ~HoldsGroup(y)
    PROVE  OneHolder' /\ Untouched' /\ (\A u \in Txs : Planned(u)') /\ OneWinner'
<1>1. \A u \in Txs : Planned(u)'
  BY PlannedKept DEF GroupInv
<1>2. OneWinner'
  BY WinnerKept DEF GroupInv
<1>3. Untouched'
  BY TwoKinds DEF GroupInv, Untouched
<1>4. \A u \in Attempts \ {t} : HoldsGroup(u)' <=> HoldsGroup(u)
  BY TwoKinds DEF HoldsGroup
<1>5. OneHolder'
  BY <1>4 DEF GroupInv, OneHolder
<1> QED BY <1>1, <1>2, <1>3, <1>5

\* Who has a deletion beside nothing still has when one transaction gets on or ends.
LEMMA StillAlone ==
    ASSUME Alone, NEW t \in Txs, tx[t].pc # "idle", \A u \in Txs \ {t} : tx'[u] = tx[u],
           overlap' # "delete" => overlap # "delete",
           overlap # "delete" =>
               \A x \in Attempts \ {t} : tx[x].pc # "idle" => status'[x] = status[x],
           t \in Attempts /\ tx'[t].pc # "idle" => status'[t] = status[t]
    PROVE  Alone'
<1> SUFFICES ASSUME overlap' # "delete"
             PROVE  /\ \A x \in Attempts : tx'[x].pc # "idle" => status'[x] = "processing"
                    /\ \A d \in Deletes : tx'[d].pc # "idle" => \A u \in Txs \ {d} : tx'[u].pc = "idle"
  BY DEF Alone
<1>1. \A x \in Attempts : tx'[x].pc # "idle" => status'[x] = "processing"
  BY TwoKinds DEF Alone
<1>2. \A d \in Deletes : tx'[d].pc # "idle" => \A u \in Txs \ {d} : tx'[u].pc = "idle"
  <2> SUFFICES ASSUME NEW d \in Deletes, tx'[d].pc # "idle", NEW u \in Txs \ {d}
               PROVE  tx'[u].pc = "idle"
    OBVIOUS
  <2>1. d = t
    BY TwoKinds DEF Alone
  <2> QED BY <2>1, TwoKinds DEF Alone
<1> QED BY <1>1, <1>2

\* Only who is about to save has a plan and the lock.
LEMMA NotPlanned ==
    ASSUME NEW t, tx'[t].pc # "save"
    PROVE  Planned(t)' /\ ~HoldsGroup(t)'
BY DEF Planned, HoldsGroup

\* Once a delete has overlapped the history says so for good.
LEMMA OverlapStays ==
    ASSUME NEW d \in BOOLEAN, NEW j \in BOOLEAN, overlap' = Overlap(d, j)
    PROVE  /\ overlap' # "delete" => overlap # "delete" /\ ~d
           /\ overlap' = "none" => overlap = "none" /\ ~d /\ ~j
BY DEF Overlap

\* What the start of an ingest changes, and what it overlaps.
LEMMA BeginMoves ==
    ASSUME TypeInv, NEW x \in Attempts, Begin(x)
    PROVE  /\ tx'[x].pc = "resolve" /\ tx'[x].writes = <<>> /\ tx'[x].cites = {}
           /\ tx'[x].touched = CitedBefore(x)
           /\ \A t \in Txs \ {x} : tx'[t] = tx[t]
           /\ tx[x].pc = "idle" /\ status' = [status EXCEPT ![x] = "processing"]
           /\ overlap' # "delete" => overlap # "delete" /\ \A d \in Deletes : tx[d].pc = "idle"
           /\ overlap' = "none" => overlap = "none" /\ \A y \in Attempts \ {x} : status[y] # "processing"
<1>1. PICK s \in Says[Item(x)] :
        tx' = [tx EXCEPT ![x] = [Idle EXCEPT !.pc = "resolve", !.todo = s, !.touched = CitedBefore(x)]]
  BY DEF Begin
<1>2. x \in Txs /\ tx \in [Txs -> TxRec]
  BY TwoKinds DEF TypeInv
<1>3. tx'[x].pc = "resolve" /\ tx'[x].writes = <<>> /\ tx'[x].cites = {}
      /\ tx'[x].touched = CitedBefore(x)
      /\ \A t \in Txs \ {x} : tx'[t] = tx[t]
  BY <1>1, <1>2 DEF Idle
<1> DEFINE d1 == \E d \in Deletes : Open(d)
           j1 == \E y \in Attempts \ {x} : status[y] = "processing"
<1>4. overlap' = Overlap(d1, j1) /\ d1 \in BOOLEAN /\ j1 \in BOOLEAN
  BY DEF Begin
<1> HIDE DEF d1, j1
<1>5. (overlap' # "delete" => overlap # "delete" /\ ~d1)
      /\ (overlap' = "none" => overlap = "none" /\ ~d1 /\ ~j1)
  BY <1>4, OverlapStays
<1>6. ~d1 => \A d \in Deletes : tx[d].pc = "idle"
  BY DEF d1, Open, TypeInv
<1> QED BY <1>3, <1>5, <1>6 DEF Begin, CanRun, j1

\* An ingest that starts keeps the invariant,
LEMMA BeginGroup ==
    ASSUME GroupInv, NEW x \in Attempts, Begin(x)
    PROVE  Alone' /\ OneHolder' /\ Untouched' /\ (\A u \in Txs : Planned(u)') /\ OneWinner'
<1>0. TypeInv /\ Alone /\ x \in Txs /\ facts' = facts
  BY TwoKinds DEF GroupInv, Begin
<1>1. /\ tx'[x].pc = "resolve" /\ tx'[x].writes = <<>>
      /\ \A t \in Txs \ {x} : tx'[t] = tx[t]
      /\ tx[x].pc = "idle" /\ status' = [status EXCEPT ![x] = "processing"]
      /\ overlap' # "delete" => overlap # "delete" /\ \A d \in Deletes : tx[d].pc = "idle"
  BY <1>0, BeginMoves
<1>2. Planned(x)' /\ ~HoldsGroup(x)'
  BY <1>1, NotPlanned
<1>3. OneHolder' /\ Untouched' /\ (\A u \in Txs : Planned(u)') /\ OneWinner'
  BY <1>0, <1>1, <1>2, GroupMoves
<1>4. Alone'
  <2> SUFFICES ASSUME overlap' # "delete"
               PROVE  /\ \A y \in Attempts : tx'[y].pc # "idle" => status'[y] = "processing"
                      /\ \A d \in Deletes : tx'[d].pc = "idle"
    BY DEF Alone
  <2>1. \A d \in Deletes : tx'[d].pc = "idle"
    BY <1>1, TwoKinds
  <2>2. \A y \in Attempts : tx'[y].pc # "idle" => status'[y] = "processing"
    BY <1>0, <1>1, TwoKinds DEF Alone, TypeInv
  <2> QED BY <2>1, <2>2
<1> QED BY <1>3, <1>4

\* an extraction that is appended or whose provider fails,
LEMMA QueueGroup ==
    ASSUME GroupInv,
           \/ \E i \in Items : AppendRun(i)
           \/ \E x \in Attempts : ProviderFails(x)
    PROVE  Alone' /\ OneHolder' /\ Untouched' /\ (\A u \in Txs : Planned(u)') /\ OneWinner'
<1>1. facts' = facts /\ tx' = tx /\ (overlap' # "delete" => overlap # "delete")
  BY DEF AppendRun, ProviderFails, Overlap
<1>2. \A u \in Txs : Planned(u)'
  BY <1>1, PlannedKept DEF GroupInv
<1>3. OneWinner'
  BY <1>1, WinnerKept DEF GroupInv
<1>4. OneHolder' /\ Untouched'
  BY <1>1 DEF GroupInv, OneHolder, Untouched, HoldsGroup
<1>5. \A x \in Attempts : tx[x].pc # "idle" /\ status[x] = "processing" => status'[x] = status[x]
  BY DEF GroupInv, TypeInv, AppendRun, ProviderFails, CanRun
<1>6. Alone'
  BY <1>1, <1>5 DEF GroupInv, Alone
<1> QED BY <1>2, <1>3, <1>4, <1>6

\* a value that is found and stored,
LEMMA StoreGroup ==
    ASSUME GroupInv, NEW x \in Attempts, Find(x) \/ Refresh(x) \/ Create(x)
    PROVE  Alone' /\ OneHolder' /\ Untouched' /\ (\A u \in Txs : Planned(u)') /\ OneWinner'
<1>0. TypeInv /\ Alone /\ x \in Txs /\ facts' = facts /\ overlap' = overlap /\ status' = status
      /\ tx[x].pc \in {"resolve", "store"} /\ tx[x] \in TxRec
  BY TwoKinds DEF GroupInv, Find, Refresh, Create, TypeInv
<1>1. /\ \A t \in Txs \ {x} : tx'[t] = tx[t]
      /\ tx'[x].pc # "save"
      /\ ~tx'[x].touched => tx'[x].writes = <<>>
  <2>1. CASE Find(x)
    <3>1. tx'[x].pc = "store" /\ tx'[x].writes = tx[x].writes /\ tx'[x].touched = tx[x].touched
          /\ \A t \in Txs \ {x} : tx'[t] = tx[t]
      BY <2>1, <1>0, FindMoves
    <3> QED BY <3>1 DEF GroupInv, Untouched
  <2>2. ASSUME NEW r \in RowIds, NEW write \in Partial(RowIds, Row \cup NotRows), Stored(x, r, write)
        PROVE  /\ \A t \in Txs \ {x} : tx'[t] = tx[t]
               /\ tx'[x].pc = "resolve" /\ tx'[x].touched
    <3>1. tx'[x] = StoredRec(x, r, write) /\ \A t \in Txs \ {x} : tx'[t] = tx[t]
      BY <1>0, <2>2, StoredType
    <3>2. StoredRec(x, r, write).pc = "resolve" /\ StoredRec(x, r, write).touched
      BY <1>0 DEF StoredRec, TxRec
    <3> QED BY <3>1, <3>2
  <2>3. CASE Refresh(x)
    BY <2>2, <2>3, <1>0, RefreshStores
  <2>4. CASE Create(x)
    BY <2>2, <2>4, <1>0, CreateStores
  <2> QED BY <2>1, <2>3, <2>4
<1>2. Planned(x)' /\ ~HoldsGroup(x)'
  BY <1>1, NotPlanned
<1>3. OneHolder' /\ Untouched' /\ (\A u \in Txs : Planned(u)') /\ OneWinner'
  BY <1>0, <1>1, <1>2, GroupMoves
<1>4. Alone'
  BY <1>0, <1>1, StillAlone
<1> QED BY <1>3, <1>4

\* and a transaction that ends without a commit.
LEMMA EndGroup ==
    ASSUME GroupInv, NEW t \in Txs, tx[t].pc # "idle", tx' = [tx EXCEPT ![t] = Idle],
           facts' = facts, overlap' = overlap,
           \A x \in Attempts \ {t} : status'[x] = status[x]
    PROVE  Alone' /\ OneHolder' /\ Untouched' /\ (\A u \in Txs : Planned(u)') /\ OneWinner'
<1>1. tx'[t] = Idle /\ \A u \in Txs \ {t} : tx'[u] = tx[u]
  BY DEF GroupInv, TypeInv
<1>2. Planned(t)' /\ ~HoldsGroup(t)' /\ tx'[t].writes = <<>> /\ tx'[t].pc = "idle"
  BY <1>1, NotPlanned DEF Idle
<1>3. OneHolder' /\ Untouched' /\ (\A u \in Txs : Planned(u)') /\ OneWinner'
  BY <1>1, <1>2, GroupMoves
<1>4. Alone'
  BY <1>1, <1>2, StillAlone DEF GroupInv
<1> QED BY <1>3, <1>4

\* Only an open transaction fails.
LEMMA FailsBusy ==
    ASSUME NEW t \in Txs, Deadlocked(t) \/ Fails(t)
    PROVE  tx[t].pc # "idle"
BY DEF Deadlocked, Fails, Open

\* What locking the group changes.
LEMMA LockGroup1 ==
    ASSUME TypeInv, NEW x \in Attempts, LockGroup(x)
    PROVE  /\ tx'[x] = [tx[x] EXCEPT !.pc = "save",
                              !.plan = IF tx[x].touched
                                       THEN Recompute(View(x), LiveFacts(ViewCites(x), {x})) ELSE <<>>]
           /\ tx'[x].pc = "save" /\ tx'[x].writes = tx[x].writes /\ tx'[x].touched = tx[x].touched
           /\ tx'[x].cites = tx[x].cites
           /\ tx'[x].plan = IF tx[x].touched
                            THEN Recompute(View(x), LiveFacts(ViewCites(x), {x})) ELSE <<>>
           /\ \A u \in Txs \ {x} : tx'[u] = tx[u]
           /\ View(x)' = View(x)
<1> DEFINE plan == IF tx[x].touched THEN Recompute(View(x), LiveFacts(ViewCites(x), {x})) ELSE <<>>
<1>0. x \in Txs /\ tx[x] \in TxRec
  BY TwoKinds DEF TypeInv
<1>1. tx' = [tx EXCEPT ![x].pc = "save", ![x].plan = plan] /\ facts' = facts
  BY DEF LockGroup
<1> HIDE DEF plan
<1>2. tx'[x] = [tx[x] EXCEPT !.pc = "save", !.plan = plan] /\ \A u \in Txs \ {x} : tx'[u] = tx[u]
  BY <1>0, <1>1 DEF TypeInv
<1>3. tx'[x].pc = "save" /\ tx'[x].writes = tx[x].writes /\ tx'[x].touched = tx[x].touched
      /\ tx'[x].plan = plan /\ tx'[x].cites = tx[x].cites
  BY <1>0, <1>2 DEF TxRec
<1>4. View(x)' = View(x)
  BY <1>1, <1>3 DEF View
<1> QED BY <1>2, <1>3, <1>4 DEF plan

\* Who locks the group finds it free, and plans on what it sees.
LEMMA LockGroupGroup ==
    ASSUME GroupInv, NEW x \in Attempts, LockGroup(x)
    PROVE  Alone' /\ OneHolder' /\ Untouched' /\ (\A u \in Txs : Planned(u)') /\ OneWinner'
<1>0. TypeInv /\ Alone /\ x \in Txs /\ facts' = facts /\ overlap' = overlap /\ status' = status
      /\ tx[x].pc = "resolve" /\ tx[x].todo = <<>> /\ Blockers(x) = {}
  BY TwoKinds DEF GroupInv, LockGroup
<1>1. /\ tx'[x].pc = "save" /\ tx'[x].writes = tx[x].writes /\ tx'[x].touched = tx[x].touched
      /\ tx'[x].plan = IF tx[x].touched
                       THEN Recompute(View(x), LiveFacts(ViewCites(x), {x})) ELSE <<>>
      /\ \A u \in Txs \ {x} : tx'[u] = tx[u]
      /\ View(x)' = View(x)
  BY <1>0, LockGroup1
<1>2. Planned(x)'
  <2>1. CASE ~tx[x].touched
    BY <1>1, <2>1 DEF GroupInv, Untouched, Planned
  <2>2. CASE tx[x].touched
    <3> DEFINE live == LiveFacts(ViewCites(x), {x})
               w == Winner(View(x), live)
    <3>1. tx'[x].plan = Recompute(View(x), live)
      BY <1>1, <2>2
    <3> HIDE DEF live
    <3>2. tx'[x].plan = Repoint(View(x), w)
      BY <3>1, RecomputeRepoints
    <3>3. w \in Rows(View(x)) \cup {Null}
      BY <1>0, ViewType, WinnerType
    <3> HIDE DEF w
    <3>4. \E u \in Rows(View(x)') \cup {Null} : tx'[x].plan = Repoint(View(x)', u)
      BY <3>2, <3>3, <1>1
    <3> QED BY <3>4, <1>1, <2>2 DEF Planned
  <2> QED BY <2>1, <2>2
<1>3. HoldsGroup(x)' => \A y \in Attempts \ {x} : ~HoldsGroup(y)
  <2> SUFFICES ASSUME HoldsGroup(x)', NEW y \in Attempts \ {x}, HoldsGroup(y) PROVE FALSE
    OBVIOUS
  <2>1. tx[x].touched
    BY <1>1 DEF HoldsGroup
  <2>2. DOMAIN tx[x].todo = {}
    BY <1>0
  <2>3. WaitsFor(x, y)
    BY <1>0, <2>1, <2>2 DEF WaitsFor
  <2>4. Open(y) /\ y \in Txs \ {x}
    BY TwoKinds DEF HoldsGroup, Open
  <2> QED BY <1>0, <2>3, <2>4 DEF Blockers
<1>4. ~tx'[x].touched => tx'[x].writes = <<>>
  BY <1>1 DEF GroupInv, Untouched
<1>5. OneHolder' /\ Untouched' /\ (\A u \in Txs : Planned(u)') /\ OneWinner'
  BY <1>0, <1>1, <1>2, <1>3, <1>4, GroupMoves
<1>6. Alone'
  BY <1>0, <1>1, StillAlone
<1> QED BY <1>5, <1>6

\* A commit leaves the pointers of one winner, or the table as it was.
LEMMA CommitsWinner ==
    ASSUME GroupInv, NEW t \in Txs, tx[t].pc = "save", overlap # "delete",
           facts' = Over(tx[t].plan, View(t))
    PROVE  \/ facts' = facts /\ tx[t].plan = <<>> /\ tx[t].writes = <<>>
           \/ /\ t \in Attempts => tx[t].touched
              /\ \E w \in Rows(facts') \cup {Null} : Pointed(facts', w)
<1>1. Planned(t) /\ TypeInv /\ facts \in Table
  BY DEF GroupInv, TypeInv
<1>2. CASE tx[t].plan = <<>> /\ tx[t].writes = <<>>
  BY <1>1, <1>2, OverNothing DEF View
<1>3. CASE ~(tx[t].plan = <<>> /\ tx[t].writes = <<>>)
  <2>1. PICK w \in Rows(View(t)) \cup {Null} : tx[t].plan = Repoint(View(t), w)
    BY <1>1, <1>3 DEF Planned
  <2>2. View(t) \in Table /\ w \in RowIds \cup {Null}
    BY <1>1, ViewType DEF Rows
  <2>3. Rows(facts') = Rows(View(t)) /\ Pointed(facts', w)
    BY <2>1, <2>2, Repointed
  <2> QED BY <2>1, <2>3, <1>1, <1>3 DEF Planned
<1> QED BY <1>2, <1>3

\* Pointers of one winner are what OneWinner asks for.
LEMMA WinnerIsPointed ==
    ASSUME \E w \in Rows(facts') \cup {Null} : Pointed(facts', w)
    PROVE  OneWinner'
BY DEF OneWinner, PointersOf, Pointed, Owner

\* What a commit changes.
LEMMA CommitMoves ==
    ASSUME TypeInv, NEW x \in Attempts, Commit(x)
    PROVE  /\ tx'[x] = [Idle EXCEPT !.pc = "complete"] /\ tx'[x].pc = "complete" /\ tx'[x].writes = <<>>
           /\ tx'[x].touched = FALSE
           /\ \A u \in Txs \ {x} : tx'[u] = tx[u]
BY TwoKinds DEF Commit, TypeInv, Idle

\* A commit keeps the invariant: nobody else is about to save with the group touched.
LEMMA CommitGroup ==
    ASSUME GroupInv, NEW x \in Attempts, Commit(x)
    PROVE  Alone' /\ OneHolder' /\ Untouched' /\ (\A u \in Txs : Planned(u)') /\ OneWinner'
<1>0. /\ TypeInv /\ Alone /\ x \in Txs /\ overlap' = overlap /\ status' = status
      /\ tx[x].pc = "save" /\ facts' = Over(tx[x].plan, View(x))
  BY TwoKinds DEF GroupInv, Commit
<1>1. /\ tx'[x].pc = "complete" /\ tx'[x].writes = <<>>
      /\ \A u \in Txs \ {x} : tx'[u] = tx[u]
  BY <1>0, CommitMoves
<1>2. Planned(x)' /\ ~HoldsGroup(x)'
  BY <1>1, NotPlanned
<1>3. Alone'
  BY <1>0, <1>1, StillAlone
<1>4. CASE facts' = facts
  BY <1>0, <1>1, <1>2, <1>3, <1>4, GroupMoves
<1>5. CASE facts' # facts
  <2>1. OneWinner'
    <3>1. CASE overlap = "delete"
      BY <3>1, <1>0 DEF OneWinner
    <3>2. CASE overlap # "delete"
      BY <3>2, <1>0, <1>5, CommitsWinner, WinnerIsPointed
    <3> QED BY <3>1, <3>2
  <2>2. Untouched' /\ OneHolder'
    <3>1. \A u \in Attempts \ {x} : HoldsGroup(u)' <=> HoldsGroup(u)
      BY <1>1, TwoKinds DEF HoldsGroup
    <3> QED BY <3>1, <1>1, <1>2, TwoKinds DEF GroupInv, Untouched, OneHolder
  <2>3. ASSUME NEW u \in Txs \ {x} PROVE Planned(u)'
    <3> SUFFICES ASSUME tx[u].pc = "save", ~(tx[u].plan = <<>> /\ tx[u].writes = <<>>)
                 PROVE  Planned(u)'
      BY <1>1 DEF Planned
    <3>1. u \in Attempts => tx[u].touched
      BY DEF GroupInv, Planned
    <3>2. CASE overlap = "delete"
      BY <3>1, <3>2, <1>0, <1>1 DEF Planned
    <3>3. CASE overlap # "delete"
      <4>1. u \notin Deletes
        BY <3>3, <1>0 DEF Alone
      <4>2. HoldsGroup(u)
        BY <4>1, <3>1, TwoKinds DEF HoldsGroup
      <4>3. tx[x].touched
        BY <3>3, <1>0, <1>5, CommitsWinner
      <4>4. HoldsGroup(x)
        BY <4>3, <1>0 DEF HoldsGroup
      <4> QED BY <4>1, <4>2, <4>4, TwoKinds DEF GroupInv, OneHolder
    <3> QED BY <3>2, <3>3
  <2> QED BY <2>1, <2>2, <2>3, <1>2, <1>3
<1> QED BY <1>4, <1>5

\* What the start of a deletion changes, and what it overlaps.
LEMMA BeginDeleteMoves ==
    ASSUME TypeInv, NEW d \in Deletes, BeginDelete(d)
    PROVE  /\ tx'[d].pc \in {"save", "drop"} /\ tx'[d].writes = <<>> /\ tx'[d].plan = <<>>
           /\ tx'[d].pc = "save" => Own(d) = {}
           /\ tx'[d].orphans = {c[2] : c \in Own(d)} \ {c[2] : c \in cites \ Own(d)}
           /\ \A u \in Txs \ {d} : tx'[u] = tx[u]
           /\ overlap' # "delete" => /\ overlap # "delete" /\ \A x \in Attempts : status[x] # "processing"
                                     /\ \A e \in Deletes : tx[e].pc = "idle"
           /\ overlap' # "none" \/ overlap = "none"
<1> DEFINE cited == {c[2] : c \in Own(d)}
           orphans == cited \ {c[2] : c \in cites \ Own(d)}
           pc == IF cited = {} THEN "save" ELSE "drop"
           j == \/ \E x \in Attempts : status[x] = "processing"
                \/ \E e \in Deletes : Open(e)
<1>1. tx' = [tx EXCEPT ![d] = [Idle EXCEPT !.pc = pc, !.orphans = orphans]]
  BY DEF BeginDelete
<1>2. pc \in {"save", "drop"} /\ (pc = "save" => Own(d) = {})
  OBVIOUS
<1>3. overlap' = Overlap(j, FALSE) /\ j \in BOOLEAN
  BY DEF BeginDelete
<1> HIDE DEF pc, orphans, j
<1>4. d \in Txs /\ tx \in [Txs -> TxRec]
  BY TwoKinds DEF TypeInv
<1>5. tx'[d].pc = pc /\ tx'[d].writes = <<>> /\ tx'[d].plan = <<>> /\ tx'[d].orphans = orphans
      /\ \A u \in Txs \ {d} : tx'[u] = tx[u]
  BY <1>1, <1>4 DEF Idle
<1>6. overlap' # "delete" => overlap # "delete" /\ ~j
  BY <1>3, OverlapStays
<1>7. overlap' # "none" \/ overlap = "none"
  BY <1>3, OverlapStays
<1>8. ~j => (\A x \in Attempts : status[x] # "processing") /\ \A e \in Deletes : tx[e].pc = "idle"
  BY DEF j, Open, TypeInv
<1> QED BY <1>2, <1>5, <1>6, <1>7, <1>8 DEF orphans

\* A deletion that starts keeps the invariant,
LEMMA BeginDeleteGroup ==
    ASSUME GroupInv, NEW d \in Deletes, BeginDelete(d)
    PROVE  Alone' /\ OneHolder' /\ Untouched' /\ (\A u \in Txs : Planned(u)') /\ OneWinner'
<1>0. TypeInv /\ Alone /\ d \in Txs /\ facts' = facts /\ status' = status
  BY TwoKinds DEF GroupInv, BeginDelete
<1>1. /\ tx'[d].writes = <<>> /\ tx'[d].plan = <<>>
      /\ \A u \in Txs \ {d} : tx'[u] = tx[u]
      /\ overlap' # "delete" => /\ overlap # "delete" /\ \A x \in Attempts : status[x] # "processing"
                                /\ \A e \in Deletes : tx[e].pc = "idle"
  BY <1>0, BeginDeleteMoves
<1>2. Planned(d)' /\ ~HoldsGroup(d)'
  BY <1>1, TwoKinds DEF Planned, HoldsGroup
<1>3. OneHolder' /\ Untouched' /\ (\A u \in Txs : Planned(u)') /\ OneWinner'
  BY <1>0, <1>1, <1>2, GroupMoves
<1>4. Alone'
  <2> SUFFICES ASSUME overlap' # "delete" PROVE \A u \in Txs \ {d} : tx'[u].pc = "idle"
    BY TwoKinds DEF Alone
  <2> QED BY <1>0, <1>1, TwoKinds DEF Alone
<1> QED BY <1>3, <1>4

\* one that drops facts and recomputes,
LEMMA DropOrphansGroup ==
    ASSUME GroupInv, NEW d \in Deletes, DropOrphans(d)
    PROVE  Alone' /\ OneHolder' /\ Untouched' /\ (\A u \in Txs : Planned(u)') /\ OneWinner'
<1>0. /\ TypeInv /\ Alone /\ d \in Txs /\ facts' = facts /\ overlap' = overlap /\ status' = status
      /\ tx[d].pc = "drop" /\ tx[d] \in TxRec
  BY TwoKinds DEF GroupInv, DropOrphans, TypeInv
<1> DEFINE F == Over(Dropped(d), facts)
           live == LiveFacts(cites \ Own(d), {})
           w == Winner(F, live)
<1>1. /\ tx'[d] = [tx[d] EXCEPT !.pc = "save", !.writes = Dropped(d), !.plan = Recompute(F, live)]
      /\ \A t \in Txs \ {d} : tx'[t] = tx[t]
  BY <1>0, DropOrphansType
<1> HIDE DEF live
<1>2. tx'[d].pc = "save" /\ tx'[d].writes = Dropped(d) /\ tx'[d].plan = Recompute(F, live)
  BY <1>0, <1>1 DEF TxRec
<1>3. View(d)' = F
  BY <1>0, <1>2 DEF View
<1>4. F \in Table
  BY <1>0, DroppedType, OverTable DEF TypeInv
<1>5. w \in Rows(F) \cup {Null} /\ tx'[d].plan = Repoint(F, w)
  BY <1>2, <1>4, WinnerType, RecomputeRepoints
<1> HIDE DEF w
<1>6. Planned(d)' /\ ~HoldsGroup(d)'
  <2>1. d \notin Attempts
    BY TwoKinds
  <2>2. \E u \in Rows(View(d)') \cup {Null} : tx'[d].plan = Repoint(View(d)', u)
    BY <1>3, <1>5
  <2> QED BY <2>1, <2>2 DEF Planned, HoldsGroup
<1>7. OneHolder' /\ Untouched' /\ (\A u \in Txs : Planned(u)') /\ OneWinner'
  BY <1>0, <1>1, <1>6, TwoKinds, GroupMoves
<1>8. Alone'
  BY <1>0, <1>1, TwoKinds, StillAlone
<1> QED BY <1>7, <1>8

\* What the commit of a deletion changes.
LEMMA CommitDeleteMoves ==
    ASSUME TypeInv, NEW d \in Deletes, CommitDelete(d)
    PROVE  /\ tx'[d] = Idle /\ tx'[d].pc = "idle" /\ tx'[d].writes = <<>>
           /\ \A u \in Txs \ {d} : tx'[u] = tx[u]
           /\ \A x \in Attempts : status'[x] = IF Item(x) = Item(d) THEN "deleted" ELSE status[x]
BY TwoKinds DEF CommitDelete, TypeInv, Idle

\* and one that commits.
LEMMA CommitDeleteGroup ==
    ASSUME GroupInv, NEW d \in Deletes, CommitDelete(d)
    PROVE  Alone' /\ OneHolder' /\ Untouched' /\ (\A u \in Txs : Planned(u)') /\ OneWinner'
<1>0. /\ TypeInv /\ Alone /\ d \in Txs /\ overlap' = overlap
      /\ tx[d].pc = "save" /\ facts' = Over(tx[d].plan, View(d))
  BY TwoKinds DEF GroupInv, CommitDelete
<1>1. tx'[d].pc = "idle" /\ tx'[d].writes = <<>> /\ \A u \in Txs \ {d} : tx'[u] = tx[u]
  BY <1>0, CommitDeleteMoves
<1>2. Planned(d)' /\ ~HoldsGroup(d)'
  BY <1>1, NotPlanned
<1>3. Alone'
  <2>1. overlap # "delete" => \A x \in Attempts : tx[x].pc = "idle"
    BY <1>0, TwoKinds DEF Alone
  <2> QED BY <1>0, <1>1, <2>1, TwoKinds, StillAlone
<1>4. OneWinner'
  <2>1. CASE overlap = "delete"
    BY <2>1, <1>0 DEF OneWinner
  <2>2. CASE overlap # "delete"
    <3>1. CASE facts' = facts
      BY <3>1, <1>0, WinnerKept DEF GroupInv
    <3>2. CASE facts' # facts
      BY <2>2, <3>2, <1>0, CommitsWinner, WinnerIsPointed
    <3> QED BY <3>1, <3>2
  <2> QED BY <2>1, <2>2
<1>5. Untouched' /\ OneHolder'
  <2>1. \A u \in Attempts : tx'[u] = tx[u]
    BY <1>1, TwoKinds
  <2> QED BY <2>1 DEF GroupInv, Untouched, OneHolder, HoldsGroup
<1>6. ASSUME NEW u \in Txs \ {d} PROVE Planned(u)'
  <2>1. CASE overlap # "delete"
    BY <2>1, <1>0, <1>1, TwoKinds, NotPlanned DEF Alone
  <2>2. CASE overlap = "delete"
    BY <2>2, <1>0, <1>1 DEF GroupInv, Planned
  <2> QED BY <2>1, <2>2
<1> QED BY <1>2, <1>3, <1>4, <1>5, <1>6

\* So does a crash.
LEMMA CrashGroup ==
    ASSUME GroupInv, Crash
    PROVE  Alone' /\ OneHolder' /\ Untouched' /\ (\A u \in Txs : Planned(u)') /\ OneWinner'
<1>1. facts' = facts /\ overlap' = overlap /\ \A t \in Txs : tx'[t] = Idle
  BY DEF Crash
<1>2. \A t \in Txs : tx'[t].pc = "idle" /\ tx'[t].writes = <<>>
  BY <1>1 DEF Idle
<1>3. \A t \in Txs : Planned(t)' /\ ~HoldsGroup(t)'
  BY <1>2, NotPlanned
<1>4. OneWinner'
  BY <1>1, WinnerKept DEF GroupInv
<1> QED BY <1>2, <1>3, <1>4, TwoKinds DEF Alone, OneHolder, Untouched

\* The invariant holds at the start.
LEMMA GroupInit == Init => GroupInv
<1> SUFFICES ASSUME Init PROVE GroupInv
  OBVIOUS
<1>1. TypeInv /\ facts = [r \in RowIds |-> NoRow] /\ \A t \in Txs : tx[t] = Idle
  BY TypeInit DEF Init
<1>2. \A t \in Txs : tx[t].pc = "idle" /\ tx[t].writes = <<>>
  BY <1>1 DEF Idle
<1>3. Rows(facts) = {}
  BY <1>1 DEF Rows, NotRows
<1>4. OneWinner
  BY <1>3 DEF OneWinner, PointersOf
<1>5. Alone /\ OneHolder /\ Untouched /\ \A t \in Txs : Planned(t)
  BY <1>2, TwoKinds DEF Alone, OneHolder, Untouched, Planned, HoldsGroup
<1> QED BY <1>1, <1>4, <1>5 DEF GroupInv

\* Every step keeps the invariant behind OneWinner.
LEMMA GroupStep == GroupInv /\ [Next]_vars => GroupInv'
<1> SUFFICES ASSUME GroupInv, [Next]_vars PROVE GroupInv'
  OBVIOUS
<1>0. TypeInv'
  BY TypeStep DEF GroupInv
<1> DEFINE Rest == Alone' /\ OneHolder' /\ Untouched' /\ (\A u \in Txs : Planned(u)') /\ OneWinner'
<1>1. ASSUME NEW i \in Items, AppendRun(i) PROVE Rest
  BY <1>1, QueueGroup
<1>2. ASSUME NEW x \in Attempts, Begin(x) \/ ProviderFails(x) PROVE Rest
  BY <1>2, QueueGroup, BeginGroup
<1>3. ASSUME NEW x \in Attempts, Ingest(x) PROVE Rest
  <2>1. CASE Find(x) \/ Refresh(x) \/ Create(x)
    BY <2>1, StoreGroup
  <2>2. CASE Fail(x)
    <3>1. tx[x].pc # "idle" /\ x \in Txs
      BY <2>2, FailsBusy, TwoKinds DEF Fail
    <3>2. \A y \in Attempts \ {x} : status'[y] = status[y]
      BY <2>2 DEF Fail, GroupInv, TypeInv
    <3> QED BY <3>1, <3>2, <2>2, EndGroup DEF Fail
  <2>3. CASE LockGroup(x)
    BY <2>3, LockGroupGroup
  <2>4. CASE Commit(x)
    BY <2>4, CommitGroup
  <2>5. CASE Complete(x)
    <3>1. tx[x].pc # "idle" /\ x \in Txs
      BY <2>5, TwoKinds DEF Complete
    <3>2. \A y \in Attempts \ {x} : status'[y] = status[y]
      BY <2>5 DEF Complete, GroupInv, TypeInv
    <3> QED BY <3>1, <3>2, <2>5, EndGroup DEF Complete
  <2> QED BY <1>3, <2>1, <2>2, <2>3, <2>4, <2>5 DEF Ingest
<1>4. ASSUME NEW d \in Deletes, BeginDelete(d) PROVE Rest
  BY <1>4, BeginDeleteGroup
<1>5. ASSUME NEW d \in Deletes, Delete(d) PROVE Rest
  <2>1. CASE DropOrphans(d)
    BY <2>1, DropOrphansGroup
  <2>2. CASE CommitDelete(d)
    BY <2>2, CommitDeleteGroup
  <2>3. CASE FailDelete(d)
    <3>1. tx[d].pc # "idle" /\ d \in Txs
      BY <2>3, FailsBusy, TwoKinds DEF FailDelete
    <3> QED BY <3>1, <2>3, EndGroup DEF FailDelete
  <2> QED BY <1>5, <2>1, <2>2, <2>3 DEF Delete
<1>6. ASSUME Crash PROVE Rest
  BY <1>6, CrashGroup
<1>7. ASSUME UNCHANGED vars PROVE Rest
  <2>1. facts' = facts /\ tx' = tx /\ overlap' = overlap /\ status' = status
    BY <1>7 DEF vars
  <2>2. \A u \in Txs : Planned(u)'
    BY <2>1, PlannedKept DEF GroupInv
  <2>3. OneWinner'
    BY <2>1, WinnerKept DEF GroupInv
  <2> QED BY <2>1, <2>2, <2>3 DEF GroupInv, Alone, OneHolder, HoldsGroup, Untouched
<1>8. Rest
  BY <1>1, <1>2, <1>3, <1>4, <1>5, <1>6, <1>7 DEF Next
<1> QED BY <1>0, <1>8 DEF GroupInv

\* The pointers of a group are those of one winner in every reachable state, for any items,
\* values and workers, unless a delete has overlapped another transaction: the recompute of
\* an ingest runs under the lock of the group, up to its commit.
THEOREM OneWinnerHolds == Spec => []OneWinner
<1>1. GroupInv => OneWinner
  BY DEF GroupInv
<1> QED BY <1>1, GroupInit, GroupStep, PTL DEF Spec

(***************************************************************************)
(* Convergence: the inductive invariant and its steps                      *)
(***************************************************************************)
\* The live facts by the citations C, with statuses S and the extractions in A under way.
Counted(x, S, A) == S[x] = "succeeded" \/ (x \in A /\ S[x] # "deleted")
LatestIn(x, S, A) ==
    Counted(x, S, A) /\ \A y \in Attempts : Item(y) = Item(x) /\ y[2] > x[2] => ~Counted(y, S, A)
LiveIn(S, C, A) == {c[2] : c \in {d \in C : LatestIn(d[1], S, A)}}
Settled(S, F, C, A) == DOMAIN Recompute(F, LiveIn(S, C, A)) = {}

\* The extractions of an item are deleted together.
DeletedWhole == \A x \in Attempts : Deleted(Item(x)) => status[x] = "deleted"

\* What an ingest that overlaps nothing knows.
SameValues(x) ==
    \A r \in Rows(facts) : r \in Rows(View(x)) /\ View(x)[r].value = facts[r].value
Found(x) ==
    tx[x].pc = "store" =>
        /\ tx[x].seen = Null => \A r \in Rows(View(x)) : View(x)[r].value # tx[x].stmt
        /\ tx[x].seen # Null => tx[x].seen \in Rows(View(x)) /\ tx[x].old = View(x)[tx[x].seen]
\* An ingest that has not touched the group cites nothing of it, nor did its item.
Unaffected(x) == ~tx[x].touched => tx[x].cites = {} /\ ~CitedBefore(x)
\* The recompute is of what will be committed.
Saving(x) ==
    tx[x].pc = "save" /\ tx[x].touched =>
        tx[x].plan = Recompute(View(x), LiveIn(status, ViewCites(x), {x}))
Ingesting(x) ==
    /\ tx[x].pc \in {"resolve", "store", "save"} =>
          SameValues(x) /\ Found(x) /\ Unaffected(x) /\ Saving(x)
    /\ tx[x].pc = "complete" => Settled(status, facts, cites, {x})
\* So is that of a deletion, beside which no job is processed.
Deleting(d) ==
    /\ tx[d].pc # "idle" => \A x \in Attempts : status[x] # "processing"
    /\ tx[d].pc = "save" =>
          \/ Own(d) = {} /\ tx[d].plan = <<>> /\ tx[d].writes = <<>>
          \/ tx[d].plan = Recompute(View(d), LiveIn(status, cites \ Own(d), {}))
\* The group is settled, counting the job that is processed or not.
Reached ==
    \/ Settled(status, facts, cites, {})
    \/ \E x \in Attempts : status[x] = "processing" /\ Settled(status, facts, cites, {x})
\* One job is processed at a time.
OneJob ==
    \A x, y \in Attempts : status[x] = "processing" /\ status[y] = "processing" => x = y
Sole == OneJob /\ Reached /\ (\A x \in Attempts : Ingesting(x)) /\ (\A d \in Deletes : Deleting(d))
AloneInv == overlap = "none" => Sole
ConvergedInv == GroupInv /\ DeletedWhole /\ AloneInv

\* The live facts, with the statuses as a parameter.
LEMMA LiveFactsIn == ASSUME NEW C, NEW A PROVE LiveFacts(C, A) = LiveIn(status, C, A)
BY DEF LiveFacts, LiveIn, LatestIn, Counted

\* They depend on which extractions count alone.
LEMMA LiveSame ==
    ASSUME NEW S, NEW T, NEW C, C \subseteq Attempts \X RowIds, NEW A, NEW B,
           \A y \in Attempts : Counted(y, S, A) <=> Counted(y, T, B)
    PROVE  LiveIn(S, C, A) = LiveIn(T, C, B)
<1>1. \A x \in Attempts : LatestIn(x, S, A) <=> LatestIn(x, T, B)
  BY DEF LatestIn
<1>2. {d \in C : LatestIn(d[1], S, A)} = {d \in C : LatestIn(d[1], T, B)}
  BY <1>1
<1> QED BY <1>2 DEF LiveIn

\* The winner depends on the eligible rows and their recency alone,
LEMMA WinnerSame ==
    ASSUME NEW F \in Table, NEW L, NEW G \in Table, NEW M, Eligible(F, L) = Eligible(G, M),
           \A r \in Eligible(F, L) : F[r].last = G[r].last
    PROVE  Winner(F, L) = Winner(G, M)
<1> DEFINE E == Eligible(F, L)
<1>1. E \subseteq Rows(F) /\ E \subseteq Rows(G) /\ E = Eligible(G, M)
  BY DEF Eligible
<1>2. CASE E = {}
  BY <1>1, <1>2, WinnerIs
<1>3. CASE E # {}
  <2>1. Best(F, E, Winner(F, L)) /\ Best(G, E, Winner(G, M))
    BY <1>1, <1>3, WinnerIs
  <2>2. ASSUME NEW a \in E, NEW b \in E, Newer(a, b, G) PROVE Newer(a, b, F)
    BY <2>2 DEF Newer
  <2>3. Best(F, E, Winner(G, M))
    BY <2>1, <2>2 DEF Best
  <2> QED BY <1>1, <2>1, <2>3, OneBest
<1> QED BY <1>2, <1>3

\* and a recompute on the facts that have a row.
LEMMA RecomputeSame ==
    ASSUME NEW F \in Table, NEW L, NEW M, L \cap Rows(F) = M \cap Rows(F)
    PROVE  Recompute(F, L) = Recompute(F, M)
<1>1. Eligible(F, L) = Eligible(F, M)
  BY DEF Eligible
<1>2. Winner(F, L) = Winner(F, M)
  BY <1>1, WinnerSame
<1> QED BY <1>2, RecomputeRepoints

\* Recomputing what was just recomputed changes nothing.
LEMMA RecomputeTwice ==
    ASSUME NEW F \in Table, NEW L, NEW G, G = Over(Recompute(F, L), F)
    PROVE  G \in Table /\ Rows(G) = Rows(F) /\ DOMAIN Recompute(G, L) = {}
<1> DEFINE w == Winner(F, L)
<1>1. w \in RowIds \cup {Null} /\ Recompute(F, L) = Repoint(F, w)
  BY WinnerType, RecomputeRepoints DEF Rows
<1> HIDE DEF w
<1>2. /\ G \in Table /\ Rows(G) = Rows(F) /\ Pointed(G, w)
      /\ \A r \in Rows(F) : G[r] = [F[r] EXCEPT !.by = Owner(F, w, r)]
  BY <1>1, Repointed
<1>3. \A r \in Rows(F) : G[r].exclusive = F[r].exclusive /\ G[r].last = F[r].last
  <2> SUFFICES ASSUME NEW r \in Rows(F) PROVE G[r].exclusive = F[r].exclusive /\ G[r].last = F[r].last
    OBVIOUS
  <2>1. F[r] \in Row
    BY RowsAre DEF Rows
  <2> QED BY <2>1, <1>2 DEF Row
<1>4. Eligible(G, L) = Eligible(F, L)
  BY <1>2, <1>3 DEF Eligible
<1>5. Winner(G, L) = w
  <2>1. \A r \in Eligible(G, L) : G[r].last = F[r].last
    BY <1>3, <1>4 DEF Eligible
  <2> QED BY <2>1, <1>2, <1>4, WinnerSame DEF w
<1>6. Recompute(G, L) = Repoint(G, w)
  BY <1>5, RecomputeRepoints
<1>7. {r \in Rows(G) : G[r].by # Owner(G, w, r)} = {}
  BY <1>2 DEF Pointed
<1>8. DOMAIN Repoint(G, w) = {r \in Rows(G) : G[r].by # Owner(G, w, r)}
  BY DEF Repoint
<1> QED BY <1>2, <1>6, <1>7, <1>8

\* Counting an extraction of an item that cites no fact of the group changes nothing.
LEMMA Irrelevant ==
    ASSUME TypeInv, NEW x \in Attempts, ~CitedBefore(x)
    PROVE  Recompute(facts, LiveIn(status, cites, {x})) = Recompute(facts, LiveIn(status, cites, {}))
<1>1. ASSUME NEW c \in cites, c[2] \in Rows(facts)
      PROVE  LatestIn(c[1], status, {x}) <=> LatestIn(c[1], status, {})
  <2>1. Item(c[1]) # Item(x)
    BY <1>1 DEF CitedBefore
  <2>2. \A y \in Attempts : Item(y) = Item(c[1]) => (Counted(y, status, {x}) <=> Counted(y, status, {}))
    BY <2>1 DEF Counted
  <2>3. c[1] \in Attempts
    BY DEF TypeInv
  <2> QED BY <2>2, <2>3 DEF LatestIn
<1>2. LiveIn(status, cites, {x}) \cap Rows(facts) = LiveIn(status, cites, {}) \cap Rows(facts)
  BY <1>1 DEF LiveIn
<1> QED BY <1>2, RecomputeSame DEF TypeInv

\* When nothing overlaps, one transaction is open,
LEMMA NoOtherTx ==
    ASSUME ConvergedInv, overlap = "none", NEW t \in Txs, tx[t].pc # "idle", NEW u \in Txs \ {t}
    PROVE  tx[u].pc = "idle"
<1>1. Alone /\ OneJob
  BY DEF ConvergedInv, GroupInv, AloneInv, Sole
<1> QED BY <1>1, TwoKinds DEF Alone, OneJob

\* and what is known of the others is nothing.
LEMMA OthersIdle ==
    ASSUME ConvergedInv, overlap = "none", NEW t \in Txs, tx[t].pc # "idle",
           \A u \in Txs \ {t} : tx'[u] = tx[u]
    PROVE  /\ \A x \in Attempts \ {t} : Ingesting(x)'
           /\ \A d \in Deletes \ {t} : Deleting(d)'
<1>1. \A u \in Txs \ {t} : tx'[u].pc = "idle"
  BY NoOtherTx
<1> QED BY <1>1, TwoKinds DEF Ingesting, Deleting

\* A change of status of a job that is neither run nor succeeds changes nothing.
LEMMA StatusMoves ==
    ASSUME ConvergedInv, overlap = "none", facts' = facts, cites' = cites, tx' = tx,
           \A y \in Attempts : status'[y] = "succeeded" <=> status[y] = "succeeded",
           \A y \in Attempts : status'[y] = "processing" <=> status[y] = "processing"
    PROVE  Sole'
<1>0. AloneInv /\ TypeInv /\ Alone /\ OneJob /\ Reached
      /\ (\A x \in Attempts : Ingesting(x)) /\ (\A d \in Deletes : Deleting(d))
  BY DEF ConvergedInv, GroupInv, AloneInv, Sole
<1>1. ASSUME NEW C, C \subseteq Attempts \X RowIds PROVE LiveIn(status', C, {}) = LiveIn(status, C, {})
  <2>1. \A y \in Attempts : Counted(y, status', {}) <=> Counted(y, status, {})
    BY DEF Counted
  <2> QED BY <2>1, <1>1, LiveSame
<1>2. ASSUME NEW C, C \subseteq Attempts \X RowIds, NEW x \in Attempts, status[x] = "processing"
      PROVE  LiveIn(status', C, {x}) = LiveIn(status, C, {x})
  <2>1. \A y \in Attempts : Counted(y, status', {x}) <=> Counted(y, status, {x})
    BY <1>2 DEF Counted
  <2> QED BY <2>1, <1>2, LiveSame
<1>3. cites \subseteq Attempts \X RowIds
  BY <1>0 DEF TypeInv
<1>4. Reached'
  BY <1>0, <1>1, <1>2, <1>3 DEF Reached, Settled
<1>5. OneJob'
  BY <1>0 DEF OneJob
<1>6. ASSUME NEW x \in Attempts PROVE Ingesting(x)'
  <2>1. View(x)' = View(x) /\ ViewCites(x)' = ViewCites(x) /\ CitedBefore(x)' = CitedBefore(x)
    BY DEF View, ViewCites, CitedBefore
  <2>2. tx[x].pc # "idle" => status[x] = "processing"
    BY <1>0 DEF Alone
  <2>3. ViewCites(x) \subseteq Attempts \X RowIds
    BY <1>0, TwoKinds DEF ViewCites, TypeInv, TxRec
  <2>4. SameValues(x) => SameValues(x)'
    BY <2>1 DEF SameValues
  <2>5. Found(x) => Found(x)'
    BY <2>1 DEF Found
  <2>6. Unaffected(x) => Unaffected(x)'
    BY <2>1 DEF Unaffected
  <2>7. tx[x].pc # "idle" /\ Saving(x) => Saving(x)'
    BY <2>1, <2>2, <2>3, <1>2 DEF Saving
  <2>8. tx[x].pc = "complete" => Settled(status', facts', cites', {x})
    BY <1>0, <2>2, <1>2, <1>3 DEF Ingesting, Settled
  <2> QED BY <1>0, <2>4, <2>5, <2>6, <2>7, <2>8 DEF Ingesting
<1>7. ASSUME NEW d \in Deletes PROVE Deleting(d)'
  <2>1. View(d)' = View(d) /\ Own(d)' = Own(d)
    BY DEF View, Own
  <2>2. cites \ Own(d) \subseteq Attempts \X RowIds
    BY <1>3
  <2>3. LiveIn(status', cites \ Own(d), {}) = LiveIn(status, cites \ Own(d), {})
    BY <1>1, <2>2
  <2> QED BY <1>0, <2>1, <2>3 DEF Deleting
<1> QED BY <1>4, <1>5, <1>6, <1>7 DEF Sole

\* The parts of the invariant, while nothing has overlapped.
LEMMA SoleIs ==
    ASSUME ConvergedInv, overlap = "none"
    PROVE  /\ TypeInv /\ Alone /\ Untouched /\ (\A t \in Txs : Planned(t)) /\ DeletedWhole
           /\ OneJob /\ Reached /\ (\A x \in Attempts : Ingesting(x)) /\ (\A d \in Deletes : Deleting(d))
BY DEF ConvergedInv, GroupInv, AloneInv, Sole

\* An ingest that overlaps nothing takes a step within its transaction.
LEMMA IngestMoves ==
    ASSUME ConvergedInv, overlap = "none", NEW x \in Attempts, tx[x].pc # "idle",
           \A u \in Txs \ {x} : tx'[u] = tx[u],
           facts' = facts, cites' = cites, status' = status, Ingesting(x)'
    PROVE  Sole'
<1>1. x \in Txs /\ OneJob /\ Reached
  BY SoleIs, TwoKinds
<1>2. (\A y \in Attempts \ {x} : Ingesting(y)') /\ (\A d \in Deletes \ {x} : Deleting(d)')
  BY <1>1, OthersIdle
<1>3. OneJob' /\ Reached'
  BY <1>1 DEF OneJob, Reached
<1> QED BY <1>2, <1>3, TwoKinds DEF Sole

\* Looking a value up keeps the invariant: the row found is there, or none has the value.
LEMMA FindSole ==
    ASSUME ConvergedInv, overlap = "none", NEW x \in Attempts, Find(x)
    PROVE  Sole'
<1>0. /\ TypeInv /\ Ingesting(x) /\ x \in Txs /\ tx[x].pc = "resolve"
      /\ facts' = facts /\ cites' = cites /\ status' = status
  BY SoleIs, TwoKinds DEF Find
<1> DEFINE v == tx'[x].stmt
           r == tx'[x].seen
           known == {q \in Rows(View(x)) : View(x)[q].value = v}
<1>1. /\ \A t \in Txs \ {x} : tx'[t] = tx[t]
      /\ tx'[x].pc = "store" /\ tx'[x].writes = tx[x].writes
      /\ tx'[x].touched = tx[x].touched /\ tx'[x].cites = tx[x].cites
      /\ known = {} => r = Null
      /\ known # {} => r \in known /\ tx'[x].old = View(x)[r]
  BY <1>0, FindMoves
<1>2. View(x)' = View(x) /\ CitedBefore(x)' = CitedBefore(x)
  BY <1>0, <1>1 DEF View, CitedBefore
<1>3. SameValues(x)'
  BY <1>0, <1>2 DEF Ingesting, SameValues
<1>4. Unaffected(x)'
  BY <1>0, <1>1, <1>2 DEF Ingesting, Unaffected
<1>5. Found(x)'
  <2>1. CASE known = {}
    BY <2>1, <1>1, <1>2 DEF Found
  <2>2. CASE known # {}
    <3>1. r \in Rows(View(x)) /\ tx'[x].old = View(x)[r]
      BY <2>2, <1>1
    <3>2. r # Null
      BY <3>1, NullIsNoRow DEF Rows
    <3> QED BY <3>1, <3>2, <1>2 DEF Found
  <2> QED BY <2>1, <2>2
<1>6. Ingesting(x)'
  BY <1>1, <1>3, <1>4, <1>5 DEF Ingesting, Saving
<1> QED BY <1>0, <1>1, <1>6, IngestMoves

\* What a transaction sees after it has stored a value.
LEMMA StoredView ==
    ASSUME TypeInv, NEW x \in Attempts, NEW r \in RowIds, facts' = facts,
           NEW write \in Partial(RowIds, Row \cup NotRows), Stored(x, r, write)
    PROVE  /\ \A q \in RowIds : View(x)'[q] = IF q \in DOMAIN write THEN write[q] ELSE View(x)[q]
           /\ View(x)' \in Table
           /\ tx'[x].pc = "resolve" /\ tx'[x].touched = TRUE
           /\ \A t \in Txs \ {x} : tx'[t] = tx[t]
<1>0. x \in Txs /\ tx[x] \in TxRec /\ facts \in Table
  BY TwoKinds DEF TypeInv
<1> DEFINE old == tx[x].writes
           over == Over(write, old)
<1>1. tx'[x] = StoredRec(x, r, write) /\ \A t \in Txs \ {x} : tx'[t] = tx[t]
  BY StoredType
<1>2. StoredRec(x, r, write).pc = "resolve" /\ StoredRec(x, r, write).touched = TRUE
      /\ StoredRec(x, r, write).writes = over
  BY <1>0 DEF StoredRec, TxRec
<1>3. old \in Partial(RowIds, Row \cup NotRows)
  BY <1>0 DEF TxRec
<1>4. over \in Partial(RowIds, Row \cup NotRows) /\ DOMAIN over = DOMAIN write \cup DOMAIN old
  BY <1>3, OverPartial
<1>5. \A q \in DOMAIN write \cup DOMAIN old : over[q] = IF q \in DOMAIN write THEN write[q] ELSE old[q]
  BY DEF Over
<1>6. View(x)' = Over(over, facts)
  BY <1>1, <1>2 DEF View
<1>7. View(x) \in Table
      /\ \A q \in RowIds : View(x)[q] = IF q \in DOMAIN old THEN old[q] ELSE facts[q]
  BY <1>0, ViewType
<1> HIDE DEF over, old
<1>8. Over(over, facts) \in Table
      /\ \A q \in RowIds : Over(over, facts)[q] = IF q \in DOMAIN over THEN over[q] ELSE facts[q]
  BY <1>0, <1>4, OverTable
<1>9. View(x)' \in Table
      /\ \A q \in RowIds : View(x)'[q] = IF q \in DOMAIN over THEN over[q] ELSE facts[q]
  BY <1>6, <1>8
<1>10. \A q \in RowIds : View(x)'[q] = IF q \in DOMAIN write THEN write[q] ELSE View(x)[q]
  BY <1>4, <1>5, <1>7, <1>9
<1> QED BY <1>1, <1>2, <1>9, <1>10

\* Storing a value leaves every committed row with its value,
LEMMA StoredSole ==
    ASSUME ConvergedInv, overlap = "none", NEW x \in Attempts, NEW r \in RowIds, tx[x].pc = "store",
           facts' = facts, cites' = cites, status' = status,
           NEW write \in Partial(RowIds, Row \cup NotRows), Stored(x, r, write),
           \A q \in DOMAIN write :
              write[q] \in Row /\ (q \in Rows(facts) => write[q].value = facts[q].value)
    PROVE  Sole'
<1>0. TypeInv /\ Ingesting(x) /\ facts \in Table
  BY SoleIs DEF TypeInv
<1>1. /\ \A q \in RowIds : View(x)'[q] = IF q \in DOMAIN write THEN write[q] ELSE View(x)[q]
      /\ View(x)' \in Table
      /\ tx'[x].pc = "resolve" /\ tx'[x].touched = TRUE
      /\ \A t \in Txs \ {x} : tx'[t] = tx[t]
  BY <1>0, StoredView
<1>2. ASSUME NEW q \in Rows(facts) PROVE q \in Rows(View(x)') /\ View(x)'[q].value = facts[q].value
  <2>1. q \in RowIds /\ q \in Rows(View(x)) /\ View(x)[q].value = facts[q].value
    BY <1>0 DEF Ingesting, SameValues, Rows
  <2>2. CASE q \in DOMAIN write
    <3>1. View(x)'[q] = write[q] /\ write[q] \in Row /\ write[q].value = facts[q].value
      BY <2>1, <2>2, <1>1
    <3> QED BY <3>1, <2>1, <1>1, RowsAre
  <2>3. CASE q \notin DOMAIN write
    BY <2>1, <2>3, <1>1 DEF Rows
  <2> QED BY <2>2, <2>3
<1>3. SameValues(x)'
  BY <1>2 DEF SameValues
<1>4. Ingesting(x)'
  BY <1>1, <1>3 DEF Ingesting, Found, Unaffected, Saving
<1> QED BY <1>0, <1>1, <1>4, IngestMoves

\* whether the row is refreshed
LEMMA RefreshSole ==
    ASSUME ConvergedInv, overlap = "none", NEW x \in Attempts, Refresh(x)
    PROVE  Sole'
<1>0. TypeInv /\ Ingesting(x) /\ tx[x].pc = "store" /\ tx[x].seen # Null
  BY SoleIs DEF Refresh
<1>1. tx[x].seen \in RowIds /\ Written1(x) \in Partial(RowIds, Row \cup NotRows)
      /\ Stored(x, tx[x].seen, Written1(x))
  BY <1>0, RefreshStores
<1>2. Refreshed(x) \in Row /\ Refreshed(x).value = tx[x].old.value
  BY <1>0, RefreshedType
<1>3. tx[x].old = View(x)[tx[x].seen]
  BY <1>0 DEF Ingesting, Found
<1>4. tx[x].seen \in Rows(facts) => Refreshed(x).value = facts[tx[x].seen].value
  BY <1>0, <1>2, <1>3 DEF Ingesting, SameValues
<1>5. \A q \in DOMAIN Written1(x) : q = tx[x].seen /\ Written1(x)[q] = Refreshed(x)
  <2>1. CASE Refreshed(x) = tx[x].old
    <3>1. DOMAIN <<>> = {}
      OBVIOUS
    <3> QED BY <2>1, <3>1 DEF Written1
  <2>2. CASE Refreshed(x) # tx[x].old
    BY <2>2 DEF Written1
  <2> QED BY <2>1, <2>2
<1> QED BY <1>0, <1>1, <1>2, <1>4, <1>5, StoredSole DEF Refresh

\* or created.
LEMMA CreateSole ==
    ASSUME ConvergedInv, overlap = "none", NEW x \in Attempts, Create(x)
    PROVE  Sole'
<1>0. TypeInv /\ tx[x].pc = "store"
  BY SoleIs DEF Create
<1>1. PICK r \in RowIds : /\ facts[r] = NoRow
                          /\ New(x, r) \in Partial(RowIds, Row \cup NotRows)
                          /\ New(x, r)[r] \in Row
                          /\ Stored(x, r, New(x, r))
  BY <1>0, CreateStores
<1>2. r \notin Rows(facts) /\ DOMAIN New(x, r) = {r}
  BY <1>1 DEF Rows, NotRows, New
<1> QED BY <1>0, <1>1, <1>2, StoredSole DEF Create

\* Alone, no statement fails and nobody waits.
LEMMA NothingFails ==
    ASSUME ConvergedInv, overlap = "none", NEW x \in Attempts, Fail(x)
    PROVE  FALSE
<1>0. TypeInv /\ Ingesting(x) /\ x \in Txs /\ Alone /\ DeletedWhole
  BY SoleIs, TwoKinds
<1>1. tx[x].pc # "idle"
  BY <1>0, FailsBusy DEF Fail
<1>2. \A u \in Txs \ {x} : tx[u].pc = "idle"
  BY <1>0, <1>1, NoOtherTx
<1>3. ~Deadlocked(x)
  BY <1>2 DEF Deadlocked, Blockers, Open
<1>4. status[x] = "processing"
  BY <1>0, <1>1 DEF Alone
<1>5. ~Deleted(Item(x))
  BY <1>0, <1>4 DEF DeletedWhole
<1>6. Fails(x) /\ tx[x].pc = "store" /\ SameValues(x) /\ Found(x)
  BY <1>0, <1>3 DEF Fail, Fails, Ingesting
<1>7. CASE tx[x].seen = Null
  BY <1>5, <1>6, <1>7 DEF Fails, Taken, SameValues, Found
<1>8. CASE tx[x].seen # Null
  <2>1. View(x)[tx[x].seen] = Gone
    BY <1>5, <1>6, <1>8 DEF Fails
  <2> QED BY <1>6, <1>8, <2>1 DEF Found, Rows, NotRows
<1> QED BY <1>7, <1>8

\* The recompute of an ingest counts the extraction under way.
LEMMA LockGroupSole ==
    ASSUME ConvergedInv, overlap = "none", NEW x \in Attempts, LockGroup(x)
    PROVE  Sole'
<1>0. /\ TypeInv /\ Ingesting(x) /\ x \in Txs /\ tx[x].pc = "resolve"
      /\ facts' = facts /\ cites' = cites /\ status' = status
  BY SoleIs, TwoKinds DEF LockGroup
<1>1. /\ tx'[x].pc = "save" /\ tx'[x].writes = tx[x].writes /\ tx'[x].touched = tx[x].touched
      /\ tx'[x].cites = tx[x].cites
      /\ tx'[x].plan = IF tx[x].touched
                       THEN Recompute(View(x), LiveFacts(ViewCites(x), {x})) ELSE <<>>
      /\ \A u \in Txs \ {x} : tx'[u] = tx[u]
      /\ View(x)' = View(x)
  BY <1>0, LockGroup1
<1>2. ViewCites(x)' = ViewCites(x) /\ CitedBefore(x)' = CitedBefore(x)
  BY <1>0, <1>1 DEF ViewCites, CitedBefore
<1>3. SameValues(x)' /\ Unaffected(x)' /\ Found(x)'
  BY <1>0, <1>1, <1>2 DEF Ingesting, SameValues, Unaffected, Found
<1>4. Saving(x)'
  <2>1. tx[x].touched => tx'[x].plan = Recompute(View(x), LiveIn(status, ViewCites(x), {x}))
    BY <1>1, LiveFactsIn
  <2> QED BY <2>1, <1>0, <1>1, <1>2 DEF Saving
<1>5. Ingesting(x)'
  BY <1>1, <1>3, <1>4 DEF Ingesting
<1> QED BY <1>0, <1>1, <1>5, IngestMoves

\* Its commit settles the group, counting the extraction still under way,
LEMMA CommitSole ==
    ASSUME ConvergedInv, overlap = "none", NEW x \in Attempts, Commit(x)
    PROVE  Sole'
<1>0. /\ TypeInv /\ Ingesting(x) /\ x \in Txs /\ Alone /\ OneJob /\ Reached /\ Planned(x)
      /\ tx[x].pc = "save" /\ status' = status /\ facts \in Table
      /\ facts' = Over(tx[x].plan, View(x)) /\ cites' = ViewCites(x)
  BY SoleIs, TwoKinds DEF Commit, TypeInv
<1>1. /\ tx'[x].pc = "complete"
      /\ \A u \in Txs \ {x} : tx'[u] = tx[u]
  BY <1>0, CommitMoves
<1>2. status[x] = "processing"
  BY <1>0 DEF Alone
<1>3. Settled(status, facts', cites', {x})
  <2>1. CASE tx[x].touched
    <3> DEFINE L == LiveIn(status, ViewCites(x), {x})
    <3>1. tx[x].plan = Recompute(View(x), L)
      BY <2>1, <1>0 DEF Ingesting, Saving
    <3> HIDE DEF L
    <3>2. DOMAIN Recompute(facts', L) = {}
      BY <3>1, <1>0, ViewType, RecomputeTwice
    <3> QED BY <3>2, <1>0 DEF L, Settled
  <2>2. CASE ~tx[x].touched
    <3>1. tx[x].plan = <<>> /\ tx[x].writes = <<>> /\ tx[x].cites = {} /\ ~CitedBefore(x)
      BY <2>2, <1>0 DEF Planned, Ingesting, Unaffected
    <3>2. facts' = facts
      BY <3>1, <1>0, OverNothing DEF View
    <3>3. cites' = cites
      BY <3>1, <1>0 DEF ViewCites
    <3>4. Settled(status, facts, cites, {}) => Settled(status, facts, cites, {x})
      BY <3>1, <1>0, Irrelevant DEF Settled
    <3>5. Settled(status, facts, cites, {x})
      BY <3>4, <1>0, <1>2 DEF Reached, OneJob
    <3> QED BY <3>2, <3>3, <3>5
  <2> QED BY <2>1, <2>2
<1>4. Ingesting(x)'
  BY <1>0, <1>1, <1>3 DEF Ingesting
<1>5. Reached' /\ OneJob'
  BY <1>0, <1>2, <1>3 DEF Reached, OneJob
<1>6. (\A y \in Attempts \ {x} : Ingesting(y)') /\ (\A d \in Deletes \ {x} : Deleting(d)')
  BY <1>0, <1>1, OthersIdle
<1> QED BY <1>4, <1>5, <1>6, TwoKinds DEF Sole

\* and its completion makes it count for good.
LEMMA CompleteSole ==
    ASSUME ConvergedInv, overlap = "none", NEW x \in Attempts, Complete(x)
    PROVE  Sole'
<1>0. /\ TypeInv /\ Ingesting(x) /\ x \in Txs /\ Alone /\ OneJob
      /\ tx[x].pc = "complete" /\ facts' = facts /\ cites' = cites
      /\ cites \subseteq Attempts \X RowIds
  BY SoleIs, TwoKinds DEF Complete, TypeInv
<1>1. status[x] = "processing"
  BY <1>0 DEF Alone
<1>2. /\ tx'[x] = Idle /\ \A u \in Txs \ {x} : tx'[u] = tx[u]
      /\ \A y \in Attempts : status'[y] = IF y = x THEN "succeeded" ELSE status[y]
  BY <1>0, <1>1 DEF Complete, TypeInv
<1>3. LiveIn(status', cites, {}) = LiveIn(status, cites, {x})
  <2>1. \A y \in Attempts : Counted(y, status', {}) <=> Counted(y, status, {x})
    BY <1>1, <1>2 DEF Counted
  <2>2. cites \subseteq Attempts \X RowIds
    BY <1>0
  <2> QED BY <2>1, <2>2, LiveSame
<1>4. Reached'
  BY <1>0, <1>3 DEF Reached, Settled, Ingesting
<1>5. OneJob'
  BY <1>0, <1>2 DEF OneJob
<1>6. Ingesting(x)'
  BY <1>2 DEF Ingesting, Idle
<1>7. (\A y \in Attempts \ {x} : Ingesting(y)') /\ (\A d \in Deletes \ {x} : Deleting(d)')
  BY <1>0, <1>2, OthersIdle
<1> QED BY <1>4, <1>5, <1>6, <1>7, TwoKinds DEF Sole

\* A job that starts, or starts again after a crash, leaves the group settled.
LEMMA BeginSole ==
    ASSUME ConvergedInv, NEW x \in Attempts, Begin(x), overlap' = "none"
    PROVE  Sole'
<1>0. TypeInv /\ facts' = facts /\ cites' = cites /\ status[x] \in {"queued", "failed", "processing"}
  BY DEF ConvergedInv, GroupInv, Begin, CanRun
<1>1. /\ tx'[x].pc = "resolve" /\ tx'[x].writes = <<>> /\ tx'[x].cites = {}
      /\ tx'[x].touched = CitedBefore(x)
      /\ \A t \in Txs \ {x} : tx'[t] = tx[t]
      /\ status' = [status EXCEPT ![x] = "processing"]
      /\ overlap' # "delete" => overlap # "delete" /\ \A d \in Deletes : tx[d].pc = "idle"
      /\ overlap' = "none" => overlap = "none" /\ \A y \in Attempts \ {x} : status[y] # "processing"
  BY <1>0, BeginMoves
<1>2. overlap = "none" /\ (\A d \in Deletes : tx[d].pc = "idle")
      /\ (\A y \in Attempts \ {x} : status[y] # "processing")
  BY <1>1
<1>3. Alone /\ Reached /\ facts \in Table /\ cites \subseteq Attempts \X RowIds
  BY <1>2, SoleIs DEF TypeInv
<1>4. \A y \in Attempts : status'[y] = IF y = x THEN "processing" ELSE status[y]
  BY <1>0, <1>1 DEF TypeInv
<1>5. LiveIn(status', cites, {}) = LiveIn(status, cites, {})
  <2>1. \A y \in Attempts : Counted(y, status', {}) <=> Counted(y, status, {})
    BY <1>0, <1>4 DEF Counted
  <2> QED BY <2>1, <1>3, LiveSame
<1>6. LiveIn(status', cites, {x}) = LiveIn(status, cites, {x})
  <2>1. \A y \in Attempts : Counted(y, status', {x}) <=> Counted(y, status, {x})
    BY <1>0, <1>4 DEF Counted
  <2> QED BY <2>1, <1>3, LiveSame
<1>7. Reached'
  <2>1. CASE Settled(status, facts, cites, {})
    BY <2>1, <1>0, <1>5 DEF Reached, Settled
  <2>2. CASE \E y \in Attempts : status[y] = "processing" /\ Settled(status, facts, cites, {y})
    <3>1. Settled(status, facts, cites, {x})
      BY <2>2, <1>2
    <3> QED BY <3>1, <1>0, <1>4, <1>6 DEF Reached, Settled
  <2> QED BY <2>1, <2>2, <1>3 DEF Reached
<1>8. OneJob'
  BY <1>2, <1>4 DEF OneJob
<1>9. Ingesting(x)'
  <2>1. View(x)' = facts
    BY <1>0, <1>1, <1>3, OverNothing DEF View
  <2>2. SameValues(x)'
    BY <2>1, <1>0 DEF SameValues
  <2>3. Unaffected(x)'
    BY <1>0, <1>1 DEF Unaffected, CitedBefore
  <2> QED BY <2>2, <2>3, <1>1 DEF Ingesting, Found, Saving
<1>10. \A y \in Attempts \ {x} : Ingesting(y)'
  <2>1. \A y \in Attempts \ {x} : tx'[y].pc = "idle"
    BY <1>1, <1>2, <1>3, TwoKinds DEF Alone
  <2> QED BY <2>1 DEF Ingesting
<1>11. \A d \in Deletes : Deleting(d)'
  BY <1>1, <1>2, TwoKinds DEF Deleting
<1> QED BY <1>7, <1>8, <1>9, <1>10, <1>11 DEF Sole

\* So does one that is appended, or fails before it has written.
LEMMA QueueSole ==
    ASSUME ConvergedInv, overlap' = "none",
           \/ \E i \in Items : AppendRun(i)
           \/ \E x \in Attempts : ProviderFails(x)
    PROVE  Sole'
<1>0. TypeInv
  BY DEF ConvergedInv, GroupInv
<1>1. CASE \E i \in Items : AppendRun(i)
  <2>1. PICK i \in Items : AppendRun(i)
    BY <1>1
  <2>2. PICK n \in 1 .. MaxAttempts[i] :
           status[<<i, n>>] = "none" /\ status' = [status EXCEPT ![<<i, n>>] = "queued"]
    BY <2>1 DEF AppendRun
  <2>3. (\A y \in Attempts : status'[y] = "succeeded" <=> status[y] = "succeeded")
        /\ (\A y \in Attempts : status'[y] = "processing" <=> status[y] = "processing")
    BY <2>2, <1>0 DEF TypeInv
  <2> QED BY <2>1, <2>3, StatusMoves DEF AppendRun
<1>2. CASE \E x \in Attempts : ProviderFails(x)
  <2>1. PICK x \in Attempts : ProviderFails(x)
    BY <1>2
  <2>2. overlap' = Overlap(FALSE, status[x] = "processing")
    BY <2>1 DEF ProviderFails
  <2>3. overlap = "none" /\ status[x] # "processing"
    BY <2>2 DEF Overlap
  <2>4. status[x] \in {"queued", "failed"} /\ status' = [status EXCEPT ![x] = "failed"]
    BY <2>1, <2>3 DEF ProviderFails, CanRun
  <2>5. (\A y \in Attempts : status'[y] = "succeeded" <=> status[y] = "succeeded")
        /\ (\A y \in Attempts : status'[y] = "processing" <=> status[y] = "processing")
    BY <2>4, <1>0 DEF TypeInv
  <2> QED BY <2>1, <2>3, <2>5, StatusMoves DEF ProviderFails
<1> QED BY <1>1, <1>2

\* So does a crash.
LEMMA CrashSole ==
    ASSUME ConvergedInv, overlap = "none", Crash
    PROVE  Sole'
<1>0. /\ TypeInv /\ Alone /\ OneJob /\ Reached /\ \A x \in Attempts : Ingesting(x)
      /\ facts' = facts /\ cites' = cites /\ status' = status
  BY SoleIs DEF Crash
<1>1. \A t \in Txs : tx'[t].pc = "idle"
  BY DEF Crash, Idle
<1>2. Reached' /\ OneJob'
  BY <1>0 DEF Reached, OneJob
<1>3. (\A x \in Attempts : Ingesting(x)') /\ (\A d \in Deletes : Deleting(d)')
  BY <1>1, TwoKinds DEF Ingesting, Deleting
<1> QED BY <1>2, <1>3 DEF Sole

\* A deletion that overlaps nothing starts on a settled group.
LEMMA BeginDeleteSole ==
    ASSUME ConvergedInv, NEW d \in Deletes, BeginDelete(d), overlap' = "none"
    PROVE  Sole'
<1>0. TypeInv /\ d \in Txs /\ facts' = facts /\ cites' = cites /\ status' = status
  BY TwoKinds DEF ConvergedInv, GroupInv, BeginDelete
<1>1. /\ tx'[d].pc \in {"save", "drop"} /\ tx'[d].writes = <<>> /\ tx'[d].plan = <<>>
      /\ tx'[d].pc = "save" => Own(d) = {}
      /\ \A u \in Txs \ {d} : tx'[u] = tx[u]
      /\ overlap' # "delete" => /\ overlap # "delete" /\ \A x \in Attempts : status[x] # "processing"
                                /\ \A e \in Deletes : tx[e].pc = "idle"
      /\ overlap' # "none" \/ overlap = "none"
  BY <1>0, BeginDeleteMoves
<1>2. overlap = "none" /\ (\A x \in Attempts : status[x] # "processing")
      /\ (\A e \in Deletes : tx[e].pc = "idle")
  BY <1>1
<1>3. Alone /\ OneJob /\ Reached
  BY <1>2, SoleIs
<1>4. \A u \in Txs \ {d} : tx'[u].pc = "idle"
  BY <1>1, <1>2, <1>3, TwoKinds DEF Alone
<1>5. Deleting(d)'
  <2>1. Own(d)' = Own(d)
    BY <1>0 DEF Own
  <2>2. tx'[d].pc = "save" => Own(d)' = {} /\ tx'[d].plan = <<>> /\ tx'[d].writes = <<>>
    BY <2>1, <1>1
  <2>3. \A x \in Attempts : status'[x] # "processing"
    BY <1>0, <1>2
  <2> QED BY <2>2, <2>3 DEF Deleting
<1>6. (\A x \in Attempts : Ingesting(x)') /\ (\A e \in Deletes \ {d} : Deleting(e)')
  BY <1>4, TwoKinds DEF Ingesting, Deleting
<1>7. Reached' /\ OneJob'
  BY <1>0, <1>3 DEF Reached, OneJob
<1> QED BY <1>5, <1>6, <1>7 DEF Sole

\* A deletion that overlaps nothing takes a step within its transaction.
LEMMA DeleteMoves ==
    ASSUME ConvergedInv, overlap = "none", NEW d \in Deletes, tx[d].pc # "idle",
           \A u \in Txs \ {d} : tx'[u] = tx[u],
           facts' = facts, cites' = cites, status' = status, Deleting(d)'
    PROVE  Sole'
<1>1. d \in Txs /\ OneJob /\ Reached
  BY SoleIs, TwoKinds
<1>2. (\A y \in Attempts \ {d} : Ingesting(y)') /\ (\A e \in Deletes \ {d} : Deleting(e)')
  BY <1>1, OthersIdle
<1>3. OneJob' /\ Reached'
  BY <1>1 DEF OneJob, Reached
<1> QED BY <1>2, <1>3, TwoKinds DEF Sole

\* Its recompute leaves the item's citations out,
LEMMA DropOrphansSole ==
    ASSUME ConvergedInv, overlap = "none", NEW d \in Deletes, DropOrphans(d)
    PROVE  Sole'
<1>0. /\ TypeInv /\ Deleting(d) /\ d \in Txs /\ tx[d].pc = "drop" /\ tx[d] \in TxRec
      /\ facts' = facts /\ cites' = cites /\ status' = status
  BY SoleIs, TwoKinds DEF DropOrphans, TypeInv
<1> DEFINE F == Over(Dropped(d), facts)
           live == LiveFacts(cites \ Own(d), {})
<1>1. /\ tx'[d] = [tx[d] EXCEPT !.pc = "save", !.writes = Dropped(d), !.plan = Recompute(F, live)]
      /\ \A t \in Txs \ {d} : tx'[t] = tx[t]
  BY <1>0, DropOrphansType
<1>2. live = LiveIn(status, cites \ Own(d), {})
  BY LiveFactsIn
<1> HIDE DEF live
<1>3. tx'[d].pc = "save" /\ tx'[d].writes = Dropped(d) /\ tx'[d].plan = Recompute(F, live)
  BY <1>0, <1>1 DEF TxRec
<1>4. View(d)' = F /\ Own(d)' = Own(d)
  BY <1>0, <1>3 DEF View, Own
<1>5. Deleting(d)'
  <2>1. tx'[d].plan = Recompute(View(d)', LiveIn(status', cites' \ Own(d)', {}))
    BY <1>0, <1>2, <1>3, <1>4
  <2>2. \A x \in Attempts : status'[x] # "processing"
    BY <1>0 DEF Deleting
  <2> QED BY <2>1, <2>2 DEF Deleting
<1> QED BY <1>0, <1>1, <1>5, DeleteMoves

\* and its commit settles the group.
LEMMA CommitDeleteSole ==
    ASSUME ConvergedInv, overlap = "none", NEW d \in Deletes, CommitDelete(d)
    PROVE  Sole'
<1>0. /\ TypeInv /\ Deleting(d) /\ d \in Txs /\ Alone /\ OneJob /\ Reached
      /\ tx[d].pc = "save" /\ facts \in Table /\ cites \subseteq Attempts \X RowIds
      /\ facts' = Over(tx[d].plan, View(d))
      /\ cites' = {c \in cites \ Own(d) : View(d)[c[2]] # Gone}
  BY SoleIs, TwoKinds DEF CommitDelete, TypeInv
<1>1. /\ tx'[d].pc = "idle" /\ \A u \in Txs \ {d} : tx'[u] = tx[u]
      /\ \A x \in Attempts : status'[x] = IF Item(x) = Item(d) THEN "deleted" ELSE status[x]
  BY <1>0, CommitDeleteMoves
<1>2. \A x \in Attempts : status[x] # "processing"
  BY <1>0 DEF Deleting
<1>3. Settled(status, facts, cites, {})
  BY <1>0, <1>2 DEF Reached
<1> DEFINE L == LiveIn(status, cites \ Own(d), {})
           M == LiveIn(status', cites', {})
<1>4. /\ facts' \in Table /\ Rows(facts') = Rows(View(d))
      /\ DOMAIN Recompute(facts', L) = {}
  <2>1. CASE Own(d) = {} /\ tx[d].plan = <<>> /\ tx[d].writes = <<>>
    <3>1. View(d) = facts /\ facts' = facts
      BY <2>1, <1>0, OverNothing DEF View
    <3>2. cites \ Own(d) = cites
      BY <2>1
    <3>3. L = LiveIn(status, cites, {})
      BY <3>2
    <3> HIDE DEF L
    <3>4. DOMAIN Recompute(facts, L) = {}
      BY <3>3, <1>3 DEF Settled
    <3> QED BY <3>1, <3>4, <1>0
  <2>2. CASE tx[d].plan = Recompute(View(d), L)
    <3> HIDE DEF L
    <3> QED BY <2>2, <1>0, ViewType, RecomputeTwice
  <2> QED BY <2>1, <2>2, <1>0 DEF Deleting
<1>5. ASSUME NEW c \in cites \ Own(d)
      PROVE  LatestIn(c[1], status', {}) <=> LatestIn(c[1], status, {})
  <2>1. c[1] \in Attempts /\ Item(c[1]) # Item(d)
    BY <1>0 DEF Own
  <2>2. \A y \in Attempts : Item(y) = Item(c[1]) => (Counted(y, status', {}) <=> Counted(y, status, {}))
    BY <2>1, <1>1 DEF Counted
  <2> QED BY <2>1, <2>2 DEF LatestIn
<1>6. M \cap Rows(View(d)) = L \cap Rows(View(d))
  <2>1. \A c \in cites \ Own(d) : c[2] \in Rows(View(d)) => c \in cites'
    BY <1>0 DEF Rows, NotRows
  <2>2. cites' \subseteq cites \ Own(d)
    BY <1>0
  <2>3. ASSUME NEW r \in Rows(View(d)) PROVE r \in M <=> r \in L
    <3>1. r \in M => \E c \in cites' : LatestIn(c[1], status', {}) /\ c[2] = r
      BY DEF LiveIn
    <3>2. r \in L => \E c \in cites \ Own(d) : LatestIn(c[1], status, {}) /\ c[2] = r
      BY DEF LiveIn
    <3>3. (\E c \in cites' : LatestIn(c[1], status', {}) /\ c[2] = r) => r \in M
      BY DEF LiveIn
    <3>4. (\E c \in cites \ Own(d) : LatestIn(c[1], status, {}) /\ c[2] = r) => r \in L
      BY DEF LiveIn
    <3> HIDE DEF L, M
    <3> QED BY <3>1, <3>2, <3>3, <3>4, <2>1, <2>2, <1>5
  <2> HIDE DEF L, M
  <2> QED BY <2>3
<1>7. Settled(status', facts', cites', {})
  <2> HIDE DEF L, M
  <2>1. Recompute(facts', M) = Recompute(facts', L)
    BY <1>4, <1>6, RecomputeSame
  <2>2. DOMAIN Recompute(facts', M) = {}
    BY <2>1, <1>4
  <2> QED BY <2>2 DEF Settled, M
<1>8. Reached'
  BY <1>7 DEF Reached
<1>9. OneJob'
  BY <1>1, <1>2 DEF OneJob
<1>10. Deleting(d)'
  BY <1>1 DEF Deleting
<1>11. (\A x \in Attempts \ {d} : Ingesting(x)') /\ (\A e \in Deletes \ {d} : Deleting(e)')
  BY <1>0, <1>1, OthersIdle
<1> QED BY <1>8, <1>9, <1>10, <1>11, TwoKinds DEF Sole

\* One that fails changes nothing.
LEMMA FailDeleteSole ==
    ASSUME ConvergedInv, overlap = "none", NEW d \in Deletes, FailDelete(d)
    PROVE  Sole'
<1>0. /\ TypeInv /\ d \in Txs /\ facts' = facts /\ cites' = cites /\ status' = status
      /\ tx[d].pc # "idle"
  BY SoleIs, TwoKinds, FailsBusy DEF FailDelete
<1>1. tx'[d].pc = "idle" /\ \A u \in Txs \ {d} : tx'[u] = tx[u]
  BY <1>0 DEF FailDelete, TypeInv, Idle
<1>2. Deleting(d)'
  BY <1>1 DEF Deleting
<1> QED BY <1>0, <1>1, <1>2, DeleteMoves

\* Nor does a step of nothing.
LEMMA SoleUnchanged ==
    ASSUME ConvergedInv, UNCHANGED vars, overlap' = "none"
    PROVE  Sole'
<1>1. overlap = "none" /\ facts' = facts /\ cites' = cites /\ status' = status /\ tx' = tx
  BY DEF vars
<1> QED BY <1>1, StatusMoves

\* Whether an item is deleted is one for all its extractions
LEMMA DeletedKept ==
    ASSUME DeletedWhole, \A y \in Attempts : status'[y] = "deleted" <=> status[y] = "deleted"
    PROVE  DeletedWhole'
<1>1. \A x \in Attempts : <<Item(x), 1>> \in Attempts
  BY FactsAssumption DEF Attempts, Item
<1> QED BY <1>1 DEF DeletedWhole, Deleted

\* after every step.
LEMMA DeletedStep == TypeInv /\ DeletedWhole /\ [Next]_vars => DeletedWhole'
<1> SUFFICES ASSUME TypeInv, DeletedWhole, [Next]_vars PROVE DeletedWhole'
  OBVIOUS
<1>0. status \in [Attempts -> Statuses]
  BY DEF TypeInv
<1>1. ASSUME NEW i \in Items, AppendRun(i) PROVE DeletedWhole'
  <2>1. PICK n \in 1 .. MaxAttempts[i] :
           status[<<i, n>>] = "none" /\ status' = [status EXCEPT ![<<i, n>>] = "queued"]
    BY <1>1 DEF AppendRun
  <2>2. \A y \in Attempts : status'[y] = "deleted" <=> status[y] = "deleted"
    BY <2>1, <1>0
  <2> QED BY <2>2, DeletedKept
<1>2. ASSUME NEW x \in Attempts, Begin(x) \/ ProviderFails(x) \/ Ingest(x) PROVE DeletedWhole'
  <2>1. \A y \in Attempts : status'[y] = "deleted" <=> status[y] = "deleted"
    <3>1. CASE Begin(x) \/ ProviderFails(x)
      BY <1>0, <3>1 DEF Begin, ProviderFails, CanRun
    <3>2. CASE Fail(x) \/ Complete(x)
      BY <1>0, <3>2 DEF Fail, Complete
    <3>3. CASE Find(x) \/ Refresh(x) \/ Create(x) \/ LockGroup(x) \/ Commit(x)
      BY <3>3 DEF Find, Refresh, Create, LockGroup, Commit
    <3> QED BY <1>2, <3>1, <3>2, <3>3 DEF Ingest
  <2> QED BY <2>1, DeletedKept
<1>3. ASSUME NEW d \in Deletes, BeginDelete(d) \/ Delete(d) PROVE DeletedWhole'
  <2>1. CASE CommitDelete(d)
    <3>1. \A x \in Attempts : status'[x] = IF Item(x) = Item(d) THEN "deleted" ELSE status[x]
      BY <2>1 DEF CommitDelete
    <3>2. \A x \in Attempts : <<Item(x), 1>> \in Attempts /\ Item(<<Item(x), 1>>) = Item(x)
      BY FactsAssumption DEF Attempts, Item
    <3>3. \A x \in Attempts : status[<<Item(x), 1>>] = "deleted" => status[x] = "deleted"
      BY DEF DeletedWhole, Deleted
    <3>4. \A x \in Attempts : status'[<<Item(x), 1>>] = "deleted" => status'[x] = "deleted"
      BY <3>1, <3>2, <3>3
    <3> QED BY <3>4 DEF DeletedWhole, Deleted
  <2>2. CASE ~CommitDelete(d)
    <3>1. status' = status
      BY <1>3, <2>2 DEF BeginDelete, Delete, DropOrphans, FailDelete
    <3> QED BY <3>1, DeletedKept
  <2> QED BY <2>1, <2>2
<1>4. CASE Crash
  BY <1>4, DeletedKept DEF Crash
<1>5. CASE UNCHANGED vars
  BY <1>5, DeletedKept DEF vars
<1> QED BY <1>1, <1>2, <1>3, <1>4, <1>5 DEF Next

\* The invariant holds at the start.
LEMMA ConvergedInit == Init => ConvergedInv
<1> SUFFICES ASSUME Init PROVE ConvergedInv
  OBVIOUS
<1>1. GroupInv
  BY GroupInit
<1>2. (\A x \in Attempts : status[x] = "none") /\ cites = {} /\ (\A t \in Txs : tx[t] = Idle)
      /\ facts = [r \in RowIds |-> NoRow]
  BY DEF Init
<1>3. DeletedWhole
  <2>1. \A x \in Attempts : <<Item(x), 1>> \in Attempts
    BY FactsAssumption DEF Attempts, Item
  <2> QED BY <2>1, <1>2 DEF DeletedWhole, Deleted
<1>4. Rows(facts) = {}
  BY <1>2 DEF Rows, NotRows
<1>5. Settled(status, facts, cites, {})
  BY <1>4, RecomputeRepoints DEF Settled, Repoint
<1>6. \A t \in Txs : tx[t].pc = "idle"
  BY <1>2 DEF Idle
<1>7. Sole
  BY <1>2, <1>5, <1>6, TwoKinds DEF Sole, OneJob, Reached, Ingesting, Deleting
<1> QED BY <1>1, <1>3, <1>7 DEF ConvergedInv, AloneInv

\* Every step keeps the invariant behind ConvergedAlone.
LEMMA ConvergedStep == ConvergedInv /\ [Next]_vars => ConvergedInv'
<1> SUFFICES ASSUME ConvergedInv, [Next]_vars PROVE ConvergedInv'
  OBVIOUS
<1>0. GroupInv' /\ DeletedWhole'
  BY GroupStep, DeletedStep DEF ConvergedInv, GroupInv
<1>1. SUFFICES ASSUME overlap' = "none" PROVE Sole'
  BY <1>0 DEF ConvergedInv, AloneInv
<1>2. CASE (\E i \in Items : AppendRun(i)) \/ (\E x \in Attempts : ProviderFails(x))
  BY <1>1, <1>2, QueueSole
<1>3. ASSUME NEW x \in Attempts, Begin(x) PROVE Sole'
  BY <1>1, <1>3, BeginSole
<1>4. ASSUME NEW x \in Attempts, Ingest(x) PROVE Sole'
  <2>1. overlap = "none"
    BY <1>1, <1>4 DEF Ingest, Find, Refresh, Create, Fail, LockGroup, Commit, Complete
  <2> QED BY <1>4, <2>1, FindSole, RefreshSole, CreateSole, NothingFails, LockGroupSole,
             CommitSole, CompleteSole DEF Ingest
<1>5. ASSUME NEW d \in Deletes, BeginDelete(d) PROVE Sole'
  BY <1>1, <1>5, BeginDeleteSole
<1>6. ASSUME NEW d \in Deletes, Delete(d) PROVE Sole'
  <2>1. overlap = "none"
    BY <1>1, <1>6 DEF Delete, DropOrphans, CommitDelete, FailDelete
  <2> QED BY <1>6, <2>1, DropOrphansSole, CommitDeleteSole, FailDeleteSole DEF Delete
<1>7. CASE Crash
  BY <1>1, <1>7, CrashSole DEF Crash
<1>8. CASE UNCHANGED vars
  BY <1>1, <1>8, SoleUnchanged
<1> QED BY <1>2, <1>3, <1>4, <1>5, <1>6, <1>7, <1>8 DEF Next

\* When ingests and deletes come one after another, the pointers at rest are those that the
\* recompute would compute now, for any items, values, repeated extractions, failed runs,
\* deletions and crashes.
THEOREM ConvergesWhenAlone == Spec => []ConvergedAlone
<1>1. ConvergedInv => ConvergedAlone
  <2> SUFFICES ASSUME ConvergedInv, overlap = "none", Quiet
               PROVE  DOMAIN Recompute(facts, LiveFacts(cites, {})) = {}
    BY DEF ConvergedAlone, ConvergesInAnyOrder
  <2>1. Reached
    BY SoleIs
  <2>2. Settled(status, facts, cites, {})
    BY <2>1 DEF Reached, Quiet
  <2> QED BY <2>2, LiveFactsIn DEF Settled
<1> QED BY <1>1, ConvergedInit, ConvergedStep, PTL DEF Spec
=============================================================================
