---------------------------- MODULE ReplicasProofs ----------------------------
(***************************************************************************)
(* Theorems about what every API process does on its own timer or at its   *)
(* start: BackfillRuns, DeadMansSwitch and Nudges, which share no state.   *)
(* They hold for any number of replicas and all values of the constants.   *)
(***************************************************************************)
EXTENDS MCReplicas, FiniteSetTheorems, SequenceTheorems, WellFoundedInduction, TLAPS

(***************************************************************************)
(* The startup sweep of the backfills: the inductive invariant             *)
(***************************************************************************)
\* The part of TypeOK that the table and the sweeps need.
SweepTypeOK ==
    /\ runs \in Seq(Run)
    /\ replica \in [Replicas -> Replica]
    /\ lock \in Replicas \cup {NoReplica}

\* Who sweeps holds the lock: a crash loses both.
HoldsLock == \A p \in Replicas : replica[p].pc \in {"find", "mark", "insert"} => lock = p

\* What the guard has read still holds when it inserts, with whatever else the
\* table has seen: the open runs of the kind are those it is to mark, or none.
GuardIsCurrent ==
    \A p \in Replicas :
        LET k == Order[replica[p].next] IN
        replica[p].pc \in {"mark", "insert"} =>
            /\ replica[p].next \in DOMAIN Order
            /\ Open(k) \subseteq IF replica[p].pc = "mark" THEN replica[p].open ELSE {}

SweepInv == SweepTypeOK /\ HoldsLock /\ GuardIsCurrent /\ OneOpenSweep
-----------------------------------------------------------------------------
\* A step of the table that opens no startup run.
OpensNone == /\ runs' \in Seq(Run)
             /\ \A k \in Kinds : Open(k)' \subseteq Open(k)

\* A step that opens no startup run, and leaves the sweeps alone, keeps the invariant.
LEMMA NoneOpened ==
    ASSUME SweepInv, OpensNone, UNCHANGED <<replica, lock>>
    PROVE  SweepInv'
<1>1. \A p \in Replicas : replica[p].next \in DOMAIN Order => Order[replica[p].next] \in Kinds
  BY DEF Kinds
<1>2. SweepTypeOK' /\ HoldsLock'
  BY DEF SweepInv, SweepTypeOK, HoldsLock, OpensNone
<1>3. GuardIsCurrent'
  BY <1>1 DEF SweepInv, GuardIsCurrent, OpensNone
<1>4. OneOpenSweep'
  BY DEF SweepInv, OneOpenSweep, OpensNone
<1> QED BY <1>2, <1>3, <1>4 DEF SweepInv

\* An update of a row that does not set it to running opens none.
LEMMA UpdateOpensNone ==
    ASSUME SweepTypeOK, NEW r \in DOMAIN runs, NEW run \in Run,
           run.startup = runs[r].startup, run.kind = runs[r].kind,
           run.status \in {runs[r].status, "failed", "completed"},
           runs' = [runs EXCEPT ![r] = run]
    PROVE  OpensNone /\ DOMAIN runs' = DOMAIN runs
<1>1. /\ runs' \in Seq(Run) /\ DOMAIN runs' = DOMAIN runs
      /\ \A s \in DOMAIN runs : runs'[s] = IF s = r THEN run ELSE runs[s]
  BY DEF SweepTypeOK
<1> QED BY <1>1 DEF OpensNone, Open

\* A run that is started goes to the end of the table.
LEMMA Appended ==
    ASSUME SweepTypeOK, NEW p \in Replicas, NEW run \in Run, StartRun(p, run)
    PROVE  /\ runs' \in Seq(Run)
           /\ \A k \in Kinds : Open(k)' =
                 Open(k) \cup IF run.startup /\ run.kind = k /\ run.status = "running"
                              THEN {Len(runs) + 1} ELSE {}
<1>1. /\ runs' \in Seq(Run) /\ DOMAIN runs = 1 .. Len(runs) /\ DOMAIN runs' = 1 .. (Len(runs) + 1)
      /\ \A s \in DOMAIN runs : runs'[s] = runs[s]
      /\ runs'[Len(runs) + 1] = run /\ Len(runs) \in Nat
  BY DEF SweepTypeOK, StartRun
<1>2. DOMAIN runs' = DOMAIN runs \cup {Len(runs) + 1} /\ Len(runs) + 1 \notin DOMAIN runs
  BY <1>1
<1> QED BY <1>1, <1>2 DEF Open
-----------------------------------------------------------------------------
\* A step of one sweep that leaves the table alone.
LEMMA OneSweepMoves ==
    ASSUME SweepInv, NEW p \in Replicas, NEW r \in Replica,
           replica' = [replica EXCEPT ![p] = r], UNCHANGED runs,
           lock' \in Replicas \cup {NoReplica},
           \A q \in Replicas \ {p} : lock = q => lock' = q,
           r.pc \in {"find", "mark", "insert"} => lock' = p,
           r.pc \in {"mark", "insert"} =>
               /\ r.next \in DOMAIN Order
               /\ Open(Order[r.next]) \subseteq IF r.pc = "mark" THEN r.open ELSE {}
    PROVE  SweepInv'
<1>1. replica' \in [Replicas -> Replica] /\ replica'[p] = r
      /\ \A q \in Replicas \ {p} : replica'[q] = replica[q]
  BY DEF SweepInv, SweepTypeOK
<1>2. SweepTypeOK' /\ HoldsLock'
  BY <1>1 DEF SweepInv, SweepTypeOK, HoldsLock
<1>3. GuardIsCurrent'
  BY <1>1 DEF SweepInv, GuardIsCurrent, Open
<1>4. OneOpenSweep'
  BY DEF SweepInv, OneOpenSweep, Open
<1> QED BY <1>2, <1>3, <1>4 DEF SweepInv

\* Where a replica is before, after and beside its sweep.
LEMMA Ats == \A pc \in {"down", "armed", "up"} : At(pc) \in Replica /\ At(pc).pc = pc
BY DEF At, Replica

\* The lock is free, so nobody sweeps; or the replica does not.
LEMMA TakeLockKeeps ==
    ASSUME BackfillAssumption, SweepInv, NEW p \in Replicas, TakeLock(p)
    PROVE  SweepInv'
<1>1. replica[p] \in Replica /\ lock \in Replicas \cup {NoReplica} /\ NoReplica \notin Replicas
  BY DEF SweepInv, SweepTypeOK, BackfillAssumption
<1>2. CASE lock = NoReplica
  <2> DEFINE r == [replica[p] EXCEPT !.pc = "find"]
  <2>1. r \in Replica /\ r.pc = "find"
    BY <1>1 DEF Replica
  <2>2. replica' = [replica EXCEPT ![p] = r] /\ lock' = p /\ UNCHANGED runs
    BY <1>2 DEF TakeLock
  <2> HIDE DEF r
  <2> QED BY <1>1, <1>2, <2>1, <2>2, OneSweepMoves
<1>3. CASE lock # NoReplica
  <2> DEFINE r == [replica[p] EXCEPT !.pc = "up"]
  <2>1. r \in Replica /\ r.pc = "up"
    BY <1>1 DEF Replica
  <2>2. replica' = [replica EXCEPT ![p] = r] /\ UNCHANGED <<runs, lock>>
    BY <1>3 DEF TakeLock
  <2> HIDE DEF r
  <2> QED BY <1>1, <2>1, <2>2, OneSweepMoves
<1> QED BY <1>2, <1>3

\* The sweep goes on to the next kind.
LEMMA NextKindOf ==
    ASSUME NEW r \in Replica
    PROVE  LET s == [r EXCEPT !.pc = "find", !.next = @ + 1] IN s \in Replica /\ s.pc = "find"
<1> DEFINE n == r.next + 1
<1>1. n \in Nat \ {0}
  BY DEF Replica
<1> HIDE DEF n
<1>2. LET s == [r EXCEPT !.pc = "find", !.next = n] IN s \in Replica /\ s.pc = "find"
  BY <1>1 DEF Replica
<1> QED BY <1>2 DEF n

\* The guard remembers just what is open.
LEMMA FindOpenKeeps ==
    ASSUME SweepInv, NEW p \in Replicas, FindOpen(p)
    PROVE  SweepInv'
<1> DEFINE ids == Open(Order[replica[p].next])
<1>1. replica[p] \in Replica /\ replica[p].pc = "find" /\ replica[p].next \in DOMAIN Order
      /\ lock = p /\ UNCHANGED <<runs, lock>>
  BY DEF SweepInv, SweepTypeOK, HoldsLock, FindOpen
<1>2. CASE \E r \in ids : runs[r].fresh
  <2> DEFINE r == [replica[p] EXCEPT !.pc = "find", !.next = @ + 1]
  <2>1. r \in Replica /\ r.pc = "find"
    BY <1>1, NextKindOf
  <2>2. replica' = [replica EXCEPT ![p] = r]
    BY <1>2 DEF FindOpen, NextKind
  <2> HIDE DEF r
  <2> QED BY <1>1, <2>1, <2>2, OneSweepMoves
<1>3. CASE ~\E r \in ids : runs[r].fresh
  <2> DEFINE pc == IF ids = {} THEN "insert" ELSE "mark"
             r == [replica[p] EXCEPT !.pc = pc, !.open = ids]
  <2>1. pc \in {"mark", "insert"} /\ ids \in SUBSET Nat
    BY DEF SweepInv, SweepTypeOK, Open
  <2>2. replica' = [replica EXCEPT ![p] = r]
    BY <1>3 DEF FindOpen
  <2>3. pc = "insert" => ids = {}
    OBVIOUS
  <2> HIDE DEF pc, ids
  <2>4. r \in Replica /\ r.pc = pc /\ r.open = ids /\ r.next = replica[p].next
    BY <1>1, <2>1 DEF Replica
  <2> HIDE DEF r
  <2>5. Open(Order[r.next]) = r.open
    BY <2>4 DEF ids
  <2> QED BY <1>1, <2>1, <2>2, <2>3, <2>4, <2>5, OneSweepMoves
<1> QED BY <1>2, <1>3

\* A row that is marked, or was over, is not open.
LEMMA MarkStaleKeeps ==
    ASSUME SweepInv, NEW p \in Replicas, MarkStale(p)
    PROVE  SweepInv'
<1>1. /\ replica[p] \in Replica /\ replica[p].pc = "mark" /\ lock = p /\ lock' = lock
      /\ replica[p].next \in DOMAIN Order /\ Order[replica[p].next] \in Kinds
      /\ Open(Order[replica[p].next]) \subseteq replica[p].open
  BY DEF SweepInv, SweepTypeOK, HoldsLock, GuardIsCurrent, MarkStale, Kinds
<1>2. PICK r \in replica[p].open :
          /\ runs' = IF runs[r].status = "running"
                     THEN [runs EXCEPT ![r].status = "failed", ![r].fresh = TRUE] ELSE runs
          /\ replica' = [replica EXCEPT ![p].open = @ \ {r},
                                        ![p].pc = IF replica[p].open = {r} THEN "insert" ELSE "mark"]
  BY DEF MarkStale
<1>3. /\ OpensNone
      /\ \A k \in Kinds : r \notin Open(k)'
  <2>1. CASE r \in DOMAIN runs /\ runs[r].status = "running"
    <3> DEFINE run == [runs[r] EXCEPT !.status = "failed", !.fresh = TRUE]
    <3>0. runs[r] \in Run
      BY <2>1 DEF SweepInv, SweepTypeOK
    <3>1. /\ run \in Run /\ run.status = "failed"
          /\ run.startup = runs[r].startup /\ run.kind = runs[r].kind
      BY <3>0 DEF Run
    <3>2. runs' = [runs EXCEPT ![r] = run]
      BY <1>2, <2>1
    <3> HIDE DEF run
    <3>3. OpensNone /\ DOMAIN runs' = DOMAIN runs
      BY <2>1, <3>1, <3>2, UpdateOpensNone DEF SweepInv
    <3>4. runs'[r] = run
      BY <2>1, <3>2
    <3> QED BY <3>1, <3>3, <3>4 DEF Open
  <2>2. CASE ~(r \in DOMAIN runs /\ runs[r].status = "running")
    <3>1. runs' = runs
      <4>1. CASE r \notin DOMAIN runs
        BY <1>2, <4>1 DEF SweepInv, SweepTypeOK
      <4> QED BY <1>2, <2>2, <4>1
    <3> QED BY <2>2, <3>1 DEF SweepInv, SweepTypeOK, OpensNone, Open
  <2> QED BY <2>1, <2>2
<1> DEFINE pc == IF replica[p].open = {r} THEN "insert" ELSE "mark"
           ids == replica[p].open \ {r}
           s == [replica[p] EXCEPT !.open = ids, !.pc = pc]
<1>4. /\ s \in Replica /\ s.pc = pc /\ s.open = ids /\ s.next = replica[p].next
  BY <1>1 DEF Replica
<1>5. /\ replica' \in [Replicas -> Replica] /\ replica'[p] = s
      /\ \A q \in Replicas \ {p} : replica'[q] = replica[q]
  <2>1. replica' = [replica EXCEPT ![p] = s]
    BY <1>2
  <2> HIDE DEF s
  <2> QED BY <1>4, <2>1 DEF SweepInv, SweepTypeOK
<1>6. pc \in {"mark", "insert"} /\ (pc = "insert" => replica[p].open = {r})
  OBVIOUS
<1>7. \A k \in Kinds : k = Order[replica[p].next] => Open(k)' \subseteq ids
  BY <1>1, <1>3 DEF OpensNone
<1>7a. pc = "insert" => ids = {}
  OBVIOUS
<1> HIDE DEF s, pc, ids
<1>8. SweepTypeOK' /\ HoldsLock'
  BY <1>1, <1>3, <1>5, <1>6 DEF SweepInv, SweepTypeOK, HoldsLock, OpensNone
<1>9. GuardIsCurrent'
  <2>1. \A q \in Replicas : replica'[q].pc \in {"mark", "insert"} => q = p
    BY <1>1, <1>5 DEF SweepInv, HoldsLock
  <2>2. replica'[p].next = replica[p].next
    BY <1>4, <1>5
  <2>3. \A k \in Kinds : k = Order[replica'[p].next] =>
           Open(k)' \subseteq IF replica'[p].pc = "mark" THEN replica'[p].open ELSE {}
    BY <1>4, <1>5, <1>6, <1>7, <1>7a, <2>2
  <2>4. replica'[p].next \in DOMAIN Order /\ Order[replica'[p].next] \in Kinds
    BY <1>1, <2>2
  <2> QED BY <2>1, <2>3, <2>4 DEF GuardIsCurrent, Open
<1>10. OneOpenSweep'
  BY <1>3 DEF SweepInv, OneOpenSweep, OpensNone
<1> QED BY <1>8, <1>9, <1>10 DEF SweepInv

\* Nobody else is past its guard, so the open run is the only one.
LEMMA InsertRunKeeps ==
    ASSUME SweepInv, NEW p \in Replicas, InsertRun(p)
    PROVE  SweepInv'
<1> DEFINE k == Order[replica[p].next]
           run == [kind |-> k, startup |-> TRUE, force |-> FALSE,
                   scope |-> 1 .. Items, status |-> "running", fresh |-> TRUE]
           s == [replica[p] EXCEPT !.pc = "find", !.next = @ + 1]
<1>1. /\ replica[p] \in Replica /\ replica[p].pc = "insert" /\ lock = p /\ lock' = lock
      /\ replica[p].next \in DOMAIN Order /\ k \in Kinds /\ Open(k) = {}
  BY DEF SweepInv, SweepTypeOK, HoldsLock, GuardIsCurrent, InsertRun, Kinds
<1>2. run \in Run /\ run.kind = k /\ run.startup /\ run.status = "running"
  BY <1>1 DEF Run
<1>3. StartRun(p, run) /\ replica' = [replica EXCEPT ![p] = s]
  BY DEF InsertRun, NextKind
<1>4. s \in Replica /\ s.pc = "find"
  BY <1>1, NextKindOf
<1> HIDE DEF run, s, k
<1>5. /\ runs' \in Seq(Run)
      /\ \A j \in Kinds : Open(j)' = Open(j) \cup IF j = k THEN {Len(runs) + 1} ELSE {}
  BY <1>2, <1>3, Appended DEF SweepInv
<1>6. /\ replica' \in [Replicas -> Replica] /\ replica'[p] = s
      /\ \A q \in Replicas \ {p} : replica'[q] = replica[q]
  BY <1>3, <1>4 DEF SweepInv, SweepTypeOK
<1>7. SweepTypeOK' /\ HoldsLock'
  BY <1>1, <1>4, <1>5, <1>6 DEF SweepInv, SweepTypeOK, HoldsLock
<1>8. GuardIsCurrent'
  <2>1. \A q \in Replicas : replica'[q].pc \notin {"mark", "insert"}
    BY <1>1, <1>4, <1>6 DEF SweepInv, HoldsLock
  <2> QED BY <2>1 DEF GuardIsCurrent
<1>9. OneOpenSweep'
  BY <1>1, <1>5 DEF SweepInv, OneOpenSweep
<1> QED BY <1>7, <1>8, <1>9 DEF SweepInv

\* The lock goes with the sweep.
LEMMA UnlockKeeps ==
    ASSUME SweepInv, NEW p \in Replicas, Unlock(p)
    PROVE  SweepInv'
<1>1. replica[p].pc = "find" /\ lock = p /\ lock' = NoReplica /\ UNCHANGED runs
      /\ replica' = [replica EXCEPT ![p] = At("up")]
  BY DEF SweepInv, HoldsLock, Unlock
<1> QED BY <1>1, Ats, OneSweepMoves

\* A replica that dies loses its lock and its place.
LEMMA CrashKeeps ==
    ASSUME SweepInv, NEW p \in Replicas, Crash(p)
    PROVE  SweepInv'
<1>1. /\ lock' = (IF lock = p THEN NoReplica ELSE lock) /\ UNCHANGED runs
      /\ replica' = [replica EXCEPT ![p] = At("down")] /\ lock \in Replicas \cup {NoReplica}
  BY DEF SweepInv, SweepTypeOK, Crash
<1> QED BY <1>1, Ats, OneSweepMoves

\* A replica that boots holds nothing yet.
LEMMA BootKeeps ==
    ASSUME SweepInv, NEW p \in Replicas, Boot(p)
    PROVE  SweepInv'
<1>1. /\ replica' = [replica EXCEPT ![p] = At("armed")] /\ UNCHANGED <<runs, lock>>
      /\ lock \in Replicas \cup {NoReplica}
  BY DEF SweepInv, SweepTypeOK, Boot
<1> QED BY <1>1, Ats, OneSweepMoves

\* A run the user starts is no startup run.
LEMMA StartManualKeeps ==
    ASSUME BackfillAssumption, SweepInv, NEW p \in Replicas, StartManual(p)
    PROVE  SweepInv'
<1>1. PICK k \in Kinds, force \in BOOLEAN, scope \in Windows :
          StartRun(p, [kind |-> k, startup |-> FALSE, force |-> force, scope |-> scope,
                       status |-> "running", fresh |-> TRUE])
  BY DEF StartManual
<1> DEFINE run == [kind |-> k, startup |-> FALSE, force |-> force, scope |-> scope,
                   status |-> "running", fresh |-> TRUE]
<1>2. run \in Run /\ ~run.startup
  BY DEF Run, BackfillAssumption
<1>3. UNCHANGED <<replica, lock>>
  BY DEF StartManual
<1> HIDE DEF run
<1>4. StartRun(p, run)
  BY <1>1 DEF run
<1>5. OpensNone
  BY <1>2, <1>4, Appended DEF SweepInv, OpensNone
<1> QED BY <1>3, <1>5, NoneOpened

\* The heartbeat goes with the fields it leaves.
LEMMA BeatKeeps ==
    ASSUME SweepInv, NEW r, NEW fresh \in BOOLEAN, UNCHANGED <<replica, lock>>,
           runs' = [runs EXCEPT ![r].fresh = fresh]
    PROVE  SweepInv'
<1>1. CASE r \notin DOMAIN runs
  <2>1. runs' = runs
    BY <1>1 DEF SweepInv, SweepTypeOK
  <2> QED BY <2>1, NoneOpened DEF OpensNone, Open, SweepInv, SweepTypeOK
<1>2. CASE r \in DOMAIN runs
  <2> DEFINE run == [runs[r] EXCEPT !.fresh = fresh]
  <2>1. runs[r] \in Run
    BY <1>2 DEF SweepInv, SweepTypeOK
  <2>2. run \in Run /\ run.startup = runs[r].startup /\ run.kind = runs[r].kind /\ run.status = runs[r].status
    BY <2>1 DEF Run
  <2>3. runs' = [runs EXCEPT ![r] = run]
    OBVIOUS
  <2> HIDE DEF run
  <2>4. OpensNone
    BY <1>2, <2>2, <2>3, UpdateOpensNone DEF SweepInv
  <2> QED BY <2>4, NoneOpened
<1> QED BY <1>1, <1>2

\* A run that ends is not open.
LEMMA EndKeeps ==
    ASSUME SweepInv, NEW r, NEW status \in {"completed", "failed"}, UNCHANGED <<replica, lock>>,
           runs' = [runs EXCEPT ![r].status = status, ![r].fresh = TRUE]
    PROVE  SweepInv'
<1>1. CASE r \notin DOMAIN runs
  <2>1. runs' = runs
    BY <1>1 DEF SweepInv, SweepTypeOK
  <2> QED BY <2>1, NoneOpened DEF OpensNone, Open, SweepInv, SweepTypeOK
<1>2. CASE r \in DOMAIN runs
  <2> DEFINE run == [runs[r] EXCEPT !.status = status, !.fresh = TRUE]
  <2>1. runs[r] \in Run
    BY <1>2 DEF SweepInv, SweepTypeOK
  <2>2. run \in Run /\ run.startup = runs[r].startup /\ run.kind = runs[r].kind /\ run.status = status
    BY <2>1 DEF Run
  <2>3. runs' = [runs EXCEPT ![r] = run]
    OBVIOUS
  <2> HIDE DEF run
  <2>4. OpensNone
    BY <1>2, <2>2, <2>3, UpdateOpensNone DEF SweepInv
  <2> QED BY <2>4, NoneOpened
<1> QED BY <1>1, <1>2
-----------------------------------------------------------------------------
\* The invariant holds at the start.
LEMMA SweepInit == ASSUME BackfillAssumption, Init PROVE SweepInv
<1>1. runs = <<>> /\ lock = NoReplica /\ \A p \in Replicas : replica[p].pc = "down"
  BY Ats DEF Init
<1>2. SweepTypeOK
  BY Ats DEF Init, SweepTypeOK
<1> QED BY <1>1, <1>2 DEF SweepInv, HoldsLock, GuardIsCurrent, OneOpenSweep, Open

\* Every step keeps it.
LEMMA SweepStep == ASSUME BackfillAssumption, SweepInv, [Next]_vars PROVE SweepInv'
<1>1. ASSUME UNCHANGED <<runs, replica, lock>> PROVE SweepInv'
  BY <1>1, NoneOpened DEF OpensNone, Open, SweepInv, SweepTypeOK
<1>2. ASSUME NEW p \in Replicas, Sweep(p) PROVE SweepInv'
  BY <1>2, TakeLockKeeps, FindOpenKeeps, MarkStaleKeeps, InsertRunKeeps, UnlockKeeps DEF Sweep
<1>3. ASSUME NEW r \in DOMAIN walk, Execute(r) PROVE SweepInv'
  <2>1. CASE Load(r)
    BY <1>1, <2>1 DEF Load, Read
  <2>2. CASE Visit(r)
    BY <1>1, <2>2 DEF Visit
  <2>3. CASE Count(r)
    BY <2>3, BeatKeeps DEF Count
  <2>4. CASE Finish(r)
    BY <2>4, EndKeeps DEF Finish
  <2> QED BY <1>3, <2>1, <2>2, <2>3, <2>4 DEF Execute
<1>4. ASSUME NEW i, NEW k, NEW n, Complete(i, k, n) PROVE SweepInv'
  BY <1>1, <1>4 DEF Complete
<1>5. ASSUME NEW p \in Replicas, Boot(p) \/ StartManual(p) \/ Crash(p) PROVE SweepInv'
  BY <1>5, BootKeeps, StartManualKeeps, CrashKeeps
<1>6. ASSUME NEW r \in DOMAIN runs, Throw(r) \/ Lapse(r) PROVE SweepInv'
  <2>1. CASE Throw(r) /\ UNCHANGED runs
    BY <1>1, <2>1 DEF Throw
  <2>2. CASE Throw(r) /\ runs' = [runs EXCEPT ![r].status = "failed", ![r].fresh = TRUE]
    BY <2>2, EndKeeps DEF Throw
  <2>3. CASE Lapse(r)
    BY <2>3, BeatKeeps DEF Lapse
  <2> QED BY <1>6, <2>1, <2>2, <2>3 DEF Throw
<1>7. CASE UNCHANGED vars
  BY <1>1, <1>7 DEF vars
<1> HIDE DEF SweepInv
<1> QED BY <1>2, <1>3, <1>4, <1>5, <1>6, <1>7 DEF Next, System, Outside

\* The invariant holds in every reachable state.
THEOREM SweepInvariant == Spec => []SweepInv
<1>1. Init => SweepInv
  BY BackfillAssumption, SweepInit
<1>2. SweepInv /\ [Next]_vars => SweepInv'
  BY BackfillAssumption, SweepStep
<1> QED BY <1>1, <1>2, PTL DEF Spec

\* OneOpenSweep: however many replicas boot, die and boot again, a kind has one open startup run.
THEOREM OneSweepAtATime == Spec => []OneOpenSweep
<1>1. SweepInv => OneOpenSweep
  BY DEF SweepInv
<1> QED BY <1>1, SweepInvariant, PTL
-----------------------------------------------------------------------------
(***************************************************************************)
(* The walks of the runs: the inductive invariant                          *)
(***************************************************************************)
WalkTypeOK ==
    /\ att \in [1 .. Items -> [Kinds -> Attempts]]
    /\ walk \in Seq(Walk) /\ Len(walk) = Len(runs)
    /\ troubles \in 0 .. MaxTroubles

\* With that history the item needs no attempt of the kind, or has one that is on
\* its way or failed.
SettledIn(h, i, k) ==
    <<i, k>> \notin Blocked /\ (\A u \in Requires[k] : h[u].latest = "succeeded") =>
        /\ h[k].latest # "none"
        /\ h[k].latest = "succeeded" => h[k].current

Settled(i, k) == SettledIn(att[i], i, k)

\* An item of the scope is ahead of the cursor, in the batch and due, or settled.
Walked(r) ==
    walk[r].pc \in {"load", "visit", "count", "finish"} =>
        /\ walk[r].pc = "visit" <=> walk[r].batch # {}
        /\ \A i \in runs[r].scope :
              \/ i > walk[r].cursor /\ walk[r].pc # "finish"
              \/ i \in walk[r].batch /\ i \in walk[r].due
              \/ Settled(i, runs[r].kind)

Completed(r) ==
    runs[r].status = "completed" =>
        walk[r].pc = "ended" /\ \A i \in runs[r].scope : Settled(i, runs[r].kind)

WalkInv ==
    /\ SweepTypeOK /\ WalkTypeOK
    /\ \A i \in 1 .. Items : MadeInOrder(att[i])
    /\ \A r \in DOMAIN runs : Walked(r) /\ Completed(r)

\* What attempts do, whoever makes or ends them: what is settled stays settled.
AttemptsMove ==
    /\ att' \in [1 .. Items -> [Kinds -> Attempts]]
    /\ \A i \in 1 .. Items : MadeInOrder(att'[i])
    /\ \A i \in 1 .. Items, k \in Kinds : SettledIn(att[i], i, k) => SettledIn(att'[i], i, k)
-----------------------------------------------------------------------------
\* A set of items has a first and a last.
LEMMA FirstItem ==
    ASSUME NEW S, S \subseteq Nat, S # {}
    PROVE  Min(S) \in S /\ \A i \in S : Min(S) <= i
<1>1. PICK m \in S : \A i \in S : ~(<<i, m>> \in OpToRel(<, Nat))
  BY NatLessThanWellFounded, WFMin
<1>2. ASSUME NEW i \in S, i < m PROVE FALSE
  <2>1. <<i, m>> \in OpToRel(<, Nat)
    BY <1>2 DEF OpToRel
  <2> QED BY <1>1, <2>1
<1>3. \A i \in S : m <= i
  BY <1>2
<1> QED BY <1>3 DEF Min

LEMMA LastItem ==
    ASSUME NEW n \in Nat, NEW S, S \subseteq 0 .. n, S # {}
    PROVE  Max(S) \in S /\ \A i \in S : i <= Max(S)
<1> DEFINE T == {n - i : i \in S}
<1>1. T \subseteq Nat /\ T # {}
  <2>1. \A i \in S : n - i \in Nat
    OBVIOUS
  <2> QED BY <2>1
<1> HIDE DEF T
<1>2. PICK t \in T : \A u \in T : t <= u
  BY <1>1, FirstItem
<1>3. PICK m \in S : t = n - m
  BY DEF T
<1>4. ASSUME NEW i \in S PROVE m >= i
  <2>1. n - i \in T
    BY DEF T
  <2>2. n - m <= n - i
    BY <1>2, <1>3, <2>1
  <2> QED BY <2>2
<1>5. Max(S) \in S /\ \A i \in S : Max(S) >= i
  BY <1>4 DEF Max
<1> QED BY <1>5

\* The batch holds the first items of what is left, if any are: whatever is not in
\* it is behind the last of it.
LEMMA BatchIsPrefix ==
    ASSUME BackfillAssumption, NEW run \in Run, NEW cursor \in 0 .. Items
    PROVE  LET rest  == {i \in run.scope : i > cursor}
               batch == NextBatch(run, cursor)
           IN  /\ batch \subseteq rest /\ rest \subseteq 1 .. Items
               /\ batch = {} => rest = {}
               /\ batch # {} => /\ Max(batch) \in batch
                                /\ \A i \in rest \ batch : i > Max(batch)
<1> DEFINE rest == {i \in run.scope : i > cursor}
           batch == NextBatch(run, cursor)
           Before(i) == {j \in rest : j < i}
<1>1. batch = {i \in rest : Cardinality(Before(i)) < BatchSize}
  BY DEF NextBatch
<1>2. rest \subseteq 1 .. Items /\ Items \in Nat /\ BatchSize \in Nat \ {0}
  BY DEF Run, BackfillAssumption
<1>3. IsFiniteSet(1 .. Items)
  BY <1>2, FS_Interval
<1>4. \A i \in rest : IsFiniteSet(Before(i)) /\ Cardinality(Before(i)) \in Nat
  BY <1>2, <1>3, FS_Subset, FS_CardinalityType
<1>5. \A i, j \in rest : i <= j => Cardinality(Before(i)) <= Cardinality(Before(j))
  <2> SUFFICES ASSUME NEW i \in rest, NEW j \in rest, i <= j
               PROVE  Cardinality(Before(i)) <= Cardinality(Before(j))
    OBVIOUS
  <2>1. Before(i) \subseteq Before(j)
    BY <1>2
  <2> QED BY <1>4, <2>1, FS_Subset
<1>6. ASSUME rest # {} PROVE batch # {}
  <2>1. PICK m \in rest : \A i \in rest : m <= i
    <3>1. rest \subseteq Nat
      BY <1>2
    <3> HIDE DEF rest
    <3> QED BY <1>6, <3>1, FirstItem
  <2>2. Before(m) = {}
    BY <1>2, <2>1
  <2> QED BY <1>1, <1>2, <2>2, FS_EmptySet
<1> HIDE DEF Before, rest, batch
<1>7. ASSUME batch # {} PROVE Max(batch) \in batch /\ \A i \in rest \ batch : i > Max(batch)
  <2>1. Max(batch) \in batch /\ batch \subseteq 0 .. Items
    <3>1. batch \subseteq 0 .. Items
      BY <1>1, <1>2
    <3> QED BY <1>2, <1>7, <3>1, LastItem
  <2>2. ASSUME NEW i \in rest \ batch, i <= Max(batch) PROVE FALSE
    <3>1. Max(batch) \in rest /\ Cardinality(Before(Max(batch))) < BatchSize
          /\ ~(Cardinality(Before(i)) < BatchSize)
      BY <1>1, <2>1
    <3>2. Cardinality(Before(i)) <= Cardinality(Before(Max(batch)))
      BY <1>5, <2>2, <3>1
    <3>3. Cardinality(Before(i)) \in Nat /\ Cardinality(Before(Max(batch))) \in Nat
      BY <1>4, <3>1
    <3> QED BY <1>2, <3>1, <3>2, <3>3
  <2> SUFFICES ASSUME NEW i \in rest \ batch PROVE i > Max(batch)
    BY <2>1
  <2>3. i \in Int
    BY <1>2
  <2>4. batch \subseteq Int
    BY <1>2, <2>1
  <2>5. Max(batch) \in Int
    BY <2>1, <2>4
  <2> QED BY <2>2, <2>3, <2>5
<1>8. batch \subseteq rest
  BY <1>1
<1> QED BY <1>2, <1>6, <1>7, <1>8 DEF rest, batch
-----------------------------------------------------------------------------
\* Attempts that are appended to a history are in order, cover what they require,
\* and settle their kinds; what requires these is not ready.
LEMMA Appends ==
    ASSUME BackfillAssumption, NEW i \in 1 .. Items, NEW ks \in SUBSET Kinds,
           NEW h \in [Kinds -> Attempts], MadeInOrder(h), NEW status \in {"active", "lost"}
    PROVE  LET g == WithAttempts(h, ks, status) IN
           /\ g \in [Kinds -> Attempts] /\ MadeInOrder(g)
           /\ \A k \in ks : SettledIn(g, i, k)
           /\ \A k \in Kinds \ ks : SettledIn(h, i, k) => SettledIn(g, i, k)
<1> DEFINE g == WithAttempts(h, ks, status)
<1>1. Requires \in [Kinds -> SUBSET Kinds]
  BY DEF BackfillAssumption
<1>2. ASSUME NEW k \in ks
      PROVE  g[k] \in Attempts /\ g[k].latest = status
  <2>1. g[k] = [h[k] EXCEPT !.latest = status, !.covers = TRUE,
                            !.pending = IF h[k].latest = "active" THEN @ + 1 ELSE @]
    BY <1>2 DEF WithAttempts
  <2> DEFINE n == IF h[k].latest = "active" THEN h[k].pending + 1 ELSE h[k].pending
  <2>2. h[k] \in Attempts
    BY <1>2
  <2>3. n \in Nat
    BY <2>2 DEF Attempts
  <2>4. g[k] = [h[k] EXCEPT !.latest = status, !.covers = TRUE, !.pending = n]
    BY <2>1
  <2> HIDE DEF n, g
  <2> QED BY <2>2, <2>3, <2>4 DEF Attempts
<1>3. ASSUME NEW k \in Kinds \ ks
      PROVE  /\ g[k] \in Attempts
             /\ g[k].latest = h[k].latest /\ g[k].current = h[k].current
             /\ g[k].covers => h[k].covers /\ Requires[k] \cap ks = {}
  <2>1. g[k] = [h[k] EXCEPT !.covers = @ /\ Requires[k] \cap ks = {}]
    BY <1>3 DEF WithAttempts
  <2>2. h[k] \in Attempts /\ h[k].covers \in BOOLEAN
    BY <1>3 DEF Attempts
  <2>3. PICK c \in BOOLEAN : c = (h[k].covers /\ Requires[k] \cap ks = {})
    OBVIOUS
  <2>4. g[k] = [h[k] EXCEPT !.covers = c]
    BY <2>1, <2>3
  <2> QED BY <2>2, <2>3, <2>4 DEF Attempts
<1>4. g \in [Kinds -> Attempts]
  <2>1. DOMAIN g = Kinds /\ g = [k \in Kinds |-> g[k]]
    BY DEF WithAttempts
  <2> HIDE DEF g
  <2> QED BY <1>2, <1>3, <2>1
<1> HIDE DEF g
<1>5. MadeInOrder(g)
  BY <1>1, <1>2, <1>3 DEF MadeInOrder
<1>6. \A k \in ks : SettledIn(g, i, k)
  BY <1>2 DEF SettledIn
<1>7. ASSUME NEW k \in Kinds \ ks, SettledIn(h, i, k) PROVE SettledIn(g, i, k)
  <2> SUFFICES ASSUME \A u \in Requires[k] : g[u].latest = "succeeded", <<i, k>> \notin Blocked
               PROVE  g[k].latest # "none" /\ (g[k].latest = "succeeded" => g[k].current)
    BY DEF SettledIn
  <2>1. \A u \in Requires[k] : u \notin ks
    BY <1>2
  <2>2. \A u \in Requires[k] : h[u].latest = "succeeded"
    BY <1>1, <1>3, <2>1
  <2> QED BY <1>3, <1>7, <2>2 DEF SettledIn
<1> QED BY <1>4, <1>5, <1>6, <1>7 DEF g

\* What is settled stays so if it does in the item that changes.
LEMMA ItemMoves ==
    ASSUME WalkInv, NEW i \in 1 .. Items, NEW g \in [Kinds -> Attempts], MadeInOrder(g),
           att' = [att EXCEPT ![i] = g],
           \A k \in Kinds : SettledIn(att[i], i, k) => SettledIn(g, i, k)
    PROVE  AttemptsMove /\ \A k \in Kinds : SettledIn(g, i, k) => SettledIn(att'[i], i, k)
<1>1. att \in [1 .. Items -> [Kinds -> Attempts]]
  BY DEF WalkInv, WalkTypeOK
<1>2. /\ att' \in [1 .. Items -> [Kinds -> Attempts]] /\ att'[i] = g
      /\ \A j \in 1 .. Items : j # i => att'[j] = att[j]
  BY <1>1
<1>3. ASSUME NEW j \in 1 .. Items PROVE MadeInOrder(att'[j])
  BY <1>2 DEF WalkInv
<1>4. \A j \in 1 .. Items, k \in Kinds : SettledIn(att[j], j, k) => SettledIn(att'[j], j, k)
  BY <1>2
<1> QED BY <1>2, <1>3, <1>4 DEF AttemptsMove

\* An item is visited: its attempt is on its way, or stays behind without a job.
LEMMA VisitMoves ==
    ASSUME BackfillAssumption, WalkInv, NEW i \in 1 .. Items, NEW k \in Kinds,
           NEW status \in {"active", "lost"},
           att' = [att EXCEPT ![i] = WithAttempts(@, {k}, status)]
    PROVE  AttemptsMove /\ SettledIn(att'[i], i, k)
<1> DEFINE g == WithAttempts(att[i], {k}, status)
<1>1. att[i] \in [Kinds -> Attempts] /\ MadeInOrder(att[i])
  BY DEF WalkInv, WalkTypeOK
<1>2. /\ g \in [Kinds -> Attempts] /\ MadeInOrder(g) /\ SettledIn(g, i, k)
      /\ \A j \in Kinds \ {k} : SettledIn(att[i], i, j) => SettledIn(g, i, j)
  BY <1>1, Appends
<1>3. att' = [att EXCEPT ![i] = g]
  OBVIOUS
<1> HIDE DEF g
<1> QED BY <1>2, <1>3, ItemMoves

\* An attempt ends, and wakes who is ready and not covered: who is not woken has an
\* attempt that found its inputs, so it was ready before.
LEMMA CompleteMoves ==
    ASSUME BackfillAssumption, WalkInv, NEW i \in 1 .. Items, NEW k \in Kinds,
           NEW older \in BOOLEAN, Complete(i, k, older)
    PROVE  AttemptsMove /\ troubles' \in 0 .. MaxTroubles
<1>1. PICK outcome \in {"succeeded", "failed"} :
          /\ \/ (outcome = "succeeded") = Ready(i, k) /\ troubles' = troubles
             \/ outcome = "failed" /\ Ready(i, k) /\ Trouble
          /\ LET settled == [att[i] EXCEPT
                    ![k].latest = IF older THEN @ ELSE outcome,
                    ![k].pending = IF older THEN @ - 1 ELSE @,
                    ![k].current = @ \/ outcome = "succeeded"]
             IN  att' = [att EXCEPT ![i] = WithAttempts(settled, Woken(settled, i, k), "active")]
  BY DEF Complete
<1>2. troubles' \in 0 .. MaxTroubles
  BY <1>1 DEF WalkInv, WalkTypeOK, Trouble, BackfillAssumption
<1> DEFINE was == att[i]
           current == was[k].current \/ outcome = "succeeded"
           latest == IF older THEN was[k].latest ELSE outcome
           pending == IF older THEN was[k].pending - 1 ELSE was[k].pending
           ended == [was[k] EXCEPT !.latest = latest, !.pending = pending, !.current = current]
           h == [was EXCEPT ![k] = ended]
           ks == Woken(h, i, k)
<1>3. att' = [att EXCEPT ![i] = WithAttempts(h, ks, "active")]
  BY <1>1
<1>4. /\ was \in [Kinds -> Attempts] /\ MadeInOrder(was) /\ Requires \in [Kinds -> SUBSET Kinds]
      /\ was[k] \in Attempts /\ was[k].current \in BOOLEAN
      /\ IF older THEN was[k].pending > 0 ELSE was[k].latest = "active"
      /\ outcome = "succeeded" => \A u \in Requires[k] : was[u].latest = "succeeded"
  <2>1. was \in [Kinds -> Attempts]
    BY DEF WalkInv, WalkTypeOK
  <2>2. outcome = "succeeded" => Ready(i, k)
    BY <1>1
  <2> QED BY <2>1, <2>2 DEF WalkInv, Attempts, Complete, Ready, BackfillAssumption
<1>5. current \in BOOLEAN /\ (was[k].current => current) /\ (outcome = "succeeded" => current)
  OBVIOUS
<1> HIDE DEF current
<1>6. /\ ended \in Attempts /\ ended.latest = latest /\ ended.current = current
      /\ ended.covers = was[k].covers /\ latest # "none"
  <2>1. latest \in {"active", "lost", "succeeded", "failed"} /\ pending \in Nat
    BY <1>4 DEF Attempts
  <2> HIDE DEF was, latest, pending
  <2> QED BY <1>4, <1>5, <2>1 DEF Attempts
<1>7. latest = was[k].latest \/ (was[k].latest = "active" /\ latest = outcome)
  BY <1>4
<1> HIDE DEF ended, latest, was
<1>8. /\ h \in [Kinds -> Attempts] /\ h[k] = ended
      /\ \A j \in Kinds : j # k => h[j] = was[j]
  BY <1>4, <1>6
<1> HIDE DEF h, ks
<1>9. MadeInOrder(h)
  <2> SUFFICES ASSUME NEW j \in Kinds, h[j].latest = "succeeded", h[j].covers,
                      NEW u \in Requires[j]
               PROVE  h[u].latest = "succeeded"
    BY DEF MadeInOrder
  <2>1. u \in Kinds
    BY <1>4
  <2>2. was[u].latest = "succeeded" => h[u].latest = "succeeded"
    BY <1>6, <1>7, <1>8, <2>1
  <2>3. CASE was[j].latest = "succeeded"
    <3>1. was[j].covers
      BY <1>6, <1>8
    <3> QED BY <1>4, <2>2, <2>3, <3>1 DEF MadeInOrder
  <2>4. CASE was[j].latest # "succeeded"
    <3>1. j = k /\ outcome = "succeeded"
      BY <1>6, <1>7, <1>8, <2>4
    <3> QED BY <1>4, <2>2, <3>1
  <2> QED BY <2>3, <2>4
<1>10. ks \in SUBSET Kinds
  BY DEF ks, Woken
<1>11. ASSUME NEW j \in Kinds \ ks, SettledIn(was, i, j) PROVE SettledIn(h, i, j)
  <2> SUFFICES ASSUME \A u \in Requires[j] : h[u].latest = "succeeded", <<i, j>> \notin Blocked
               PROVE  h[j].latest # "none" /\ (h[j].latest = "succeeded" => h[j].current)
    BY DEF SettledIn
  <2>1. ASSUME \A u \in Requires[j] : was[u].latest = "succeeded"
        PROVE  h[j].latest # "none" /\ (h[j].latest = "succeeded" => h[j].current)
    <3>1. was[j].latest # "none" /\ (was[j].latest = "succeeded" => was[j].current)
      BY <1>11, <2>1 DEF SettledIn
    <3> QED BY <1>5, <1>6, <1>7, <1>8, <3>1
  <2>2. CASE k \in Requires[j]
    <3>1. h[j].covers /\ h[j].latest \notin {"none", "failed"}
      BY <1>11, <2>2 DEF ks, Woken
    <3>2. CASE was[j].latest = "succeeded"
      <4>1. was[j].covers
        BY <1>6, <1>8, <3>1
      <4> QED BY <1>4, <2>1, <3>2, <4>1 DEF MadeInOrder
    <3>3. CASE was[j].latest # "succeeded"
      BY <1>5, <1>6, <1>7, <1>8, <3>1, <3>3
    <3> QED BY <3>2, <3>3
  <2>3. CASE k \notin Requires[j]
    <3>1. \A u \in Requires[j] : was[u].latest = "succeeded"
      BY <1>4, <1>8, <2>3
    <3> QED BY <2>1, <3>1
  <2> QED BY <2>2, <2>3
<1> DEFINE g == WithAttempts(h, ks, "active")
<1>12. /\ g \in [Kinds -> Attempts] /\ MadeInOrder(g)
       /\ \A j \in ks : SettledIn(g, i, j)
       /\ \A j \in Kinds \ ks : SettledIn(h, i, j) => SettledIn(g, i, j)
  BY <1>8, <1>9, <1>10, Appends
<1> HIDE DEF g
<1>13. att' = [att EXCEPT ![i] = g]
  BY <1>3 DEF g
<1>14. AttemptsMove
  BY <1>11, <1>12, <1>13, ItemMoves DEF was
<1> QED BY <1>2, <1>14
-----------------------------------------------------------------------------
\* What is not due is settled.
LEMMA NotDue ==
    ASSUME WalkInv, NEW i \in 1 .. Items, NEW run \in Run, ~ShouldEnqueue(i, run)
    PROVE  Settled(i, run.kind)
<1>1. run.kind \in Kinds /\ att[i][run.kind] \in Attempts
  BY DEF WalkInv, WalkTypeOK, Run
<1>2. att[i][run.kind].current => att[i][run.kind].latest # "none"
  BY <1>1 DEF Attempts
<1> QED BY <1>2 DEF ShouldEnqueue, Settled, SettledIn, InFlight, Ready

\* A row of the table and its walk are what their types say.
LEMMA RowTypes ==
    ASSUME WalkInv, NEW r \in DOMAIN runs
    PROVE  /\ runs[r] \in Run /\ runs[r].kind \in Kinds /\ runs[r].scope \subseteq 1 .. Items
           /\ walk[r] \in Walk /\ r \in DOMAIN walk /\ DOMAIN walk = DOMAIN runs
<1>1. DOMAIN walk = DOMAIN runs /\ runs[r] \in Run /\ walk[r] \in Walk
  BY DEF WalkInv, WalkTypeOK, SweepTypeOK
<1> QED BY <1>1 DEF Run

\* Nothing happens to the attempts.
LEMMA AttemptsRest == ASSUME WalkInv, UNCHANGED att PROVE AttemptsMove
BY DEF WalkInv, WalkTypeOK, AttemptsMove, Settled, SettledIn

\* A row with the same kind and scope and an unmoved walk is as it was; the others are
\* to be looked at.
Still(s) == /\ s \in DOMAIN runs /\ walk'[s] = walk[s]
            /\ runs'[s].kind = runs[s].kind /\ runs'[s].scope = runs[s].scope
            /\ runs'[s].status = "completed" => runs[s].status = "completed"

LEMMA WalksKeep ==
    ASSUME WalkInv, SweepTypeOK', WalkTypeOK', AttemptsMove,
           \A s \in DOMAIN runs' : Still(s) \/ (Walked(s)' /\ Completed(s)')
    PROVE  WalkInv'
<1>1. ASSUME NEW s \in DOMAIN runs', Still(s) PROVE Walked(s)' /\ Completed(s)'
  <2>1. /\ s \in DOMAIN runs /\ walk'[s] = walk[s]
        /\ runs'[s].kind = runs[s].kind /\ runs'[s].scope = runs[s].scope
        /\ runs'[s].status = "completed" => runs[s].status = "completed"
    BY <1>1 DEF Still
  <2>2. Walked(s) /\ Completed(s) /\ runs[s].kind \in Kinds /\ runs[s].scope \subseteq 1 .. Items
    BY <2>1, RowTypes DEF WalkInv
  <2>3. \A i \in runs[s].scope : Settled(i, runs[s].kind) => SettledIn(att'[i], i, runs'[s].kind)
    BY <2>1, <2>2 DEF AttemptsMove, Settled
  <2>4. Walked(s)'
    BY <2>1, <2>2, <2>3 DEF Walked, Settled
  <2>5. Completed(s)'
    BY <2>1, <2>2, <2>3 DEF Completed, Settled
  <2> QED BY <2>4, <2>5
<1>2. \A i \in 1 .. Items : MadeInOrder(att[i])'
  BY DEF AttemptsMove, MadeInOrder
<1> QED BY <1>1, <1>2 DEF WalkInv

\* One walk moves; its row keeps its kind and scope.
LEMMA OneWalks ==
    ASSUME WalkInv, SweepTypeOK', AttemptsMove, NEW r \in DOMAIN runs, NEW w \in Walk,
           walk' = [walk EXCEPT ![r] = w], troubles' \in 0 .. MaxTroubles,
           Len(runs') = Len(runs),
           \A s \in DOMAIN runs : s # r => runs'[s] = runs[s],
           (walk'[r] = w) => Walked(r)' /\ Completed(r)'
    PROVE  WalkInv'
<1>1. /\ walk \in Seq(Walk) /\ Len(walk) = Len(runs) /\ DOMAIN runs = 1 .. Len(runs)
      /\ DOMAIN runs' = 1 .. Len(runs') /\ DOMAIN walk = 1 .. Len(walk)
  BY DEF WalkInv, WalkTypeOK, SweepTypeOK
<1>2. /\ walk' \in Seq(Walk) /\ Len(walk') = Len(walk) /\ walk'[r] = w
      /\ \A s \in DOMAIN walk : s # r => walk'[s] = walk[s]
  BY <1>1
<1>3. WalkTypeOK'
  BY <1>1, <1>2 DEF WalkTypeOK, AttemptsMove
<1>4. \A s \in DOMAIN runs' : s # r => Still(s)
  BY <1>1, <1>2 DEF Still
<1> QED BY <1>1, <1>2, <1>3, <1>4, WalksKeep

\* A batch is read: what it leaves out is behind its last item, what it does not find
\* due is settled; without one, nothing is left.
LEMMA LoadKeeps ==
    ASSUME BackfillAssumption, WalkInv, NEW r \in DOMAIN walk, Load(r)
    PROVE  WalkInv'
<1> DEFINE batch == NextBatch(runs[r], walk[r].cursor)
           rest == {i \in runs[r].scope : i > walk[r].cursor}
           due == {i \in batch : ShouldEnqueue(i, runs[r])}
<1>1. /\ r \in DOMAIN runs /\ runs[r] \in Run /\ walk[r] \in Walk /\ walk[r].pc = "load"
      /\ runs[r].kind \in Kinds /\ runs[r].scope \subseteq 1 .. Items /\ Items \in Nat
      /\ walk[r].cursor \in 0 .. Items
  <2>1. r \in DOMAIN runs
    BY DEF WalkInv, WalkTypeOK, SweepTypeOK
  <2> QED BY <2>1, RowTypes DEF Load, Read, Walk, BackfillAssumption
<1>2. /\ batch \subseteq rest /\ rest \subseteq 1 .. Items
      /\ batch = {} => rest = {}
      /\ batch # {} => Max(batch) \in batch /\ \A i \in rest \ batch : i > Max(batch)
  BY <1>1, BatchIsPrefix
<1>3. /\ walk' = IF batch = {} THEN [walk EXCEPT ![r].pc = "finish"]
                 ELSE [walk EXCEPT ![r].pc = "visit", ![r].batch = batch,
                                   ![r].cursor = Max(batch), ![r].due = due]
      /\ UNCHANGED <<att, runs, replica, lock, troubles>>
  BY DEF Load, Read
<1>4. AttemptsMove /\ SweepTypeOK' /\ troubles' \in 0 .. MaxTroubles
  BY <1>3, AttemptsRest DEF WalkInv, WalkTypeOK, SweepTypeOK
<1>5. /\ walk[r].batch = {} /\ Completed(r) /\ runs[r].status # "completed"
      /\ \A i \in runs[r].scope : i \in rest \/ Settled(i, runs[r].kind)
  BY <1>1 DEF WalkInv, Walked, Completed
<1>6. \A i \in batch \ due : Settled(i, runs[r].kind)
  BY <1>1, <1>2, NotDue
<1>7. \A i \in runs[r].scope : Settled(i, runs[r].kind) => SettledIn(att'[i], i, runs[r].kind)
  BY <1>1, <1>4 DEF AttemptsMove, Settled
<1> HIDE DEF batch, rest, due
<1>0. /\ Len(runs') = Len(runs) /\ \A s \in DOMAIN runs : s # r => runs'[s] = runs[s]
  BY <1>3
<1>8. CASE batch = {}
  <2> DEFINE w == [walk[r] EXCEPT !.pc = "finish"]
  <2>1. /\ w \in Walk /\ w.pc = "finish" /\ w.batch = {}
    BY <1>1, <1>5 DEF Walk
  <2>2. walk' = [walk EXCEPT ![r] = w]
    BY <1>3, <1>8
  <2> HIDE DEF w
  <2>3. ASSUME walk'[r] = w PROVE Walked(r)' /\ Completed(r)'
    BY <1>2, <1>3, <1>5, <1>7, <1>8, <2>1, <2>3 DEF Walked, Completed, Settled
  <2> QED BY <1>0, <1>1, <1>4, <2>1, <2>2, <2>3, OneWalks
<1>9. CASE batch # {}
  <2> DEFINE w == [walk[r] EXCEPT !.pc = "visit", !.batch = batch, !.cursor = Max(batch),
                                  !.due = due]
  <2>1. /\ Max(batch) \in 0 .. Items /\ batch \in SUBSET (1 .. Items) /\ due \in SUBSET (1 .. Items)
    <3>1. batch \subseteq 1 .. Items /\ Max(batch) \in 1 .. Items /\ due \subseteq batch
      BY <1>2, <1>9 DEF due
    <3> QED BY <1>1, <3>1
  <2>2. walk' = [walk EXCEPT ![r] = w]
    BY <1>3, <1>9
  <2> DEFINE last == Max(batch)
  <2> HIDE DEF last
  <2>3. /\ w \in Walk /\ w.pc = "visit" /\ w.batch = batch /\ w.cursor = last /\ w.due = due
    BY <1>1, <2>1 DEF Walk, last
  <2> HIDE DEF w
  <2>4. ASSUME walk'[r] = w PROVE Walked(r)' /\ Completed(r)'
    <3>1. \A i \in runs[r].scope : \/ i > last
                                   \/ i \in batch /\ i \in due
                                   \/ Settled(i, runs[r].kind)
      BY <1>2, <1>5, <1>6, <1>9 DEF last
    <3>2. Completed(r)'
      BY <1>3, <1>5, <2>3, <2>4 DEF Completed
    <3>3. Walked(r)'
      BY <1>3, <1>5, <1>7, <1>9, <2>3, <2>4, <3>1 DEF Walked, Settled
    <3> QED BY <3>2, <3>3
  <2> QED BY <1>0, <1>1, <1>4, <2>2, <2>3, <2>4, OneWalks
<1> QED BY <1>8, <1>9

\* The first item of the batch is settled after its visit: it was, or gets its attempt.
LEMMA VisitKeeps ==
    ASSUME BackfillAssumption, WalkInv, NEW r \in DOMAIN walk, Visit(r)
    PROVE  WalkInv'
<1> DEFINE i == Min(walk[r].batch)
           k == runs[r].kind
           pc == IF walk[r].batch = {i} THEN "count" ELSE "visit"
           left == walk[r].batch \ {i}
           w == [walk[r] EXCEPT !.batch = left, !.pc = pc]
<1>1. /\ r \in DOMAIN runs /\ walk[r] \in Walk /\ walk[r].pc = "visit" /\ k \in Kinds
      /\ runs[r].scope \subseteq 1 .. Items /\ walk[r].batch \subseteq 1 .. Items
  <2>1. r \in DOMAIN runs
    BY DEF WalkInv, WalkTypeOK, SweepTypeOK
  <2> QED BY <2>1, RowTypes DEF Visit, Walk
<1>2. /\ walk[r].batch # {} /\ runs[r].status # "completed"
      /\ \A j \in runs[r].scope :
            \/ j > walk[r].cursor
            \/ j \in walk[r].batch /\ j \in walk[r].due
            \/ Settled(j, k)
  BY <1>1 DEF WalkInv, Walked, Completed
<1>3. i \in walk[r].batch /\ i \in 1 .. Items
  <2>1. walk[r].batch \subseteq Nat
    BY <1>1 DEF BackfillAssumption
  <2> QED BY <1>1, <1>2, <2>1, FirstItem
<1>4. /\ walk' = [walk EXCEPT ![r] = w] /\ UNCHANGED <<runs, replica, lock>>
      /\ \/ i \notin walk[r].due /\ UNCHANGED <<att, troubles>>
         \/ att' = [att EXCEPT ![i] = WithAttempts(@, {k}, "active")] /\ troubles' = troubles
         \/ att' = [att EXCEPT ![i] = WithAttempts(@, {k}, "lost")] /\ Trouble
  BY DEF Visit
<1>5. (pc = "visit" <=> left # {}) /\ pc \in {"count", "visit"} /\ left \subseteq 1 .. Items
  BY <1>1, <1>3
<1> HIDE DEF i, k, pc, left
<1>6. w \in Walk /\ w.pc = pc /\ w.batch = left /\ w.cursor = walk[r].cursor /\ w.due = walk[r].due
  BY <1>1, <1>5 DEF Walk
<1> HIDE DEF w
<1>7. AttemptsMove /\ (i \in walk[r].due => SettledIn(att'[i], i, k))
  <2>1. CASE UNCHANGED att /\ i \notin walk[r].due
    BY <2>1, AttemptsRest
  <2>2. CASE att' = [att EXCEPT ![i] = WithAttempts(@, {k}, "active")]
    BY <1>1, <1>3, <2>2, VisitMoves
  <2>3. CASE att' = [att EXCEPT ![i] = WithAttempts(@, {k}, "lost")]
    BY <1>1, <1>3, <2>3, VisitMoves
  <2> QED BY <1>4, <2>1, <2>2, <2>3
<1>8. troubles' \in 0 .. MaxTroubles /\ SweepTypeOK'
  BY <1>4 DEF WalkInv, WalkTypeOK, SweepTypeOK, Trouble, BackfillAssumption
<1>9. ASSUME walk'[r] = w PROVE Walked(r)' /\ Completed(r)'
  <2>1. \A j \in runs[r].scope : Settled(j, k) => SettledIn(att'[j], j, k)
    BY <1>1, <1>7 DEF AttemptsMove, Settled
  <2>2. \A j \in runs[r].scope :
            \/ j > walk[r].cursor
            \/ j \in left /\ j \in walk[r].due
            \/ SettledIn(att'[j], j, k)
    BY <1>2, <1>7, <2>1 DEF left
  <2>3. Walked(r)'
    BY <1>4, <1>5, <1>6, <1>9, <2>2 DEF Walked, Settled, k
  <2> QED BY <1>2, <1>4, <2>3 DEF Completed
<1> QED BY <1>1, <1>4, <1>6, <1>7, <1>8, <1>9, OneWalks

\* The counters are written between two batches.
LEMMA CountKeeps ==
    ASSUME BackfillAssumption, WalkInv, SweepTypeOK', NEW r \in DOMAIN walk, Count(r)
    PROVE  WalkInv'
<1> DEFINE w == [walk[r] EXCEPT !.pc = "load", !.due = {}]
<1>1. /\ r \in DOMAIN runs /\ runs[r] \in Run /\ walk[r] \in Walk /\ walk[r].pc = "count"
      /\ runs \in Seq(Run) /\ runs' = [runs EXCEPT ![r].fresh = TRUE]
      /\ walk' = [walk EXCEPT ![r] = w] /\ UNCHANGED <<att, troubles>>
  <2>1. r \in DOMAIN runs
    BY DEF WalkInv, WalkTypeOK, SweepTypeOK
  <2> QED BY <2>1, RowTypes DEF Count, WalkInv, SweepTypeOK
<1>2. w \in Walk /\ w.pc = "load" /\ w.batch = walk[r].batch /\ w.cursor = walk[r].cursor
  BY <1>1 DEF Walk
<1> HIDE DEF w
<1>3. /\ Len(runs') = Len(runs) /\ \A s \in DOMAIN runs : s # r => runs'[s] = runs[s]
      /\ runs'[r].kind = runs[r].kind /\ runs'[r].scope = runs[r].scope
      /\ runs'[r].status = runs[r].status
  BY <1>1 DEF Run
<1>4. AttemptsMove /\ troubles' \in 0 .. MaxTroubles
  BY <1>1, AttemptsRest DEF WalkInv, WalkTypeOK
<1>5. ASSUME walk'[r] = w PROVE Walked(r)' /\ Completed(r)'
  <2>1. /\ walk[r].batch = {} /\ runs[r].status # "completed"
        /\ \A i \in runs[r].scope : i > walk[r].cursor \/ Settled(i, runs[r].kind)
    BY <1>1 DEF WalkInv, Walked, Completed
  <2> QED BY <1>1, <1>2, <1>3, <1>5, <2>1 DEF Walked, Completed, Settled
<1> QED BY <1>1, <1>2, <1>3, <1>4, <1>5, OneWalks

\* A run ends: completed after its last batch, all it has to be sure of, or failed;
\* or its walk is over and the row does not say so.
LEMMA EndsKeep ==
    ASSUME BackfillAssumption, WalkInv, SweepTypeOK', NEW r \in DOMAIN walk,
           Finish(r) \/ Throw(r)
    PROVE  WalkInv'
<1>1. PICK pc \in {"ended", "dead"} :
          /\ r \in DOMAIN runs /\ runs[r] \in Run /\ walk[r] \in Walk /\ runs \in Seq(Run)
          /\ walk' = [walk EXCEPT ![r] = Walker(walk[r].by, pc)]
          /\ UNCHANGED att /\ troubles' \in 0 .. MaxTroubles
          /\ \/ UNCHANGED runs /\ walk[r].pc # "ended"
             \/ /\ pc = "ended"
                /\ \/ runs' = [runs EXCEPT ![r].status = "failed", ![r].fresh = TRUE]
                   \/ /\ runs' = [runs EXCEPT ![r].status = "completed", ![r].fresh = TRUE]
                      /\ walk[r].pc = "finish"
  <2>1. r \in DOMAIN runs /\ runs \in Seq(Run) /\ troubles \in 0 .. MaxTroubles
        /\ MaxTroubles \in Nat
    BY DEF WalkInv, WalkTypeOK, SweepTypeOK, BackfillAssumption
  <2>2. runs[r] \in Run /\ walk[r] \in Walk
    BY <2>1, RowTypes
  <2>3. CASE Finish(r)
    BY <2>1, <2>2, <2>3 DEF Finish
  <2>4. CASE Throw(r)
    <3>1. troubles' \in 0 .. MaxTroubles /\ UNCHANGED att /\ walk[r].pc # "ended"
      BY <2>1, <2>4 DEF Throw, Trouble
    <3>2. \/ /\ runs' = [runs EXCEPT ![r].status = "failed", ![r].fresh = TRUE]
             /\ walk' = [walk EXCEPT ![r] = Walker(walk[r].by, "ended")]
          \/ /\ walk' = [walk EXCEPT ![r] = Walker(walk[r].by, "dead")]
             /\ UNCHANGED runs
      BY <2>4 DEF Throw
    <3> QED BY <2>1, <2>2, <3>1, <3>2
  <2> QED BY <2>3, <2>4
<1> DEFINE w == Walker(walk[r].by, pc)
<1>2. w \in Walk /\ w.pc = pc
  BY <1>1 DEF Walk, Walker, BackfillAssumption
<1>3. walk' = [walk EXCEPT ![r] = w]
  BY <1>1
<1> HIDE DEF w
<1>4. /\ Len(runs') = Len(runs) /\ \A s \in DOMAIN runs : s # r => runs'[s] = runs[s]
      /\ runs'[r].kind = runs[r].kind /\ runs'[r].scope = runs[r].scope
  BY <1>1 DEF Run
<1>5. runs'[r].status = "completed" => pc = "ended" /\ walk[r].pc = "finish"
  <2>1. CASE UNCHANGED runs /\ walk[r].pc # "ended"
    BY <1>1, <2>1 DEF WalkInv, Completed
  <2>2. CASE ~UNCHANGED runs \/ walk[r].pc = "ended"
    BY <1>1, <2>2 DEF Run
  <2> QED BY <2>1, <2>2
<1>6. AttemptsMove
  BY <1>1, AttemptsRest
<1>7. ASSUME walk'[r] = w PROVE Walked(r)' /\ Completed(r)'
  <2>1. runs'[r].status = "completed" => \A i \in runs[r].scope : Settled(i, runs[r].kind)
    BY <1>1, <1>5 DEF WalkInv, Walked
  <2> QED BY <1>1, <1>2, <1>4, <1>5, <1>7, <2>1 DEF Walked, Completed, Settled
<1>8. troubles' \in 0 .. MaxTroubles /\ r \in DOMAIN runs
  BY <1>1
<1> QED BY <1>2, <1>3, <1>4, <1>6, <1>7, <1>8, OneWalks

\* A run starts before its first item.
LEMMA StartsKeep ==
    ASSUME BackfillAssumption, WalkInv, SweepTypeOK', NEW p \in Replicas, NEW run \in Run,
           StartRun(p, run), run.status = "running", UNCHANGED <<att, troubles>>
    PROVE  WalkInv'
<1> DEFINE w == Walker(p, "load")
<1>0. PICK n \in Nat : n = Len(runs) + 1
  BY DEF WalkInv, SweepTypeOK
<1>1. /\ runs \in Seq(Run) /\ walk \in Seq(Walk) /\ Len(walk) = Len(runs) /\ Len(runs) \in Nat
  BY DEF WalkInv, WalkTypeOK, SweepTypeOK
<1>2. w \in Walk /\ w.pc = "load" /\ w.batch = {} /\ w.cursor = 0
  BY DEF Walk, Walker, BackfillAssumption
<1>3. runs' = Append(runs, run) /\ walk' = Append(walk, w)
  BY DEF StartRun
<1> HIDE DEF w
<1>4. /\ walk' \in Seq(Walk) /\ Len(walk') = n /\ Len(runs') = n
      /\ DOMAIN runs = 1 .. Len(runs) /\ DOMAIN runs' = 1 .. n
      /\ walk'[n] = w /\ runs'[n] = run
      /\ \A s \in 1 .. Len(runs) : runs'[s] = runs[s] /\ walk'[s] = walk[s]
  BY <1>0, <1>1, <1>2, <1>3
<1>5. WalkTypeOK'
  BY <1>4 DEF WalkInv, WalkTypeOK
<1>6. \A s \in DOMAIN runs : Still(s)
  BY <1>4 DEF Still
<1>7. Walked(n)' /\ Completed(n)'
  <2>1. \A i \in run.scope : i > 0
    BY DEF Run, BackfillAssumption
  <2> QED BY <1>2, <1>4, <2>1 DEF Walked, Completed
<1>8. \A s \in DOMAIN runs' : s \in DOMAIN runs \/ s = n
  BY <1>0, <1>1, <1>4
<1> QED BY <1>4, <1>5, <1>6, <1>7, <1>8, AttemptsRest, WalksKeep

\* The walks of a process that dies are over.
LEMMA DeathsKeep ==
    ASSUME BackfillAssumption, WalkInv, SweepTypeOK', NEW p \in Replicas, Crash(p)
    PROVE  WalkInv'
<1>1. /\ walk \in Seq(Walk) /\ Len(walk) = Len(runs) /\ Len(walk) \in Nat
      /\ DOMAIN walk = 1 .. Len(walk) /\ DOMAIN runs = 1 .. Len(runs)
      /\ UNCHANGED <<att, runs>> /\ troubles' \in 0 .. MaxTroubles
  BY DEF WalkInv, WalkTypeOK, SweepTypeOK, Crash, Trouble, BackfillAssumption
<1>2. Walker(p, "dead") \in Walk /\ Walker(p, "dead").pc = "dead"
  BY DEF Walk, Walker, BackfillAssumption
<1>3. /\ walk' = [r \in DOMAIN walk |->
                     IF walk[r].by = p /\ walk[r].pc # "ended" THEN Walker(p, "dead") ELSE walk[r]]
  BY DEF Crash
<1>4. walk' \in Seq(Walk) /\ Len(walk') = Len(walk)
  <2>1. walk' \in [1 .. Len(walk) -> Walk]
    BY <1>1, <1>2, <1>3
  <2> QED BY <1>1, <2>1, IsASeq
<1>5. AttemptsMove /\ WalkTypeOK'
  BY <1>1, <1>4, AttemptsRest DEF AttemptsMove, WalkTypeOK
<1>6. ASSUME NEW r \in DOMAIN runs PROVE Still(r) \/ (Walked(r)' /\ Completed(r)')
  <2>1. CASE walk'[r] = walk[r]
    BY <1>1, <2>1 DEF Still
  <2>2. CASE walk'[r] # walk[r]
    <3>1. walk'[r].pc = "dead" /\ walk[r].pc # "ended"
      BY <1>1, <1>2, <1>3, <2>2
    <3>2. runs[r].status # "completed"
      BY <3>1 DEF WalkInv, Completed
    <3> QED BY <1>1, <3>1, <3>2 DEF Walked, Completed
  <2> QED BY <2>1, <2>2
<1> QED BY <1>1, <1>5, <1>6, WalksKeep

\* Whatever else touches the table keeps the kinds and scopes and completes nothing.
LEMMA TableKeeps ==
    ASSUME WalkInv, SweepTypeOK', AttemptsMove, troubles' \in 0 .. MaxTroubles, UNCHANGED walk,
           \/ UNCHANGED runs
           \/ \E r : /\ runs[r].status = "running"
                     /\ runs' = [runs EXCEPT ![r].status = "failed", ![r].fresh = TRUE]
           \/ \E r, fresh : runs' = [runs EXCEPT ![r].fresh = fresh]
    PROVE  WalkInv'
<1>1. runs \in Seq(Run) /\ \A s \in DOMAIN runs : runs[s] \in Run
  BY DEF WalkInv, SweepTypeOK
<1>2. /\ Len(runs') = Len(runs) /\ DOMAIN runs' = DOMAIN runs
      /\ \A s \in DOMAIN runs : /\ runs'[s].kind = runs[s].kind /\ runs'[s].scope = runs[s].scope
                                /\ runs'[s].status = "completed" => runs[s].status = "completed"
  <2>1. ASSUME NEW r, runs' = [runs EXCEPT ![r].status = "failed", ![r].fresh = TRUE]
        PROVE  <1>2
    BY <1>1, <2>1 DEF Run
  <2>2. ASSUME NEW r, NEW fresh, runs' = [runs EXCEPT ![r].fresh = fresh]
        PROVE  <1>2
    BY <1>1, <2>2 DEF Run
  <2>3. CASE UNCHANGED runs
    BY <2>3
  <2> QED BY <2>1, <2>2, <2>3
<1>3. WalkTypeOK'
  BY <1>2 DEF WalkInv, WalkTypeOK, AttemptsMove
<1>4. \A s \in DOMAIN runs' : Still(s)
  BY <1>2 DEF Still
<1> QED BY <1>3, <1>4, WalksKeep
-----------------------------------------------------------------------------
\* The invariant holds at the start,
LEMMA WalkInit == ASSUME BackfillAssumption, Init PROVE WalkInv
<1>1. SweepTypeOK
  BY SweepInit DEF SweepInv
<1>2. WalkTypeOK
  BY DEF Init, WalkTypeOK, BackfillAssumption
<1>3. \A i \in 1 .. Items : MadeInOrder(att[i])
  BY DEF Init, BackfillAssumption
<1>4. DOMAIN runs = {}
  BY DEF Init
<1> QED BY <1>1, <1>2, <1>3, <1>4 DEF WalkInv

\* and every step keeps it.
LEMMA WalkStep ==
    ASSUME BackfillAssumption, WalkInv, SweepTypeOK', [Next]_vars
    PROVE  WalkInv'
<1>0. troubles \in 0 .. MaxTroubles
  BY DEF WalkInv, WalkTypeOK
<1>1. ASSUME NEW p \in Replicas, Sweep(p) PROVE WalkInv'
  <2>1. CASE TakeLock(p) \/ FindOpen(p) \/ Unlock(p)
    BY <1>0, <2>1, TableKeeps, AttemptsRest DEF TakeLock, FindOpen, Unlock
  <2>2. CASE MarkStale(p)
    <3>1. UNCHANGED <<att, walk, troubles>>
      BY <2>2 DEF MarkStale
    <3>2. \/ UNCHANGED runs
          \/ \E r : /\ runs[r].status = "running"
                    /\ runs' = [runs EXCEPT ![r].status = "failed", ![r].fresh = TRUE]
      BY <2>2 DEF MarkStale
    <3> QED BY <1>0, <3>1, <3>2, TableKeeps, AttemptsRest
  <2>3. CASE InsertRun(p)
    <3> DEFINE run == [kind |-> Order[replica[p].next], startup |-> TRUE, force |-> FALSE,
                       scope |-> 1 .. Items, status |-> "running", fresh |-> TRUE]
    <3>1. StartRun(p, run) /\ UNCHANGED <<att, troubles>> /\ run.status = "running"
      BY <2>3 DEF InsertRun
    <3>2. runs' = Append(runs, run) /\ runs \in Seq(Run) /\ runs' \in Seq(Run)
      BY <3>1 DEF StartRun, WalkInv, SweepTypeOK
    <3> HIDE DEF run
    <3>3. run \in Run
      <4>1. runs'[Len(runs) + 1] = run /\ Len(runs) + 1 \in DOMAIN runs'
        BY <3>2
      <4> QED BY <3>2, <4>1
    <3> QED BY <3>1, <3>3, StartsKeep
  <2> QED BY <1>1, <2>1, <2>2, <2>3 DEF Sweep
<1>2. ASSUME NEW r \in DOMAIN walk, Execute(r) PROVE WalkInv'
  BY <1>2, LoadKeeps, VisitKeeps, CountKeeps, EndsKeep DEF Execute
<1>3. ASSUME NEW i \in 1 .. Items, NEW k \in Kinds, NEW older \in BOOLEAN, Complete(i, k, older)
      PROVE  WalkInv'
  <2>1. UNCHANGED <<runs, walk>>
    BY <1>3 DEF Complete
  <2> QED BY <1>3, <2>1, CompleteMoves, TableKeeps
<1>4. ASSUME NEW p \in Replicas, Boot(p) \/ StartManual(p) \/ Crash(p) PROVE WalkInv'
  <2>1. CASE Boot(p)
    BY <1>0, <2>1, TableKeeps, AttemptsRest DEF Boot
  <2>2. CASE StartManual(p)
    <3>1. PICK k \in Kinds, force \in BOOLEAN, scope \in Windows :
              StartRun(p, [kind |-> k, startup |-> FALSE, force |-> force, scope |-> scope,
                           status |-> "running", fresh |-> TRUE])
      BY <2>2 DEF StartManual
    <3> DEFINE run == [kind |-> k, startup |-> FALSE, force |-> force, scope |-> scope,
                       status |-> "running", fresh |-> TRUE]
    <3>2. run \in Run /\ run.status = "running" /\ UNCHANGED <<att, troubles>>
      BY <2>2 DEF Run, StartManual, BackfillAssumption
    <3> HIDE DEF run
    <3>3. StartRun(p, run)
      BY <3>1 DEF run
    <3> QED BY <3>2, <3>3, StartsKeep
  <2> QED BY <1>4, <2>1, <2>2, DeathsKeep
<1>5. ASSUME NEW r \in DOMAIN runs, Throw(r) \/ Lapse(r) PROVE WalkInv'
  <2>1. CASE Throw(r)
    <3>1. r \in DOMAIN walk
      BY RowTypes
    <3> QED BY <2>1, <3>1, EndsKeep
  <2>2. CASE Lapse(r)
    BY <1>0, <2>2, TableKeeps, AttemptsRest DEF Lapse
  <2> QED BY <1>5, <2>1, <2>2
<1>6. CASE UNCHANGED vars
  BY <1>0, <1>6, TableKeeps, AttemptsRest DEF vars
<1> HIDE DEF WalkInv
<1> QED BY <1>1, <1>2, <1>3, <1>4, <1>5, <1>6 DEF Next, System, Outside

\* The invariant holds in every reachable state.
THEOREM WalkInvariant == Spec => []WalkInv
<1>1. Init => WalkInv
  BY BackfillAssumption, WalkInit
<1>2. SweepInv' /\ WalkInv /\ [Next]_vars => WalkInv'
  BY BackfillAssumption, WalkStep DEF SweepInv
<1> QED BY <1>1, <1>2, SweepInvariant, PTL DEF Spec

\* TypeOK: every reachable state of the attempts, the runs, the walks and the sweeps is
\* well typed.
THEOREM BackfillTypeCorrect == Spec => []TypeOK
<1>1. SweepInv /\ WalkInv => TypeOK
  BY DEF SweepInv, SweepTypeOK, WalkInv, WalkTypeOK, TypeOK
<1> QED BY <1>1, SweepInvariant, WalkInvariant, PTL

\* CaughtUp: a completed run has left no item of its scope without a current attempt
\* that its inputs allow, whatever went on beside it.
THEOREM RunsCatchUp == Spec => []CaughtUp
<1>1. WalkInv => CaughtUp
  BY RowTypes DEF WalkInv, Completed, Settled, SettledIn, Ready, CaughtUp
<1> QED BY <1>1, WalkInvariant, PTL
-----------------------------------------------------------------------------
\* No step takes a run that completed back: superseding checks the status as it writes,
\* and the walk that might throw is over.
LEMMA CompletedStays ==
    ASSUME WalkInv, Next, NEW r \in DOMAIN runs, runs[r].status = "completed"
    PROVE  runs'[r].status = "completed"
<1>0. /\ runs \in Seq(Run) /\ runs[r] \in Run /\ DOMAIN runs = 1 .. Len(runs) /\ Len(runs) \in Nat
      /\ walk[r].pc = "ended"
  BY DEF WalkInv, SweepTypeOK, Completed
<1>1. ASSUME NEW p, NEW run, StartRun(p, run) PROVE runs'[r] = runs[r]
  BY <1>0, <1>1 DEF StartRun
<1>2. ASSUME NEW s, NEW fresh, runs' = [runs EXCEPT ![s].fresh = fresh]
      PROVE  runs'[r].status = runs[r].status
  BY <1>0, <1>2 DEF Run
<1>3. ASSUME NEW p \in Replicas, Sweep(p) PROVE runs'[r].status = "completed"
  <2>1. CASE MarkStale(p)
    BY <1>0, <2>1 DEF MarkStale
  <2>2. CASE InsertRun(p)
    BY <1>1, <2>2 DEF InsertRun
  <2> QED BY <1>3, <2>1, <2>2 DEF Sweep, TakeLock, FindOpen, Unlock
<1>4. ASSUME NEW s, Execute(s) PROVE runs'[r].status = "completed"
  <2>1. CASE Finish(s)
    BY <1>0, <2>1 DEF Finish, Run
  <2>2. CASE Count(s)
    BY <1>2, <2>2 DEF Count
  <2> QED BY <1>4, <2>1, <2>2 DEF Execute, Load, Read, Visit
<1>5. ASSUME NEW i, NEW k, NEW n, Complete(i, k, n) PROVE runs'[r].status = "completed"
  BY <1>5 DEF Complete
<1>6. ASSUME NEW p \in Replicas, Boot(p) \/ StartManual(p) \/ Crash(p)
      PROVE  runs'[r].status = "completed"
  <2>1. CASE StartManual(p)
    BY <1>1, <2>1 DEF StartManual
  <2> QED BY <1>6, <2>1 DEF Boot, Crash
<1>7. ASSUME NEW s, Throw(s) \/ Lapse(s) PROVE runs'[r].status = "completed"
  <2>1. CASE Throw(s)
    BY <1>0, <2>1 DEF Throw
  <2>2. CASE Lapse(s)
    BY <1>2, <2>2 DEF Lapse
  <2> QED BY <1>7, <2>1, <2>2
<1> QED BY <1>3, <1>4, <1>5, <1>6, <1>7 DEF Next, System, Outside

\* NeverClobbered: a run that finished while it was found stale stays completed.
THEOREM NeverClobbers == Spec => NeverClobbered
<1>1. WalkInv /\ [Next]_vars =>
         [\A r \in DOMAIN runs : runs[r].status = "completed" => runs'[r].status = "completed"]_vars
  BY CompletedStays
<1> QED BY <1>1, WalkInvariant, PTL DEF Spec, NeverClobbered
-----------------------------------------------------------------------------
(***************************************************************************)
(* The dead-man's switch: the inductive invariant                          *)
(***************************************************************************)
\* The lock of the sweep.
OneSweeps ==
    \A v, w \in Hosts : sweeper[v].pc # "idle" /\ sweeper[w].pc # "idle" => v = w

\* What a sweep has read, and what still holds of it: it arms when nothing is live.
SweepKnows(w) ==
    LET s == sweeper[w] IN
    /\ s.pc # "idle" => s.at = clock
    /\ s.pc = "find" => s.switch.enabled
    /\ s.pc = "arm" => LiveReleases = {} /\ Lapsed(s.switch, s.at) /\ s.switch.enabled
                       /\ ~Suspended(s.switch)
    /\ s.pc \in {"cancel", "grant", "mail"} => s.release \in 1 .. armed
    /\ s.pc = "cancel" => releases[s.release].status # "active" /\ releases[s.release].mails = 0
    /\ s.pc = "mail" => releases[s.release].status # "pending" /\ releases[s.release].mails = 0
    /\ ~lost /\ s.pc \in {"find", "arm"} => s.switch.checkedIn <= switch.checkedIn

\* Only the release armed last is live; each belongs to a lapse that had come.
ReleaseKept(r) ==
    LET e == releases[r] IN
    /\ e.status = "none" <=> r > armed
    /\ r <= armed => e.lapse + Interval <= clock /\ (~lost => e.lapse <= switch.checkedIn)
    /\ e.status \in {"pending", "active"} => r = armed
    /\ e.status \in {"none", "pending"} => e.mails = 0
    /\ e.status = "none" => ~e.stale
    /\ e.mails <= 1

\* How far a request of the owner has come, while no update is lost.
CallKnows(t) ==
    LET c == calls[t] IN
    /\ c.pc = "idle" => c = NoCall
    /\ c.ids \subseteq 1 .. armed
    /\ c.pc = "save" => \/ c.op = "checkIn" /\ c.row.checkedIn = clock
                           /\ c.row.enabled = c.base.enabled /\ c.row.contact = c.base.contact
                        \/ c.op = "update" /\ c.row.checkedIn = c.base.checkedIn
                           /\ c.row.suspended = c.base.suspended
    /\ c.pc \in {"findPending", "savePending"} =>
          c.op = "checkIn" /\ (~lost => switch.checkedIn = clock)
    /\ c.pc \in {"sync", "cancelPending", "findActive", "revokeActive"} => c.op = "update"
    /\ c.pc = "sync" /\ ~lost => c.row.contact = switch.contact /\ c.row.enabled = switch.enabled
    /\ c.pc = "suppress" /\ ~lost => c.row.checkedIn = switch.checkedIn \/ switch.checkedIn = clock

\* A release that has been granted, and is not any more, is of a lapse that cannot
\* arm another: the owner has checked in since, or it is suppressed, or about to be.
Granted(r) == \/ releases[r].status = "active" \/ releases[r].mails # 0
              \/ \E w \in Hosts : sweeper[w].pc = "mail" /\ sweeper[w].release = r
GrantsEnd ==
    ~lost => /\ switch.checkedIn <= clock
             /\ \A r \in Ids : Granted(r) =>
                   \/ releases[r].status = "active" \/ switch.checkedIn > releases[r].lapse
                   \/ Suspended(switch) \/ StandingDown
LapsesDiffer ==
    ~lost /\ NoneStale =>
        \A r, s \in Ids : Granted(r) /\ r < s /\ s <= armed => releases[r].lapse # releases[s].lapse

\* A pending release names another contact only until an update has synced it.
ContactKept ==
    ~lost => \/ \E t \in Tabs : calls[t].pc = "sync"
             \/ \A r \in With("pending") : releases[r].stale \/ releases[r].contact = switch.contact

\* An update that will still get at a pending release, and at release r.
Disarming(t) == calls[t].pc \in {"sync", "cancelPending"}
GetsAt(t, r) == \/ Disarming(t)
                \/ calls[t].pc = "findActive" /\ r \in With("active")
                \/ calls[t].pc = "revokeActive" /\ r \in With("active") \cap calls[t].ids

\* On a switch that is off, whatever is live is stale or an update will get at it.
OffDisarms ==
    ~lost /\ ~switch.enabled =>
        \A r \in LiveReleases : releases[r].stale \/ \E t \in Tabs : GetsAt(t, r)

\* A sweep began on a switch that was on: a pending release of one that is off
\* now is got at, stale or not.
GrantSeesOff ==
    ~lost /\ ~switch.enabled /\ (\E w \in Hosts : sweeper[w].pc # "idle") =>
        With("pending") = {} \/ \E t \in Tabs : Disarming(t)

\* A sweep that will grant began on a lapse: if that is over, the check-in is not.
MayGrant(w) == \/ sweeper[w].pc = "find" /\ Lapsed(sweeper[w].switch, sweeper[w].at)
               \/ sweeper[w].pc = "grant"
GrantSeesCheckIn ==
    ~lost /\ ~Lapsed(switch, clock) /\ (\E w \in Hosts : MayGrant(w)) =>
        \A r \in With("pending") : \E t \in Tabs :
            \/ calls[t].pc = "findPending"
            \/ calls[t].pc = "savePending" /\ r \in calls[t].ids

SwitchInv ==
    /\ SwitchTypeOK /\ OneSweeps
    /\ \A w \in Hosts : SweepKnows(w)
    /\ \A r \in Ids : ReleaseKept(r)
    /\ \A t \in Tabs : CallKnows(t)
    /\ GrantsEnd /\ LapsesDiffer /\ ContactKept /\ OffDisarms /\ GrantSeesOff /\ GrantSeesCheckIn
-----------------------------------------------------------------------------
(* Steps in terms of the fields they change.                               *)

\* The empty row, sweep, request and release are ones.
LEMMA NoneTypes ==
    ASSUME SwitchAssumption
    PROVE  /\ NoSwitch \in Switch /\ NoSwitchSweep \in SwitchSweep /\ NoCall \in Call
           /\ NoRelease \in Release
           /\ NoSwitchSweep.pc = "idle" /\ NoCall.pc = "idle" /\ NoCall.ids = {}
           /\ NoSwitch.checkedIn = 0 /\ NoSwitch.enabled
           /\ NoRelease.status = "none" /\ NoRelease.mails = 0
<1>1. NoSwitch.contact \in Contacts
  BY DEF SwitchAssumption, NoSwitch
<1>2. NoSwitch \in Switch
  BY <1>1 DEF SwitchAssumption, NoSwitch, Switch, Times
<1>3. NoSwitchSweep \in SwitchSweep /\ NoSwitchSweep.pc = "idle"
  BY <1>2 DEF SwitchAssumption, NoSwitchSweep, SwitchSweep
<1>4. NoCall \in Call /\ NoCall.pc = "idle" /\ NoCall.ids = {}
  BY <1>2 DEF NoCall, Call
<1>5. NoRelease \in Release /\ NoRelease.status = "none" /\ NoRelease.mails = 0
  BY <1>1 DEF SwitchAssumption, NoRelease, Release, Times
<1> QED BY <1>2, <1>3, <1>4, <1>5 DEF NoSwitch

\* What the types say of one sweep, request and release.
LEMMA Types ==
    ASSUME SwitchAssumption, SwitchInv
    PROVE  /\ clock \in 0 .. MaxTime /\ MaxTime \in Nat /\ Interval \in Nat \ {0} /\ Grace \in Nat \ {0}
           /\ armed \in 0 .. MaxReleases /\ MaxReleases \in Nat
           /\ switch \in Switch /\ switch.checkedIn \in Times
           /\ events \in 0 .. MaxEvents /\ lost \in BOOLEAN
           /\ \A r \in Ids : releases[r] \in Release /\ releases[r].lapse \in Times
           /\ \A w \in Hosts : sweeper[w] \in SwitchSweep /\ sweeper[w].switch.checkedIn \in Times
           /\ \A t \in Tabs : calls[t] \in Call /\ calls[t].row.checkedIn \in Times
                              /\ calls[t].row \in Switch /\ calls[t].base \in Switch
BY DEF SwitchInv, SwitchTypeOK, SwitchAssumption, Switch, Release, SwitchSweep, Call

\* A sweep gets on, and no other does.
LEMMA SweepMoves ==
    ASSUME SwitchInv, NEW w \in Hosts, NEW s \in SwitchSweep, AwaitSweep(w, s)
    PROVE  /\ sweeper' \in [Hosts -> SwitchSweep] /\ sweeper'[w] = s
           /\ \A v \in Hosts \ {w} : sweeper'[v] = sweeper[v]
BY DEF SwitchInv, SwitchTypeOK, AwaitSweep

\* A request gets on, and no other does.
LEMMA CallMoves ==
    ASSUME SwitchInv, NEW t \in Tabs, NEW c \in Call, AwaitCall(t, c)
    PROVE  /\ calls' \in [Tabs -> Call] /\ calls'[t] = c
           /\ \A u \in Tabs \ {t} : calls'[u] = calls[u]
BY DEF SwitchInv, SwitchTypeOK, AwaitCall

\* Releases change their status, and nothing else.
LEMMA Puts ==
    ASSUME SwitchInv, NEW R, NEW status \in {"active", "cancelled", "revoked"},
           PutReleases(R, status)
    PROVE  /\ releases' \in [Ids -> Release]
           /\ \A r \in Ids : /\ releases'[r].status = IF r \in R THEN status ELSE releases[r].status
                             /\ releases'[r].contact = releases[r].contact
                             /\ releases'[r].lapse = releases[r].lapse
                             /\ releases'[r].stale = releases[r].stale
                             /\ releases'[r].mails = releases[r].mails
<1>1. \A r \in Ids : releases[r] \in Release
  BY DEF SwitchInv, SwitchTypeOK
<1>2. ASSUME NEW r \in Ids
      PROVE  LET e == [releases[r] EXCEPT !.status = status] IN
             /\ e \in Release /\ e.status = status /\ e.contact = releases[r].contact
             /\ e.lapse = releases[r].lapse /\ e.stale = releases[r].stale
             /\ e.mails = releases[r].mails
  BY <1>1 DEF Release
<1> QED BY <1>1, <1>2 DEF PutReleases
-----------------------------------------------------------------------------
(* A step of one sweep only: it gets no nearer to a grant than it was.     *)
\* A step of one sweep only: it gets no nearer to a grant than it was.
LEMMA SweepOnly ==
    ASSUME SwitchAssumption, SwitchInv, NEW w \in Hosts, NEW s \in SwitchSweep, AwaitSweep(w, s),
           UNCHANGED <<clock, switch, releases, armed, calls, lost>>, events' \in 0 .. MaxEvents,
           s.pc = "idle" \/ \A v \in Hosts \ {w} : sweeper[v].pc = "idle",
           SweepKnows(w)', s.pc # "mail",
           s.pc # "idle" => sweeper[w].pc # "idle" \/ switch.enabled,
           MayGrant(w)' => MayGrant(w) \/ Lapsed(switch, clock)
    PROVE  SwitchInv'
<1>1. /\ sweeper' \in [Hosts -> SwitchSweep] /\ sweeper'[w] = s
      /\ \A v \in Hosts \ {w} : sweeper'[v] = sweeper[v]
  BY SweepMoves
<1>2. SwitchTypeOK'
  BY <1>1 DEF SwitchInv, SwitchTypeOK
<1>3. OneSweeps'
  BY <1>1 DEF SwitchInv, OneSweeps
<1>4. \A v \in Hosts : SweepKnows(v)'
  <2> SUFFICES ASSUME NEW v \in Hosts \ {w} PROVE SweepKnows(v)'
    OBVIOUS
  <2>1. SweepKnows(v) /\ sweeper'[v] = sweeper[v]
    BY <1>1 DEF SwitchInv
  <2> QED BY <2>1 DEF SweepKnows, LiveReleases, With, Lapsed, Suspended
<1>5. (\A r \in Ids : ReleaseKept(r)') /\ (\A t \in Tabs : CallKnows(t)')
  BY DEF SwitchInv, ReleaseKept, CallKnows
<1>6. \A r \in Ids : Granted(r)' => Granted(r)
  BY <1>1 DEF Granted
<1>7. GrantsEnd'
  BY <1>6 DEF SwitchInv, GrantsEnd, Suspended, StandingDown
<1>8. LapsesDiffer'
  BY <1>6 DEF SwitchInv, LapsesDiffer, NoneStale
<1>9. ContactKept' /\ OffDisarms'
  BY DEF SwitchInv, ContactKept, OffDisarms, With, LiveReleases, GetsAt, Disarming
<1>10. GrantSeesOff'
  BY <1>1 DEF SwitchInv, GrantSeesOff, With, Disarming
<1>11. GrantSeesCheckIn'
  <2>1. \A v \in Hosts \ {w} : MayGrant(v)' => MayGrant(v)
    BY <1>1 DEF MayGrant, Lapsed
  <2> QED BY <2>1 DEF SwitchInv, GrantSeesCheckIn, With, Lapsed
<1> QED BY <1>2, <1>3, <1>4, <1>5, <1>7, <1>8, <1>9, <1>10, <1>11 DEF SwitchInv

(* A step of one request only: what it was going to do it still is.        *)
\* A step of one request only: what it was going to do it still is.
LEMMA CallOnly ==
    ASSUME SwitchAssumption, SwitchInv, NEW t \in Tabs, NEW c \in Call, AwaitCall(t, c),
           UNCHANGED <<clock, switch, releases, armed, sweeper, lost>>, events' \in 0 .. MaxEvents,
           CallKnows(t)', calls[t].pc \notin {"sync", "cancelPending", "revokeActive", "savePending"},
           calls[t].pc \in {"readSwitch", "suppress"} => c.pc = "suppress",
           calls[t].pc = "findActive" =>
               \A r \in With("active") : c.pc = "revokeActive" /\ r \in c.ids,
           calls[t].pc = "findPending" =>
               \A r \in With("pending") : c.pc = "savePending" /\ r \in c.ids
    PROVE  SwitchInv'
<1>1. /\ calls' \in [Tabs -> Call] /\ calls'[t] = c
      /\ \A u \in Tabs \ {t} : calls'[u] = calls[u]
  BY CallMoves
<1>2. SwitchTypeOK'
  BY <1>1 DEF SwitchInv, SwitchTypeOK
<1>3. OneSweeps' /\ \A w \in Hosts : SweepKnows(w)'
  BY DEF SwitchInv, OneSweeps, SweepKnows, LiveReleases, With, Lapsed, Suspended
<1>4. (\A r \in Ids : ReleaseKept(r)') /\ (\A u \in Tabs : CallKnows(u)')
  BY <1>1 DEF SwitchInv, ReleaseKept, CallKnows
<1>5. \A r \in Ids : Granted(r)' => Granted(r)
  BY DEF Granted
<1>6. StandingDown => StandingDown'
  BY <1>1 DEF StandingDown
<1>7. GrantsEnd'
  BY <1>5, <1>6 DEF SwitchInv, GrantsEnd, Suspended
<1>8. LapsesDiffer'
  BY <1>5 DEF SwitchInv, LapsesDiffer, NoneStale
<1>9. ContactKept'
  BY <1>1 DEF SwitchInv, ContactKept, With
<1>10. OffDisarms'
  <2>1. ASSUME NEW r \in Ids, NEW u \in Tabs, GetsAt(u, r) PROVE \E v \in Tabs : GetsAt(v, r)'
    BY <1>1, <2>1 DEF GetsAt, Disarming, With
  <2> QED BY <2>1 DEF SwitchInv, OffDisarms, LiveReleases, With
<1>11. GrantSeesOff'
  BY <1>1 DEF SwitchInv, GrantSeesOff, With, Disarming
<1>12. GrantSeesCheckIn'
  <2>1. \A w \in Hosts : MayGrant(w)' => MayGrant(w)
    BY DEF MayGrant, Lapsed
  <2>2. (\A r \in Ids : r \in With("pending")' => r \in With("pending")) /\ With("pending")' \subseteq Ids
    BY DEF With
  <2> QED BY <1>1, <2>1, <2>2 DEF SwitchInv, GrantSeesCheckIn, Lapsed
<1> QED BY <1>2, <1>3, <1>4, <1>7, <1>8, <1>9, <1>10, <1>11, <1>12 DEF SwitchInv

(* The owner takes releases back.  One that was granted is of a lapse that *)
(* is over, or the request goes on to suppress it.                         *)
\* The owner takes releases back.  One that was granted is of a lapse that is over, or the
\* request goes on to suppress it.
LEMMA Withdraws ==
    ASSUME SwitchAssumption, SwitchInv, NEW t \in Tabs, NEW c \in Call, AwaitCall(t, c),
           NEW R \in SUBSET (1 .. armed), NEW status \in {"cancelled", "revoked"},
           PutReleases(R, status),
           UNCHANGED <<clock, switch, armed, sweeper, events, lost>>,
           CallKnows(t)',
           calls[t].pc \notin {"sync", "readSwitch", "suppress", "findPending", "findActive"},
           ~lost => \A r \in R : Granted(r) => c.pc = "readSwitch" \/ switch.checkedIn > releases[r].lapse,
           \A r \in LiveReleases \ R : GetsAt(t, r) => c.pc = "findActive" /\ r \in With("active"),
           calls[t].pc = "cancelPending" => With("pending") \subseteq R,
           calls[t].pc = "savePending" => calls[t].ids \subseteq R
    PROVE  SwitchInv'
<1>1. /\ calls' \in [Tabs -> Call] /\ calls'[t] = c
      /\ \A u \in Tabs \ {t} : calls'[u] = calls[u]
  BY CallMoves
<1>2. /\ releases' \in [Ids -> Release]
      /\ \A r \in Ids : /\ releases'[r].status = IF r \in R THEN status ELSE releases[r].status
                        /\ releases'[r].contact = releases[r].contact
                        /\ releases'[r].lapse = releases[r].lapse
                        /\ releases'[r].stale = releases[r].stale
                        /\ releases'[r].mails = releases[r].mails
  BY Puts
<1>3. SwitchTypeOK'
  BY <1>1, <1>2 DEF SwitchInv, SwitchTypeOK
<1>4. /\ With("pending")' = With("pending") \ R /\ With("active")' = With("active") \ R
      /\ LiveReleases' = LiveReleases \ R
  BY <1>2 DEF With, LiveReleases
<1>5. OneSweeps'
  BY DEF SwitchInv, OneSweeps
<1>6. \A w \in Hosts : SweepKnows(w)'
  <2> SUFFICES ASSUME NEW w \in Hosts PROVE SweepKnows(w)'
    OBVIOUS
  <2>1. SweepKnows(w)
    BY DEF SwitchInv
  <2>2. \A r \in 1 .. armed : r \in Ids
    BY Types DEF Ids
  <2> QED BY <1>2, <1>4, <2>1, <2>2 DEF SweepKnows, Lapsed, Suspended
<1>7. \A r \in Ids : ReleaseKept(r)'
  <2> SUFFICES ASSUME NEW r \in Ids PROVE ReleaseKept(r)'
    OBVIOUS
  <2>1. ReleaseKept(r) /\ (r \in R => ~(r > armed)) /\ r \in Nat /\ armed \in Nat
    BY Types DEF SwitchInv, Ids
  <2> QED BY <1>2, <2>1 DEF ReleaseKept
<1>8. \A u \in Tabs : CallKnows(u)'
  BY <1>1 DEF SwitchInv, CallKnows
<1>9. \A r \in Ids : Granted(r)' => Granted(r)
  BY <1>2 DEF Granted
<1>10. GrantsEnd'
  <2>1. StandingDown => StandingDown'
    BY <1>1 DEF StandingDown
  <2>2. c.pc = "readSwitch" => StandingDown'
    BY <1>1 DEF StandingDown
  <2> QED BY <1>2, <1>9, <2>1, <2>2 DEF SwitchInv, GrantsEnd, Suspended
<1>11. LapsesDiffer'
  BY <1>2, <1>9 DEF SwitchInv, LapsesDiffer, NoneStale
<1>12. ContactKept'
  BY <1>1, <1>2, <1>4 DEF SwitchInv, ContactKept, With
<1>13. OffDisarms'
  <2> SUFFICES ASSUME ~lost, ~switch.enabled, NEW r \in LiveReleases \ R, ~releases[r].stale
               PROVE  \E u \in Tabs : GetsAt(u, r)'
    BY <1>2, <1>4 DEF OffDisarms, LiveReleases, With
  <2>1. PICK u \in Tabs : GetsAt(u, r)
    BY DEF SwitchInv, OffDisarms
  <2>2. CASE u = t
    BY <1>1, <1>4, <2>1, <2>2 DEF GetsAt
  <2>3. CASE u # t
    BY <1>1, <1>4, <2>1, <2>3 DEF GetsAt, Disarming
  <2> QED BY <2>2, <2>3
<1>14. GrantSeesOff'
  BY <1>1, <1>4 DEF SwitchInv, GrantSeesOff, Disarming
<1>15. GrantSeesCheckIn'
  <2>1. \A w \in Hosts : MayGrant(w)' => MayGrant(w)
    BY DEF MayGrant, Lapsed
  <2> QED BY <1>1, <1>4, <2>1 DEF SwitchInv, GrantSeesCheckIn, Lapsed
<1> QED BY <1>3, <1>5, <1>6, <1>7, <1>8, <1>10, <1>11, <1>12, <1>13, <1>14, <1>15 DEF SwitchInv
-----------------------------------------------------------------------------
(* The sweep.                                                              *)

\* The lock is free: a sweep reads the switch as it is now.
LEMMA SweepBeginsKeeps ==
    ASSUME SwitchAssumption, SwitchInv, NEW w \in Hosts, SweepBegins(w)
    PROVE  SwitchInv'
<1> DEFINE s == [NoSwitchSweep EXCEPT !.pc = "find", !.at = clock, !.switch = switch]
<1>1. /\ s \in SwitchSweep /\ s.pc = "find" /\ s.at = clock /\ s.switch = switch
  BY NoneTypes, Types DEF SwitchSweep
<1>2. /\ AwaitSweep(w, s) /\ UNCHANGED <<clock, switch, releases, armed, calls, events, lost>>
      /\ switch.enabled /\ \A v \in Hosts : sweeper[v].pc = "idle"
  BY DEF SweepBegins
<1> HIDE DEF s
<1>3. sweeper'[w] = s
  BY <1>1, <1>2, SweepMoves
<1>4. SweepKnows(w)'
  BY <1>1, <1>2, <1>3, Types DEF SweepKnows, Times, Switch
<1>5. MayGrant(w)' => Lapsed(switch, clock)
  BY <1>1, <1>2, <1>3 DEF MayGrant, Lapsed
<1> QED BY <1>1, <1>2, <1>4, <1>5, Types, SweepOnly

\* What a sweep may do next about what it found.
LEMMA DueIs ==
    ASSUME NEW s, NEW r
    PROVE  /\ Due(s, r) \in {"idle", "cancel", "arm", "grant"}
           /\ Due(s, r) = "cancel" => r \in With("pending")
           /\ Due(s, r) = "arm" => r = 0 /\ Lapsed(s.switch, s.at) /\ ~Suspended(s.switch)
           /\ Due(s, r) = "grant" => r \in With("pending") /\ Lapsed(s.switch, s.at)
BY DEF Due

\* A sweep decides on what it has read of the switch and finds of the releases.
LEMMA SweepFindsKeeps ==
    ASSUME SwitchAssumption, SwitchInv, NEW w \in Hosts, SweepFinds(w)
    PROVE  SwitchInv'
<1>1. /\ sweeper[w].pc = "find" /\ sweeper[w] \in SwitchSweep
      /\ UNCHANGED <<clock, switch, releases, armed, calls, events, lost>>
      /\ SweepKnows(w) /\ \A v \in Hosts \ {w} : sweeper[v].pc = "idle"
  BY Types DEF SweepFinds, SwitchInv, OneSweeps
<1>2. PICK r \in IF LiveReleases = {} THEN {0} ELSE LiveReleases :
        AwaitSweep(w, IF Due(sweeper[w], r) = "idle" THEN NoSwitchSweep
                      ELSE [sweeper[w] EXCEPT !.pc = Due(sweeper[w], r), !.release = r,
                                              !.switch = IF r = 0 THEN @ ELSE NoSwitch])
  BY DEF SweepFinds
<1>3. CASE Due(sweeper[w], r) = "idle"
  <2>1. AwaitSweep(w, NoSwitchSweep)
    BY <1>2, <1>3
  <2>2. sweeper'[w].pc = "idle"
    BY <2>1, NoneTypes, SweepMoves
  <2> QED BY <1>1, <2>1, <2>2, NoneTypes, Types, SweepOnly DEF SweepKnows, MayGrant
<1>4. CASE Due(sweeper[w], r) # "idle"
  <2> DEFINE pc == Due(sweeper[w], r)
             row == IF r = 0 THEN sweeper[w].switch ELSE NoSwitch
             s == [sweeper[w] EXCEPT !.pc = pc, !.release = r, !.switch = row]
  <2>1. /\ pc \in {"cancel", "arm", "grant"}
        /\ pc = "cancel" => r \in With("pending")
        /\ pc = "arm" => r = 0 /\ Lapsed(sweeper[w].switch, sweeper[w].at)
                         /\ ~Suspended(sweeper[w].switch)
        /\ pc = "grant" => r \in With("pending") /\ Lapsed(sweeper[w].switch, sweeper[w].at)
    BY <1>4, DueIs
  <2>2. /\ r \in 0 .. MaxReleases
        /\ r \in With("pending") => r \in 1 .. armed /\ releases[r].status = "pending" /\ releases[r].mails = 0
        /\ r = 0 => LiveReleases = {}
    <3>1. LiveReleases \subseteq Ids /\ With("pending") \subseteq Ids
      BY DEF LiveReleases, With
    <3>2. 0 \notin Ids /\ Ids \subseteq 0 .. MaxReleases /\ 0 \in 0 .. MaxReleases
      BY Types DEF Ids
    <3>3. r \in With("pending") => r \in 1 .. armed /\ releases[r].status = "pending" /\ releases[r].mails = 0
      <4>1. ASSUME r \in With("pending")
            PROVE  r \in 1 .. armed /\ releases[r].status = "pending" /\ releases[r].mails = 0
        <5>1. r \in Ids /\ releases[r].status = "pending" /\ ReleaseKept(r) /\ r >= 1
          BY <4>1, <3>1, Types DEF With, SwitchInv, Ids
        <5> QED BY <5>1, Types DEF ReleaseKept
      <4> QED BY <4>1
    <3> QED BY <3>1, <3>2, <3>3
  <2>3. row \in Switch /\ sweeper[w].switch \in Switch
    BY <1>1, NoneTypes DEF SwitchSweep
  <2>4. AwaitSweep(w, s)
    BY <1>2, <1>4
  <2> HIDE DEF pc, row
  <2>5. s \in SwitchSweep /\ s.pc = pc /\ s.release = r /\ s.switch = row /\ s.at = sweeper[w].at
    BY <1>1, <2>1, <2>2, <2>3 DEF SwitchSweep
  <2>6. pc = "arm" => row = sweeper[w].switch
    BY <2>1 DEF row
  <2> HIDE DEF s
  <2>7. sweeper'[w] = s
    BY <2>4, <2>5, SweepMoves
  <2>8. LiveReleases' = LiveReleases
    BY <1>1 DEF LiveReleases, With
  <2>9. SweepKnows(w)'
    BY <1>1, <2>1, <2>2, <2>5, <2>6, <2>7, <2>8 DEF SweepKnows, Lapsed, Suspended
  <2>10. MayGrant(w)' => MayGrant(w)
    BY <1>1, <2>1, <2>5, <2>7 DEF MayGrant
  <2> QED BY <1>1, <2>1, <2>4, <2>5, <2>9, <2>10, Types, SweepOnly
<1> QED BY <1>3, <1>4

\* A sweep that ends, or dies, changes nothing else.
LEMMA SweepStops ==
    ASSUME SwitchAssumption, SwitchInv, NEW w \in Hosts, AwaitSweep(w, NoSwitchSweep),
           UNCHANGED <<clock, switch, releases, armed, calls, lost>>, events' \in 0 .. MaxEvents
    PROVE  SwitchInv'
<1>1. sweeper'[w].pc = "idle"
  BY NoneTypes, SweepMoves
<1> QED BY <1>1, NoneTypes, Types, SweepOnly DEF SweepKnows, MayGrant

\* What one sweep does to a release, once the others are idle.
LEMMA SweepCancelsKeeps ==
    ASSUME SwitchAssumption, SwitchInv, NEW w \in Hosts, SweepCancels(w)
    PROVE  SwitchInv'
<1> DEFINE n == sweeper[w].release
<1>1. /\ sweeper[w].pc = "cancel" /\ PutReleases({n}, "cancelled") /\ AwaitSweep(w, NoSwitchSweep)
      /\ UNCHANGED <<clock, switch, armed, calls, events, lost>>
      /\ n \in 1 .. armed /\ releases[n].status # "active" /\ releases[n].mails = 0
      /\ n \in Ids /\ armed \in Nat
      /\ \A v \in Hosts \ {w} : sweeper[v].pc = "idle"
  BY Types DEF SweepCancels, SwitchInv, SweepKnows, OneSweeps, Ids
<1>2. \A v \in Hosts : sweeper'[v].pc = "idle"
  BY <1>1, NoneTypes, SweepMoves
<1>3. /\ releases' \in [Ids -> Release]
      /\ \A r \in Ids : /\ releases'[r].status = IF r = n THEN "cancelled" ELSE releases[r].status
                        /\ releases'[r].contact = releases[r].contact
                        /\ releases'[r].lapse = releases[r].lapse
                        /\ releases'[r].stale = releases[r].stale
                        /\ releases'[r].mails = releases[r].mails
  BY <1>1, Puts
<1> HIDE DEF n
<1>4. SwitchTypeOK' /\ OneSweeps' /\ \A v \in Hosts : SweepKnows(v)'
  <2>1. sweeper' \in [Hosts -> SwitchSweep]
    BY <1>1, NoneTypes, SweepMoves
  <2> QED BY <1>1, <1>2, <1>3, <2>1 DEF SwitchInv, SwitchTypeOK, OneSweeps, SweepKnows
<1>5. \A r \in Ids : ReleaseKept(r)'
  <2> SUFFICES ASSUME NEW r \in Ids PROVE ReleaseKept(r)'
    OBVIOUS
  <2>1. ReleaseKept(r) /\ r \in Nat
    BY DEF SwitchInv, Ids
  <2> QED BY <1>1, <1>3, <2>1 DEF ReleaseKept
<1>6. \A t \in Tabs : CallKnows(t)'
  BY <1>1 DEF SwitchInv, CallKnows
<1>7. \A r \in Ids : Granted(r)' => Granted(r) /\ r # n
  BY <1>1, <1>2, <1>3 DEF Granted
<1>8. GrantsEnd' /\ LapsesDiffer'
  <2>1. GrantsEnd'
    BY <1>1, <1>3, <1>7 DEF SwitchInv, GrantsEnd, Suspended, StandingDown
  <2>2. NoneStale' => NoneStale
    BY <1>3 DEF NoneStale
  <2>3. LapsesDiffer'
    <3> SUFFICES ASSUME ~lost, NoneStale', NEW r \in Ids, NEW q \in Ids, Granted(r)', r < q, q <= armed
                 PROVE  releases'[r].lapse # releases'[q].lapse
      BY <1>1 DEF LapsesDiffer
    <3> QED BY <1>3, <1>7, <2>2 DEF SwitchInv, LapsesDiffer
  <2> QED BY <2>1, <2>3
<1>9. /\ With("pending")' = With("pending") \ {n} /\ With("active")' = With("active") \ {n}
      /\ LiveReleases' = LiveReleases \ {n}
  BY <1>3 DEF With, LiveReleases
<1>10. ContactKept'
  BY <1>1, <1>3, <1>9 DEF SwitchInv, ContactKept, With
<1>11. OffDisarms'
  <2>1. \A r \in LiveReleases \ {n} : \A t \in Tabs : GetsAt(t, r) => GetsAt(t, r)'
    BY <1>1, <1>9 DEF GetsAt, Disarming
  <2>2. LiveReleases \subseteq Ids
    BY DEF LiveReleases, With
  <2> QED BY <1>1, <1>3, <1>9, <2>1, <2>2 DEF SwitchInv, OffDisarms
<1>12. GrantSeesOff' /\ GrantSeesCheckIn'
  BY <1>2 DEF GrantSeesOff, GrantSeesCheckIn, MayGrant
<1> QED BY <1>4, <1>5, <1>6, <1>8, <1>10, <1>11, <1>12 DEF SwitchInv

\* A release that is armed is not of the lapse of one that was granted.
LEMMA SweepArmsKeeps ==
    ASSUME SwitchAssumption, SwitchInv, NEW w \in Hosts, SweepArms(w)
    PROVE  SwitchInv'
<1> DEFINE s == sweeper[w]
           n == armed + 1
           e == [status |-> "pending", contact |-> s.switch.contact,
                 graceUntil |-> s.at + Grace, lapse |-> s.switch.checkedIn,
                 stale |-> s.switch # switch \/ StandingDown, mails |-> 0]
<1>1. /\ s.pc = "arm" /\ s \in SwitchSweep /\ s.switch \in Switch /\ s.at = clock
      /\ armed' = n /\ releases' = [releases EXCEPT ![n] = e] /\ AwaitSweep(w, NoSwitchSweep)
      /\ UNCHANGED <<clock, switch, calls, events, lost>>
      /\ LiveReleases = {} /\ Lapsed(s.switch, s.at) /\ s.switch.enabled /\ ~Suspended(s.switch)
      /\ (~lost => s.switch.checkedIn <= switch.checkedIn)
      /\ \A v \in Hosts \ {w} : sweeper[v].pc = "idle"
  BY Types DEF SweepArms, SwitchInv, SweepKnows, OneSweeps, SwitchSweep
<1>2. n \in Ids /\ n \in 0 .. MaxReleases /\ n > armed /\ armed \in Nat
  BY Types DEF SweepArms, Ids
<1>3. /\ e \in Release /\ e.status = "pending" /\ e.mails = 0 /\ e.lapse = s.switch.checkedIn
      /\ e.contact = s.switch.contact /\ (~e.stale => s.switch = switch /\ ~StandingDown)
  <2>1. s.switch.checkedIn \in Times /\ s.switch.contact \in Contacts /\ s.at + Grace \in 0 .. MaxTime + Grace
    BY <1>1, Types DEF Switch, SwitchSweep
  <2> DEFINE stale == s.switch # switch \/ StandingDown
             until == s.at + Grace
  <2>2. stale \in BOOLEAN
    OBVIOUS
  <2>3. e = [status |-> "pending", contact |-> s.switch.contact, graceUntil |-> until,
             lapse |-> s.switch.checkedIn, stale |-> stale, mails |-> 0]
    OBVIOUS
  <2>4. ~stale => s.switch = switch /\ ~StandingDown
    OBVIOUS
  <2>5. until \in 0 .. MaxTime + Grace
    BY <2>1
  <2> HIDE DEF stale, until, e, s
  <2>6. e \in Release
    BY <2>1, <2>2, <2>3, <2>5 DEF Release
  <2> QED BY <2>3, <2>4, <2>6
<1>4. /\ releases' \in [Ids -> Release] /\ releases'[n] = e
      /\ \A r \in Ids \ {n} : releases'[r] = releases[r]
  <2> HIDE DEF e, n
  <2> QED BY <1>1, <1>2, <1>3 DEF SwitchInv, SwitchTypeOK
<1>5. \A v \in Hosts : sweeper'[v].pc = "idle"
  BY <1>1, NoneTypes, SweepMoves
<1>6. s.switch.checkedIn + Interval <= clock
  BY <1>1 DEF Lapsed
<1> HIDE DEF e
<1>7. SwitchTypeOK' /\ OneSweeps' /\ \A v \in Hosts : SweepKnows(v)'
  <2>1. sweeper' \in [Hosts -> SwitchSweep]
    BY <1>1, NoneTypes, SweepMoves
  <2> QED BY <1>1, <1>2, <1>4, <1>5, <2>1 DEF SwitchInv, SwitchTypeOK, OneSweeps, SweepKnows
<1>8. \A r \in Ids : ReleaseKept(r)'
  <2> SUFFICES ASSUME NEW r \in Ids PROVE ReleaseKept(r)'
    OBVIOUS
  <2>1. ReleaseKept(r) /\ r \in Nat /\ releases[r].status \notin {"pending", "active"}
    BY <1>1 DEF SwitchInv, Ids, LiveReleases, With
  <2>2. CASE r = n
    BY <1>1, <1>2, <1>3, <1>4, <1>6, <2>2 DEF ReleaseKept
  <2>3. CASE r # n
    BY <1>1, <1>2, <1>4, <2>1, <2>3 DEF ReleaseKept
  <2> QED BY <2>2, <2>3
<1>9. \A t \in Tabs : CallKnows(t)'
  <2> SUFFICES ASSUME NEW t \in Tabs PROVE CallKnows(t)'
    OBVIOUS
  <2>1. CallKnows(t) /\ 1 .. armed \subseteq 1 .. n
    BY <1>2 DEF SwitchInv
  <2> QED BY <1>1, <2>1 DEF CallKnows
<1>10. \A r \in Ids : Granted(r)' => Granted(r) /\ r # n /\ r < n /\ releases'[r] = releases[r]
  <2> SUFFICES ASSUME NEW r \in Ids, Granted(r)'
               PROVE  Granted(r) /\ r # n /\ r < n /\ releases'[r] = releases[r]
    OBVIOUS
  <2>1. r # n
    BY <1>3, <1>4, <1>5 DEF Granted
  <2>2. Granted(r) /\ releases'[r] = releases[r] /\ r \in Nat
    BY <1>4, <1>5, <2>1 DEF Granted, Ids
  <2>3. ~(r > armed)
    <3>1. ReleaseKept(r) /\ (releases[r].status = "active" \/ releases[r].mails # 0)
      BY <1>4, <1>5, <2>1 DEF SwitchInv, Granted
    <3> QED BY <3>1 DEF ReleaseKept
  <2> QED BY <1>2, <2>1, <2>2, <2>3
<1>11. GrantsEnd'
  BY <1>1, <1>10 DEF SwitchInv, GrantsEnd, Suspended, StandingDown
<1>12. LapsesDiffer'
  <2> SUFFICES ASSUME ~lost, NoneStale', NEW r \in Ids, NEW q \in Ids, Granted(r)', r < q, q <= n
               PROVE  releases'[r].lapse # releases'[q].lapse
    BY <1>1 DEF LapsesDiffer
  <2>1. Granted(r) /\ releases'[r] = releases[r] /\ r # n
    BY <1>10
  <2>2. CASE q = n
    <3>1. ~e.stale
      BY <1>2, <1>4 DEF NoneStale
    <3>2. s.switch = switch /\ ~StandingDown /\ ~Suspended(switch)
      BY <1>1, <1>3, <3>1
    <3>3. releases[r].status # "active"
      BY <1>1 DEF LiveReleases, With
    <3>4. switch.checkedIn > releases[r].lapse
      BY <2>1, <3>2, <3>3 DEF SwitchInv, GrantsEnd
    <3>5. releases'[q].lapse = switch.checkedIn
      BY <1>3, <1>4, <2>2, <3>2
    <3>6. releases[r].lapse \in Int /\ switch.checkedIn \in Int
      BY Types DEF Times
    <3> QED BY <2>1, <3>4, <3>5, <3>6
  <2>3. CASE q # n
    <3>1. NoneStale
      <4> SUFFICES ASSUME NEW x \in Ids PROVE ~releases[x].stale
        BY DEF NoneStale
      <4>1. CASE x = n
        <5>1. n > armed /\ ReleaseKept(n)
          BY <1>2 DEF SwitchInv
        <5>2. ~releases[n].stale
          BY <5>1 DEF ReleaseKept
        <5> QED BY <4>1, <5>2
      <4> QED BY <1>4, <4>1 DEF NoneStale
    <3>2. q <= armed /\ releases'[q] = releases[q]
      BY <1>2, <1>4, <2>3 DEF Ids
    <3> QED BY <2>1, <3>1, <3>2 DEF SwitchInv, LapsesDiffer
  <2> QED BY <2>2, <2>3
<1>13. With("pending")' = {n} /\ With("active")' = {} /\ LiveReleases' = {n}
  <2>1. \A r \in Ids : releases[r].status \notin {"pending", "active"}
    BY <1>1 DEF LiveReleases, With
  <2> QED BY <1>2, <1>3, <1>4, <2>1 DEF LiveReleases, With
<1>14. ContactKept'
  BY <1>1, <1>3, <1>4, <1>13 DEF ContactKept, SwitchInv
<1>15. OffDisarms'
  BY <1>1, <1>3, <1>4, <1>13 DEF OffDisarms
<1>16. GrantSeesOff' /\ GrantSeesCheckIn'
  BY <1>5 DEF GrantSeesOff, GrantSeesCheckIn, MayGrant
<1> QED BY <1>7, <1>8, <1>9, <1>11, <1>12, <1>14, <1>15, <1>16 DEF SwitchInv

\* A release that is granted is the one that is live, and the last.
LEMMA SweepGrantsKeeps ==
    ASSUME SwitchAssumption, SwitchInv, NEW w \in Hosts, SweepGrants(w),
           sweeper[w].release \in With("pending")
    PROVE  SwitchInv'
<1> DEFINE n == sweeper[w].release
           s == [sweeper[w] EXCEPT !.pc = "mail"]
<1>1. /\ sweeper[w].pc = "grant" /\ PutReleases({n}, "active") /\ AwaitSweep(w, s)
      /\ UNCHANGED <<clock, switch, armed, calls, events, lost>>
      /\ n \in Ids /\ releases[n].status = "pending" /\ ReleaseKept(n) /\ SweepKnows(w)
      /\ \A v \in Hosts \ {w} : sweeper[v].pc = "idle"
  BY DEF SweepGrants, SwitchInv, OneSweeps, With
<1>2. n = armed /\ n \in 1 .. armed /\ releases[n].mails = 0 /\ sweeper[w].at = clock
  BY <1>1 DEF ReleaseKept, SweepKnows
<1>3. s \in SwitchSweep /\ s.pc = "mail" /\ s.release = n /\ s.at = clock
  BY <1>2, Types DEF SwitchSweep
<1> HIDE DEF s
<1>4. /\ sweeper' \in [Hosts -> SwitchSweep] /\ sweeper'[w] = s
      /\ \A v \in Hosts \ {w} : sweeper'[v] = sweeper[v]
  BY <1>1, <1>3, SweepMoves
<1>5. /\ releases' \in [Ids -> Release]
      /\ \A r \in Ids : /\ releases'[r].status = IF r = n THEN "active" ELSE releases[r].status
                        /\ releases'[r].contact = releases[r].contact
                        /\ releases'[r].lapse = releases[r].lapse
                        /\ releases'[r].stale = releases[r].stale
                        /\ releases'[r].mails = releases[r].mails
  BY <1>1, Puts
<1> HIDE DEF n
<1>6. SwitchTypeOK'
  BY <1>1, <1>4, <1>5 DEF SwitchInv, SwitchTypeOK
<1>7. OneSweeps'
  BY <1>1, <1>4 DEF OneSweeps
<1>8. \A v \in Hosts : SweepKnows(v)'
  BY <1>1, <1>2, <1>3, <1>4, <1>5 DEF SweepKnows
<1>9. \A r \in Ids : ReleaseKept(r)'
  <2> SUFFICES ASSUME NEW r \in Ids PROVE ReleaseKept(r)'
    OBVIOUS
  <2>1. ReleaseKept(r)
    BY DEF SwitchInv
  <2> QED BY <1>1, <1>2, <1>5, <2>1 DEF ReleaseKept
<1>10. \A t \in Tabs : CallKnows(t)'
  BY <1>1 DEF SwitchInv, CallKnows
<1>11. \A r \in Ids \ {n} : Granted(r)' => Granted(r)
  BY <1>1, <1>3, <1>4, <1>5 DEF Granted
<1>12. GrantsEnd'
  BY <1>1, <1>5, <1>11 DEF SwitchInv, GrantsEnd, Suspended, StandingDown
<1>13. LapsesDiffer'
  <2>1. NoneStale' => NoneStale
    BY <1>5 DEF NoneStale
  <2> SUFFICES ASSUME ~lost, NoneStale', NEW r \in Ids, NEW q \in Ids, Granted(r)', r < q, q <= armed
               PROVE  releases'[r].lapse # releases'[q].lapse
    BY <1>1 DEF LapsesDiffer
  <2>2. r # n
    BY <1>2 DEF Ids
  <2> QED BY <1>5, <1>11, <2>1, <2>2 DEF SwitchInv, LapsesDiffer
<1>14. /\ With("pending")' = With("pending") \ {n} /\ LiveReleases' = LiveReleases
       /\ With("active") \subseteq With("active")'
  BY <1>1, <1>5 DEF With, LiveReleases
<1>15. ContactKept'
  BY <1>1, <1>5, <1>14 DEF SwitchInv, ContactKept, With
<1>16. OffDisarms'
  <2>1. \A r \in LiveReleases : \A t \in Tabs : GetsAt(t, r) => GetsAt(t, r)'
    BY <1>1, <1>14 DEF GetsAt, Disarming
  <2>2. LiveReleases \subseteq Ids
    BY DEF LiveReleases, With
  <2> QED BY <1>1, <1>5, <1>14, <2>1, <2>2 DEF SwitchInv, OffDisarms
<1>17. GrantSeesOff'
  BY <1>1, <1>14 DEF SwitchInv, GrantSeesOff, Disarming
<1>18. GrantSeesCheckIn'
  BY <1>1, <1>3, <1>4 DEF GrantSeesCheckIn, MayGrant
<1> QED BY <1>6, <1>7, <1>8, <1>9, <1>10, <1>12, <1>13, <1>15, <1>16, <1>17, <1>18 DEF SwitchInv

\* The mail goes out after the grant is written, whatever has happened since.
LEMMA SweepMailsKeeps ==
    ASSUME SwitchAssumption, SwitchInv, NEW w \in Hosts, SweepMails(w)
    PROVE  SwitchInv'
<1> DEFINE n == sweeper[w].release
           e == [releases[n] EXCEPT !.mails = @ + 1]
<1>1. /\ sweeper[w].pc = "mail" /\ releases' = [releases EXCEPT ![n] = e]
      /\ AwaitSweep(w, NoSwitchSweep)
      /\ UNCHANGED <<clock, switch, armed, calls, events, lost>>
      /\ n \in 1 .. armed /\ n \in Ids /\ releases[n].status # "pending" /\ releases[n].mails = 0
      /\ \A v \in Hosts \ {w} : sweeper[v].pc = "idle"
      /\ releases[n] \in Release
  BY Types DEF SweepMails, SwitchInv, SweepKnows, OneSweeps, Ids
<1>2. e \in Release /\ e.mails = 1 /\ e.status = releases[n].status
      /\ e.contact = releases[n].contact /\ e.lapse = releases[n].lapse /\ e.stale = releases[n].stale
  <2>1. e = [releases[n] EXCEPT !.mails = 1]
    BY <1>1
  <2> HIDE DEF e
  <2> QED BY <1>1, <2>1 DEF Release
<1> HIDE DEF e
<1>3. /\ releases' \in [Ids -> Release]
      /\ \A r \in Ids : /\ releases'[r].status = releases[r].status
                        /\ releases'[r].contact = releases[r].contact
                        /\ releases'[r].lapse = releases[r].lapse
                        /\ releases'[r].stale = releases[r].stale
                        /\ releases'[r].mails = IF r = n THEN 1 ELSE releases[r].mails
  <2> HIDE DEF n
  <2> QED BY <1>1, <1>2 DEF SwitchInv, SwitchTypeOK
<1>4. Granted(n)
  BY <1>1 DEF Granted
<1> HIDE DEF n
<1>5. \A v \in Hosts : sweeper'[v].pc = "idle"
  BY <1>1, NoneTypes, SweepMoves
<1>6. SwitchTypeOK' /\ OneSweeps' /\ \A v \in Hosts : SweepKnows(v)'
  <2>1. sweeper' \in [Hosts -> SwitchSweep]
    BY <1>1, NoneTypes, SweepMoves
  <2> QED BY <1>1, <1>3, <1>5, <2>1 DEF SwitchInv, SwitchTypeOK, OneSweeps, SweepKnows
<1>7. \A r \in Ids : ReleaseKept(r)'
  <2> SUFFICES ASSUME NEW r \in Ids PROVE ReleaseKept(r)'
    OBVIOUS
  <2>1. ReleaseKept(r) /\ (r = n => ~(r > armed))
    BY <1>1, Types DEF SwitchInv
  <2> QED BY <1>1, <1>3, <2>1 DEF ReleaseKept
<1>8. \A t \in Tabs : CallKnows(t)'
  BY <1>1 DEF SwitchInv, CallKnows
<1>9. \A r \in Ids : Granted(r)' => Granted(r)
  BY <1>3, <1>4, <1>5 DEF Granted
<1>10. GrantsEnd'
  BY <1>1, <1>3, <1>9 DEF SwitchInv, GrantsEnd, Suspended, StandingDown
<1>11. LapsesDiffer'
  <2>1. NoneStale' => NoneStale
    BY <1>3 DEF NoneStale
  <2> SUFFICES ASSUME ~lost, NoneStale', NEW r \in Ids, NEW q \in Ids, Granted(r)', r < q, q <= armed
               PROVE  releases'[r].lapse # releases'[q].lapse
    BY <1>1 DEF LapsesDiffer
  <2> QED BY <1>3, <1>9, <2>1 DEF SwitchInv, LapsesDiffer
<1>12. /\ With("pending")' = With("pending") /\ With("active")' = With("active")
       /\ LiveReleases' = LiveReleases
  BY <1>3 DEF With, LiveReleases
<1>13. ContactKept'
  BY <1>1, <1>3, <1>12 DEF SwitchInv, ContactKept, With
<1>14. OffDisarms'
  <2>1. \A r \in LiveReleases : \A t \in Tabs : GetsAt(t, r) => GetsAt(t, r)'
    BY <1>1, <1>12 DEF GetsAt, Disarming
  <2>2. LiveReleases \subseteq Ids
    BY DEF LiveReleases, With
  <2> QED BY <1>1, <1>3, <1>12, <2>1, <2>2 DEF SwitchInv, OffDisarms
<1>15. GrantSeesOff' /\ GrantSeesCheckIn'
  BY <1>5 DEF GrantSeesOff, GrantSeesCheckIn, MayGrant
<1> QED BY <1>6, <1>7, <1>8, <1>10, <1>11, <1>13, <1>14, <1>15 DEF SwitchInv

\* The steps of a sweep keep the invariant.
LEMMA SweepKeeps ==
    ASSUME SwitchAssumption, SwitchInv, NEW w \in Hosts, SwitchSweepStep(w) \/ SweepDies(w)
    PROVE  SwitchInv'
<1>1. CASE SweepGrants(w)
  <2>1. CASE sweeper[w].release \notin With("pending")
    BY <1>1, <2>1, Types, SweepStops DEF SweepGrants
  <2> QED BY <1>1, <2>1, SweepGrantsKeeps
<1>2. CASE SweepDies(w)
  <2>1. events' \in 0 .. MaxEvents
    BY <1>2, Types DEF SweepDies, SwitchAssumption
  <2> QED BY <1>2, <2>1, SweepStops DEF SweepDies
<1> QED BY <1>1, <1>2, SweepBeginsKeeps, SweepFindsKeeps, SweepCancelsKeeps, SweepArmsKeeps,
           SweepMailsKeeps DEF SwitchSweepStep
-----------------------------------------------------------------------------
(* The requests of the owner.                                              *)

\* A request that begins has read the row, and written nothing.
LEMMA AskKeeps ==
    ASSUME SwitchAssumption, SwitchInv, NEW t \in Tabs, NEW c \in Call, AskSwitch(t, c),
           c.pc # "idle", c.ids \subseteq 1 .. armed,
           c.pc = "save" => \/ c.op = "checkIn" /\ c.row.checkedIn = clock
                               /\ c.row.enabled = c.base.enabled /\ c.row.contact = c.base.contact
                            \/ c.op = "update" /\ c.row.checkedIn = c.base.checkedIn
                               /\ c.row.suspended = c.base.suspended,
           c.pc \in {"save", "saveRevoked"}
    PROVE  SwitchInv'
<1>1. /\ AwaitCall(t, c) /\ UNCHANGED <<clock, switch, releases, armed, sweeper, lost>>
      /\ calls[t].pc = "idle" /\ events' \in 0 .. MaxEvents
  BY NoneTypes, Types DEF AskSwitch, SwitchAssumption
<1>2. calls'[t] = c
  BY <1>1, CallMoves
<1>3. CallKnows(t)'
  BY <1>1, <1>2 DEF CallKnows
<1> QED BY <1>1, <1>3, CallOnly

\* A check-in takes the time it begins at.
LEMMA CheckInKeeps ==
    ASSUME SwitchAssumption, SwitchInv, NEW t \in Tabs, CheckIn(t)
    PROVE  SwitchInv'
<1> DEFINE row == [switch EXCEPT !.checkedIn = clock, !.suspended = -1]
           c == [NoCall EXCEPT !.pc = "save", !.op = "checkIn", !.base = switch, !.row = row]
<1>1. /\ row \in Switch /\ row.checkedIn = clock /\ row.enabled = switch.enabled
      /\ row.contact = switch.contact
  <2>1. clock \in Times /\ -1 \in Times
    BY Types DEF Times
  <2> QED BY <2>1, Types DEF Switch
<1> HIDE DEF row
<1>2. c \in Call /\ c.pc = "save" /\ c.op = "checkIn" /\ c.base = switch /\ c.row = row /\ c.ids = {}
  BY <1>1, NoneTypes, Types DEF Call
<1>3. AskSwitch(t, c)
  BY DEF CheckIn, row
<1> HIDE DEF c
<1> QED BY <1>1, <1>2, <1>3, AskKeeps

\* An update keeps the check-in and the suppression it read.
LEMMA UpdateKeeps ==
    ASSUME SwitchAssumption, SwitchInv, NEW t \in Tabs, NEW enabled \in BOOLEAN,
           NEW contact \in Contacts, Update(t, enabled, contact)
    PROVE  SwitchInv'
<1> DEFINE row == [switch EXCEPT !.enabled = enabled, !.contact = contact]
           c == [NoCall EXCEPT !.pc = "save", !.op = "update", !.base = switch, !.row = row]
<1>1. row \in Switch /\ row.checkedIn = switch.checkedIn /\ row.suspended = switch.suspended
  BY Types DEF Switch
<1> HIDE DEF row
<1>2. c \in Call /\ c.pc = "save" /\ c.op = "update" /\ c.base = switch /\ c.row = row /\ c.ids = {}
  BY <1>1, NoneTypes, Types DEF Call
<1>3. AskSwitch(t, c)
  BY DEF Update, row
<1> HIDE DEF c
<1> QED BY <1>1, <1>2, <1>3, AskKeeps

\* A revocation knows its release.
LEMMA RevokeKeeps ==
    ASSUME SwitchAssumption, SwitchInv, NEW t \in Tabs, NEW r \in Ids, Revoke(t, r)
    PROVE  SwitchInv'
<1> DEFINE c == [NoCall EXCEPT !.pc = "saveRevoked", !.op = "revoke", !.ids = {r}]
<1>1. c \in Call /\ c.pc = "saveRevoked" /\ c.ids = {r}
  BY NoneTypes DEF Call
<1>2. AskSwitch(t, c)
  BY DEF Revoke
<1> HIDE DEF c
<1>3. r \in 1 .. armed
  <2>1. ReleaseKept(r) /\ releases[r].status \in {"pending", "active"}
    BY DEF SwitchInv, Revoke, LiveReleases, With
  <2> QED BY <2>1, Types DEF ReleaseKept, Ids
<1> QED BY <1>1, <1>2, <1>3, AskKeeps

\* What With gives is of releases that have been armed.
LEMMA WithArmed ==
    ASSUME SwitchAssumption, SwitchInv, NEW status \in {"pending", "active"}
    PROVE  With(status) \subseteq 1 .. armed /\ With(status) \in SUBSET Ids
<1> SUFFICES ASSUME NEW r \in With(status) PROVE r \in 1 .. armed /\ r \in Ids
  OBVIOUS
<1>1. r \in Ids /\ ReleaseKept(r) /\ releases[r].status = status
  BY DEF With, SwitchInv
<1> QED BY <1>1, Types DEF ReleaseKept, Ids

\* A check-in finds what is pending, all of it.
LEMMA FindPendingKeeps ==
    ASSUME SwitchAssumption, SwitchInv, NEW t \in Tabs, FindPending(t)
    PROVE  SwitchInv'
<1> DEFINE c == IF With("pending") = {} THEN NoCall
                ELSE [calls[t] EXCEPT !.pc = "savePending", !.ids = With("pending")]
<1>1. /\ calls[t].pc = "findPending" /\ calls[t] \in Call /\ CallKnows(t) /\ AwaitCall(t, c)
      /\ UNCHANGED <<clock, switch, releases, armed, sweeper, events, lost>>
  BY Types DEF FindPending, SwitchInv
<1>2. /\ c \in Call /\ c.ids \subseteq 1 .. armed
      /\ \/ c = NoCall /\ c.pc = "idle" /\ With("pending") = {}
         \/ c.pc = "savePending" /\ c.ids = With("pending") /\ c.op = "checkIn"
  <2>1. CASE With("pending") = {}
    BY <2>1, NoneTypes
  <2>2. CASE With("pending") # {}
    BY <1>1, <2>2, WithArmed DEF CallKnows, Call
  <2> QED BY <2>1, <2>2
<1> HIDE DEF c
<1>3. calls'[t] = c
  BY <1>1, <1>2, CallMoves
<1>4. CallKnows(t)'
  BY <1>1, <1>2, <1>3 DEF CallKnows
<1> QED BY <1>1, <1>2, <1>4, Types, CallOnly

\* An update that disables finds what is active, all of it.
LEMMA FindActiveKeeps ==
    ASSUME SwitchAssumption, SwitchInv, NEW t \in Tabs, FindActive(t)
    PROVE  SwitchInv'
<1> DEFINE c == IF With("active") # {}
                THEN [calls[t] EXCEPT !.pc = "revokeActive", !.ids = With("active")]
                ELSE IF calls[t].any THEN [calls[t] EXCEPT !.pc = "readSwitch"]
                ELSE NoCall
<1>1. /\ calls[t].pc = "findActive" /\ calls[t] \in Call /\ CallKnows(t) /\ AwaitCall(t, c)
      /\ UNCHANGED <<clock, switch, releases, armed, sweeper, events, lost>>
  BY Types DEF FindActive, SwitchInv
<1>2. /\ c \in Call /\ c.ids \subseteq 1 .. armed
      /\ \/ c = NoCall /\ c.pc = "idle" /\ With("active") = {}
         \/ c.pc = "readSwitch" /\ With("active") = {}
         \/ c.pc = "revokeActive" /\ c.ids = With("active") /\ c.op = "update"
  <2>1. CASE With("active") # {}
    BY <1>1, <2>1, WithArmed DEF CallKnows, Call
  <2>2. CASE With("active") = {} /\ calls[t].any
    BY <1>1, <2>2 DEF CallKnows, Call
  <2>3. CASE With("active") = {} /\ ~calls[t].any
    BY <2>3, NoneTypes
  <2> QED BY <2>1, <2>2, <2>3
<1> HIDE DEF c
<1>3. calls'[t] = c
  BY <1>1, <1>2, CallMoves
<1>4. CallKnows(t)'
  BY <1>1, <1>2, <1>3 DEF CallKnows
<1> QED BY <1>1, <1>2, <1>4, Types, CallOnly

\* A stand-down reads the switch it is going to suppress.
LEMMA ReadSwitchKeeps ==
    ASSUME SwitchAssumption, SwitchInv, NEW t \in Tabs, ReadSwitch(t)
    PROVE  SwitchInv'
<1> DEFINE row == [NoSwitch EXCEPT !.checkedIn = switch.checkedIn]
           c == [calls[t] EXCEPT !.pc = "suppress", !.ids = {}, !.any = FALSE, !.row = row]
<1>1. /\ calls[t].pc = "readSwitch" /\ calls[t] \in Call
      /\ UNCHANGED <<clock, switch, releases, armed, sweeper, events, lost>>
  BY Types DEF ReadSwitch
<1>2. row \in Switch /\ row.checkedIn = switch.checkedIn
  BY NoneTypes, Types DEF Switch
<1> HIDE DEF row
<1>3. c \in Call /\ c.pc = "suppress" /\ c.ids = {} /\ c.row = row
  BY <1>1, <1>2 DEF Call
<1>4. AwaitCall(t, c)
  BY DEF ReadSwitch, row
<1> HIDE DEF c
<1>5. calls'[t] = c
  BY <1>3, <1>4, CallMoves
<1>6. CallKnows(t)'
  BY <1>1, <1>2, <1>3, <1>5 DEF CallKnows
<1> QED BY <1>1, <1>3, <1>4, <1>6, Types, CallOnly
-----------------------------------------------------------------------------
\* A release that is pending has not been granted; one that has, has come to its lapse.
LEMMA PendingNotGranted ==
    ASSUME SwitchInv, NEW r \in With("pending")
    PROVE  ~Granted(r)
<1>1. r \in Ids /\ releases[r].status = "pending" /\ ReleaseKept(r)
  BY DEF With, SwitchInv
<1>2. ASSUME NEW w \in Hosts, sweeper[w].pc = "mail", sweeper[w].release = r PROVE FALSE
  BY <1>1, <1>2 DEF SwitchInv, SweepKnows
<1> QED BY <1>1, <1>2 DEF Granted, ReleaseKept

\* The check-in cancels what it found pending, granted since or not.
LEMMA SavePendingKeeps ==
    ASSUME SwitchAssumption, SwitchInv, NEW t \in Tabs, SavePending(t)
    PROVE  SwitchInv'
<1>1. /\ calls[t].pc = "savePending" /\ CallKnows(t) /\ AwaitCall(t, NoCall)
      /\ PutReleases(calls[t].ids, "cancelled")
      /\ UNCHANGED <<clock, switch, armed, sweeper, events, lost>>
  BY DEF SavePending, SwitchInv
<1>2. calls[t].ids \in SUBSET (1 .. armed) /\ (~lost => switch.checkedIn = clock)
  BY <1>1 DEF CallKnows
<1>3. CallKnows(t)'
  <2>1. calls'[t] = NoCall
    BY <1>1, NoneTypes, CallMoves
  <2> QED BY <2>1, NoneTypes DEF CallKnows
<1>4. ~lost => \A r \in calls[t].ids : switch.checkedIn > releases[r].lapse
  <2> SUFFICES ASSUME ~lost, NEW r \in calls[t].ids PROVE switch.checkedIn > releases[r].lapse
    OBVIOUS
  <2>1. r \in Ids /\ r <= armed
    BY <1>2, Types DEF Ids
  <2>2. ReleaseKept(r)
    BY <2>1 DEF SwitchInv
  <2>3. releases[r].lapse + Interval <= clock /\ releases[r].lapse \in Int /\ clock \in Int
        /\ Interval \in Nat \ {0}
    BY <2>1, <2>2, Types DEF ReleaseKept, Times
  <2> QED BY <1>2, <2>3
<1>5. \A r \in LiveReleases \ calls[t].ids : ~GetsAt(t, r)
  BY <1>1 DEF GetsAt, Disarming
<1> QED BY <1>1, <1>2, <1>3, <1>4, <1>5, NoneTypes, Withdraws

\* The update cancels what is pending as it writes.
LEMMA CancelPendingKeeps ==
    ASSUME SwitchAssumption, SwitchInv, NEW t \in Tabs, CancelPending(t)
    PROVE  SwitchInv'
<1> DEFINE any == With("pending") # {}
           c == [calls[t] EXCEPT !.pc = "findActive", !.any = any]
<1>1. /\ calls[t].pc = "cancelPending" /\ CallKnows(t) /\ calls[t] \in Call
      /\ PutReleases(With("pending"), "cancelled") /\ AwaitCall(t, c)
      /\ UNCHANGED <<clock, switch, armed, sweeper, events, lost>>
  BY Types DEF CancelPending, SwitchInv
<1>2. c \in Call /\ c.pc = "findActive" /\ c.op = "update" /\ c.ids \subseteq 1 .. armed
  BY <1>1 DEF CallKnows, Call
<1> HIDE DEF c
<1>3. CallKnows(t)'
  <2>1. calls'[t] = c
    BY <1>1, <1>2, CallMoves
  <2> QED BY <1>1, <1>2, <2>1 DEF CallKnows
<1>4. With("pending") \in SUBSET (1 .. armed)
  BY WithArmed
<1>5. \A r \in LiveReleases \ With("pending") : r \in With("active")
  BY DEF LiveReleases
<1> QED BY <1>1, <1>2, <1>3, <1>4, <1>5, PendingNotGranted, Withdraws

\* The update revokes the active releases it has read.
LEMMA RevokeActiveKeeps ==
    ASSUME SwitchAssumption, SwitchInv, NEW t \in Tabs, RevokeActive(t)
    PROVE  SwitchInv'
<1> DEFINE won == calls[t].ids \cap With("active")
           c == IF won # {} \/ calls[t].any THEN [calls[t] EXCEPT !.pc = "readSwitch"] ELSE NoCall
<1>1. /\ calls[t].pc = "revokeActive" /\ CallKnows(t) /\ calls[t] \in Call
      /\ PutReleases(won, "revoked") /\ AwaitCall(t, c)
      /\ UNCHANGED <<clock, switch, armed, sweeper, events, lost>>
  BY Types DEF RevokeActive, SwitchInv
<1>2. /\ c \in Call /\ c.ids \subseteq 1 .. armed
      /\ \/ c.pc = "readSwitch"
         \/ c = NoCall /\ c.pc = "idle" /\ won = {}
  <2>1. CASE won # {} \/ calls[t].any
    BY <1>1, <2>1 DEF CallKnows, Call
  <2>2. CASE ~(won # {} \/ calls[t].any)
    BY <2>2, NoneTypes
  <2> QED BY <2>1, <2>2
<1> HIDE DEF c
<1>3. CallKnows(t)'
  <2>1. calls'[t] = c
    BY <1>1, <1>2, CallMoves
  <2> QED BY <1>1, <1>2, <2>1 DEF CallKnows
<1>4. won \in SUBSET (1 .. armed)
  BY WithArmed
<1>5. \A r \in LiveReleases \ won : ~GetsAt(t, r)
  BY <1>1 DEF GetsAt, Disarming
<1> HIDE DEF won
<1> QED BY <1>1, <1>2, <1>3, <1>4, <1>5, Withdraws

\* The revocation of one release.
LEMMA SaveRevokedKeeps ==
    ASSUME SwitchAssumption, SwitchInv, NEW t \in Tabs, SaveRevoked(t)
    PROVE  SwitchInv'
<1> DEFINE c == [calls[t] EXCEPT !.pc = "readSwitch"]
<1>1. /\ calls[t].pc = "saveRevoked" /\ CallKnows(t) /\ calls[t] \in Call
      /\ PutReleases(calls[t].ids, "revoked") /\ AwaitCall(t, c)
      /\ UNCHANGED <<clock, switch, armed, sweeper, events, lost>>
  BY Types DEF SaveRevoked, GotoCall, SwitchInv
<1>2. c \in Call /\ c.pc = "readSwitch" /\ c.ids = calls[t].ids /\ calls[t].ids \in SUBSET (1 .. armed)
  BY <1>1 DEF CallKnows, Call
<1> HIDE DEF c
<1>3. CallKnows(t)'
  <2>1. calls'[t] = c
    BY <1>1, <1>2, CallMoves
  <2> QED BY <1>1, <1>2, <2>1 DEF CallKnows
<1>4. \A r \in LiveReleases \ calls[t].ids : ~GetsAt(t, r)
  BY <1>1 DEF GetsAt, Disarming
<1> QED BY <1>1, <1>2, <1>3, <1>4, Withdraws
-----------------------------------------------------------------------------
\* The contact of the pending releases is synced; an update that disables goes on.
LEMMA SyncKeeps ==
    ASSUME SwitchAssumption, SwitchInv, NEW t \in Tabs, Sync(t)
    PROVE  SwitchInv'
<1> DEFINE contact == calls[t].row.contact
           c == IF calls[t].row.enabled THEN NoCall ELSE [calls[t] EXCEPT !.pc = "cancelPending"]
<1>1. /\ calls[t].pc = "sync" /\ CallKnows(t) /\ calls[t] \in Call /\ contact \in Contacts
      /\ AwaitCall(t, c)
      /\ releases' = [r \in Ids |-> IF r \in With("pending")
                                    THEN [releases[r] EXCEPT !.contact = contact] ELSE releases[r]]
      /\ UNCHANGED <<clock, switch, armed, sweeper, events, lost>>
  BY Types DEF Sync, SwitchInv, Switch
<1>2. /\ c \in Call /\ c.ids \subseteq 1 .. armed
      /\ \/ c = NoCall /\ c.pc = "idle" /\ calls[t].row.enabled
         \/ c.pc = "cancelPending" /\ c.op = "update"
  <2>1. CASE calls[t].row.enabled
    BY <2>1, NoneTypes
  <2>2. CASE ~calls[t].row.enabled
    BY <1>1, <2>2 DEF CallKnows, Call
  <2> QED BY <2>1, <2>2
<1>3. ~lost => contact = switch.contact /\ (c.pc = "idle" => switch.enabled)
  <2>1. ~lost => contact = switch.contact /\ calls[t].row.enabled = switch.enabled
    BY <1>1 DEF CallKnows
  <2> QED BY <1>2, <2>1
<1> HIDE DEF c
<1>4. /\ calls' \in [Tabs -> Call] /\ calls'[t] = c
      /\ \A u \in Tabs \ {t} : calls'[u] = calls[u]
  BY <1>1, <1>2, CallMoves
<1> HIDE DEF contact
<1>5. /\ releases' \in [Ids -> Release]
      /\ \A r \in Ids : /\ releases'[r].status = releases[r].status
                        /\ releases'[r].contact = IF r \in With("pending") THEN contact
                                                  ELSE releases[r].contact
                        /\ releases'[r].lapse = releases[r].lapse
                        /\ releases'[r].stale = releases[r].stale
                        /\ releases'[r].mails = releases[r].mails
  <2>1. ASSUME NEW r \in Ids
        PROVE  LET e == [releases[r] EXCEPT !.contact = contact] IN
               /\ e \in Release /\ e.status = releases[r].status /\ e.contact = contact
               /\ e.lapse = releases[r].lapse /\ e.stale = releases[r].stale
               /\ e.mails = releases[r].mails
    BY <1>1, Types DEF Release
  <2> QED BY <1>1, <2>1, Types
<1>6. /\ With("pending")' = With("pending") /\ With("active")' = With("active")
      /\ LiveReleases' = LiveReleases /\ LiveReleases \subseteq Ids /\ With("pending") \subseteq Ids
  BY <1>5 DEF With, LiveReleases
<1>7. SwitchTypeOK' /\ OneSweeps'
  BY <1>1, <1>4, <1>5 DEF SwitchInv, SwitchTypeOK, OneSweeps
<1>8. \A w \in Hosts : SweepKnows(w)'
  <2> SUFFICES ASSUME NEW w \in Hosts PROVE SweepKnows(w)'
    OBVIOUS
  <2>1. SweepKnows(w) /\ \A r \in 1 .. armed : r \in Ids
    BY Types DEF SwitchInv, Ids
  <2> QED BY <1>1, <1>5, <1>6, <2>1 DEF SweepKnows, Lapsed, Suspended
<1>9. \A r \in Ids : ReleaseKept(r)'
  BY <1>1, <1>5 DEF SwitchInv, ReleaseKept
<1>10. \A u \in Tabs : CallKnows(u)'
  <2>1. CallKnows(t)'
    BY <1>1, <1>2, <1>4 DEF CallKnows
  <2> QED BY <1>1, <1>4, <2>1 DEF SwitchInv, CallKnows
<1>11. \A r \in Ids : Granted(r)' => Granted(r)
  BY <1>1, <1>5 DEF Granted
<1>12. StandingDown => StandingDown'
  BY <1>1, <1>4 DEF StandingDown
<1>13. GrantsEnd'
  BY <1>1, <1>5, <1>11, <1>12 DEF SwitchInv, GrantsEnd, Suspended
<1>14. LapsesDiffer'
  <2>1. NoneStale' => NoneStale
    BY <1>5 DEF NoneStale
  <2> SUFFICES ASSUME ~lost, NoneStale', NEW r \in Ids, NEW q \in Ids, Granted(r)', r < q, q <= armed
               PROVE  releases'[r].lapse # releases'[q].lapse
    BY <1>1 DEF LapsesDiffer
  <2> QED BY <1>5, <1>11, <2>1 DEF SwitchInv, LapsesDiffer
<1>15. ContactKept'
  BY <1>1, <1>3, <1>5, <1>6 DEF ContactKept
<1>16. OffDisarms'
  <2> SUFFICES ASSUME ~lost, ~switch.enabled, NEW r \in LiveReleases, ~releases[r].stale
               PROVE  \E u \in Tabs : GetsAt(u, r)'
    BY <1>1, <1>5, <1>6 DEF OffDisarms
  <2>1. calls'[t].pc = "cancelPending"
    BY <1>2, <1>3, <1>4
  <2> QED BY <2>1 DEF GetsAt, Disarming
<1>17. GrantSeesOff'
  BY <1>1, <1>2, <1>3, <1>4 DEF GrantSeesOff, Disarming
<1>18. GrantSeesCheckIn'
  <2>1. \A w \in Hosts : MayGrant(w)' => MayGrant(w)
    BY <1>1 DEF MayGrant, Lapsed
  <2> QED BY <1>1, <1>4, <1>6, <2>1 DEF SwitchInv, GrantSeesCheckIn, Lapsed
<1> QED BY <1>7, <1>8, <1>9, <1>10, <1>13, <1>14, <1>15, <1>16, <1>17, <1>18 DEF SwitchInv

\* What has been granted has been armed, for a lapse that had come.
LEMMA GrantedArmed ==
    ASSUME SwitchAssumption, SwitchInv, NEW r \in Ids, Granted(r)
    PROVE  r <= armed /\ releases[r].lapse < clock
<1>1. ReleaseKept(r) /\ r \in Nat
  BY DEF SwitchInv, Ids
<1>2. ASSUME NEW w \in Hosts, sweeper[w].pc = "mail", sweeper[w].release = r PROVE r <= armed
  BY <1>2, Types DEF SwitchInv, SweepKnows
<1>3. r <= armed
  BY <1>1, <1>2, Types DEF Granted, ReleaseKept
<1>4. releases[r].lapse + Interval <= clock
  BY <1>1, <1>3 DEF ReleaseKept
<1>5. releases[r].lapse \in Int /\ Interval \in Nat \ {0} /\ clock \in Int
  BY Types DEF Times
<1> QED BY <1>3, <1>4, <1>5

\* The whole row is saved: what another request wrote since is lost, and remembered as such.
LEMMA SaveSwitchKeeps ==
    ASSUME SwitchAssumption, SwitchInv, NEW t \in Tabs, SaveSwitch(t)
    PROVE  SwitchInv'
<1> DEFINE c == calls[t]
           d == IF c.op = "checkIn"
                THEN [c EXCEPT !.pc = "findPending", !.row = NoSwitch, !.base = NoSwitch]
                ELSE [c EXCEPT !.pc = "sync", !.base = NoSwitch]
<1>1. /\ c.pc = "save" /\ c \in Call /\ CallKnows(t) /\ switch' = c.row /\ c.row \in Switch
      /\ lost' = (lost \/ switch # c.base \/ (c.op = "update" /\ Running({"update"}) # {t}))
      /\ AwaitCall(t, d) /\ UNCHANGED <<clock, releases, armed, sweeper, events>>
      /\ c.ids \subseteq 1 .. armed
  BY Types DEF SaveSwitch, SwitchInv, CallKnows
<1>2. /\ \/ c.op = "checkIn" /\ switch'.checkedIn = clock
            /\ switch'.enabled = c.base.enabled /\ switch'.contact = c.base.contact
         \/ c.op = "update" /\ switch'.checkedIn = c.base.checkedIn
            /\ switch'.suspended = c.base.suspended
  BY <1>1 DEF CallKnows
<1>3. /\ d \in Call /\ d.ids = c.ids /\ d.op = c.op
      /\ c.op = "checkIn" => d.pc = "findPending"
      /\ c.op = "update" => d.pc = "sync" /\ d.row = c.row
  <2>1. CASE c.op = "checkIn"
    BY <1>1, <2>1, NoneTypes DEF Call
  <2>2. CASE c.op # "checkIn"
    BY <1>1, <2>2, NoneTypes DEF Call
  <2> QED BY <2>1, <2>2
<1>4. /\ ~lost' => ~lost /\ switch = c.base /\ (c.op = "update" => Running({"update"}) = {t})
      /\ lost' \in BOOLEAN
  BY <1>1
<1> HIDE DEF d
<1>5. /\ calls' \in [Tabs -> Call] /\ calls'[t] = d
      /\ \A u \in Tabs \ {t} : calls'[u] = calls[u]
  BY <1>1, <1>3, CallMoves
<1> HIDE DEF c
<1>6. ~lost' => /\ switch.checkedIn <= switch'.checkedIn /\ switch'.checkedIn <= clock
                /\ \/ switch'.checkedIn = clock
                   \/ switch'.checkedIn = switch.checkedIn /\ switch'.suspended = switch.suspended
  <2>1. ~lost => switch.checkedIn <= clock
    BY DEF SwitchInv, GrantsEnd
  <2>2. switch.checkedIn \in Int /\ clock \in Int
    BY Types DEF Times
  <2> QED BY <1>2, <1>4, <2>1, <2>2
<1>7. SwitchTypeOK' /\ OneSweeps'
  BY <1>1, <1>4, <1>5 DEF SwitchInv, SwitchTypeOK, OneSweeps
<1>8. \A w \in Hosts : SweepKnows(w)'
  <2> SUFFICES ASSUME NEW w \in Hosts PROVE SweepKnows(w)'
    OBVIOUS
  <2>1. SweepKnows(w) /\ sweeper'[w] = sweeper[w] /\ LiveReleases' = LiveReleases
    BY <1>1 DEF SwitchInv, LiveReleases, With
  <2>2. ~lost' /\ sweeper[w].pc \in {"find", "arm"} => sweeper[w].switch.checkedIn <= switch'.checkedIn
    <3>1. ~lost /\ sweeper[w].pc \in {"find", "arm"} => sweeper[w].switch.checkedIn <= switch.checkedIn
      BY <2>1 DEF SweepKnows
    <3>2. sweeper[w].switch.checkedIn \in Int /\ switch.checkedIn \in Int /\ switch'.checkedIn \in Int
      BY <1>1, Types DEF Times, Switch
    <3> QED BY <1>4, <1>6, <3>1, <3>2
  <2> QED BY <1>1, <2>1, <2>2 DEF SweepKnows, Lapsed, Suspended
<1>9. \A r \in Ids : ReleaseKept(r)'
  <2> SUFFICES ASSUME NEW r \in Ids PROVE ReleaseKept(r)'
    OBVIOUS
  <2>1. ReleaseKept(r)
    BY DEF SwitchInv
  <2>2. releases[r].lapse \in Int /\ switch.checkedIn \in Int /\ switch'.checkedIn \in Int
    BY <1>1, Types DEF Times, Switch
  <2>3. ~lost' /\ r <= armed => releases[r].lapse <= switch'.checkedIn
    BY <1>4, <1>6, <2>1, <2>2 DEF ReleaseKept
  <2> QED BY <1>1, <2>1, <2>3 DEF ReleaseKept
<1>10. ~lost' /\ c.op = "update" => \A u \in Tabs \ {t} : calls[u].pc # "sync"
  <2> SUFFICES ASSUME ~lost', c.op = "update", NEW u \in Tabs \ {t}, calls[u].pc = "sync" PROVE FALSE
    OBVIOUS
  <2>1. calls[u].op = "update" /\ calls[u] # NoCall
    BY NoneTypes DEF SwitchInv, CallKnows
  <2>2. u \in Running({"update"})
    BY <2>1 DEF Running
  <2> QED BY <1>4, <2>2
<1>11. \A u \in Tabs : CallKnows(u)'
  <2>1. CallKnows(t)'
    BY <1>1, <1>2, <1>3, <1>5 DEF CallKnows
  <2>2. ASSUME NEW u \in Tabs \ {t} PROVE CallKnows(u)'
    <3>1. CallKnows(u) /\ calls'[u] = calls[u]
      BY <1>5 DEF SwitchInv
    <3>2. calls[u].pc = "sync" /\ ~lost' =>
             calls[u].row.contact = switch'.contact /\ calls[u].row.enabled = switch'.enabled
      BY <1>2, <1>4, <1>10, <3>1 DEF CallKnows
    <3> QED BY <1>1, <1>4, <1>6, <3>1, <3>2 DEF CallKnows
  <2> QED BY <2>1, <2>2
<1>12. \A r \in Ids : Granted(r)' => Granted(r)
  BY <1>1 DEF Granted
<1>13. StandingDown => StandingDown'
  <2>1. calls[t].pc = "save"
    BY <1>1 DEF c
  <2> QED BY <1>5, <2>1 DEF StandingDown
<1>14. GrantsEnd'
  <2> SUFFICES ASSUME ~lost'
               PROVE  /\ switch'.checkedIn <= clock
                      /\ \A r \in Ids : Granted(r) =>
                            \/ releases[r].status = "active" \/ switch'.checkedIn > releases[r].lapse
                            \/ Suspended(switch)' \/ StandingDown'
    BY <1>1, <1>12 DEF GrantsEnd
  <2>1. CASE switch'.checkedIn = clock
    <3>1. \A r \in Ids : Granted(r) => releases[r].lapse < clock
      BY GrantedArmed
    <3>2. \A r \in Ids : releases[r].lapse \in Int
      BY Types DEF Times
    <3>3. clock \in Int
      BY Types
    <3> QED BY <1>6, <2>1, <3>1, <3>2, <3>3
  <2>2. CASE switch'.checkedIn = switch.checkedIn /\ switch'.suspended = switch.suspended
    BY <1>4, <1>6, <1>13, <2>2 DEF SwitchInv, GrantsEnd, Suspended
  <2> QED BY <1>6, <2>1, <2>2
<1>15. LapsesDiffer'
  BY <1>1, <1>4, <1>12 DEF SwitchInv, LapsesDiffer, NoneStale
<1>16. /\ With("pending")' = With("pending") /\ With("active")' = With("active")
       /\ LiveReleases' = LiveReleases
  BY <1>1 DEF With, LiveReleases
<1>17. calls[t].pc = "save" /\ \A u \in Tabs \ {t} : calls'[u] = calls[u]
  BY <1>1, <1>5 DEF c
<1>18. CASE c.op = "checkIn"
  <2>1. /\ calls'[t].pc = "findPending" /\ switch'.enabled = c.base.enabled
        /\ switch'.contact = c.base.contact
    BY <1>2, <1>3, <1>5, <1>18
  <2>2. ContactKept'
    BY <1>1, <1>4, <1>16, <1>17, <2>1 DEF SwitchInv, ContactKept
  <2>3. OffDisarms'
    <3>1. \A r \in Ids : \A u \in Tabs : GetsAt(u, r) => GetsAt(u, r)'
      BY <1>16, <1>17 DEF GetsAt, Disarming
    <3>2. LiveReleases \subseteq Ids
      BY DEF LiveReleases, With
    <3> QED BY <1>1, <1>4, <1>16, <2>1, <3>1, <3>2 DEF SwitchInv, OffDisarms
  <2>4. GrantSeesOff'
    BY <1>1, <1>4, <1>16, <1>17, <2>1 DEF SwitchInv, GrantSeesOff, Disarming
  <2>5. GrantSeesCheckIn'
    BY <2>1 DEF GrantSeesCheckIn
  <2> QED BY <1>7, <1>8, <1>9, <1>11, <1>14, <1>15, <2>2, <2>3, <2>4, <2>5 DEF SwitchInv
<1>19. CASE c.op = "update"
  <2>1. calls'[t].pc = "sync"
    BY <1>3, <1>5, <1>19
  <2>2. ContactKept'
    BY <2>1 DEF ContactKept
  <2>3. OffDisarms' /\ GrantSeesOff'
    BY <2>1 DEF OffDisarms, GrantSeesOff, GetsAt, Disarming
  <2>4. ~lost' => switch'.checkedIn = switch.checkedIn
    BY <1>2, <1>4, <1>19
  <2>5. GrantSeesCheckIn'
    <3>1. \A w \in Hosts : MayGrant(w)' => MayGrant(w)
      BY <1>1 DEF MayGrant, Lapsed
    <3> QED BY <1>1, <1>4, <1>16, <1>17, <2>4, <3>1 DEF SwitchInv, GrantSeesCheckIn, Lapsed
  <2> QED BY <1>7, <1>8, <1>9, <1>11, <1>14, <1>15, <2>2, <2>3, <2>5 DEF SwitchInv
<1> QED BY <1>2, <1>18, <1>19

\* The stand-down writes its suppression.
LEMMA SuppressKeeps ==
    ASSUME SwitchAssumption, SwitchInv, NEW t \in Tabs, Suppress(t)
    PROVE  SwitchInv'
<1> DEFINE at == calls[t].row.checkedIn
<1>1. /\ calls[t].pc = "suppress" /\ CallKnows(t) /\ AwaitCall(t, NoCall)
      /\ switch' = [switch EXCEPT !.suspended = at] /\ at \in Times /\ switch \in Switch
      /\ UNCHANGED <<clock, releases, armed, sweeper, events, lost>>
  BY Types DEF Suppress, SwitchInv
<1>2. ~lost => at = switch.checkedIn \/ switch.checkedIn = clock
  BY <1>1 DEF CallKnows
<1> HIDE DEF at
<1>3. /\ switch' \in Switch /\ switch'.suspended = at /\ switch'.checkedIn = switch.checkedIn
      /\ switch'.enabled = switch.enabled /\ switch'.contact = switch.contact
  BY <1>1 DEF Switch
<1>4. /\ calls' \in [Tabs -> Call] /\ calls'[t] = NoCall
      /\ \A u \in Tabs \ {t} : calls'[u] = calls[u]
  BY <1>1, NoneTypes, CallMoves
<1>5. SwitchTypeOK' /\ OneSweeps'
  BY <1>1, <1>3, <1>4 DEF SwitchInv, SwitchTypeOK, OneSweeps
<1>6. \A w \in Hosts : SweepKnows(w)'
  BY <1>1, <1>3 DEF SwitchInv, SweepKnows, LiveReleases, With, Lapsed, Suspended
<1>7. \A r \in Ids : ReleaseKept(r)'
  BY <1>1, <1>3 DEF SwitchInv, ReleaseKept
<1>8. \A u \in Tabs : CallKnows(u)'
  <2>1. CallKnows(t)'
    BY <1>4, NoneTypes DEF CallKnows
  <2> QED BY <1>1, <1>3, <1>4, <2>1 DEF SwitchInv, CallKnows
<1>9. \A r \in Ids : Granted(r)' => Granted(r)
  BY <1>1 DEF Granted
<1>10. GrantsEnd'
  <2>1. CASE at = switch.checkedIn
    <3>1. Suspended(switch)'
      BY <1>3, <2>1 DEF Suspended
    <3> QED BY <1>1, <1>3, <3>1 DEF SwitchInv, GrantsEnd
  <2>2. CASE switch.checkedIn = clock
    <3>1. \A r \in Ids : Granted(r)' => releases[r].lapse < clock
      BY <1>9, GrantedArmed
    <3>2. (\A r \in Ids : releases[r].lapse \in Int) /\ clock \in Int
      BY Types DEF Times
    <3> QED BY <1>1, <1>3, <2>2, <3>1, <3>2 DEF GrantsEnd
  <2> QED BY <1>1, <1>2, <2>1, <2>2 DEF GrantsEnd
<1>11. LapsesDiffer'
  BY <1>1, <1>9 DEF SwitchInv, LapsesDiffer, NoneStale
<1>12. /\ With("pending")' = With("pending") /\ With("active")' = With("active")
       /\ LiveReleases' = LiveReleases /\ LiveReleases \subseteq Ids
  BY <1>1 DEF With, LiveReleases
<1>13. ContactKept'
  BY <1>1, <1>3, <1>4, <1>12 DEF SwitchInv, ContactKept
<1>14. OffDisarms'
  <2>1. \A r \in Ids : \A u \in Tabs : GetsAt(u, r) => GetsAt(u, r)'
    BY <1>1, <1>4, <1>12 DEF GetsAt, Disarming
  <2> QED BY <1>1, <1>3, <1>12, <2>1 DEF SwitchInv, OffDisarms
<1>15. GrantSeesOff'
  BY <1>1, <1>3, <1>4, <1>12 DEF SwitchInv, GrantSeesOff, Disarming
<1>16. GrantSeesCheckIn'
  <2>1. \A w \in Hosts : MayGrant(w)' => MayGrant(w)
    BY <1>1 DEF MayGrant, Lapsed
  <2> QED BY <1>1, <1>3, <1>4, <1>12, <2>1 DEF SwitchInv, GrantSeesCheckIn, Lapsed
<1> QED BY <1>5, <1>6, <1>7, <1>8, <1>10, <1>11, <1>13, <1>14, <1>15, <1>16 DEF SwitchInv

\* The steps of a request keep the invariant.
LEMMA CallsKeep ==
    ASSUME SwitchAssumption, SwitchInv, NEW t \in Tabs, CallStep(t)
    PROVE  SwitchInv'
BY SaveSwitchKeeps, FindPendingKeeps, SavePendingKeeps, SyncKeeps, CancelPendingKeeps,
   FindActiveKeeps, RevokeActiveKeeps, SaveRevokedKeeps, ReadSwitchKeeps, SuppressKeeps
   DEF CallStep

\* Time passes between sweeps and requests.
LEMMA TickKeeps ==
    ASSUME SwitchAssumption, SwitchInv, SwitchTick
    PROVE  SwitchInv'
<1>1. /\ clock' = clock + 1 /\ clock' \in 0 .. MaxTime /\ clock \in Int
      /\ \A w \in Hosts : sweeper[w].pc = "idle"
      /\ \A t \in Tabs : calls[t].pc = "idle"
      /\ UNCHANGED <<switch, releases, armed, sweeper, calls, events, lost>>
  BY NoneTypes, Types DEF SwitchTick
<1>2. SwitchTypeOK' /\ OneSweeps'
  BY <1>1 DEF SwitchInv, SwitchTypeOK, OneSweeps
<1>3. \A w \in Hosts : SweepKnows(w)'
  BY <1>1 DEF SweepKnows
<1>4. \A r \in Ids : ReleaseKept(r)'
  <2> SUFFICES ASSUME NEW r \in Ids PROVE ReleaseKept(r)'
    OBVIOUS
  <2>1. ReleaseKept(r) /\ releases[r].lapse \in Int /\ Interval \in Int
    BY Types DEF SwitchInv, Times
  <2> QED BY <1>1, <2>1 DEF ReleaseKept
<1>5. \A t \in Tabs : CallKnows(t)'
  BY <1>1 DEF SwitchInv, CallKnows
<1>6. GrantsEnd'
  <2>1. switch.checkedIn \in Int
    BY Types DEF Times
  <2> QED BY <1>1, <2>1 DEF SwitchInv, GrantsEnd, Granted, Suspended, StandingDown
<1>7. LapsesDiffer' /\ ContactKept' /\ OffDisarms'
  BY <1>1 DEF SwitchInv, LapsesDiffer, NoneStale, Granted, ContactKept, OffDisarms, With,
              LiveReleases, GetsAt, Disarming
<1>8. GrantSeesOff' /\ GrantSeesCheckIn'
  BY <1>1 DEF GrantSeesOff, GrantSeesCheckIn, MayGrant
<1> QED BY <1>2, <1>3, <1>4, <1>5, <1>6, <1>7, <1>8 DEF SwitchInv
-----------------------------------------------------------------------------
\* The invariant holds at the start.
LEMMA SwitchInitInv == ASSUME SwitchAssumption, SwitchInit PROVE SwitchInv
<1>1. SwitchTypeOK
  <2>1. 0 \in 0 .. MaxTime /\ 0 \in 0 .. MaxReleases /\ 0 \in 0 .. MaxEvents
    BY DEF SwitchAssumption
  <2>2. releases \in [Ids -> Release] /\ sweeper \in [Hosts -> SwitchSweep] /\ calls \in [Tabs -> Call]
    BY NoneTypes DEF SwitchInit
  <2>3. switch \in Switch
    BY NoneTypes DEF SwitchInit
  <2> QED BY <2>1, <2>2, <2>3 DEF SwitchInit, SwitchTypeOK
<1>2. /\ \A w \in Hosts : sweeper[w].pc = "idle"
      /\ \A t \in Tabs : calls[t] = NoCall /\ calls[t].pc = "idle" /\ calls[t].ids = {}
      /\ \A r \in Ids : releases[r].status = "none" /\ releases[r].mails = 0 /\ ~releases[r].stale
      /\ armed = 0 /\ switch.checkedIn = 0 /\ clock = 0
  BY NoneTypes DEF SwitchInit, NoRelease
<1>3. OneSweeps /\ (\A w \in Hosts : SweepKnows(w)) /\ (\A t \in Tabs : CallKnows(t))
  BY <1>2 DEF OneSweeps, SweepKnows, CallKnows
<1>4. \A r \in Ids : ReleaseKept(r)
  BY <1>2 DEF ReleaseKept, Ids
<1>5. \A r \in Ids : ~Granted(r)
  BY <1>2 DEF Granted
<1>6. With("pending") = {} /\ LiveReleases = {}
  BY <1>2 DEF With, LiveReleases
<1>7. GrantsEnd /\ LapsesDiffer /\ ContactKept /\ OffDisarms /\ GrantSeesOff /\ GrantSeesCheckIn
  BY <1>2, <1>5, <1>6 DEF GrantsEnd, LapsesDiffer, ContactKept, OffDisarms, GrantSeesOff,
                          GrantSeesCheckIn
<1> QED BY <1>1, <1>3, <1>4, <1>7 DEF SwitchInv

\* Every step keeps it.
LEMMA SwitchStep == ASSUME SwitchAssumption, SwitchInv, [SwitchNext]_switchVars PROVE SwitchInv'
<1>1. CASE UNCHANGED switchVars
  <2>1. SwitchTypeOK' /\ OneSweeps'
    BY <1>1 DEF switchVars, SwitchInv, SwitchTypeOK, OneSweeps
  <2>2. \A w \in Hosts : SweepKnows(w)'
    BY <1>1 DEF switchVars, SwitchInv, SweepKnows, LiveReleases, With, Lapsed, Suspended
  <2>3. (\A r \in Ids : ReleaseKept(r)') /\ (\A t \in Tabs : CallKnows(t)')
    BY <1>1 DEF switchVars, SwitchInv, ReleaseKept, CallKnows
  <2>4. GrantsEnd' /\ LapsesDiffer'
    BY <1>1 DEF switchVars, SwitchInv, GrantsEnd, LapsesDiffer, Granted, NoneStale, Suspended,
                StandingDown
  <2>5. ContactKept' /\ OffDisarms' /\ GrantSeesOff' /\ GrantSeesCheckIn'
    BY <1>1 DEF switchVars, SwitchInv, ContactKept, OffDisarms, GrantSeesOff, GrantSeesCheckIn,
                With, LiveReleases, GetsAt, Disarming, MayGrant, Lapsed
  <2> QED BY <2>1, <2>2, <2>3, <2>4, <2>5 DEF SwitchInv
<1>2. CASE SwitchTick
  BY <1>2, TickKeeps
<1>3. ASSUME NEW w \in Hosts, SwitchSweepStep(w) \/ SweepDies(w) PROVE SwitchInv'
  BY <1>3, SweepKeeps
<1>4. ASSUME NEW t \in Tabs, CallStep(t) \/ CheckIn(t) PROVE SwitchInv'
  BY <1>4, CallsKeep, CheckInKeeps
<1>5. ASSUME NEW t \in Tabs, NEW e \in BOOLEAN, NEW k \in Contacts, Update(t, e, k)
      PROVE  SwitchInv'
  BY <1>5, UpdateKeeps
<1>6. ASSUME NEW t \in Tabs, NEW r \in Ids, Revoke(t, r) PROVE SwitchInv'
  BY <1>6, RevokeKeeps
<1> HIDE DEF SwitchInv
<1> QED BY <1>1, <1>2, <1>3, <1>4, <1>5, <1>6 DEF SwitchNext

\* The invariant holds in every reachable state.
THEOREM SwitchInvariant == SwitchSpec => []SwitchInv
<1>1. SwitchInit => SwitchInv
  BY SwitchAssumption, SwitchInitInv
<1>2. SwitchInv /\ [SwitchNext]_switchVars => SwitchInv'
  BY SwitchAssumption, SwitchStep
<1> QED BY <1>1, <1>2, PTL DEF SwitchSpec

\* Every variable keeps to its type.
THEOREM SwitchTypeCorrect == SwitchSpec => []SwitchTypeOK
<1>1. SwitchInv => SwitchTypeOK
  BY DEF SwitchInv
<1> QED BY <1>1, SwitchInvariant, PTL

\* StoodDown: on a switch that is off nothing stays live, once the requests are answered.
THEOREM DisablingStandsDown == SwitchSpec => []StoodDown
<1>1. SwitchInv => StoodDown
  <2> SUFFICES ASSUME SwitchInv, ~switch.enabled, Running({"checkIn", "update", "revoke"}) = {}, ~lost,
                      NEW r \in LiveReleases
               PROVE  releases[r].stale
    BY DEF StoodDown
  <2>1. \A t \in Tabs : calls[t] = NoCall
    BY SwitchAssumption, Types DEF Running, Call
  <2>2. \A t \in Tabs : ~GetsAt(t, r)
    BY <2>1, SwitchAssumption, NoneTypes DEF GetsAt, Disarming
  <2> QED BY <2>2 DEF SwitchInv, OffDisarms
<1> QED BY <1>1, SwitchInvariant, PTL

\* NamesCurrentContact: a release that is to be mailed names the contact the switch names.
THEOREM MailsWhomTheSwitchNames == SwitchSpec => []NamesCurrentContact
<1>1. SwitchInv => NamesCurrentContact
  <2> SUFFICES ASSUME SwitchInv, Running({"update"}) = {}, ~lost, NEW r \in With("pending")
               PROVE  releases[r].stale \/ releases[r].contact = switch.contact
    BY DEF NamesCurrentContact
  <2>1. ASSUME NEW t \in Tabs, calls[t].pc = "sync" PROVE FALSE
    <3>1. calls[t].op = "update" /\ calls[t] # NoCall
      BY <2>1, SwitchAssumption, NoneTypes DEF SwitchInv, CallKnows
    <3> QED BY <3>1 DEF Running
  <2> QED BY <2>1 DEF SwitchInv, ContactKept
<1> QED BY <1>1, SwitchInvariant, PTL

\* OneMailPerLapse: however often sweeps die and replicas boot, a lapse is mailed of once.
THEOREM MailsOncePerLapse == SwitchSpec => []OneMailPerLapse
<1>1. SwitchInv => OneMailPerLapse
  <2> SUFFICES ASSUME SwitchInv, ~lost, NoneStale PROVE
          /\ \A r \in Ids : releases[r].mails <= 1
          /\ \A r, s \in Ids : releases[r].mails + releases[s].mails = 2
                               /\ releases[r].lapse = releases[s].lapse => r = s
    BY DEF OneMailPerLapse
  <2>1. \A r \in Ids : releases[r].mails <= 1
    BY DEF SwitchInv, ReleaseKept
  <2>2. ASSUME NEW r \in Ids, NEW s \in Ids, releases[r].mails + releases[s].mails = 2,
               releases[r].lapse = releases[s].lapse, r # s
        PROVE  FALSE
    <3>1. releases[r].mails \in Nat /\ releases[s].mails \in Nat
      BY SwitchAssumption, Types DEF Release
    <3>2. releases[r].mails # 0 /\ releases[s].mails # 0
      BY <2>1, <2>2, <3>1
    <3>3. Granted(r) /\ Granted(s) /\ r <= armed /\ s <= armed
      BY <3>2, SwitchAssumption, GrantedArmed DEF Granted
    <3>4. r < s \/ s < r
      BY <2>2 DEF Ids
    <3> QED BY <2>2, <3>3, <3>4 DEF SwitchInv, LapsesDiffer
  <2> QED BY <2>1, <2>2
<1> QED BY <1>1, SwitchInvariant, PTL
-----------------------------------------------------------------------------
\* Only a grant makes a release active.
LEMMA OnlyGrants ==
    ASSUME SwitchAssumption, SwitchInv, SwitchNext, NEW r \in Ids,
           releases[r].status # "active", releases'[r].status = "active"
    PROVE  \E w \in Hosts : sweeper[w].pc = "grant" /\ r \in With("pending")
<1>1. ASSUME NEW R, NEW status \in {"cancelled", "revoked"}, PutReleases(R, status)
      PROVE  FALSE
  BY <1>1, Puts
<1>2. ASSUME NEW w \in Hosts, SwitchSweepStep(w) \/ SweepDies(w)
      PROVE  sweeper[w].pc = "grant" /\ r \in With("pending")
  <2>1. CASE SweepGrants(w)
    <3>1. PutReleases({sweeper[w].release}, "active") /\ sweeper[w].release \in With("pending")
      BY <2>1 DEF SweepGrants
    <3>2. r = sweeper[w].release
      BY <3>1, Puts
    <3> QED BY <2>1, <3>1, <3>2 DEF SweepGrants
  <2>2. ~SweepCancels(w)
    BY <1>1 DEF SweepCancels
  <2>3. ~SweepArms(w)
    <3> SUFFICES ASSUME SweepArms(w) PROVE FALSE
      OBVIOUS
    <3> DEFINE e == [status |-> "pending", contact |-> sweeper[w].switch.contact,
                     graceUntil |-> sweeper[w].at + Grace, lapse |-> sweeper[w].switch.checkedIn,
                     stale |-> sweeper[w].switch # switch \/ StandingDown, mails |-> 0]
    <3>1. releases' = [releases EXCEPT ![armed + 1] = e] /\ e.status = "pending"
      BY DEF SweepArms
    <3> HIDE DEF e
    <3> QED BY <3>1 DEF SwitchInv, SwitchTypeOK
  <2>4. ~SweepMails(w)
    <3> SUFFICES ASSUME SweepMails(w) PROVE FALSE
      OBVIOUS
    <3> DEFINE n == sweeper[w].release
               e == [releases[n] EXCEPT !.mails = @ + 1]
    <3>1. releases' = [releases EXCEPT ![n] = e] /\ releases \in [Ids -> Release]
      BY DEF SweepMails, SwitchInv, SwitchTypeOK
    <3>2. r = n => e.status = releases[r].status
      BY Types DEF Release
    <3> HIDE DEF e, n
    <3> QED BY <3>1, <3>2
  <2> QED BY <1>2, <2>1, <2>2, <2>3, <2>4 DEF SwitchSweepStep, SweepBegins, SweepFinds, SweepDies
<1>3. ASSUME NEW t \in Tabs, CallStep(t) PROVE FALSE
  <2>1. ~Sync(t)
    <3> SUFFICES ASSUME Sync(t) PROVE FALSE
      OBVIOUS
    <3>1. releases[r] \in Release
      BY Types
    <3> QED BY <3>1 DEF Sync, Release
  <2>2. ~SavePending(t) /\ ~CancelPending(t) /\ ~RevokeActive(t) /\ ~SaveRevoked(t)
    BY <1>1 DEF SavePending, CancelPending, RevokeActive, SaveRevoked
  <2> QED BY <1>3, <2>1, <2>2 DEF CallStep, SaveSwitch, FindPending, FindActive, ReadSwitch,
             Suppress
<1>4. ASSUME NEW t \in Tabs, NEW c, AskSwitch(t, c) PROVE FALSE
  BY <1>4 DEF AskSwitch
<1> QED BY <1>2, <1>3, <1>4 DEF SwitchNext, SwitchTick, CheckIn, Update, Revoke

\* A grant is of a lapse that is not over, on a switch that is on.
LEMMA GrantIsDue ==
    ASSUME SwitchAssumption, SwitchInv, SwitchNext, NEW r \in Ids,
           releases[r].status # "active", releases'[r].status = "active", ~lost
    PROVE  /\ Lapsed(switch, clock) \/ Running({"checkIn"}) # {}
           /\ switch.enabled \/ Running({"update"}) # {}
<1>1. PICK w \in Hosts : sweeper[w].pc = "grant" /\ r \in With("pending")
  BY OnlyGrants
<1>2. \A t \in Tabs : calls[t].pc # "idle" => calls[t] # NoCall
  BY NoneTypes
<1>3. CASE ~Lapsed(switch, clock)
  <2>1. PICK t \in Tabs : calls[t].pc \in {"findPending", "savePending"}
    BY <1>1, <1>3 DEF SwitchInv, GrantSeesCheckIn, MayGrant
  <2>2. calls[t].op = "checkIn"
    BY <2>1 DEF SwitchInv, CallKnows
  <2>3. Running({"checkIn"}) # {}
    BY <1>2, <2>1, <2>2 DEF Running
  <2>4. ~switch.enabled => Running({"update"}) # {}
    <3> SUFFICES ASSUME ~switch.enabled PROVE Running({"update"}) # {}
      OBVIOUS
    <3>1. PICK u \in Tabs : Disarming(u)
      BY <1>1 DEF SwitchInv, GrantSeesOff
    <3> QED BY <1>2, <3>1 DEF SwitchInv, CallKnows, Disarming, Running
  <2> QED BY <2>3, <2>4
<1>4. CASE Lapsed(switch, clock)
  <2>1. ~switch.enabled => Running({"update"}) # {}
    <3> SUFFICES ASSUME ~switch.enabled PROVE Running({"update"}) # {}
      OBVIOUS
    <3>1. PICK u \in Tabs : Disarming(u)
      BY <1>1 DEF SwitchInv, GrantSeesOff
    <3> QED BY <1>2, <3>1 DEF SwitchInv, CallKnows, Disarming, Running
  <2> QED BY <1>4, <2>1
<1> QED BY <1>3, <1>4

\* GrantedWhileDue: a grant is of a switch that is on and has lapsed, or a request that says
\* otherwise is still under way.
THEOREM GrantsWhileDue == SwitchSpec => GrantedWhileDue
<1>1. SwitchInv /\ [SwitchNext]_switchVars =>
         [\A r \in Ids :
            releases[r].status # "active" /\ releases'[r].status = "active" /\ ~lost =>
              /\ Lapsed(switch, clock) \/ Running({"checkIn"}) # {}
              /\ switch.enabled \/ Running({"update"}) # {}]_switchVars
  BY SwitchAssumption, GrantIsDue
<1> QED BY <1>1, SwitchInvariant, PTL DEF SwitchSpec, GrantedWhileDue
-----------------------------------------------------------------------------
(***************************************************************************)
(* The nudges: the inductive invariant                                     *)
(***************************************************************************)
\* One sweep at a time.
OneNudgeSweep == \A v, w \in Sweepers : sweeps[v].pc # "idle" /\ sweeps[w].pc # "idle" => v = w

\* The sweep at hand has notified about c and not yet marked it.
MarkDue(c) == \E w \in Sweepers : sweeps[w].pc \in {"find", "mark"} /\ sweeps[w].on = c

\* What was sent about c is marked or about to be, and what a sweep has before it
\* was not sent.
SentOnce(c) ==
    /\ told.sent[c] \in {0, 1}
    /\ told.sent[c] = 1 => states[c].nudgedAt # -1 \/ MarkDue(c)
    /\ \A w \in Sweepers :
          /\ sweeps[w].pc \in {"loop", "send", "find", "mark"} /\ c \in sweeps[w].due
                => told.sent[c] = 0
          /\ sweeps[w].pc = "send" /\ sweeps[w].on = c => told.sent[c] = 0
          /\ sweeps[w].pc \in {"send", "find", "mark"} => sweeps[w].on \notin sweeps[w].due

\* That, of every commitment the named exceptions do not touch.
Sends == \A c \in Commitments : told.died \/ c \in told.crossed \/ SentOnce(c)

NudgeInv == NudgeTypeOK /\ OneNudgeSweep /\ Sends
-----------------------------------------------------------------------------
\* The empty row, sweep and request are ones.
LEMMA NoneTyped ==
    ASSUME NudgeAssumption
    PROVE  NoState \in State /\ NoNudgeSweep \in NudgeSweep /\ NoAct \in Act
<1>1. SomeCommitment \in Commitments
  BY DEF NudgeAssumption, SomeCommitment
<1>2. NoState \in State
  BY DEF NudgeAssumption, NoState, State, Stamp
<1>3. NoNudgeSweep \in NudgeSweep
  BY <1>1, <1>2 DEF NudgeAssumption, NoNudgeSweep, NudgeSweep
<1>4. NoAct \in Act
  BY <1>2 DEF NoAct, Act
<1> QED
  BY <1>2, <1>3, <1>4

\* Creating a row leaves its mark, and the other rows.
LEMMA Creates ==
    ASSUME NEW d \in Commitments, states \in [Commitments -> State],
           states' = [states EXCEPT ![d].exists = TRUE]
    PROVE  /\ states' \in [Commitments -> State]
           /\ \A c \in Commitments : states'[c].nudgedAt = states[c].nudgedAt
           /\ \A c \in Commitments \ {d} : states'[c] = states[c]
<1> DEFINE row == [states[d] EXCEPT !.exists = TRUE]
<1>1. row \in State /\ row.nudgedAt = states[d].nudgedAt
  BY DEF State
<1>2. states' = [states EXCEPT ![d] = row]
  OBVIOUS
<1> HIDE DEF row
<1> QED
  BY <1>1, <1>2

\* The invariant holds at the start.
LEMMA NudgeStarts == ASSUME NudgeAssumption, NudgeInit PROVE NudgeInv
<1>1. NudgeTypeOK
  BY NoneTyped DEF NudgeInit, NudgeTypeOK, NudgeAssumption, NudgeHistory
<1>2. OneNudgeSweep /\ Sends
  BY DEF NudgeInit, OneNudgeSweep, Sends, SentOnce, NoNudgeSweep
<1> QED
  BY <1>1, <1>2 DEF NudgeInv

\* What Onward leaves: nothing, or the rest of what was due.
LEMMA GoesOnward ==
    ASSUME NudgeAssumption, NudgeTypeOK, NEW w \in Sweepers, NEW s \in NudgeSweep, Onward(w, s)
    PROVE  /\ sweeps' \in [Sweepers -> NudgeSweep]
           /\ \A v \in Sweepers \ {w} : sweeps'[v] = sweeps[v]
           /\ sweeps'[w].pc \in {"idle", "loop"}
           /\ \A c \in sweeps'[w].due : c \in s.due /\ s.states[c].nudgedAt = -1
<1> DEFINE rest == {c \in s.due : Wanted(s.states[c], s.at)}
           new == IF rest = {} THEN NoNudgeSweep
                  ELSE [NoNudgeSweep EXCEPT !.pc = "loop", !.at = s.at, !.due = rest,
                                            !.states = s.states]
<1>1. sweeps' = [sweeps EXCEPT ![w] = new]
  BY DEF Onward
<1>2. rest \subseteq Commitments
  BY DEF NudgeSweep
<1>3. new \in NudgeSweep /\ new.pc \in {"idle", "loop"} /\ new.due \subseteq rest
  BY <1>2, NoneTyped DEF NudgeSweep, NoNudgeSweep
<1>4. \A c \in rest : c \in s.due /\ s.states[c].nudgedAt = -1
  BY DEF Wanted
<1> HIDE DEF rest, new
<1> QED
  BY <1>1, <1>3, <1>4 DEF NudgeTypeOK

\* A sweep begins while no other runs.
LEMMA EvaluateStep ==
    ASSUME NudgeAssumption, NudgeInv, NEW w \in Sweepers, Evaluate(w) PROVE NudgeInv'
<1> DEFINE due == {c \in open : DueAt[c] <= time}
           new == [NoNudgeSweep EXCEPT !.pc = "states", !.at = time, !.due = due]
<1>1. sweeps' = [sweeps EXCEPT ![w] = new] /\ \A v \in Sweepers : sweeps[v].pc = "idle"
  BY DEF Evaluate
<1>2. new \in NudgeSweep /\ new.pc = "states"
  BY NoneTyped DEF NudgeInv, NudgeTypeOK, NudgeSweep, NoNudgeSweep
<1> HIDE DEF new
<1>3. NudgeTypeOK'
  BY <1>1, <1>2 DEF NudgeInv, NudgeTypeOK, Evaluate
<1>4. OneNudgeSweep'
  BY <1>1, <1>2 DEF NudgeInv, NudgeTypeOK, OneNudgeSweep
<1>5. Sends'
  BY <1>1, <1>2 DEF NudgeInv, NudgeTypeOK, Sends, SentOnce, MarkDue, Evaluate
<1> QED
  BY <1>3, <1>4, <1>5 DEF NudgeInv

\* It drops who is marked in the rows it reads: what remains was not sent.
LEMMA StatesStep ==
    ASSUME NudgeAssumption, NudgeInv, NEW w \in Sweepers, StatesByCommitment(w) PROVE NudgeInv'
<1> DEFINE s == [sweeps[w] EXCEPT !.states = states]
<1>1. s \in NudgeSweep /\ s.states = states
  BY DEF NudgeInv, NudgeTypeOK, NudgeSweep
<1>2. Onward(w, s)
  BY DEF StatesByCommitment
<1> HIDE DEF s
<1>3. /\ sweeps' \in [Sweepers -> NudgeSweep]
      /\ \A v \in Sweepers \ {w} : sweeps'[v] = sweeps[v]
      /\ sweeps'[w].pc \in {"idle", "loop"}
      /\ \A c \in sweeps'[w].due : c \in s.due /\ states[c].nudgedAt = -1
  BY <1>1, <1>2, GoesOnward DEF NudgeInv
<1>4. \A v \in Sweepers \ {w} : sweeps[v].pc = "idle"
  BY DEF NudgeInv, OneNudgeSweep, StatesByCommitment
<1>5. NudgeTypeOK'
  BY <1>3 DEF NudgeInv, NudgeTypeOK, StatesByCommitment
<1>6. OneNudgeSweep'
  BY <1>3, <1>4 DEF OneNudgeSweep
<1>7. Sends'
  BY <1>3, <1>4 DEF NudgeInv, NudgeTypeOK, Sends, SentOnce, MarkDue, StatesByCommitment
<1> QED
  BY <1>5, <1>6, <1>7 DEF NudgeInv

\* A commitment that is held back leaves the list unsent,
LEMMA HoldBackStep ==
    ASSUME NudgeAssumption, NudgeInv, NEW w \in Sweepers, NEW d \in Commitments, HoldBack(w, d)
    PROVE  NudgeInv'
<1> DEFINE s == [sweeps[w] EXCEPT !.due = @ \ {d}]
<1>1. s \in NudgeSweep /\ s.due = sweeps[w].due \ {d}
  BY DEF NudgeInv, NudgeTypeOK, NudgeSweep
<1>2. Onward(w, s)
  BY DEF HoldBack
<1> HIDE DEF s
<1>3. /\ sweeps' \in [Sweepers -> NudgeSweep]
      /\ \A v \in Sweepers \ {w} : sweeps'[v] = sweeps[v]
      /\ sweeps'[w].pc \in {"idle", "loop"}
      /\ \A c \in sweeps'[w].due : c \in sweeps[w].due
  BY <1>1, <1>2, GoesOnward DEF NudgeInv
<1>4. \A v \in Sweepers \ {w} : sweeps[v].pc = "idle"
  BY DEF NudgeInv, OneNudgeSweep, HoldBack
<1>5. NudgeTypeOK'
  BY <1>3 DEF NudgeInv, NudgeTypeOK, HoldBack
<1>6. OneNudgeSweep'
  BY <1>3, <1>4 DEF OneNudgeSweep
<1>7. Sends'
  BY <1>3, <1>4 DEF NudgeInv, NudgeTypeOK, Sends, SentOnce, MarkDue, HoldBack
<1> QED
  BY <1>5, <1>6, <1>7 DEF NudgeInv

\* one that is let through leaves it before it is sent.
LEMMA NotifyStep ==
    ASSUME NudgeAssumption, NudgeInv, NEW w \in Sweepers, NEW d \in Commitments, Notify(w, d)
    PROVE  NudgeInv'
<1> DEFINE new == [sweeps[w] EXCEPT !.pc = "send", !.on = d, !.due = @ \ {d}]
<1>1. sweeps' = [sweeps EXCEPT ![w] = new] /\ sweeps[w].pc = "loop" /\ d \in sweeps[w].due
  BY DEF Notify
<1>2. new \in NudgeSweep /\ new.pc = "send" /\ new.on = d /\ new.due = sweeps[w].due \ {d}
  BY DEF NudgeInv, NudgeTypeOK, NudgeSweep
<1> HIDE DEF new
<1>3. NudgeTypeOK'
  <2>1. UNCHANGED <<time, open, states, deliveries, acts, moves, told>>
    BY DEF Notify
  <2>2. sweeps' \in [Sweepers -> NudgeSweep]
    BY <1>1, <1>2 DEF NudgeInv, NudgeTypeOK
  <2> QED
    BY <2>1, <2>2 DEF NudgeInv, NudgeTypeOK
<1>4. OneNudgeSweep'
  BY <1>1, <1>2 DEF NudgeInv, NudgeTypeOK, OneNudgeSweep
<1>5. \A v \in Sweepers \ {w} : sweeps'[v] = sweeps[v] /\ sweeps[v].pc = "idle"
  BY <1>1 DEF NudgeInv, NudgeTypeOK, OneNudgeSweep
<1>6. sweeps'[w] = new /\ UNCHANGED <<states, told>>
  BY <1>1 DEF NudgeInv, NudgeTypeOK, Notify
<1>7. Sends'
  <2> SUFFICES ASSUME NEW c \in Commitments, ~told.died, c \notin told.crossed
               PROVE  SentOnce(c)'
    BY <1>6 DEF Sends
  <2>1. SentOnce(c)
    BY DEF NudgeInv, Sends
  <2>2. ~MarkDue(c)
    BY <1>1, <1>5 DEF MarkDue
  <2> QED
    BY <1>1, <1>2, <1>5, <1>6, <2>1, <2>2 DEF SentOnce
<1> QED
  BY <1>3, <1>4, <1>7 DEF NudgeInv

\* A notification is the first, and its mark is due.
LEMMA SendStep ==
    ASSUME NudgeAssumption, NudgeInv, NEW w \in Sweepers, Send(w) PROVE NudgeInv'
<1> DEFINE d == sweeps[w].on
           new == [sweeps[w] EXCEPT !.pc = "find"]
<1>1. sweeps' = [sweeps EXCEPT ![w] = new] /\ sweeps[w].pc = "send" /\ d \in Commitments
  BY DEF Send, NudgeInv, NudgeTypeOK, NudgeSweep
<1>2. new \in NudgeSweep /\ new.pc = "find" /\ new.on = d /\ new.due = sweeps[w].due
  BY DEF NudgeInv, NudgeTypeOK, NudgeSweep
<1>3. /\ told'.sent \in [Commitments -> Nat] /\ told'.crossed = told.crossed
      /\ told'.died = told.died /\ told' \in NudgeHistory
      /\ \A c \in Commitments : \/ told'.sent[c] = told.sent[c]
                                \/ c = d /\ told'.sent[c] = told.sent[c] + 1
  <2> told \in NudgeHistory
    BY DEF NudgeInv, NudgeTypeOK
  <2>1. CASE told' = [told EXCEPT !.sent[d] = @ + 1]
    BY <1>1, <2>1 DEF NudgeHistory
  <2>2. CASE told' = [told EXCEPT !.tried = @ \cup {d}]
    BY <1>1, <2>2 DEF NudgeHistory
  <2> QED
    BY <2>1, <2>2 DEF Send
<1>4. moves' \in 0 .. MaxMoves /\ deliveries' \in Seq(0 .. LastTick)
  <2> /\ moves \in 0 .. MaxMoves /\ deliveries \in Seq(0 .. LastTick)
      /\ time \in 0 .. LastTick /\ MaxMoves \in Nat /\ LastTick \in Nat
    BY DEF NudgeInv, NudgeTypeOK, NudgeAssumption
  <2>1. CASE deliveries' = Append(deliveries, time) /\ UNCHANGED moves
    BY <2>1
  <2>2. CASE Move /\ UNCHANGED deliveries
    BY <2>2 DEF Move
  <2> QED
    BY <2>1, <2>2 DEF Send
<1>5. UNCHANGED <<time, open, states, acts>>
  BY DEF Send
<1> HIDE DEF new, d
<1>6. NudgeTypeOK'
  BY <1>1, <1>2, <1>3, <1>4, <1>5 DEF NudgeInv, NudgeTypeOK
<1>7. OneNudgeSweep'
  BY <1>1, <1>2 DEF NudgeInv, NudgeTypeOK, OneNudgeSweep
<1>8. \A v \in Sweepers \ {w} : sweeps'[v] = sweeps[v] /\ sweeps[v].pc = "idle"
  BY <1>1 DEF NudgeInv, NudgeTypeOK, OneNudgeSweep
<1>9. sweeps'[w] = new /\ sweeps[w].on = d
  BY <1>1 DEF NudgeInv, NudgeTypeOK, d
<1>10. Sends'
  <2> SUFFICES ASSUME NEW c \in Commitments, ~told'.died, c \notin told'.crossed
               PROVE  SentOnce(c)'
    BY DEF Sends
  <2>1. SentOnce(c)
    BY <1>3 DEF NudgeInv, Sends
  <2>2. CASE c = d
    BY <1>1, <1>2, <1>3, <1>5, <1>8, <1>9, <2>1, <2>2 DEF SentOnce, MarkDue
  <2>3. CASE c # d
    BY <1>1, <1>2, <1>3, <1>5, <1>8, <1>9, <2>1, <2>3 DEF SentOnce, MarkDue
  <2> QED
    BY <2>2, <2>3
<1> QED
  BY <1>6, <1>7, <1>10 DEF NudgeInv

\* The row is read again, and created if there is none.
LEMMA FindStateStep ==
    ASSUME NudgeAssumption, NudgeInv, NEW w \in Sweepers, FindState(w) PROVE NudgeInv'
<1> DEFINE d == sweeps[w].on
           new == [sweeps[w] EXCEPT !.pc = "mark", !.row = states'[d]]
<1>1. sweeps' = [sweeps EXCEPT ![w] = new] /\ sweeps[w].pc = "find" /\ d \in Commitments
  BY DEF FindState, NudgeInv, NudgeTypeOK, NudgeSweep
<1>2. /\ states' \in [Commitments -> State]
      /\ \A c \in Commitments : states'[c].nudgedAt = states[c].nudgedAt
  <2> states \in [Commitments -> State] /\ states' = [states EXCEPT ![d].exists = TRUE]
    BY DEF FindState, FindOrCreate, NudgeInv, NudgeTypeOK
  <2> QED
    BY <1>1, Creates
<1>3. new \in NudgeSweep /\ new.pc = "mark" /\ new.on = d /\ new.due = sweeps[w].due
  BY <1>1, <1>2 DEF NudgeInv, NudgeTypeOK, NudgeSweep
<1>4. UNCHANGED <<time, open, deliveries, acts, moves, told>>
  BY DEF FindState
<1>5. sweeps[w].on = d
  OBVIOUS
<1> HIDE DEF new, d
<1>6. NudgeTypeOK'
  BY <1>1, <1>2, <1>3, <1>4 DEF NudgeInv, NudgeTypeOK
<1>7. OneNudgeSweep'
  BY <1>1, <1>3 DEF NudgeInv, NudgeTypeOK, OneNudgeSweep
<1>8. /\ \A v \in Sweepers \ {w} : sweeps'[v] = sweeps[v] /\ sweeps[v].pc = "idle"
      /\ sweeps'[w] = new
  BY <1>1 DEF NudgeInv, NudgeTypeOK, OneNudgeSweep
<1>9. Sends'
  <2> SUFFICES ASSUME NEW c \in Commitments, ~told.died, c \notin told.crossed
               PROVE  SentOnce(c)'
    BY <1>4 DEF Sends
  <2>1. SentOnce(c)
    BY DEF NudgeInv, Sends
  <2>2. MarkDue(c)' = MarkDue(c)
    BY <1>1, <1>3, <1>5, <1>8 DEF MarkDue
  <2> QED
    BY <1>1, <1>2, <1>3, <1>4, <1>5, <1>8, <2>1, <2>2 DEF SentOnce
<1> QED
  BY <1>6, <1>7, <1>9 DEF NudgeInv

\* The mark is written, whatever the row was when it was read.
LEMMA MarkStep ==
    ASSUME NudgeAssumption, NudgeInv, NEW w \in Sweepers, Mark(w) PROVE NudgeInv'
<1> DEFINE s == sweeps[w]
           d == s.on
           row == [s.row EXCEPT !.nudgedAt = s.at]
<1>1. s \in NudgeSweep /\ d \in Commitments /\ s.pc = "mark" /\ Onward(w, s)
  BY DEF Mark, NudgeInv, NudgeTypeOK, NudgeSweep
<1>2. row \in State /\ row.nudgedAt # -1
  BY <1>1 DEF NudgeSweep, State, Stamp, NudgeAssumption
<1>3. /\ states' = [states EXCEPT ![d] = row]
      /\ told'.sent = told.sent /\ told'.died = told.died /\ told' \in NudgeHistory
      /\ told.crossed \subseteq told'.crossed
  BY <1>1 DEF Mark, SaveState, NudgeInv, NudgeTypeOK, NudgeHistory
<1>4. UNCHANGED <<time, open, deliveries, acts, moves>>
  BY DEF Mark
<1>5. sweeps[w] = s
  OBVIOUS
<1> HIDE DEF s, d, row
<1>6. /\ sweeps' \in [Sweepers -> NudgeSweep]
      /\ \A v \in Sweepers \ {w} : sweeps'[v] = sweeps[v]
      /\ sweeps'[w].pc \in {"idle", "loop"}
      /\ \A c \in sweeps'[w].due : c \in s.due
  BY <1>1, GoesOnward DEF NudgeInv
<1>7. \A v \in Sweepers \ {w} : sweeps[v].pc = "idle"
  BY <1>1, <1>5 DEF NudgeInv, OneNudgeSweep
<1>8. NudgeTypeOK'
  BY <1>1, <1>2, <1>3, <1>4, <1>6 DEF NudgeInv, NudgeTypeOK
<1>9. OneNudgeSweep'
  BY <1>6, <1>7 DEF OneNudgeSweep
<1>10. Sends'
  <2> SUFFICES ASSUME NEW c \in Commitments, ~told'.died, c \notin told'.crossed
               PROVE  SentOnce(c)'
    BY DEF Sends
  <2>1. SentOnce(c)
    BY <1>3 DEF NudgeInv, Sends
  <2>2. states'[c].nudgedAt # -1 \/ (states'[c] = states[c] /\ c # d)
    BY <1>2, <1>3 DEF NudgeInv, NudgeTypeOK
  <2>3. MarkDue(c) => c = d
    BY <1>5, <1>7 DEF MarkDue, d
  <2> QED
    BY <1>1, <1>3, <1>5, <1>6, <1>7, <2>1, <2>2, <2>3 DEF SentOnce
<1> QED
  BY <1>8, <1>9, <1>10 DEF NudgeInv

\* A sweep that dies before its mark is the exception the property names.
LEMMA DieStep ==
    ASSUME NudgeAssumption, NudgeInv, NEW w \in Sweepers, Die(w) PROVE NudgeInv'
<1> told \in NudgeHistory /\ told' = [told EXCEPT !.died = TRUE]
  BY DEF NudgeInv, NudgeTypeOK, Die
<1>4. told' \in NudgeHistory
  BY DEF NudgeHistory
<1>1. NudgeTypeOK'
  BY <1>4, NoneTyped DEF NudgeInv, NudgeTypeOK, Die, Move, NudgeAssumption
<1>2. OneNudgeSweep'
  BY DEF NudgeInv, NudgeTypeOK, OneNudgeSweep, Die, NoNudgeSweep
<1>3. Sends'
  BY DEF NudgeInv, NudgeTypeOK, NudgeHistory, Sends, Die
<1> QED
  BY <1>1, <1>2, <1>3 DEF NudgeInv

\* A write of the user to the row of d keeps the invariant if it keeps the stored
\* mark, takes the notification back, or is noted as crossed.
LEMMA UserSaves ==
    ASSUME NudgeAssumption, NudgeInv, NudgeTypeOK', NEW d \in Commitments,
           UNCHANGED sweeps, told'.died = told.died, told.crossed \subseteq told'.crossed,
           \A c \in Commitments \ {d} : /\ states'[c] = states[c]
                                        /\ told'.sent[c] = told.sent[c],
           \/ d \in told'.crossed
           \/ states'[d].nudgedAt = states[d].nudgedAt /\ told'.sent[d] = told.sent[d]
           \/ told'.sent[d] = 0
    PROVE  NudgeInv'
<1>1. OneNudgeSweep'
  BY DEF NudgeInv, OneNudgeSweep
<1>2. Sends'
  <2> SUFFICES ASSUME NEW c \in Commitments, ~told'.died, c \notin told'.crossed
               PROVE  SentOnce(c)'
    BY DEF Sends
  <2>1. SentOnce(c)
    BY DEF NudgeInv, Sends
  <2>2. MarkDue(c)' = MarkDue(c)
    BY DEF MarkDue
  <2> QED
    BY <2>1, <2>2 DEF SentOnce
<1> QED
  BY <1>1, <1>2 DEF NudgeInv

\* A request of the user finds or creates the row,
LEMMA BeginStep ==
    ASSUME NudgeAssumption, NudgeInv, NEW d \in Commitments,
           NEW what \in {"dismiss", "snooze"}, Begin(d, what)
    PROVE  NudgeInv'
<1>1. /\ states' = [states EXCEPT ![d].exists = TRUE]
      /\ states' \in [Commitments -> State]
      /\ states'[d].nudgedAt = states[d].nudgedAt
      /\ \A c \in Commitments \ {d} : states'[c] = states[c]
  <2> states \in [Commitments -> State] /\ states' = [states EXCEPT ![d].exists = TRUE]
    BY DEF Begin, FindOrCreate, NudgeInv, NudgeTypeOK
  <2> QED
    BY Creates
<1>2. acts' \in [Commitments -> Act]
  BY <1>1 DEF Begin, NudgeInv, NudgeTypeOK, Act
<1>3. NudgeTypeOK'
  BY <1>1, <1>2 DEF Begin, Move, NudgeInv, NudgeTypeOK, NudgeAssumption
<1>4. UNCHANGED <<sweeps, told>>
  BY DEF Begin
<1> QED
  BY <1>1, <1>3, <1>4, UserSaves

\* a dismissal keeps the mark it has read, or has crossed another save,
LEMMA DismissStep ==
    ASSUME NudgeAssumption, NudgeInv, NEW d \in Commitments, Dismiss(d) PROVE NudgeInv'
<1> DEFINE row == [acts[d].row EXCEPT !.dismissed = TRUE]
<1>1. row \in State /\ row.nudgedAt = acts[d].row.nudgedAt
  <2> acts[d].row \in State
    BY DEF NudgeInv, NudgeTypeOK, Act
  <2> QED
    BY DEF State
<1>2. states' = [states EXCEPT ![d] = row]
  BY DEF Dismiss
<1>3. told' = [told EXCEPT !.crossed = IF states[d] # acts[d].row THEN @ \cup {d} ELSE @]
  BY DEF Dismiss
<1> HIDE DEF row
<1>4. NudgeTypeOK'
  <2>1. told' \in NudgeHistory
    <3> told \in NudgeHistory
      BY DEF NudgeInv, NudgeTypeOK
    <3> QED
      BY <1>3 DEF NudgeHistory
  <2> QED
    BY <1>1, <1>2, <2>1, NoneTyped DEF Dismiss, NudgeInv, NudgeTypeOK
<1>5. d \in told'.crossed \/ states'[d].nudgedAt = states[d].nudgedAt
  BY <1>1, <1>2, <1>3 DEF NudgeInv, NudgeTypeOK, NudgeHistory
<1>6. /\ told'.died = told.died /\ told'.sent = told.sent /\ told.crossed \subseteq told'.crossed
      /\ \A c \in Commitments \ {d} : states'[c] = states[c]
      /\ UNCHANGED sweeps
  BY <1>2, <1>3 DEF Dismiss, NudgeInv, NudgeTypeOK, NudgeHistory
<1> QED
  BY <1>4, <1>5, <1>6, UserSaves

\* and a snooze takes the notification back.
LEMMA SnoozeStep ==
    ASSUME NudgeAssumption, NudgeInv, NEW d \in Commitments, Snooze(d) PROVE NudgeInv'
<1> DEFINE row == [acts[d].row EXCEPT !.snoozedUntil = time + SnoozeTime, !.nudgedAt = -1]
<1>1. row \in State
  <2>1. acts[d].row \in State
    BY DEF NudgeInv, NudgeTypeOK, Act
  <2>2. time + SnoozeTime \in Stamp /\ -1 \in Stamp
    BY DEF NudgeInv, NudgeTypeOK, Stamp, NudgeAssumption
  <2> QED
    BY <2>1, <2>2 DEF State
<1>2. states' = [states EXCEPT ![d] = row]
  BY DEF Snooze
<1>3. PICK more \in SUBSET {d} :
         told' = [told EXCEPT !.sent[d] = 0, !.tried = @ \ {d}, !.crossed = @ \cup more]
  <2> DEFINE bad == \/ [states[d] EXCEPT !.nudgedAt = -1] # [acts[d].row EXCEPT !.nudgedAt = -1]
                    \/ \E w \in Sweepers : sweeps[w].on = d
                                           /\ sweeps[w].pc \in {"send", "find", "mark"}
  <2>1. told' = [told EXCEPT !.sent[d] = 0, !.tried = @ \ {d},
                             !.crossed = IF bad THEN @ \cup {d} ELSE @]
    BY DEF Snooze
  <2> HIDE DEF bad
  <2>2. CASE bad
    BY <2>1, <2>2
  <2>3. CASE ~bad
    <3>1. told.crossed \cup {} = told.crossed
      OBVIOUS
    <3> QED
      BY <2>1, <2>3, <3>1
  <2> QED
    BY <2>2, <2>3
<1> HIDE DEF row
<1>4. /\ told' \in NudgeHistory
      /\ told'.died = told.died /\ told'.sent[d] = 0 /\ told.crossed \subseteq told'.crossed
      /\ \A c \in Commitments \ {d} : told'.sent[c] = told.sent[c]
  BY <1>3 DEF NudgeInv, NudgeTypeOK, NudgeHistory
<1>5. NudgeTypeOK'
  BY <1>1, <1>2, <1>4, NoneTyped DEF Snooze, NudgeInv, NudgeTypeOK
<1>6. (\A c \in Commitments \ {d} : states'[c] = states[c]) /\ UNCHANGED sweeps
  BY <1>2 DEF Snooze, NudgeInv, NudgeTypeOK
<1> QED
  BY <1>4, <1>5, <1>6, UserSaves

\* Time and closed commitments touch no row.
LEMMA OtherNudgeSteps ==
    ASSUME NudgeAssumption, NudgeInv,
           \/ NudgeTick
           \/ \E c \in Commitments : Close(c)
           \/ UNCHANGED nudgeVars
    PROVE  NudgeInv'
<1>1. NudgeTypeOK'
  BY DEF NudgeInv, NudgeTypeOK, NudgeTick, Close, Move, NudgeAssumption, nudgeVars
<1>2. UNCHANGED <<states, sweeps, told>>
  BY DEF NudgeTick, Close, nudgeVars
<1>3. OneNudgeSweep' /\ Sends'
  BY <1>2 DEF NudgeInv, OneNudgeSweep, Sends, SentOnce, MarkDue
<1> QED
  BY <1>1, <1>3 DEF NudgeInv

\* Every step keeps the invariant.
LEMMA NudgeSteps ==
    ASSUME NudgeAssumption, NudgeInv, [NudgeNext]_nudgeVars PROVE NudgeInv'
<1>1. ASSUME NEW w \in Sweepers, NudgeSweepStep(w) PROVE NudgeInv'
  BY <1>1, EvaluateStep, StatesStep, SendStep, FindStateStep, MarkStep, HoldBackStep, NotifyStep
     DEF NudgeSweepStep
<1>2. ASSUME NEW w \in Sweepers, Die(w) PROVE NudgeInv'
  BY <1>2, DieStep
<1>3. ASSUME NEW c \in Commitments, ActStep(c) PROVE NudgeInv'
  BY <1>3, DismissStep, SnoozeStep DEF ActStep
<1>4. ASSUME NEW c \in Commitments, NEW what \in {"dismiss", "snooze"}, Begin(c, what)
      PROVE  NudgeInv'
  BY <1>4, BeginStep
<1> QED
  BY <1>1, <1>2, <1>3, <1>4, OtherNudgeSteps DEF NudgeNext

\* The invariant holds in every reachable state.
LEMMA NudgeHolds == NudgeSpec => []NudgeInv
<1>1. NudgeInit => NudgeInv
  BY NudgeAssumption, NudgeStarts
<1>2. NudgeInv /\ [NudgeNext]_nudgeVars => NudgeInv'
  BY NudgeAssumption, NudgeSteps
<1> QED
  BY <1>1, <1>2, PTL DEF NudgeSpec

\* NudgeTypeOK: every reachable state of the nudges is well typed.
THEOREM NudgeTypeCorrect == NudgeSpec => []NudgeTypeOK
<1>1. NudgeInv => NudgeTypeOK
  BY DEF NudgeInv
<1> QED
  BY <1>1, NudgeHolds, PTL

\* FiresOnce: a nudge is sent once until it is snoozed, whichever replica sweeps, unless a sweep
\* died before its mark or the user's save crossed it.
THEOREM NudgesFireOnce == NudgeSpec => []FiresOnce
<1>1. NudgeInv => FiresOnce
  BY DEF NudgeInv, Sends, SentOnce, FiresOnce
<1> QED
  BY <1>1, NudgeHolds, PTL
-----------------------------------------------------------------------------
(***************************************************************************)
(* The cap on nudges: the inductive invariant                              *)
(***************************************************************************)
\* Nothing is logged ahead of the clock, the clock stands while a sweep runs, and who
\* is about to send has been told that there is room.
CapInv ==
    /\ \A n \in DOMAIN deliveries : deliveries[n] <= time
    /\ \A w \in Sweepers :
          /\ sweeps[w].pc # "idle" => sweeps[w].at = time
          /\ sweeps[w].pc = "send" => Recent(time) < MaxPerDay
    /\ CapHeld

\* The entries of a log in the window that ends at t.
InWindow(log, t) == {n \in DOMAIN log : log[n] \in (t - Window + 1) .. t}
-----------------------------------------------------------------------------
\* They can be counted,
LEMMA Counted ==
    ASSUME NEW log \in Seq(0 .. LastTick), NEW t \in Int
    PROVE  IsFiniteSet(InWindow(log, t)) /\ Cardinality(InWindow(log, t)) \in Nat
<1>1. DOMAIN log = 1 .. Len(log) /\ Len(log) \in Nat
  OBVIOUS
<1>2. IsFiniteSet(DOMAIN log)
  BY <1>1, FS_Interval
<1>3. IsFiniteSet(InWindow(log, t))
  BY <1>2, FS_Subset DEF InWindow
<1> QED
  BY <1>3, FS_CardinalityType

\* a new entry is one more in the window that ends with it, and in none before,
LEMMA LogGrows ==
    ASSUME NudgeAssumption, NEW log \in Seq(0 .. LastTick), NEW at \in 0 .. LastTick
    PROVE  /\ \A t \in Int : t < at => InWindow(Append(log, at), t) = InWindow(log, t)
           /\ Cardinality(InWindow(Append(log, at), at)) = Cardinality(InWindow(log, at)) + 1
<1> DEFINE new == Append(log, at)
           last == Len(log) + 1
<1>1. /\ DOMAIN log = 1 .. Len(log) /\ Len(log) \in Nat /\ DOMAIN new = 1 .. last
      /\ new[last] = at /\ \A n \in DOMAIN log : new[n] = log[n]
  OBVIOUS
<1>2. DOMAIN new = DOMAIN log \cup {last} /\ last \notin DOMAIN log
  BY <1>1
<1> HIDE DEF new, last
<1>3. ASSUME NEW t \in Int, t < at PROVE InWindow(new, t) = InWindow(log, t)
  <2>1. at \notin (t - Window + 1) .. t
    BY <1>3
  <2> QED
    BY <1>1, <1>2, <2>1 DEF InWindow
<1>4. InWindow(new, at) = InWindow(log, at) \cup {last} /\ last \notin InWindow(log, at)
  <2>1. at \in (at - Window + 1) .. at
    BY DEF NudgeAssumption
  <2> QED
    BY <1>1, <1>2, <2>1 DEF InWindow
<1>5. Cardinality(InWindow(new, at)) = Cardinality(InWindow(log, at)) + 1
  <2>1. IsFiniteSet(InWindow(log, at))
    BY Counted
  <2> HIDE DEF InWindow
  <2> QED
    BY <1>4, <2>1, FS_AddElement
<1> QED
  BY <1>3, <1>5 DEF new

\* and as the clock moves on, entries only leave the window.
LEMMA WindowMoves ==
    ASSUME NudgeAssumption, NEW log \in Seq(0 .. LastTick), NEW t \in Int,
           \A n \in DOMAIN log : log[n] <= t
    PROVE  Cardinality(InWindow(log, t + 1)) <= Cardinality(InWindow(log, t))
<1>1. InWindow(log, t + 1) \subseteq InWindow(log, t)
  <2> SUFFICES ASSUME NEW n \in DOMAIN log, log[n] \in (t + 1 - Window + 1) .. t + 1
               PROVE  log[n] \in (t - Window + 1) .. t
    BY DEF InWindow
  <2>1. log[n] \in Int /\ log[n] <= t /\ Window \in Int
    BY DEF NudgeAssumption
  <2> QED
    BY <2>1
<1> QED
  BY <1>1, Counted, FS_Subset

\* The cap as a statement about the log.
LEMMA CapOfLog ==
    \A t : Recent(t) = Cardinality(InWindow(deliveries, t))
BY DEF Recent, InWindow
-----------------------------------------------------------------------------
\* A step that neither logs nor moves the clock keeps the invariant if every sweep
\* stands by the present, and who is let through has room.
LEMMA SweepKeepsCap ==
    ASSUME CapInv, NEW w \in Sweepers, UNCHANGED <<time, deliveries>>,
           \A v \in Sweepers \ {w} : sweeps'[v] = sweeps[v],
           sweeps'[w].pc # "idle" => sweeps'[w].at = time,
           sweeps'[w].pc = "send" => Recent(time) < MaxPerDay
    PROVE  CapInv'
<1>1. \A t : Recent(t)' = Recent(t)
  BY DEF Recent
<1>2. CapHeld' /\ Recent(time)' = Recent(time)
  BY <1>1 DEF CapInv, CapHeld, Recent
<1> QED
  BY <1>2 DEF CapInv

\* A sweep that goes on down its list has its time from the present.
LEMMA OnwardKeepsCap ==
    ASSUME NudgeAssumption, NudgeTypeOK, CapInv, NEW w \in Sweepers, NEW s \in NudgeSweep,
           s.at = time, Onward(w, s), UNCHANGED <<time, deliveries>>
    PROVE  CapInv'
<1> DEFINE rest == {c \in s.due : Wanted(s.states[c], s.at)}
           new == IF rest = {} THEN NoNudgeSweep
                  ELSE [NoNudgeSweep EXCEPT !.pc = "loop", !.at = s.at, !.due = rest,
                                            !.states = s.states]
<1>1. sweeps' = [sweeps EXCEPT ![w] = new]
  BY DEF Onward
<1>2. new.pc \in {"idle", "loop"} /\ (new.pc # "idle" => new.at = time)
  BY DEF NoNudgeSweep
<1> HIDE DEF new
<1> QED
  BY <1>1, <1>2, SweepKeepsCap DEF NudgeTypeOK

\* A sweep begins at the present,
LEMMA EvaluateKeepsCap ==
    ASSUME NudgeTypeOK, CapInv, NEW w \in Sweepers, Evaluate(w) PROVE CapInv'
<1> DEFINE due == {c \in open : DueAt[c] <= time}
           new == [NoNudgeSweep EXCEPT !.pc = "states", !.at = time, !.due = due]
<1>1. sweeps' = [sweeps EXCEPT ![w] = new] /\ UNCHANGED <<time, deliveries>>
  BY DEF Evaluate
<1>2. new.pc = "states" /\ new.at = time
  BY DEF NoNudgeSweep
<1> HIDE DEF new
<1> QED
  BY <1>1, <1>2, SweepKeepsCap DEF NudgeTypeOK

\* reads the rows, skips who is held back, and marks who was notified,
LEMMA ListKeepsCap ==
    ASSUME NudgeAssumption, NudgeTypeOK, CapInv, NEW w \in Sweepers,
           StatesByCommitment(w) \/ (\E c \in Commitments : HoldBack(w, c)) \/ Mark(w)
    PROVE  CapInv'
<1>1. sweeps[w] \in NudgeSweep /\ (sweeps[w].pc # "idle" => sweeps[w].at = time)
  BY DEF NudgeTypeOK, CapInv
<1>2. CASE StatesByCommitment(w)
  <2> DEFINE s == [sweeps[w] EXCEPT !.states = states]
  <2>1. s \in NudgeSweep /\ s.at = time /\ Onward(w, s) /\ UNCHANGED <<time, deliveries>>
    BY <1>1, <1>2 DEF StatesByCommitment, NudgeTypeOK, NudgeSweep
  <2> QED
    BY <2>1, OnwardKeepsCap
<1>3. CASE \E c \in Commitments : HoldBack(w, c)
  <2> PICK c \in Commitments : HoldBack(w, c)
    BY <1>3
  <2> DEFINE s == [sweeps[w] EXCEPT !.due = @ \ {c}]
  <2>1. s \in NudgeSweep /\ s.at = time /\ Onward(w, s) /\ UNCHANGED <<time, deliveries>>
    BY <1>1 DEF HoldBack, NudgeSweep
  <2> QED
    BY <2>1, OnwardKeepsCap
<1>4. CASE Mark(w)
  <2>1. sweeps[w].at = time /\ Onward(w, sweeps[w]) /\ UNCHANGED <<time, deliveries>>
    BY <1>1, <1>4 DEF Mark
  <2> QED
    BY <1>1, <2>1, OnwardKeepsCap
<1> QED
  BY <1>2, <1>3, <1>4

\* lets through only while there is room,
LEMMA NotifyKeepsCap ==
    ASSUME NudgeAssumption, NudgeTypeOK, CapInv, NEW w \in Sweepers, NEW c \in Commitments,
           Notify(w, c)
    PROVE  CapInv'
<1> DEFINE new == [sweeps[w] EXCEPT !.pc = "send", !.on = c, !.due = @ \ {c}]
<1>1. /\ sweeps' = [sweeps EXCEPT ![w] = new] /\ UNCHANGED <<time, deliveries>>
      /\ sweeps[w].at = time /\ ~HeldBack(sweeps[w].at)
  BY DEF Notify, CapInv
<1>2. new.at = time
  BY <1>1 DEF NudgeTypeOK, NudgeSweep
<1>3. Recent(time) < MaxPerDay
  <2>1. Recent(time) \in Nat
    BY Counted, CapOfLog DEF NudgeTypeOK
  <2> QED
    BY <1>1, <2>1 DEF HeldBack, NudgeAssumption
<1> HIDE DEF new
<1> QED
  BY <1>1, <1>2, <1>3, SweepKeepsCap DEF NudgeTypeOK

\* fills the room that it was told of, which no other sweep was,
LEMMA SendKeepsCap ==
    ASSUME NudgeAssumption, NudgeInv, CapInv, NEW w \in Sweepers, Send(w) PROVE CapInv'
<1> USE DEF NudgeInv
<1>1. /\ \A v \in Sweepers : sweeps'[v].pc # "idle" => v = w
      /\ sweeps'[w].pc = "find" /\ sweeps'[w].at = time /\ time' = time
      /\ Recent(time) < MaxPerDay
  <2>1. /\ sweeps[w].pc = "send" /\ sweeps' = [sweeps EXCEPT ![w].pc = "find"]
        /\ time' = time
    BY DEF Send
  <2>2. sweeps[w].at = time /\ Recent(time) < MaxPerDay
    BY <2>1 DEF CapInv
  <2>3. \A v \in Sweepers \ {w} : sweeps[v].pc = "idle"
    BY <2>1 DEF OneNudgeSweep
  <2> QED
    BY <2>1, <2>2, <2>3 DEF NudgeTypeOK, NudgeSweep
<1>2. CASE UNCHANGED deliveries
  <2>1. sweeps'[w].pc # "send" /\ \A v \in Sweepers \ {w} : sweeps'[v].pc = "idle"
    BY <1>1
  <2>2. \A t : Recent(t)' = Recent(t)
    BY <1>2 DEF Recent
  <2>3. CapHeld'
    BY <1>1, <2>2 DEF CapInv, CapHeld
  <2> QED
    BY <1>1, <1>2, <2>1, <2>3 DEF CapInv
<1>3. CASE deliveries' = Append(deliveries, time)
  <2>1. PICK log \in Seq(0 .. LastTick), now \in 0 .. LastTick : log = deliveries /\ now = time
    BY DEF NudgeTypeOK
  <2>2. deliveries' = Append(log, now) /\ time' = now
    BY <1>1, <1>3, <2>1
  <2>3. \A n \in DOMAIN deliveries' : deliveries'[n] <= time'
    <3>1. \A n \in DOMAIN log : log[n] <= now
      BY <2>1 DEF CapInv
    <3> QED
      BY <2>2, <3>1
  <2>4. ASSUME NEW t \in 0 .. now
        PROVE  Cardinality(InWindow(Append(log, now), t)) <= MaxPerDay
    <3>1. Cardinality(InWindow(log, t)) <= MaxPerDay
      BY <2>1, CapOfLog DEF CapInv, CapHeld
    <3>2. Cardinality(InWindow(log, now)) < MaxPerDay
      BY <1>1, <2>1, CapOfLog
    <3>3. Cardinality(InWindow(log, now)) \in Nat /\ MaxPerDay \in Nat
      BY Counted DEF NudgeAssumption
    <3>4. CASE t < now
      BY <3>1, <3>4, LogGrows
    <3>5. CASE t = now
      BY <3>2, <3>3, <3>5, LogGrows
    <3> QED
      BY <3>4, <3>5
  <2>5. CapHeld'
    <3> SUFFICES ASSUME NEW t \in 0 .. time' PROVE Recent(t)' <= MaxPerDay
      BY DEF CapHeld
    <3>1. Recent(t)' = Cardinality(InWindow(Append(log, now), t))
      BY <2>2 DEF Recent, InWindow
    <3> QED
      BY <2>2, <2>4, <3>1
  <2> QED
    BY <1>1, <2>3, <2>5 DEF CapInv
<1> QED
  BY <1>2, <1>3 DEF Send

\* finds the row, or dies.
LEMMA RestKeepsCap ==
    ASSUME NudgeTypeOK, CapInv, NEW w \in Sweepers, FindState(w) \/ Die(w) PROVE CapInv'
<1>1. UNCHANGED <<time, deliveries>>
  BY DEF FindState, Die
<1>2. \A v \in Sweepers \ {w} : sweeps'[v] = sweeps[v]
  BY DEF FindState, Die, NudgeTypeOK
<1>3. /\ sweeps'[w].pc # "idle" => sweeps'[w].at = time
      /\ sweeps'[w].pc # "send"
  <2>1. CASE FindState(w)
    BY <2>1 DEF FindState, NudgeTypeOK, NudgeSweep, CapInv
  <2>2. CASE Die(w)
    BY <2>2 DEF Die, NudgeTypeOK, NoNudgeSweep
  <2> QED
    BY <2>1, <2>2
<1> QED
  BY <1>1, <1>2, <1>3, SweepKeepsCap

\* The user, who has no part in it,
LEMMA UserKeepsCap ==
    ASSUME CapInv, UNCHANGED <<time, deliveries, sweeps>> PROVE CapInv'
<1>1. \A t : Recent(t)' = Recent(t)
  BY DEF Recent
<1>2. CapHeld' /\ Recent(time)' = Recent(time)
  BY <1>1 DEF CapInv, CapHeld, Recent
<1> QED
  BY <1>2 DEF CapInv

\* and the clock, which moves while no sweep runs.
LEMMA TickKeepsCap ==
    ASSUME NudgeAssumption, NudgeTypeOK, CapInv, NudgeTick PROVE CapInv'
<1>1. PICK log \in Seq(0 .. LastTick), now \in 0 .. LastTick : log = deliveries /\ now = time
  BY DEF NudgeTypeOK
<1>2. deliveries' = log /\ time' = now + 1 /\ UNCHANGED sweeps
  BY <1>1 DEF NudgeTick
<1>3. \A w \in Sweepers : sweeps[w].pc = "idle"
  BY DEF NudgeTick
<1>4. \A n \in DOMAIN log : log[n] <= now
  BY <1>1 DEF CapInv
<1>5. \A n \in DOMAIN deliveries' : deliveries'[n] <= time'
  <2>1. \A n \in DOMAIN log : log[n] \in Int
    OBVIOUS
  <2> QED
    BY <1>2, <1>4, <2>1
<1>6. \A t \in 0 .. now : Cardinality(InWindow(log, t)) <= MaxPerDay
  BY <1>1, CapOfLog DEF CapInv, CapHeld
<1>7. Cardinality(InWindow(log, now + 1)) <= MaxPerDay
  <2>1. Cardinality(InWindow(log, now + 1)) <= Cardinality(InWindow(log, now))
    BY <1>4, WindowMoves
  <2>2. Cardinality(InWindow(log, now)) <= MaxPerDay /\ MaxPerDay \in Nat
    BY <1>6 DEF NudgeAssumption
  <2>3. Cardinality(InWindow(log, now + 1)) \in Nat /\ Cardinality(InWindow(log, now)) \in Nat
    <3>1. now \in Int /\ now + 1 \in Int
      OBVIOUS
    <3> QED
      BY <3>1, Counted
  <2> QED
    BY <2>1, <2>2, <2>3
<1>8. CapHeld'
  <2> SUFFICES ASSUME NEW t \in 0 .. time' PROVE Recent(t)' <= MaxPerDay
    BY DEF CapHeld
  <2>1. Recent(t)' = Cardinality(InWindow(log, t))
    BY <1>2 DEF Recent, InWindow
  <2>2. t \in 0 .. now \/ t = now + 1
    BY <1>2
  <2> QED
    BY <1>6, <1>7, <2>1, <2>2
<1> QED
  BY <1>2, <1>3, <1>5, <1>8 DEF CapInv

\* The invariant holds at the start,
LEMMA CapStarts == ASSUME NudgeAssumption, NudgeInit PROVE CapInv
<1>1. deliveries = <<>> /\ time = 0 /\ \A w \in Sweepers : sweeps[w].pc = "idle"
  BY DEF NudgeInit, NoNudgeSweep
<1>2. CapHeld
  <2> SUFFICES ASSUME NEW t \in 0 .. time PROVE Recent(t) <= MaxPerDay
    BY DEF CapHeld
  <2>1. {n \in DOMAIN deliveries : deliveries[n] \in (t - Window + 1) .. t} = {}
    BY <1>1
  <2>2. Recent(t) = 0
    BY <2>1, FS_EmptySet DEF Recent
  <2> QED
    BY <2>2 DEF NudgeAssumption
<1> QED
  BY <1>1, <1>2 DEF CapInv

\* and every step keeps it.
LEMMA CapSteps ==
    ASSUME NudgeAssumption, NudgeInv, CapInv, [NudgeNext]_nudgeVars PROVE CapInv'
<1> NudgeTypeOK
  BY DEF NudgeInv
<1>1. ASSUME NEW w \in Sweepers, NudgeSweepStep(w) PROVE CapInv'
  BY <1>1, EvaluateKeepsCap, ListKeepsCap, NotifyKeepsCap, SendKeepsCap, RestKeepsCap
     DEF NudgeSweepStep
<1>2. ASSUME NEW w \in Sweepers, Die(w) PROVE CapInv'
  BY <1>2, RestKeepsCap
<1>3. ASSUME NEW c \in Commitments,
             \/ Close(c) \/ ActStep(c)
             \/ \E what \in {"dismiss", "snooze"} : Begin(c, what)
      PROVE  CapInv'
  BY <1>3, UserKeepsCap DEF Close, ActStep, Dismiss, Snooze, Begin
<1>4. CASE UNCHANGED nudgeVars
  BY <1>4, UserKeepsCap DEF nudgeVars
<1> QED
  BY <1>1, <1>2, <1>3, <1>4, TickKeepsCap DEF NudgeNext

\* The invariant holds in every reachable state.
LEMMA CapHolds == NudgeSpec => [](NudgeInv /\ CapInv)
<1>1. NudgeInit => NudgeInv /\ CapInv
  BY NudgeAssumption, NudgeStarts, CapStarts
<1>2. NudgeInv /\ CapInv /\ [NudgeNext]_nudgeVars => (NudgeInv /\ CapInv)'
  BY NudgeAssumption, NudgeSteps, CapSteps
<1> QED
  BY <1>1, <1>2, PTL DEF NudgeSpec

\* CapHeld: no window holds more notifications than the cap allows, also within one sweep: the count
\* is asked anew before each.
THEOREM NudgesKeepTheCap == NudgeSpec => []CapHeld
<1>1. CapInv => CapHeld
  BY DEF CapInv
<1> QED
  BY <1>1, CapHolds, PTL
-----------------------------------------------------------------------------
(***************************************************************************)
(* The three side by side                                                  *)
(***************************************************************************)
\* Each keeps its own invariant.
ReplicasInv == SweepInv /\ WalkInv /\ SwitchInv /\ NudgeInv /\ CapInv

\* A step is a step of one of them, and a stutter of the others.
LEMMA EachSteps ==
    ASSUME [ReplicasNext]_replicaVars
    PROVE  [Next]_vars /\ [SwitchNext]_switchVars /\ [NudgeNext]_nudgeVars
<1>1. CASE OnBoot /\ Next
  BY <1>1 DEF OnBoot
<1>2. CASE OnSwitch /\ SwitchNext
  BY <1>2 DEF OnSwitch
<1>3. CASE OnNudges /\ NudgeNext
  BY <1>3 DEF OnNudges
<1>4. CASE UNCHANGED replicaVars
  BY <1>4 DEF replicaVars
<1> QED
  BY <1>1, <1>2, <1>3, <1>4 DEF ReplicasNext

\* The invariants hold in every reachable state of the three.
LEMMA ReplicasHold == ReplicasSpec => []ReplicasInv
<1>1. ReplicasInit => ReplicasInv
  BY BackfillAssumption, SwitchAssumption, NudgeAssumption, SweepInit, WalkInit, SwitchInitInv,
     NudgeStarts, CapStarts DEF ReplicasInit, ReplicasInv
<1>2. ReplicasInv /\ [ReplicasNext]_replicaVars => ReplicasInv'
  <2> SUFFICES ASSUME SweepInv, WalkInv, SwitchInv, NudgeInv, CapInv,
                      [Next]_vars, [SwitchNext]_switchVars, [NudgeNext]_nudgeVars
               PROVE  ReplicasInv'
    BY EachSteps DEF ReplicasInv
  <2>1. SweepInv'
    BY BackfillAssumption, SweepStep
  <2>2. WalkInv'
    BY <2>1, BackfillAssumption, WalkStep DEF SweepInv
  <2>3. SwitchInv'
    BY SwitchAssumption, SwitchStep
  <2>4. NudgeInv' /\ CapInv'
    BY NudgeAssumption, NudgeSteps, CapSteps
  <2> QED
    BY <2>1, <2>2, <2>3, <2>4 DEF ReplicasInv
<1> QED
  BY <1>1, <1>2, PTL DEF ReplicasSpec

\* ReplicasTypeOK: every reachable state of the backfills, the dead-man's switch and the nudges
\* is well typed, whichever of them run.
THEOREM ReplicasTypeCorrect == ReplicasSpec => []ReplicasTypeOK
<1>1. ReplicasInv => ReplicasTypeOK
  BY DEF ReplicasInv, SweepInv, SweepTypeOK, WalkInv, WalkTypeOK, TypeOK, SwitchInv, NudgeInv,
         ReplicasTypeOK
<1> QED
  BY <1>1, ReplicasHold, PTL
=============================================================================
