------------------------- MODULE ExtractionPipeline -------------------------
(***************************************************************************)
(* The event-driven extraction pipeline of one inbox item: the attempts    *)
(* (table extracted_payloads), the BullMQ jobs that execute them, the      *)
(* pipeline's evaluations, the requests that start attempts (commit,       *)
(* reprocess, manual retry), the sensitivity row that gates external       *)
(* kinds, and crashes of the API process.                                  *)
(*                                                                         *)
(* Steps are split where the code awaits: the write of a status and the    *)
(* event announcing it are two steps, so are the insert of an attempt and  *)
(* its hand-over to the queue; an evaluation is snapshot, route, insert,   *)
(* hand over, release.                                                     *)
(***************************************************************************)
EXTENDS ExtractorGraph

CONSTANTS
    Relevant,     \* kinds enabled for the owner that apply to this item
    Retryable,    \* kinds with a manual retry endpoint
    Sentinel,     \* the kind that classifies sensitivity
    Gated,        \* external-LLM kinds, subject to the routing guard
    LocalKinds,   \* gated kinds whose endpoint is validated local
    Bridge,       \* <<a, b>>: success of a appends a passthrough row of b
    Verdicts,     \* what the sentinel may find an item to be
    MaxTries,     \* attempts BullMQ makes of one job
    Budget,       \* bound: how often each outside event may happen
    Mixes         \* bound: the sets of outside events that may happen together

OutsideEvents == {"fail", "crash", "queueDown", "retry", "reprocess", "override"}

ASSUME PipelineAssumption ==
    /\ Sentinel \in Kinds
    /\ Relevant \subseteq Kinds /\ Retryable \subseteq Kinds
    /\ Gated \subseteq Kinds /\ LocalKinds \subseteq Gated
    /\ Bridge \subseteq Kinds \X Kinds
    /\ Verdicts \subseteq {"open", "closed"}
    /\ MaxTries \in Nat \ {0}
    /\ Budget \in [OutsideEvents -> Nat]
    /\ Mixes \subseteq SUBSET OutsideEvents

VARIABLES
    log,          \* kind -> its attempts, in creation order
    clock,        \* number of attempts created: the next createdAt
    committed,    \* the source is committed
    request,      \* the commit or reprocess request in progress
    manual,       \* the manual retry in progress
    eval,         \* kind -> the pipeline's evaluation of it (`evaluating`)
    dropped,      \* history: kinds whose last wakeup met a busy evaluation
    sens,         \* the item_sensitivity row
    left          \* outside events that may still happen

vars == <<log, clock, committed, request, manual, eval, dropped, sens, left>>

Outcomes == {"succeeded", "failed"}
Tiers == {"none", "open", "closed"}    \* closed: sensitive or secret

(***************************************************************************)
(* An attempt.  `job` is its place in the queue: "none" (never handed over *)
(* or lost), "waiting", "running", "doomed" (running, but without the text *)
(* it needs), "graded" (sentinel: sensitivity row written), "succeeded" or *)
(* "failed" (outcome written, event not yet emitted), "bridging" and       *)
(* "bridged" (OCR: passthrough row due, appended), "gone" (acknowledged).  *)
(* `past` is history: the outcomes the attempt ever had.                   *)
(***************************************************************************)
Jobs == {"none", "waiting", "running", "doomed", "graded", "succeeded", "failed", "bridging",
         "bridged", "gone"}
Row == [at : Nat, by : {"root", "event", "manual", "bridge"},
        status : {"queued", "processing"} \cup Outcomes, job : Jobs, tries : Nat,
        stalled : BOOLEAN, past : SUBSET Outcomes]

Handle == [kind : Kinds, n : Nat \ {0}]    \* the n-th attempt of a kind

Active(r) == r.status \in {"queued", "processing"}
Has(k) == log[k] # <<>>
Latest(k) == log[k][Len(log[k])]
NewRow(by) == [at |-> clock + 1, by |-> by, status |-> "queued", job |-> "none",
               tries |-> 0, stalled |-> FALSE, past |-> {}]

\* addExtraction: insert a queued row.
Append1(k, by) ==
    /\ log' = [log EXCEPT ![k] = Append(@, NewRow(by))]
    /\ clock' = clock + 1

\* A job that leaves the queue takes its counters with it.
Gone(r) == [r EXCEPT !.job = "gone", !.tries = 0, !.stalled = FALSE]

Put(k, n, r) == log' = [log EXCEPT ![k] = [@ EXCEPT ![n] = r]]

\* queue.add for the n-th attempt of k.
HandOver(k, n) == Put(k, n, [log[k][n] EXCEPT !.job = "waiting"])

Happened == {e \in OutsideEvents : left[e] < Budget[e]}

Spend(e) ==
    /\ left[e] > 0
    /\ \E mix \in Mixes : Happened \cup {e} \subseteq mix
    /\ left' = [left EXCEPT ![e] = @ - 1]

(***************************************************************************)
(* Readiness                                                               *)
(***************************************************************************)
\* Mutant: an attempt in flight does not hold its dependents back.
MetInFlight(e) ==
    IF Has(e.kind)
    THEN e.requires = "succeeded" => Latest(e.kind).status = "succeeded"
    ELSE e.kind \notin Relevant /\ e.requires = "settled"

\* An ungrouped dependency lets its dependent through.
Met(e) ==
    IF Has(e.kind)
    THEN /\ ~Active(Latest(e.kind))
         /\ e.requires = "succeeded" => Latest(e.kind).status = "succeeded"
    ELSE e.kind \notin Relevant /\ e.requires = "settled"

\* A member satisfies its OR-group.
Satisfies(e) ==
    /\ Has(e.kind)
    /\ ~Active(Latest(e.kind))
    /\ e.requires = "succeeded" => Latest(e.kind).status = "succeeded"

Ready(k) ==
    /\ \A e \in PlainDeps(k) : Met(e)
    /\ \A g \in Groups(k) : \E e \in Members(k, g) : Satisfies(e)

\* createdAt of the attempts a run would consume; the newest is the generation.
Inputs(k) ==
    {Latest(e.kind).at : e \in {d \in PlainDeps(k) : Has(d.kind)}
                           \cup {d \in UNION {Members(k, g) : g \in Groups(k)} : Satisfies(d)}}

\* Mutant: only a success covers.
CoveredBySuccess(k) ==
    Has(k) /\ (\A t \in Inputs(k) : t <= Latest(k).at) /\ Latest(k).status = "succeeded"

Covered(k) ==
    /\ Has(k)
    /\ \A t \in Inputs(k) : t <= Latest(k).at
    /\ Latest(k).status # "failed"

Decision(k) ==
    LET tier == IF sens.manual # "none" THEN sens.manual ELSE sens.detected
    IN IF sens.detected = "none" THEN "wait"
       ELSE IF tier = "open" THEN "external"
       ELSE IF k \in LocalKinds THEN "local" ELSE "hold"

(***************************************************************************)
(* The subscription of the pipeline: a terminal event of k starts the      *)
(* evaluation of every dependent, and a classification that of every gated *)
(* kind; a kind already being evaluated is skipped.                        *)
(***************************************************************************)
\* Mutant: a classification wakes only the declared dependents.
WokenByEdges(k, outcome) == DependentsOf(k)

Woken(k, outcome) ==
    DependentsOf(k) \cup (IF k = Sentinel /\ outcome = "succeeded" THEN Gated ELSE {})

Deliver(k, outcome) ==
    /\ eval' = [d \in Kinds |->
          IF d \in Woken(k, outcome) /\ eval[d].pc = "idle"
          THEN [eval[d] EXCEPT !.pc = "read"] ELSE eval[d]]
    /\ dropped' = dropped \cup {d \in Woken(k, outcome) : eval[d].pc \notin {"idle", "read"}}

(***************************************************************************)
(* maybeRun                                                                *)
(***************************************************************************)
At(k, pc) == eval[k].pc = pc
Goto(k, pc) == eval' = [eval EXCEPT ![k].pc = pc]

\* getItemById and the gates that only read this snapshot.
EvalRead(k) ==
    /\ At(k, "read")
    /\ IF k \in Relevant /\ Ready(k) /\ ~Covered(k)
       THEN Goto(k, IF k \in Gated THEN "route" ELSE "append")
       ELSE Goto(k, "release")
    /\ dropped' = dropped \ {k}
    /\ UNCHANGED <<log, clock, committed, request, manual, sens, left>>

\* Mutant: the evaluation returns after clearing a hold.
EvalRouteOnly(k) ==
    /\ At(k, "route")
    /\ Goto(k, "release")
    /\ sens' = IF Decision(k) = "wait" THEN sens ELSE [sens EXCEPT !.held = Decision(k) = "hold"]
    /\ UNCHANGED <<log, clock, committed, request, manual, dropped, left>>

EvalRoute(k) ==
    /\ At(k, "route")
    /\ CASE Decision(k) = "wait" -> Goto(k, "release") /\ sens' = sens
         [] Decision(k) = "hold" -> Goto(k, "release") /\ sens' = [sens EXCEPT !.held = TRUE]
         [] OTHER -> Goto(k, "append") /\ sens' = [sens EXCEPT !.held = FALSE]
    /\ UNCHANGED <<log, clock, committed, request, manual, dropped, left>>

\* Mutant: the row is inserted and no job is queued.
EvalAppendOnly(k) ==
    /\ At(k, "append")
    /\ Append1(k, "event")
    /\ Goto(k, "release")
    /\ UNCHANGED <<committed, request, manual, dropped, sens, left>>

EvalAppend(k) ==
    /\ At(k, "append")
    /\ Append1(k, "event")
    /\ eval' = [eval EXCEPT ![k] = [pc |-> "hand", n |-> Len(log[k]) + 1]]
    /\ UNCHANGED <<committed, request, manual, dropped, sens, left>>

\* The hand-over succeeds, or queue.add throws and the row stays behind.
EvalHand(k) ==
    /\ At(k, "hand")
    /\ \/ HandOver(k, eval[k].n) /\ left' = left
       \/ Spend("queueDown") /\ log' = log
    /\ Goto(k, "release")
    /\ UNCHANGED <<clock, committed, request, manual, dropped, sens>>

\* finally: evaluating.delete(key).
EvalRelease(k) ==
    /\ At(k, "release")
    /\ Goto(k, "idle")
    /\ UNCHANGED <<log, clock, committed, request, manual, dropped, sens, left>>

Evaluate(k) == EvalRead(k) \/ EvalRoute(k) \/ EvalAppend(k) \/ EvalHand(k) \/ EvalRelease(k)

(***************************************************************************)
(* The worker executing the n-th attempt of k                              *)
(***************************************************************************)
\* The processor finds its input: the latest attempts of what it requires
\* succeeded (the sentinel takes either text).
Readable(k) ==
    IF k = Sentinel THEN \E e \in PlainDeps(k) : Has(e.kind) /\ Latest(e.kind).status = "succeeded"
    ELSE /\ \A e \in PlainDeps(k) : e.requires = "succeeded" => Satisfies(e)
         /\ \A g \in Groups(k) : \E e \in Members(k, g) : Satisfies(e)

\* setExtractionStatus 'processing', whose event the pipeline ignores, and
\* the read of the input.
Start(k, n) ==
    /\ log[k][n].job = "waiting"
    /\ Put(k, n, [log[k][n] EXCEPT !.status = "processing",
                                   !.job = IF Readable(k) THEN "running" ELSE "doomed"])
    /\ UNCHANGED <<clock, committed, request, manual, eval, dropped, sens, left>>

\* The sentinel writes the sensitivity row before it completes its attempt.
Grade(n) ==
    /\ log[Sentinel][n].job = "running"
    /\ \E t \in Verdicts : sens' = [sens EXCEPT !.detected = t]
    /\ Put(Sentinel, n, [log[Sentinel][n] EXCEPT !.job = "graded"])
    /\ UNCHANGED <<clock, committed, request, manual, eval, dropped, left>>

\* completeExtraction: the write.
Finish(k, n, outcome) ==
    LET r == log[k][n] IN
    /\ \/ outcome = "succeeded" /\ r.job = (IF k = Sentinel THEN "graded" ELSE "running") /\ left' = left
       \/ outcome = "failed" /\ r.job = "running" /\ r.by # "bridge" /\ Spend("fail")
       \/ outcome = "failed" /\ r.job = "doomed" /\ left' = left
    /\ Put(k, n, [r EXCEPT !.status = outcome, !.job = outcome, !.past = @ \cup {outcome}])
    /\ UNCHANGED <<clock, committed, request, manual, eval, dropped, sens>>

\* What BullMQ does once the attempt has returned or thrown.  An OCR attempt
\* still has its text to bridge unless the scan is blank.
Return(k, r) ==
    CASE r.job = "failed" /\ r.tries + 1 < MaxTries ->
           {[r EXCEPT !.job = "waiting", !.tries = r.tries + 1]}
      [] r.job = "succeeded" /\ \E p \in Bridge : p[1] = k -> {[r EXCEPT !.job = "bridging"], Gone(r)}
      [] OTHER -> {Gone(r)}

\* completeExtraction: the event, delivered synchronously to the pipeline.
Emit(k, n) ==
    LET r == log[k][n] IN
    /\ r.job \in Outcomes
    /\ Deliver(k, r.job)
    /\ \E next \in Return(k, r) : Put(k, n, next)
    /\ UNCHANGED <<clock, committed, request, manual, sens, left>>

\* recordExtractedText: OCR's worker appends the text as a passthrough row,
\* which it completes itself (Finish, Emit), without a job.
BridgeText(k, n) ==
    /\ log[k][n].job = "bridging"
    /\ \E p \in Bridge :
          /\ p[1] = k
          /\ log' = [log EXCEPT
                ![k] = [@ EXCEPT ![n].job = "bridged"],
                ![p[2]] = Append(@, [NewRow("bridge") EXCEPT !.job = "running"])]
    /\ clock' = clock + 1
    /\ UNCHANGED <<committed, request, manual, eval, dropped, sens, left>>

BridgeDone(k, n) ==
    /\ log[k][n].job = "bridged"
    /\ \A p \in Bridge : p[1] = k =>
          \A m \in DOMAIN log[p[2]] : log[p[2]][m].by = "bridge" => log[p[2]][m].job \in {"gone", "none"}
    /\ Put(k, n, Gone(log[k][n]))
    /\ UNCHANGED <<clock, committed, request, manual, eval, dropped, sens, left>>

Work(k, n) ==
    \/ Start(k, n) \/ Emit(k, n) \/ BridgeText(k, n) \/ BridgeDone(k, n)
    \/ \E outcome \in Outcomes : Finish(k, n, outcome)
    \/ k = Sentinel /\ Grade(n)

(***************************************************************************)
(* Commit and reprocess: both end in processCommitted, which starts every  *)
(* relevant root in turn.                                                  *)
(***************************************************************************)
Idle == [pc |-> "idle", next |-> 1, n |-> 1, stale |-> {}, cur |-> [kind |-> Sentinel, n |-> 1]]

\* Mutant: the loop over the roots runs once too often.
RootsBeyond(i) == IF i > Len(Roots) + 1 THEN Idle ELSE [Idle EXCEPT !.pc = "root", !.next = i]

RootsFrom(i) == IF i > Len(Roots) THEN Idle ELSE [Idle EXCEPT !.pc = "root", !.next = i]

Commit ==
    /\ ~committed
    /\ request.pc = "idle"
    /\ committed' = TRUE
    /\ request' = RootsFrom(1)
    /\ UNCHANGED <<log, clock, manual, eval, dropped, sens, left>>

RootAppend ==
    LET k == Roots[request.next] IN
    /\ request.pc = "root"
    /\ IF k \in Relevant
       THEN /\ Append1(k, "root")
            /\ request' = [request EXCEPT !.pc = "hand", !.n = Len(log[k]) + 1]
       ELSE /\ request' = RootsFrom(request.next + 1)
            /\ UNCHANGED <<log, clock>>
    /\ UNCHANGED <<committed, manual, eval, dropped, sens, left>>

\* A queue that throws aborts the request: the remaining roots are not started.
RootHand ==
    /\ request.pc = "hand"
    /\ \/ HandOver(Roots[request.next], request.n)
          /\ request' = RootsFrom(request.next + 1) /\ left' = left
       \/ Spend("queueDown") /\ request' = Idle /\ log' = log
    /\ UNCHANGED <<clock, committed, manual, eval, dropped, sens>>

Pending == {h \in [kind : Kinds, n : 1 .. clock] :
               h.n \in DOMAIN log[h.kind] /\ Active(log[h.kind][h.n])}

\* Refused while a pending attempt is younger than 15 minutes.  How long one
\* has been pending is not modelled: at a request they may all be older.
Reprocess ==
    /\ committed
    /\ request.pc = "idle"
    /\ Spend("reprocess")
    /\ request' = IF Pending = {} THEN RootsFrom(1)
                  ELSE [Idle EXCEPT !.pc = "reclaim", !.stale = Pending]
    /\ UNCHANGED <<log, clock, committed, manual, eval, dropped, sens>>

\* Fail one attempt of the snapshot, whatever it has become since.
Reclaim(h) ==
    LET r == log[h.kind][h.n] IN
    /\ request.pc = "reclaim"
    /\ h \in request.stale
    /\ Put(h.kind, h.n, [r EXCEPT !.status = "failed", !.past = @ \cup {"failed"}])
    /\ request' = [request EXCEPT !.pc = "announce", !.stale = @ \ {h}, !.cur = h]
    /\ UNCHANGED <<clock, committed, manual, eval, dropped, sens, left>>

\* Mutant: a reclaimed attempt is failed without an event.
AnnounceNothing ==
    /\ request.pc = "announce"
    /\ request' = IF request.stale = {} THEN RootsFrom(1)
                  ELSE [request EXCEPT !.pc = "reclaim"]
    /\ UNCHANGED <<log, clock, committed, manual, eval, dropped, sens, left>>

Announce ==
    /\ request.pc = "announce"
    /\ Deliver(request.cur.kind, "failed")
    /\ request' = IF request.stale = {} THEN RootsFrom(1)
                  ELSE [request EXCEPT !.pc = "reclaim"]
    /\ UNCHANGED <<log, clock, committed, manual, sens, left>>

(***************************************************************************)
(* Manual retry: the required inputs succeeded and no attempt is pending.  *)
(***************************************************************************)
ManualReady(k) ==
    /\ k \in Relevant \cap Retryable
    /\ \A e \in PlainDeps(k) : e.requires = "succeeded" => Satisfies(e)
    /\ \A g \in Groups(k) : \E e \in Members(k, g) : Satisfies(e)
    /\ Has(k) => ~Active(Latest(k))

Retry(k) ==
    /\ committed
    /\ manual.pc = "idle"
    /\ ManualReady(k)
    /\ Spend("retry")
    /\ manual' = [pc |-> "append", kind |-> k, n |-> 1]
    /\ UNCHANGED <<log, clock, committed, request, eval, dropped, sens>>

RetryAppend ==
    /\ manual.pc = "append"
    /\ Append1(manual.kind, "manual")
    /\ manual' = [manual EXCEPT !.pc = "hand", !.n = Len(log[manual.kind]) + 1]
    /\ UNCHANGED <<committed, request, eval, dropped, sens, left>>

RetryHand ==
    /\ manual.pc = "hand"
    /\ \/ HandOver(manual.kind, manual.n) /\ left' = left
       \/ Spend("queueDown") /\ log' = log
    /\ manual' = [manual EXCEPT !.pc = "idle"]
    /\ UNCHANGED <<clock, committed, request, eval, dropped, sens>>

(***************************************************************************)
(* The outside                                                             *)
(***************************************************************************)
\* setManualTier; on an unclassified item it creates a row detected 'normal'.
Override(t) ==
    /\ committed
    /\ Spend("override")
    /\ sens' = [sens EXCEPT !.manual = t, !.detected = IF @ = "none" THEN "open" ELSE @]
    /\ UNCHANGED <<log, clock, committed, request, manual, eval, dropped>>

\* What BullMQ makes of an attempt whose worker died: one more run, then
\* the job is failed without calling the processor.
Stall(r) ==
    IF r.job \notin {"running", "doomed", "graded", "succeeded", "failed", "bridging", "bridged"} THEN r
    ELSE IF r.by = "bridge" THEN [r EXCEPT !.job = "none"]
    ELSE IF r.stalled THEN Gone(r)
    ELSE [r EXCEPT !.job = "waiting", !.stalled = TRUE]

\* The process dies and boots again: evaluations, requests and undelivered
\* events are lost, database and queue survive.
Crash ==
    /\ Spend("crash")
    /\ log' = [k \in Kinds |-> [n \in DOMAIN log[k] |-> Stall(log[k][n])]]
    /\ eval' = [k \in Kinds |-> [pc |-> "idle", n |-> 1]]
    /\ request' = Idle
    /\ manual' = [manual EXCEPT !.pc = "idle"]
    /\ UNCHANGED <<clock, committed, dropped, sens>>

(***************************************************************************)
(* Specification                                                           *)
(***************************************************************************)
Init ==
    /\ log = [k \in Kinds |-> <<>>]
    /\ clock = 0
    /\ committed = FALSE
    /\ request = Idle
    /\ manual = [pc |-> "idle", kind |-> Sentinel, n |-> 1]
    /\ eval = [k \in Kinds |-> [pc |-> "idle", n |-> 1]]
    /\ dropped = {}
    /\ sens = [detected |-> "none", manual |-> "none", held |-> FALSE]
    /\ left = Budget

\* Steps of the process itself, which its event loop and worker take.
System ==
    \/ \E k \in Kinds : Evaluate(k)
    \/ \E k \in Kinds : \E n \in DOMAIN log[k] : Work(k, n)
    \/ RootAppend \/ RootHand \/ Announce
    \/ \E h \in request.stale : Reclaim(h)
    \/ RetryAppend \/ RetryHand

Outside ==
    \/ Commit \/ Reprocess \/ Crash
    \/ \E k \in Kinds : Retry(k)
    \/ \E t \in Tiers : Override(t)

Next == System \/ Outside

Spec == Init /\ [][Next]_vars
FairSpec == Spec /\ WF_vars(System)

(***************************************************************************)
(* Properties                                                              *)
(***************************************************************************)
EvalPcs == {"idle", "read", "route", "append", "hand", "release"}

TypeOK ==
    /\ log \in [Kinds -> Seq(Row)]
    /\ clock \in Nat
    /\ committed \in BOOLEAN
    /\ request \in [pc : {"idle", "reclaim", "announce", "root", "hand"}, next : DOMAIN Roots,
                    n : Nat \ {0}, stale : SUBSET Handle, cur : Handle]
    /\ manual \in [pc : {"idle", "append", "hand"}, kind : Kinds, n : Nat \ {0}]
    /\ eval \in [Kinds -> [pc : EvalPcs, n : Nat \ {0}]]
    /\ dropped \subseteq Kinds
    /\ sens \in [detected : Tiers, manual : Tiers, held : BOOLEAN]
    /\ left \in [OutsideEvents -> Nat]

\* Between two attempts of one kind that the pipeline appended, either an
\* attempt of a dependency was created (a new generation) or an attempt of
\* the kind failed: "never two rows for one generation" (readiness.ts), up to
\* failed rows.  Rests on the `evaluating` guard and the coverage test.
OncePerGeneration ==
    \A k \in Kinds : \A i, j \in DOMAIN log[k] :
        (i < j /\ log[k][i].by = "event" /\ log[k][j].by = "event") =>
            \/ \E d \in DependsOn(k) : \E c \in DOMAIN log[d] :
                  log[k][i].at < log[d][c].at /\ log[d][c].at < log[k][j].at
            \/ \E f \in i .. j - 1 : "failed" \in log[k][f].past

\* The attempts table is an AttemptLedger: forget everything but who started
\* an attempt and the outcomes it has had.
Recorded == [k \in Kinds |-> [n \in DOMAIN log[k] |->
                [by |-> log[k][n].by, past |-> log[k][n].past]]]
Ledger == INSTANCE AttemptLedger WITH ledger <- Recorded
ImplementsLedger == Ledger!Spec

\* No crash, queue failure or tier override has happened.
Undisturbed == Happened \cap {"crash", "queueDown", "override"} = {}

Handing(k, n) ==
    \/ At(k, "hand") /\ eval[k].n = n
    \/ manual.pc = "hand" /\ manual.kind = k /\ manual.n = n
    \/ request.pc = "hand" /\ Roots[request.next] = k /\ request.n = n

\* A pending attempt is in the queue, being run, or about to be handed over:
\* only a crash or a failing queue strands one (the rows reprocess reclaims).
NoStrandedAttempt ==
    Undisturbed => \A k \in Kinds : \A n \in DOMAIN log[k] :
        Active(log[k][n]) => log[k][n].job \in {"waiting", "running", "doomed", "graded"} \/ Handing(k, n)

\* k should run: it has an input, newer than its latest attempt, all that it
\* waits for is ready, and the routing guard would let it go.
Due(k) ==
    /\ k \in Relevant
    /\ Ready(k)
    /\ \E t \in Inputs(k) : Has(k) => Latest(k).at < t
    /\ k \in Gated => Decision(k) \in {"external", "local"}

\* A wakeup of k is still to come: an outcome was written and not announced.
WakeupPending(k) ==
    \/ \E d \in Kinds : \E n \in DOMAIN log[d] :
          log[d][n].job \in Outcomes /\ k \in Woken(d, log[d][n].job)
    \/ k \in Gated /\ \E n \in DOMAIN log[Sentinel] : log[Sentinel][n].job = "graded"
    \/ request.pc = "announce" /\ k \in Woken(request.cur.kind, "failed")

\* A kind that should run is being evaluated or will be woken, unless its
\* last wakeup was dropped because an older evaluation was still going on.
NoMissedWork ==
    Undisturbed => \A k \in Kinds : Due(k) =>
        k \in dropped \/ eval[k].pc \in {"read", "route", "append"} \/ WakeupPending(k)

\* A kind that should run eventually does, unless its wakeup was dropped.
DueIsServed ==
    \A k \in Kinds : []<>(~Due(k) \/ k \in dropped \/ ~Undisturbed)

\* README, "dependent extractors are event-driven and fire once their
\* dependencies settle": without the exception for dropped wakeups.
FiresOnceDependenciesSettle == \A k \in Kinds : Due(k) ~> ~Due(k)

\* inbox/src/extractor.ts, settled: "wait until its latest attempt reaches a
\* terminal state": an attempt some dependent has already been started on
\* does not get its result afterwards.
WaitsForOutcome ==
    [][\A e \in Deps : \A n \in DOMAIN log[e.kind] :
        ("succeeded" \in log'[e.kind][n].past /\ "succeeded" \notin log[e.kind][n].past) =>
            ~\E m \in DOMAIN log[e.of] :
                log[e.of][m].by = "event" /\ log[e.kind][n].at < log[e.of][m].at]_vars
=============================================================================
