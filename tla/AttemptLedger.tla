---------------------------- MODULE AttemptLedger ----------------------------
(***************************************************************************)
(* What the attempts table of one item promises, however the pipeline is   *)
(* interrupted: attempts are only ever appended, an attempt keeps every    *)
(* outcome it had, and a dependent starts only on the strength of what its *)
(* dependencies have already produced.  ExtractionPipeline implements it.  *)
(***************************************************************************)
EXTENDS ExtractorGraph

CONSTANTS Relevant, Retryable, Bridge

VARIABLE ledger     \* kind -> its attempts [by, past], oldest first

Outcomes == {"succeeded", "failed"}

\* Some attempt of k has had this outcome, or any outcome.
Had(k, outcome) == \E n \in DOMAIN ledger[k] : outcome \in ledger[k][n].past
Settled(k) == \E outcome \in Outcomes : Had(k, outcome)

Supports(e) == IF e.requires = "succeeded" THEN Had(e.kind, "succeeded") ELSE Settled(e.kind)

\* What entitles somebody to start an attempt of k.
InputsMade(k) == \A g \in Groups(k) : \E e \in Members(k, g) : Supports(e)
MayStart(k, by) ==
    \/ by = "root" /\ \A e \in Deps : e.of # k
    \/ /\ by = "event" /\ k \in Relevant /\ InputsMade(k)
       /\ \A e \in PlainDeps(k) :
             Supports(e) \/ (e.kind \notin Relevant /\ e.requires = "settled")
    \/ /\ by = "manual" /\ k \in Retryable /\ InputsMade(k)
       /\ \A e \in PlainDeps(k) : e.requires = "succeeded" => Supports(e)
    \/ by = "bridge" /\ \E p \in Bridge : p[2] = k /\ Had(p[1], "succeeded")

Begin(k, by) ==
    /\ MayStart(k, by)
    /\ ledger' = [ledger EXCEPT ![k] = Append(@, [by |-> by, past |-> {}])]

Settle(k, n, outcome) ==
    ledger' = [ledger EXCEPT ![k][n].past = @ \cup {outcome}]

Init == ledger = [k \in Kinds |-> <<>>]

Next ==
    \E k \in Kinds :
        \/ \E by \in {"root", "event", "manual", "bridge"} : Begin(k, by)
        \/ \E n \in DOMAIN ledger[k] : \E outcome \in Outcomes : Settle(k, n, outcome)

Spec == Init /\ [][Next]_ledger
=============================================================================
