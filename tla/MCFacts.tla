-------------------------------- MODULE MCFacts --------------------------------
(***************************************************************************)
(* Instances of FactsSupersession for TLC: recordings that disagree.       *)
(***************************************************************************)
EXTENDS FactsSupersession, TLC

CONSTANTS i1, i2, i3, v1, v2

Recorded == [i \in Items |-> CASE i = i1 -> 2 [] i = i2 -> 1 [] i = i3 -> 3]

\* i1 may be extracted again, and then say nothing of the attribute; what i2
\* says may be one value or two.
Heard == [i \in Items |-> CASE i = i1 -> {v1 :> TRUE, <<>>}
                            [] i = i2 -> {v2 :> TRUE, v1 :> FALSE}
                            [] i = i3 -> {v1 :> TRUE}]
Extractions == [i \in Items |-> IF i = i1 THEN 2 ELSE 1]
=============================================================================
