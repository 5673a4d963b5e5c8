------------------------------ MODULE MCBackfill ------------------------------
(***************************************************************************)
(* Instances of BackfillRuns for TLC: two kinds, the second requires the   *)
(* first, and items that were added before or after the second existed.    *)
(***************************************************************************)
EXTENDS BackfillRuns

Chain == <<"transcription", "entities">>
ChainRequires == [k \in {"transcription", "entities"} |->
                    IF k = "entities" THEN {"transcription"} ELSE {}]

None == [latest |-> "none", pending |-> 0, current |-> FALSE, covers |-> FALSE]
Done(current) == [latest |-> "succeeded", pending |-> 0, current |-> current, covers |-> TRUE]

History(t, e) == [k \in {"transcription", "entities"} |-> IF k = "entities" THEN e ELSE t]

\* The second kind is new; it was improved.
Past == {History(Done(TRUE), None), History(Done(TRUE), Done(FALSE))}

Everything == {1 .. Items}
NoWindow == {}
NoneBlocked == {}
=============================================================================
