------------------------------ MODULE MCEntities ------------------------------
(***************************************************************************)
(* Instances of EntityRegistry for TLC: two persons found already, one by  *)
(* the shorter name that is also a surface form of the other's.            *)
(***************************************************************************)
EXTENDS EntityRegistry

CONSTANTS y1, y2

Person(n) == <<"person", n>>

Spelling == [n \in Names |-> IF n = "angela merkel" THEN 2 ELSE 1]
Called == [k \in Contacts |-> "angela merkel"]
FoundBefore == <<[by |-> y1, key |-> Person("angela"), forms |-> {}],
                 [by |-> y2, key |-> Person("angela merkel"), forms |-> {}]>>
MayBeFound == {[key |-> Person("angela"), forms |-> {}],
               [key |-> Person("angela merkel"), forms |-> {"angela"}],
               [key |-> <<"organization", "angela">>, forms |-> {}]}
=============================================================================
