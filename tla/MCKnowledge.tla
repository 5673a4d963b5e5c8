------------------------------ MODULE MCKnowledge -----------------------------
(***************************************************************************)
(* What is known of the world beyond single items: the facts of a group,   *)
(* the entities of a user.  The two share no state in the models, so a     *)
(* behaviour runs one of them and leaves the other as it starts.           *)
(***************************************************************************)
EXTENDS MCFacts, MCEntities

VARIABLE focus

knowledgeVars == <<focus, vars, registryVars>>

KnowledgeInit == focus \in {"facts", "entities"} /\ Init /\ RegistryInit

OnFacts == focus = "facts" /\ UNCHANGED <<focus, registryVars>>
OnEntities == focus = "entities" /\ UNCHANGED <<focus, vars>>

KnowledgeNext ==
    \/ OnFacts /\ Next
    \/ OnEntities /\ RegistryNext

KnowledgeSpec == KnowledgeInit /\ [][KnowledgeNext]_knowledgeVars

(* Every variable of both modules keeps to its type.                       *)
KnowledgeTypeOK == TypeOK /\ RegistryTypeOK
=============================================================================
