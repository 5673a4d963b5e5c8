------------------------------ MODULE MCReplicas ------------------------------
(***************************************************************************)
(* What every API process does on its own timer or at its start, against   *)
(* the other processes and the owner: the startup sweep of the backfills,  *)
(* the sweep of the dead-man's switch, the sweep of the nudges.  They      *)
(* share no state, so a behaviour runs one of them and leaves the others   *)
(* as they start.                                                          *)
(***************************************************************************)
EXTENDS MCBackfill, DeadMansSwitch, Nudges

\* One kind, new to the item.
OneKind == <<"entities">>
NoneRequired == [k \in {"entities"} |-> {}]
NewKind == {[k \in {"entities"} |-> None]}

\* Commitments are numbers here, each due at its own.
DueInTurn == [c \in Commitments |-> c]

VARIABLE focus

replicaVars == <<focus, vars, switchVars, nudgeVars>>

ReplicasInit == focus \in {"boot", "switch", "nudges"} /\ Init /\ SwitchInit /\ NudgeInit

OnBoot == focus = "boot" /\ UNCHANGED <<focus, switchVars, nudgeVars>>
OnSwitch == focus = "switch" /\ UNCHANGED <<focus, vars, nudgeVars>>
OnNudges == focus = "nudges" /\ UNCHANGED <<focus, vars, switchVars>>

ReplicasNext ==
    \/ OnBoot /\ Next
    \/ OnSwitch /\ SwitchNext
    \/ OnNudges /\ NudgeNext

\* The fairness of whichever runs.
ReplicasFairness ==
    /\ SF_replicaVars(\/ OnSwitch /\ SwitchTick
                      \/ OnNudges /\ NudgeTick)
    /\ WF_replicaVars(\/ OnSwitch /\ \E w \in Hosts : SwitchSweepStep(w)
                      \/ OnNudges /\ \E w \in Sweepers : NudgeSweepStep(w))
    /\ WF_replicaVars(\/ OnSwitch /\ \E t \in Tabs : CallStep(t)
                      \/ OnNudges /\ \E c \in Commitments : ActStep(c))
ReplicasSpec == ReplicasInit /\ [][ReplicasNext]_replicaVars /\ ReplicasFairness

(* Every variable of every module keeps to its type.                       *)
ReplicasTypeOK == TypeOK /\ SwitchTypeOK /\ NudgeTypeOK
=============================================================================
