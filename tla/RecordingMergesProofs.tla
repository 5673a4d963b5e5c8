------------------------ MODULE RecordingMergesProofs ------------------------
(***************************************************************************)
(* Theorems about RecordingMerges, for any recordings, any merges of them  *)
(* and of merges, any number of tries and every bound.                     *)
(***************************************************************************)
EXTENDS RecordingMerges, TLAPS

(***************************************************************************)
(* The inductive invariant                                                 *)
(***************************************************************************)
\* A deletion finds a row, and removes the blob after it.
Deletions ==
    \A i \in MergeItems :
        /\ deleting[i] # "idle" => rows[i] # "none"
        /\ deleting[i] = "blobs" => rows[i] = "deleted"

\* A job that is there has a try left.
JobsTry == \A m \in Merged : job[m] = NoMergeJob \/ (job[m].pc # "none" /\ job[m].left # 0)

\* A merge is requested once, has no job before it is handed over, and nothing
\* to show before it is announced.
Requests ==
    \A m \in Merged :
        /\ merging[m].pc # "idle" => job[m].pc = "none" /\ rows[m] # "committed"
        /\ merging[m].pc \in {"check", "create"} => rows[m] = "none"
        /\ merging[m].pc \in {"links", "undo", "announce", "hand"} => rows[m] # "none"
        /\ merging[m].pc \in {"check", "create", "links"} => made[m].parts = {}
        /\ merging[m].pc \in {"check", "create", "links", "undo", "announce"} =>
              progress[m] = "none"
        /\ rows[m] = "none" => /\ job[m].pc = "none" /\ progress[m] = "none"
                               /\ made[m].parts = {} /\ made[m].stitched = 0

\* The links of a live merge are its parts; its job puts together just those.
Whole ==
    \A m \in Merged :
        /\ LiveItem(m) => \A s \in MergeItems : links[s] = m <=> s \in made[m].parts
        /\ rows[m] = "committed" \/ (LiveItem(m) /\ job[m].pc = "ready") =>
              m \in blobs /\ made[m].audio = made[m].parts

\* Nothing is stitched before the job comes to it.
Stitching ==
    \A m \in Merged :
        made[m].cut \/ /\ made[m].stitched <= 1
                       /\ merging[m].pc # "idle" \/ job[m].pc \notin {"none", "done"} =>
                             made[m].stitched = 0

\* NoMergeStranded, of what the request and the job do.
Attended ==
    \A m \in Merged :
        LiveItem(m) /\ merging[m].pc = "idle" /\ job[m].pc = "none"
           /\ progress[m] \in {"queued", "processing"} => made[m].cut

MergeInv ==
    /\ MergeTypeOK /\ LinksJoinLiveItems /\ Deletions /\ JobsTry /\ Requests /\ Whole
    /\ Stitching /\ Attended
-----------------------------------------------------------------------------
(***************************************************************************)
(* What the steps of requests and jobs are made of                         *)
(***************************************************************************)
\* A request gets on, or is answered, and no other does.
LEMMA RequestMoves ==
    ASSUME MergeTypeOK, NEW m \in Merged
    PROVE  /\ \A pc : Step(m, pc) =>
                 /\ merging'[m].pc = pc /\ merging'[m].parts = merging[m].parts
                 /\ \A n \in Merged \ {m} : merging'[n] = merging[n]
           /\ Answer(m) =>
                 /\ merging'[m].pc = "idle"
                 /\ \A n \in Merged \ {m} : merging'[n] = merging[n]
BY DEF MergeTypeOK, MergeRequest, Step, Answer, NoMerge

\* A job gets on, and no other does.
LEMMA JobMoves ==
    ASSUME MergeTypeOK, NEW m \in Merged
    PROVE  \A pc : GotoMerge(m, pc) =>
              /\ job'[m].pc = pc /\ job'[m].left = job[m].left
              /\ \A n \in Merged \ {m} : job'[n] = job[n]
BY DEF MergeTypeOK, MergeJob, GotoMerge

\* A run that fails gives its job back to the queue, unless it was the last.
LEMMA MergeRunFails ==
    ASSUME MergeAssumption, MergeTypeOK, JobsTry, NEW m \in Merged, job[m].pc # "none", FailRun(m)
    PROVE  /\ job' \in [Merged -> MergeJob]
           /\ job'[m].pc \in {"none", "waiting"}
           /\ job'[m] = NoMergeJob \/ (job'[m].pc = "waiting" /\ job'[m].left # 0)
           /\ \A n \in Merged \ {m} : job'[n] = job[n]
           /\ progress'[m] = IF LiveItem(m) THEN "failed" ELSE progress[m]
           /\ \A n \in Merged \ {m} : progress'[n] = progress[n]
<1>1. job[m].left \in 1 .. MergeTries /\ job[m].left - 1 \in 0 .. MergeTries
  BY DEF MergeTypeOK, MergeJob, JobsTry, MergeAssumption, NoMergeJob
<1>2. CASE job[m].left = 1
  <2>1. job' = [job EXCEPT ![m] = NoMergeJob]
    BY <1>2 DEF FailRun
  <2>2. NoMergeJob \in MergeJob /\ NoMergeJob.pc = "none"
    BY DEF NoMergeJob, MergeJob, MergeAssumption
  <2> QED BY <2>1, <2>2 DEF MergeTypeOK, FailRun, PutProgress
<1>3. CASE job[m].left # 1
  <2> DEFINE r == [pc |-> "waiting", left |-> job[m].left - 1]
  <2>1. job' = [job EXCEPT ![m] = r]
    BY <1>3 DEF FailRun
  <2>2. r \in MergeJob /\ r.pc = "waiting" /\ r.left # 0
    BY <1>1, <1>3 DEF MergeJob
  <2> HIDE DEF r
  <2> QED BY <2>1, <2>2 DEF MergeTypeOK, FailRun, PutProgress
<1> QED BY <1>2, <1>3

\* What is known of a merge changes field by field.
LEMMA MadeMoves ==
    ASSUME MergeTypeOK, NEW m \in Merged
    PROVE  /\ Cut(m) => /\ made' \in [Merged -> Made]
                        /\ made'[m].cut
                        /\ made'[m].parts = made[m].parts /\ made'[m].audio = made[m].audio
                        /\ made'[m].stitched = made[m].stitched
                        /\ \A n \in Merged \ {m} : made'[n] = made[n]
           /\ made' = [made EXCEPT ![m].audio = made[m].parts] =>
                /\ made' \in [Merged -> Made]
                /\ made'[m].parts = made[m].parts /\ made'[m].audio = made[m].parts
                /\ made'[m].stitched = made[m].stitched /\ made'[m].cut = made[m].cut
                /\ \A n \in Merged \ {m} : made'[n] = made[n]
           /\ \A parts \in SUBSET MergeItems : made' = [made EXCEPT ![m].parts = parts] =>
                /\ made' \in [Merged -> Made]
                /\ made'[m].parts = parts /\ made'[m].audio = made[m].audio
                /\ made'[m].stitched = made[m].stitched /\ made'[m].cut = made[m].cut
                /\ \A n \in Merged \ {m} : made'[n] = made[n]
           /\ made' = [made EXCEPT ![m].stitched = @ + 1] =>
                /\ made' \in [Merged -> Made]
                /\ made'[m].parts = made[m].parts /\ made'[m].audio = made[m].audio
                /\ made'[m].stitched = made[m].stitched + 1 /\ made'[m].cut = made[m].cut
                /\ \A n \in Merged \ {m} : made'[n] = made[n]
<1>1. /\ made[m] \in Made /\ made \in [Merged -> Made]
      /\ \A n \in Merged : made[n] \in Made
  BY DEF MergeTypeOK
<1>2. ASSUME Cut(m)
      PROVE  /\ made' \in [Merged -> Made]
             /\ made'[m].cut /\ made'[m].parts = made[m].parts /\ made'[m].audio = made[m].audio
             /\ made'[m].stitched = made[m].stitched
             /\ \A n \in Merged \ {m} : made'[n] = made[n]
  <2>1. [made[m] EXCEPT !.cut = TRUE] \in Made
    BY <1>1 DEF Made
  <2>2. made' = [made EXCEPT ![m] = [made[m] EXCEPT !.cut = TRUE]]
    BY <1>2 DEF Cut
  <2> QED BY <1>1, <2>1, <2>2 DEF Made
<1>3. ASSUME NEW parts \in SUBSET MergeItems, made' = [made EXCEPT ![m].parts = parts]
      PROVE  /\ made' \in [Merged -> Made]
             /\ made'[m].parts = parts /\ made'[m].audio = made[m].audio
             /\ made'[m].stitched = made[m].stitched /\ made'[m].cut = made[m].cut
             /\ \A n \in Merged \ {m} : made'[n] = made[n]
  <2>1. [made[m] EXCEPT !.parts = parts] \in Made
    BY <1>1 DEF Made
  <2>2. made' = [made EXCEPT ![m] = [made[m] EXCEPT !.parts = parts]]
    BY <1>3
  <2> QED BY <1>1, <2>1, <2>2 DEF Made
<1>4. ASSUME made' = [made EXCEPT ![m].stitched = @ + 1]
      PROVE  /\ made' \in [Merged -> Made]
             /\ made'[m].parts = made[m].parts /\ made'[m].audio = made[m].audio
             /\ made'[m].stitched = made[m].stitched + 1 /\ made'[m].cut = made[m].cut
             /\ \A n \in Merged \ {m} : made'[n] = made[n]
  <2>1. [made[m] EXCEPT !.stitched = made[m].stitched + 1] \in Made
    BY <1>1 DEF Made
  <2>2. made' = [made EXCEPT ![m] = [made[m] EXCEPT !.stitched = made[m].stitched + 1]]
    BY <1>4
  <2> QED BY <1>1, <2>1, <2>2 DEF Made
<1>5. ASSUME made' = [made EXCEPT ![m].audio = made[m].parts]
      PROVE  /\ made' \in [Merged -> Made]
             /\ made'[m].parts = made[m].parts /\ made'[m].audio = made[m].parts
             /\ made'[m].stitched = made[m].stitched /\ made'[m].cut = made[m].cut
             /\ \A n \in Merged \ {m} : made'[n] = made[n]
  <2>1. [made[m] EXCEPT !.audio = made[m].parts] \in Made
    BY <1>1 DEF Made
  <2>2. made' = [made EXCEPT ![m] = [made[m] EXCEPT !.audio = made[m].parts]]
    BY <1>5
  <2> QED BY <1>1, <2>1, <2>2 DEF Made
<1> QED BY <1>2, <1>3, <1>4, <1>5

\* A crash loses the requests, keeps the jobs, and is remembered.
LEMMA CrashMoves ==
    ASSUME MergeAssumption, MergeTypeOK, JobsTry, MergeCrash
    PROVE  /\ MergeTypeOK'
           /\ \A m \in Merged :
                 /\ merging'[m].pc = "idle"
                 /\ job[m] = NoMergeJob => job'[m] = NoMergeJob
                 /\ job[m] # NoMergeJob => job'[m].pc = "waiting" /\ job'[m].left = job[m].left
                 /\ made'[m].parts = made[m].parts /\ made'[m].audio = made[m].audio
                 /\ made'[m].stitched = made[m].stitched
                 /\ made[m].cut => made'[m].cut
                 /\ merging[m].pc # "idle" \/ job[m] # NoMergeJob => made'[m].cut
<1>1. ASSUME NEW m \in Merged
      PROVE  /\ merging'[m] = NoMerge /\ NoMerge \in MergeRequest /\ NoMerge.pc = "idle"
             /\ job[m] = NoMergeJob => job'[m] = NoMergeJob
             /\ job[m] # NoMergeJob => job'[m].pc = "waiting" /\ job'[m].left = job[m].left
             /\ job'[m] \in MergeJob
  BY DEF MergeTypeOK, MergeCrash, MergeJob, MergeRequest, NoMerge
<1>2. ASSUME NEW m \in Merged
      PROVE  LET b == made[m].cut \/ merging[m] # NoMerge \/ job[m] # NoMergeJob IN
             /\ made'[m] = [made[m] EXCEPT !.cut = b]
             /\ made'[m].parts = made[m].parts /\ made'[m].audio = made[m].audio
             /\ made'[m].stitched = made[m].stitched /\ made'[m].cut = b
             /\ made'[m] \in Made
  <2> DEFINE b == made[m].cut \/ merging[m] # NoMerge \/ job[m] # NoMergeJob
  <2>1. b \in BOOLEAN /\ made[m] \in Made
    BY DEF MergeTypeOK, Made
  <2>2. made'[m] = [made[m] EXCEPT !.cut = b]
    BY DEF MergeCrash
  <2> HIDE DEF b
  <2>3. /\ made'[m].parts = made[m].parts /\ made'[m].audio = made[m].audio
        /\ made'[m].stitched = made[m].stitched /\ made'[m].cut = b
        /\ made'[m] \in Made
    BY <2>1, <2>2 DEF Made
  <2> QED BY <2>2, <2>3 DEF b
<1>3. /\ merging' \in [Merged -> MergeRequest] /\ job' \in [Merged -> MergeJob]
      /\ made' \in [Merged -> Made]
  <2>1. /\ merging' = [m \in Merged |-> merging'[m]] /\ job' = [m \in Merged |-> job'[m]]
        /\ made' = [m \in Merged |-> made'[m]]
    BY DEF MergeCrash
  <2> QED BY <1>1, <1>2, <2>1
<1>4. MergeTypeOK'
  BY <1>3 DEF MergeTypeOK, MergeCrash, Trouble, MergeAssumption
<1>5. ASSUME NEW m \in Merged, merging[m].pc # "idle" PROVE merging[m] # NoMerge
  BY <1>5 DEF NoMerge
<1> QED BY <1>1, <1>2, <1>4, <1>5

\* Every edit of a request or a job gives one.
LEMMA MergeTypes ==
    ASSUME MergeAssumption, MergeTypeOK
    PROVE  /\ NoMerge \in MergeRequest /\ NoMergeJob \in MergeJob
           /\ \A parts \in SUBSET MergeItems : [pc |-> "check", parts |-> parts] \in MergeRequest
           /\ [pc |-> "waiting", left |-> MergeTries] \in MergeJob
           /\ \A m \in Merged :
                /\ merging[m].parts \in SUBSET MergeItems /\ made[m].parts \in SUBSET MergeItems
                /\ Answer(m) => merging' \in [Merged -> MergeRequest]
                /\ \A pc \in {"create", "links", "undo", "announce", "hand"} :
                      Step(m, pc) => merging' \in [Merged -> MergeRequest]
                /\ \A pc \in {"read", "concat", "put", "ready", "stitch", "done"} :
                      GotoMerge(m, pc) => job' \in [Merged -> MergeJob]
<1>1. NoMerge \in MergeRequest /\ NoMergeJob \in MergeJob
  BY DEF NoMerge, NoMergeJob, MergeRequest, MergeJob, MergeAssumption
<1>2. \A parts \in SUBSET MergeItems : [pc |-> "check", parts |-> parts] \in MergeRequest
  BY DEF MergeRequest
<1>3. [pc |-> "waiting", left |-> MergeTries] \in MergeJob
  BY DEF MergeJob, MergeAssumption
<1>4. ASSUME NEW m \in Merged
      PROVE  /\ merging[m].parts \in SUBSET MergeItems /\ made[m].parts \in SUBSET MergeItems
             /\ Answer(m) => merging' \in [Merged -> MergeRequest]
  BY <1>1 DEF MergeTypeOK, MergeRequest, Made, Answer
<1>5. ASSUME NEW m \in Merged, NEW pc \in {"create", "links", "undo", "announce", "hand"}, Step(m, pc)
      PROVE  merging' \in [Merged -> MergeRequest]
  <2>1. [merging[m] EXCEPT !.pc = pc] \in MergeRequest
    BY DEF MergeTypeOK, MergeRequest
  <2> QED BY <1>5, <2>1 DEF MergeTypeOK, Step
<1>6. ASSUME NEW m \in Merged, NEW pc \in {"read", "concat", "put", "ready", "stitch", "done"},
             GotoMerge(m, pc)
      PROVE  job' \in [Merged -> MergeJob]
  <2>1. [job[m] EXCEPT !.pc = pc] \in MergeJob
    BY DEF MergeTypeOK, MergeJob
  <2> QED BY <1>6, <2>1 DEF MergeTypeOK, GotoMerge
<1> QED BY <1>1, <1>2, <1>3, <1>4, <1>5, <1>6

\* The invariant holds at the start.
LEMMA InitMerge == MergeAssumption /\ MergeInit => MergeInv
<1> SUFFICES ASSUME MergeAssumption, MergeInit PROVE MergeInv
  OBVIOUS
<1> USE DEF MergeAssumption, MergeInit
<1>1. MergeTypeOK
  BY DEF MergeTypeOK, MergeRequest, MergeJob, Made, NoMerge, NoMergeJob, MergeItems
<1>2. LinksJoinLiveItems /\ Deletions /\ JobsTry /\ Whole /\ Stitching /\ Attended
  BY DEF LinksJoinLiveItems, Deletions, JobsTry, Whole, Stitching, Attended, LiveItem, NoMerge,
     NoMergeJob, MergeItems
<1>3. Requests
  BY DEF Requests, NoMerge, NoMergeJob, MergeItems
<1> QED BY <1>1, <1>2, <1>3 DEF MergeInv
-----------------------------------------------------------------------------
\* Every step keeps the types.
LEMMA MergeTypeStep ==
    ASSUME MergeAssumption, MergeInv, [MergeNext]_mergeVars
    PROVE  MergeTypeOK'
<1> USE DEF MergeInv, Trouble, PutProgress
<1> USE DEF MergeTypeOK, MergeAssumption, JobsTry
<1>1. ASSUME NEW m \in Merged, NEW parts \in SUBSET MergeItems, Merge(m, parts) PROVE MergeTypeOK'
  BY <1>1, MergeTypes DEF Merge
<1>2. ASSUME NEW m \in Merged, CheckFree(m) PROVE MergeTypeOK'
  BY <1>2, RequestMoves, MergeTypes DEF CheckFree
<1>3. ASSUME NEW m \in Merged, CreatePending(m) PROVE MergeTypeOK'
  BY <1>3, RequestMoves, MergeTypes DEF CreatePending
<1>4. ASSUME NEW m \in Merged, SaveLinks(m) PROVE MergeTypeOK'
  <2>1. merging[m].parts \in SUBSET MergeItems /\ merging' \in [Merged -> MergeRequest]
    BY <1>4, MergeTypes DEF SaveLinks
  <2>2. made' \in [Merged -> Made]
    BY <1>4, <2>1, MadeMoves DEF SaveLinks
  <2> QED BY <1>4, <2>1, <2>2 DEF SaveLinks
<1>5. ASSUME NEW m \in Merged, Undo(m) PROVE MergeTypeOK'
  BY <1>5, RequestMoves, MergeTypes DEF Undo
<1>6. ASSUME NEW m \in Merged, Announce(m) PROVE MergeTypeOK'
  BY <1>6, RequestMoves, MergeTypes DEF Announce
<1>7. ASSUME NEW m \in Merged, HandOverMerge(m) PROVE MergeTypeOK'
  BY <1>7, RequestMoves, MadeMoves, MergeTypes DEF HandOverMerge
<1>8. ASSUME NEW m \in Merged, TakeMerge(m) PROVE MergeTypeOK'
  BY <1>8, JobMoves, MergeTypes DEF TakeMerge
<1>9. ASSUME NEW m \in Merged, ReadParts(m) PROVE MergeTypeOK'
  <2>1. job' \in [Merged -> MergeJob]
    BY <1>9, MergeTypes, MergeRunFails DEF ReadParts, NoMergeJob
  <2>2. progress' \in [Merged -> {"none", "queued", "processing", "failed", "succeeded"}]
    BY <1>9 DEF ReadParts, FailRun
  <2> QED BY <1>9, <2>1, <2>2 DEF ReadParts
<1>10. ASSUME NEW m \in Merged, Concat(m) PROVE MergeTypeOK'
  <2>1. job' \in [Merged -> MergeJob]
    BY <1>10, MergeTypes, MergeRunFails DEF Concat, NoMergeJob
  <2>2. progress' \in [Merged -> {"none", "queued", "processing", "failed", "succeeded"}]
    BY <1>10 DEF Concat, FailRun
  <2> QED BY <1>10, <2>1, <2>2 DEF Concat
<1>11. ASSUME NEW m \in Merged, ProcessFails(m) PROVE MergeTypeOK'
  <2>1. job' \in [Merged -> MergeJob]
    BY <1>11, MergeTypes, MergeRunFails DEF ProcessFails, NoMergeJob
  <2>2. progress' \in [Merged -> {"none", "queued", "processing", "failed", "succeeded"}]
    BY <1>11 DEF ProcessFails, FailRun
  <2> QED BY <1>11, <2>1, <2>2 DEF ProcessFails
<1>12. ASSUME NEW m \in Merged, PutAudio(m) PROVE MergeTypeOK'
  <2>1. job' \in [Merged -> MergeJob]
    BY <1>12, MergeTypes DEF PutAudio
  <2>2. made' \in [Merged -> Made]
    BY <1>12, MadeMoves DEF PutAudio
  <2> QED BY <1>12, <2>1, <2>2 DEF PutAudio, MergeItems
<1>13. ASSUME NEW m \in Merged, MarkReady(m) PROVE MergeTypeOK'
  BY <1>13, JobMoves, MergeTypes DEF MarkReady
<1>14. ASSUME NEW m \in Merged, Stitch(m) PROVE MergeTypeOK'
  BY <1>14, JobMoves, MadeMoves, MergeTypes DEF Stitch
<1>15. ASSUME NEW m \in Merged, Complete(m) PROVE MergeTypeOK'
  BY <1>15, MergeTypes DEF Complete
<1>16. ASSUME NEW i \in MergeItems, Delete(i) PROVE MergeTypeOK'
  BY <1>16, MergeTypes DEF Delete
<1>17. ASSUME NEW i \in MergeItems, CheckHidden(i) PROVE MergeTypeOK'
  BY <1>17, MergeTypes DEF CheckHidden
<1>18. ASSUME NEW i \in MergeItems, DeleteRows(i) PROVE MergeTypeOK'
  BY <1>18, MergeTypes DEF DeleteRows
<1>19. ASSUME NEW i \in MergeItems, DeleteBlobs(i) PROVE MergeTypeOK'
  BY <1>19, MergeTypes DEF DeleteBlobs
<1>20. ASSUME MergeCrash PROVE MergeTypeOK'
  BY <1>20, CrashMoves DEF MergeCrash
<1>21. CASE UNCHANGED mergeVars
  BY <1>21 DEF mergeVars
<1> QED BY <1>1, <1>2, <1>3, <1>4, <1>5, <1>6, <1>7, <1>8, <1>9, <1>10, <1>11, <1>12, <1>13,
           <1>14, <1>15, <1>16, <1>17, <1>18, <1>19, <1>20, <1>21 DEF MergeNext, MergeProgress,
           MergeStep, DeleteStep

\* Every step keeps links between live items: the keys of SaveLinks and DeleteRows see to it.
LEMMA LinkStep ==
    ASSUME MergeAssumption, MergeInv, [MergeNext]_mergeVars
    PROVE  LinksJoinLiveItems'
<1> USE DEF MergeInv, Trouble, PutProgress
<1> USE DEF LinksJoinLiveItems, Deletions, Requests, LiveItem, MergeItems, MergeTypeOK
<1>1. ASSUME NEW m \in Merged, NEW parts \in SUBSET MergeItems, Merge(m, parts) PROVE LinksJoinLiveItems'
  BY <1>1 DEF Merge
<1>2. ASSUME NEW m \in Merged, CheckFree(m) PROVE LinksJoinLiveItems'
  BY <1>2, RequestMoves DEF CheckFree
<1>3. ASSUME NEW m \in Merged, CreatePending(m) PROVE LinksJoinLiveItems'
  BY <1>3, RequestMoves DEF CreatePending
<1>4. ASSUME NEW m \in Merged, SaveLinks(m) PROVE LinksJoinLiveItems'
  BY <1>4, RequestMoves, MadeMoves DEF SaveLinks
<1>5. ASSUME NEW m \in Merged, Undo(m) PROVE LinksJoinLiveItems'
  BY <1>5, RequestMoves DEF Undo
<1>6. ASSUME NEW m \in Merged, Announce(m) PROVE LinksJoinLiveItems'
  BY <1>6, RequestMoves DEF Announce
<1>7. ASSUME NEW m \in Merged, HandOverMerge(m) PROVE LinksJoinLiveItems'
  BY <1>7, RequestMoves, MadeMoves DEF HandOverMerge
<1>8. ASSUME NEW m \in Merged, TakeMerge(m) PROVE LinksJoinLiveItems'
  BY <1>8, JobMoves DEF TakeMerge
<1>9. ASSUME NEW m \in Merged, ReadParts(m) PROVE LinksJoinLiveItems'
  BY <1>9, JobMoves, MergeRunFails DEF ReadParts
<1>10. ASSUME NEW m \in Merged, Concat(m) PROVE LinksJoinLiveItems'
  BY <1>10, JobMoves, MergeRunFails DEF Concat
<1>11. ASSUME NEW m \in Merged, ProcessFails(m) PROVE LinksJoinLiveItems'
  BY <1>11, MergeRunFails DEF ProcessFails
<1>12. ASSUME NEW m \in Merged, PutAudio(m) PROVE LinksJoinLiveItems'
  BY <1>12, JobMoves DEF PutAudio
<1>13. ASSUME NEW m \in Merged, MarkReady(m) PROVE LinksJoinLiveItems'
  BY <1>13, JobMoves DEF MarkReady
<1>14. ASSUME NEW m \in Merged, Stitch(m) PROVE LinksJoinLiveItems'
  BY <1>14, JobMoves, MadeMoves DEF Stitch
<1>15. ASSUME NEW m \in Merged, Complete(m) PROVE LinksJoinLiveItems'
  BY <1>15 DEF Complete
<1>16. ASSUME NEW i \in MergeItems, Delete(i) PROVE LinksJoinLiveItems'
  BY <1>16 DEF Delete
<1>17. ASSUME NEW i \in MergeItems, CheckHidden(i) PROVE LinksJoinLiveItems'
  BY <1>17 DEF CheckHidden
<1>18. ASSUME NEW i \in MergeItems, DeleteRows(i) PROVE LinksJoinLiveItems'
  BY <1>18 DEF DeleteRows
<1>19. ASSUME NEW i \in MergeItems, DeleteBlobs(i) PROVE LinksJoinLiveItems'
  BY <1>19 DEF DeleteBlobs
<1>20. ASSUME MergeCrash PROVE LinksJoinLiveItems'
  BY <1>20, CrashMoves DEF MergeCrash
<1>21. CASE UNCHANGED mergeVars
  BY <1>21 DEF mergeVars
<1> QED BY <1>1, <1>2, <1>3, <1>4, <1>5, <1>6, <1>7, <1>8, <1>9, <1>10, <1>11, <1>12, <1>13,
           <1>14, <1>15, <1>16, <1>17, <1>18, <1>19, <1>20, <1>21 DEF MergeNext, MergeProgress,
           MergeStep, DeleteStep

\* Every step keeps the blobs of what has rows.
LEMMA DeletionStep ==
    ASSUME MergeAssumption, MergeInv, [MergeNext]_mergeVars
    PROVE  Deletions'
<1> USE DEF MergeInv, Trouble, PutProgress
<1> USE DEF Deletions, Requests, MergeTypeOK, LiveItem, NoMerge, NoMergeJob, MergeItems
<1>1. ASSUME NEW m \in Merged, NEW parts \in SUBSET MergeItems, Merge(m, parts) PROVE Deletions'
  BY <1>1 DEF Merge
<1>2. ASSUME NEW m \in Merged, CheckFree(m) PROVE Deletions'
  BY <1>2, RequestMoves DEF CheckFree
<1>3. ASSUME NEW m \in Merged, CreatePending(m) PROVE Deletions'
  BY <1>3, RequestMoves DEF CreatePending
<1>4. ASSUME NEW m \in Merged, SaveLinks(m) PROVE Deletions'
  BY <1>4, RequestMoves, MadeMoves DEF SaveLinks
<1>5. ASSUME NEW m \in Merged, Undo(m) PROVE Deletions'
  BY <1>5, RequestMoves DEF Undo
<1>6. ASSUME NEW m \in Merged, Announce(m) PROVE Deletions'
  BY <1>6, RequestMoves DEF Announce
<1>7. ASSUME NEW m \in Merged, HandOverMerge(m) PROVE Deletions'
  BY <1>7, RequestMoves, MadeMoves DEF HandOverMerge
<1>8. ASSUME NEW m \in Merged, TakeMerge(m) PROVE Deletions'
  BY <1>8, JobMoves DEF TakeMerge
<1>9. ASSUME NEW m \in Merged, ReadParts(m) PROVE Deletions'
  BY <1>9, JobMoves, MergeRunFails DEF ReadParts
<1>10. ASSUME NEW m \in Merged, Concat(m) PROVE Deletions'
  BY <1>10, JobMoves, MergeRunFails DEF Concat
<1>11. ASSUME NEW m \in Merged, ProcessFails(m) PROVE Deletions'
  BY <1>11, MergeRunFails DEF ProcessFails
<1>12. ASSUME NEW m \in Merged, PutAudio(m) PROVE Deletions'
  BY <1>12, JobMoves DEF PutAudio
<1>13. ASSUME NEW m \in Merged, MarkReady(m) PROVE Deletions'
  BY <1>13, JobMoves DEF MarkReady
<1>14. ASSUME NEW m \in Merged, Stitch(m) PROVE Deletions'
  BY <1>14, JobMoves, MadeMoves DEF Stitch
<1>15. ASSUME NEW m \in Merged, Complete(m) PROVE Deletions'
  BY <1>15 DEF Complete
<1>16. ASSUME NEW i \in MergeItems, Delete(i) PROVE Deletions'
  BY <1>16 DEF Delete
<1>17. ASSUME NEW i \in MergeItems, CheckHidden(i) PROVE Deletions'
  BY <1>17 DEF CheckHidden
<1>18. ASSUME NEW i \in MergeItems, DeleteRows(i) PROVE Deletions'
  BY <1>18 DEF DeleteRows
<1>19. ASSUME NEW i \in MergeItems, DeleteBlobs(i) PROVE Deletions'
  BY <1>19 DEF DeleteBlobs
<1>20. ASSUME MergeCrash PROVE Deletions'
  BY <1>20, CrashMoves DEF MergeCrash
<1>21. CASE UNCHANGED mergeVars
  BY <1>21 DEF mergeVars
<1> QED BY <1>1, <1>2, <1>3, <1>4, <1>5, <1>6, <1>7, <1>8, <1>9, <1>10, <1>11, <1>12, <1>13,
           <1>14, <1>15, <1>16, <1>17, <1>18, <1>19, <1>20, <1>21 DEF MergeNext, MergeProgress,
           MergeStep, DeleteStep

\* Every step leaves a job that is there a try.
LEMMA MergeJobStep ==
    ASSUME MergeAssumption, MergeInv, [MergeNext]_mergeVars
    PROVE  JobsTry'
<1> USE DEF MergeInv, Trouble, PutProgress
<1> USE DEF JobsTry, LiveItem, MergeAssumption, MergeTypeOK, NoMergeJob
<1>1. ASSUME NEW m \in Merged, NEW parts \in SUBSET MergeItems, Merge(m, parts) PROVE JobsTry'
  BY <1>1 DEF Merge
<1>2. ASSUME NEW m \in Merged, CheckFree(m) PROVE JobsTry'
  BY <1>2, RequestMoves DEF CheckFree
<1>3. ASSUME NEW m \in Merged, CreatePending(m) PROVE JobsTry'
  BY <1>3, RequestMoves DEF CreatePending
<1>4. ASSUME NEW m \in Merged, SaveLinks(m) PROVE JobsTry'
  BY <1>4, RequestMoves, MadeMoves DEF SaveLinks
<1>5. ASSUME NEW m \in Merged, Undo(m) PROVE JobsTry'
  BY <1>5, RequestMoves DEF Undo
<1>6. ASSUME NEW m \in Merged, Announce(m) PROVE JobsTry'
  BY <1>6, RequestMoves DEF Announce
<1>7. ASSUME NEW m \in Merged, HandOverMerge(m) PROVE JobsTry'
  BY <1>7, RequestMoves, MadeMoves DEF HandOverMerge
<1>8. ASSUME NEW m \in Merged, TakeMerge(m) PROVE JobsTry'
  BY <1>8, JobMoves DEF TakeMerge
<1>9. ASSUME NEW m \in Merged, ReadParts(m) PROVE JobsTry'
  BY <1>9, JobMoves, MergeRunFails DEF ReadParts
<1>10. ASSUME NEW m \in Merged, Concat(m) PROVE JobsTry'
  BY <1>10, JobMoves, MergeRunFails DEF Concat
<1>11. ASSUME NEW m \in Merged, ProcessFails(m) PROVE JobsTry'
  BY <1>11, MergeRunFails DEF ProcessFails
<1>12. ASSUME NEW m \in Merged, PutAudio(m) PROVE JobsTry'
  BY <1>12, JobMoves DEF PutAudio
<1>13. ASSUME NEW m \in Merged, MarkReady(m) PROVE JobsTry'
  BY <1>13, JobMoves DEF MarkReady
<1>14. ASSUME NEW m \in Merged, Stitch(m) PROVE JobsTry'
  BY <1>14, JobMoves, MadeMoves DEF Stitch
<1>15. ASSUME NEW m \in Merged, Complete(m) PROVE JobsTry'
  BY <1>15 DEF Complete
<1>16. ASSUME NEW i \in MergeItems, Delete(i) PROVE JobsTry'
  BY <1>16 DEF Delete
<1>17. ASSUME NEW i \in MergeItems, CheckHidden(i) PROVE JobsTry'
  BY <1>17 DEF CheckHidden
<1>18. ASSUME NEW i \in MergeItems, DeleteRows(i) PROVE JobsTry'
  BY <1>18 DEF DeleteRows
<1>19. ASSUME NEW i \in MergeItems, DeleteBlobs(i) PROVE JobsTry'
  BY <1>19 DEF DeleteBlobs
<1>20. ASSUME MergeCrash PROVE JobsTry'
  BY <1>20, CrashMoves DEF MergeCrash
<1>21. CASE UNCHANGED mergeVars
  BY <1>21 DEF mergeVars
<1> QED BY <1>1, <1>2, <1>3, <1>4, <1>5, <1>6, <1>7, <1>8, <1>9, <1>10, <1>11, <1>12, <1>13,
           <1>14, <1>15, <1>16, <1>17, <1>18, <1>19, <1>20, <1>21 DEF MergeNext, MergeProgress,
           MergeStep, DeleteStep

\* Every step keeps request, job and row of a merge in their order.
LEMMA MergeRequestStep ==
    ASSUME MergeAssumption, MergeInv, [MergeNext]_mergeVars
    PROVE  Requests'
<1> USE DEF MergeInv, Trouble, PutProgress
<1> USE DEF Requests, LinksJoinLiveItems, JobsTry, MergeTypeOK, LiveItem, NoMerge, NoMergeJob,
            MergeItems
<1>1. ASSUME NEW m \in Merged, NEW parts \in SUBSET MergeItems, Merge(m, parts) PROVE Requests'
  BY <1>1 DEF Merge
<1>2. ASSUME NEW m \in Merged, CheckFree(m) PROVE Requests'
  BY <1>2, RequestMoves DEF CheckFree
<1>3. ASSUME NEW m \in Merged, CreatePending(m) PROVE Requests'
  BY <1>3, RequestMoves DEF CreatePending
<1>4. ASSUME NEW m \in Merged, SaveLinks(m) PROVE Requests'
  BY <1>4, RequestMoves, MadeMoves DEF SaveLinks
<1>5. ASSUME NEW m \in Merged, Undo(m) PROVE Requests'
  BY <1>5, RequestMoves DEF Undo
<1>6. ASSUME NEW m \in Merged, Announce(m) PROVE Requests'
  BY <1>6, RequestMoves DEF Announce
<1>7. ASSUME NEW m \in Merged, HandOverMerge(m) PROVE Requests'
  BY <1>7, RequestMoves, MadeMoves DEF HandOverMerge
<1>8. ASSUME NEW m \in Merged, TakeMerge(m) PROVE Requests'
  BY <1>8, JobMoves DEF TakeMerge
<1>9. ASSUME NEW m \in Merged, ReadParts(m) PROVE Requests'
  BY <1>9, JobMoves, MergeRunFails DEF ReadParts
<1>10. ASSUME NEW m \in Merged, Concat(m) PROVE Requests'
  BY <1>10, JobMoves, MergeRunFails DEF Concat
<1>11. ASSUME NEW m \in Merged, ProcessFails(m) PROVE Requests'
  BY <1>11, MergeRunFails DEF ProcessFails
<1>12. ASSUME NEW m \in Merged, PutAudio(m) PROVE Requests'
  BY <1>12, JobMoves DEF PutAudio
<1>13. ASSUME NEW m \in Merged, MarkReady(m) PROVE Requests'
  BY <1>13, JobMoves DEF MarkReady
<1>14. ASSUME NEW m \in Merged, Stitch(m) PROVE Requests'
  BY <1>14, JobMoves, MadeMoves DEF Stitch
<1>15. ASSUME NEW m \in Merged, Complete(m) PROVE Requests'
  BY <1>15 DEF Complete
<1>16. ASSUME NEW i \in MergeItems, Delete(i) PROVE Requests'
  BY <1>16 DEF Delete
<1>17. ASSUME NEW i \in MergeItems, CheckHidden(i) PROVE Requests'
  BY <1>17 DEF CheckHidden
<1>18. ASSUME NEW i \in MergeItems, DeleteRows(i) PROVE Requests'
  <2>1. UNCHANGED <<merging, job, progress, made>>
    BY <1>18 DEF DeleteRows
  <2>2. \A m \in Merged : /\ rows'[m] = rows[m] \/ (rows'[m] = "deleted" /\ rows[m] # "none")
    BY <1>18 DEF DeleteRows, Deletions
  <2> QED BY <2>1, <2>2
<1>19. ASSUME NEW i \in MergeItems, DeleteBlobs(i) PROVE Requests'
  BY <1>19 DEF DeleteBlobs
<1>20. ASSUME MergeCrash PROVE Requests'
  <2>1. UNCHANGED <<rows, blobs, links, progress>> /\ deleting' = [i \in MergeItems |-> "idle"]
    BY <1>20 DEF MergeCrash
  <2>2. Requests
    BY DEF MergeInv
  <2> QED BY <2>1, <2>2, <1>20, CrashMoves
<1>21. CASE UNCHANGED mergeVars
  BY <1>21 DEF mergeVars
<1> QED BY <1>1, <1>2, <1>3, <1>4, <1>5, <1>6, <1>7, <1>8, <1>9, <1>10, <1>11, <1>12, <1>13,
           <1>14, <1>15, <1>16, <1>17, <1>18, <1>19, <1>20, <1>21 DEF MergeNext, MergeProgress,
           MergeStep, DeleteStep

\* Every step keeps the merges whole.
LEMMA WholeStep ==
    ASSUME MergeAssumption, MergeInv, [MergeNext]_mergeVars
    PROVE  Whole'
<1> USE DEF MergeInv, Trouble, PutProgress
<1> USE DEF Whole, Requests, JobsTry, Deletions, LinksJoinLiveItems, MergeAssumption,
            MergeTypeOK, LiveItem, NoMerge, NoMergeJob, MergeItems
<1>1. ASSUME NEW m \in Merged, NEW parts \in SUBSET MergeItems, Merge(m, parts) PROVE Whole'
  BY <1>1 DEF Merge
<1>2. ASSUME NEW m \in Merged, CheckFree(m) PROVE Whole'
  BY <1>2, RequestMoves DEF CheckFree
<1>3. ASSUME NEW m \in Merged, CreatePending(m) PROVE Whole'
  BY <1>3, RequestMoves DEF CreatePending
<1>4. ASSUME NEW m \in Merged, SaveLinks(m) PROVE Whole'
  <2>1. CASE Step(m, "undo") /\ UNCHANGED <<links, made>>
    BY <1>4, <2>1, RequestMoves DEF SaveLinks
  <2>2. CASE /\ \A i \in merging[m].parts \cup {m} : LiveItem(i)
             /\ \A s \in merging[m].parts : links[s] = None
             /\ links' = [s \in MergeItems |-> IF s \in merging[m].parts THEN m ELSE links[s]]
             /\ made' = [made EXCEPT ![m].parts = merging[m].parts]
             /\ Step(m, "announce")
    <3>1. merging[m].parts \in SUBSET MergeItems
      BY MergeTypes
    <3>2. /\ made'[m].parts = merging[m].parts /\ made'[m].audio = made[m].audio
          /\ made'[m].stitched = made[m].stitched /\ made'[m].cut = made[m].cut
          /\ \A n \in Merged \ {m} : made'[n] = made[n]
      BY <2>2, <3>1, MadeMoves
    <3>3. /\ merging'[m].pc = "announce" /\ merging[m].pc = "links"
          /\ \A n \in Merged \ {m} : merging'[n] = merging[n]
          /\ UNCHANGED <<rows, blobs, job, progress>>
      BY <1>4, <2>2, RequestMoves DEF SaveLinks
    <3> QED BY <2>2, <3>1, <3>2, <3>3
  <2> QED BY <1>4, <2>1, <2>2 DEF SaveLinks
<1>5. ASSUME NEW m \in Merged, Undo(m) PROVE Whole'
  BY <1>5, RequestMoves DEF Undo
<1>6. ASSUME NEW m \in Merged, Announce(m) PROVE Whole'
  BY <1>6, RequestMoves DEF Announce
<1>7. ASSUME NEW m \in Merged, HandOverMerge(m) PROVE Whole'
  BY <1>7, RequestMoves, MadeMoves DEF HandOverMerge
<1>8. ASSUME NEW m \in Merged, TakeMerge(m) PROVE Whole'
  BY <1>8, JobMoves DEF TakeMerge
<1>9. ASSUME NEW m \in Merged, ReadParts(m) PROVE Whole'
  BY <1>9, JobMoves, MergeRunFails DEF ReadParts
<1>10. ASSUME NEW m \in Merged, Concat(m) PROVE Whole'
  BY <1>10, JobMoves, MergeRunFails DEF Concat
<1>11. ASSUME NEW m \in Merged, ProcessFails(m) PROVE Whole'
  BY <1>11, MergeRunFails DEF ProcessFails
<1>12. ASSUME NEW m \in Merged, PutAudio(m) PROVE Whole'
  BY <1>12, JobMoves DEF PutAudio
<1>13. ASSUME NEW m \in Merged, MarkReady(m) PROVE Whole'
  BY <1>13, JobMoves DEF MarkReady
<1>14. ASSUME NEW m \in Merged, Stitch(m) PROVE Whole'
  BY <1>14, JobMoves, MadeMoves DEF Stitch
<1>15. ASSUME NEW m \in Merged, Complete(m) PROVE Whole'
  BY <1>15 DEF Complete
<1>16. ASSUME NEW i \in MergeItems, Delete(i) PROVE Whole'
  BY <1>16 DEF Delete
<1>17. ASSUME NEW i \in MergeItems, CheckHidden(i) PROVE Whole'
  BY <1>17 DEF CheckHidden
<1>18. ASSUME NEW i \in MergeItems, DeleteRows(i) PROVE Whole'
  BY <1>18 DEF DeleteRows
<1>19. ASSUME NEW i \in MergeItems, DeleteBlobs(i) PROVE Whole'
  BY <1>19 DEF DeleteBlobs
<1>20. ASSUME MergeCrash PROVE Whole'
  <2>1. UNCHANGED <<rows, blobs, links, progress>> /\ deleting' = [i \in MergeItems |-> "idle"]
    BY <1>20 DEF MergeCrash
  <2>2. Whole
    BY DEF MergeInv
  <2> QED BY <2>1, <2>2, <1>20, CrashMoves
<1>21. CASE UNCHANGED mergeVars
  BY <1>21 DEF mergeVars
<1> QED BY <1>1, <1>2, <1>3, <1>4, <1>5, <1>6, <1>7, <1>8, <1>9, <1>10, <1>11, <1>12, <1>13,
           <1>14, <1>15, <1>16, <1>17, <1>18, <1>19, <1>20, <1>21 DEF MergeNext, MergeProgress,
           MergeStep, DeleteStep

\* No step stitches a second time.
LEMMA StitchStep ==
    ASSUME MergeAssumption, MergeInv, [MergeNext]_mergeVars
    PROVE  Stitching'
<1> USE DEF MergeInv, Trouble, PutProgress
<1> USE DEF Stitching, Requests, JobsTry, MergeTypeOK, LiveItem, NoMerge, NoMergeJob, MergeItems
<1>1. ASSUME NEW m \in Merged, NEW parts \in SUBSET MergeItems, Merge(m, parts) PROVE Stitching'
  BY <1>1 DEF Merge
<1>2. ASSUME NEW m \in Merged, CheckFree(m) PROVE Stitching'
  BY <1>2, RequestMoves DEF CheckFree
<1>3. ASSUME NEW m \in Merged, CreatePending(m) PROVE Stitching'
  BY <1>3, RequestMoves DEF CreatePending
<1>4. ASSUME NEW m \in Merged, SaveLinks(m) PROVE Stitching'
  <2>1. CASE Step(m, "undo") /\ UNCHANGED <<links, made>>
    BY <1>4, <2>1, RequestMoves DEF SaveLinks
  <2>2. CASE /\ \A i \in merging[m].parts \cup {m} : LiveItem(i)
             /\ \A s \in merging[m].parts : links[s] = None
             /\ links' = [s \in MergeItems |-> IF s \in merging[m].parts THEN m ELSE links[s]]
             /\ made' = [made EXCEPT ![m].parts = merging[m].parts]
             /\ Step(m, "announce")
    <3>1. merging[m].parts \in SUBSET MergeItems
      BY MergeTypes
    <3>2. /\ made'[m].parts = merging[m].parts /\ made'[m].audio = made[m].audio
          /\ made'[m].stitched = made[m].stitched /\ made'[m].cut = made[m].cut
          /\ \A n \in Merged \ {m} : made'[n] = made[n]
      BY <2>2, <3>1, MadeMoves
    <3>3. /\ merging'[m].pc = "announce" /\ merging[m].pc = "links"
          /\ \A n \in Merged \ {m} : merging'[n] = merging[n]
          /\ UNCHANGED <<rows, blobs, job, progress>>
      BY <1>4, <2>2, RequestMoves DEF SaveLinks
    <3> QED BY <2>2, <3>1, <3>2, <3>3
  <2> QED BY <1>4, <2>1, <2>2 DEF SaveLinks
<1>5. ASSUME NEW m \in Merged, Undo(m) PROVE Stitching'
  BY <1>5, RequestMoves DEF Undo
<1>6. ASSUME NEW m \in Merged, Announce(m) PROVE Stitching'
  BY <1>6, RequestMoves DEF Announce
<1>7. ASSUME NEW m \in Merged, HandOverMerge(m) PROVE Stitching'
  BY <1>7, RequestMoves, MadeMoves DEF HandOverMerge
<1>8. ASSUME NEW m \in Merged, TakeMerge(m) PROVE Stitching'
  BY <1>8, JobMoves DEF TakeMerge
<1>9. ASSUME NEW m \in Merged, ReadParts(m) PROVE Stitching'
  BY <1>9, JobMoves, MergeRunFails DEF ReadParts
<1>10. ASSUME NEW m \in Merged, Concat(m) PROVE Stitching'
  BY <1>10, JobMoves, MergeRunFails DEF Concat
<1>11. ASSUME NEW m \in Merged, ProcessFails(m) PROVE Stitching'
  BY <1>11, MergeRunFails DEF ProcessFails
<1>12. ASSUME NEW m \in Merged, PutAudio(m) PROVE Stitching'
  BY <1>12, JobMoves DEF PutAudio
<1>13. ASSUME NEW m \in Merged, MarkReady(m) PROVE Stitching'
  BY <1>13, JobMoves DEF MarkReady
<1>14. ASSUME NEW m \in Merged, Stitch(m) PROVE Stitching'
  BY <1>14, JobMoves, MadeMoves DEF Stitch
<1>15. ASSUME NEW m \in Merged, Complete(m) PROVE Stitching'
  BY <1>15 DEF Complete
<1>16. ASSUME NEW i \in MergeItems, Delete(i) PROVE Stitching'
  BY <1>16 DEF Delete
<1>17. ASSUME NEW i \in MergeItems, CheckHidden(i) PROVE Stitching'
  BY <1>17 DEF CheckHidden
<1>18. ASSUME NEW i \in MergeItems, DeleteRows(i) PROVE Stitching'
  BY <1>18 DEF DeleteRows
<1>19. ASSUME NEW i \in MergeItems, DeleteBlobs(i) PROVE Stitching'
  BY <1>19 DEF DeleteBlobs
<1>20. ASSUME MergeCrash PROVE Stitching'
  BY <1>20, CrashMoves DEF MergeCrash
<1>21. CASE UNCHANGED mergeVars
  BY <1>21 DEF mergeVars
<1> QED BY <1>1, <1>2, <1>3, <1>4, <1>5, <1>6, <1>7, <1>8, <1>9, <1>10, <1>11, <1>12, <1>13,
           <1>14, <1>15, <1>16, <1>17, <1>18, <1>19, <1>20, <1>21 DEF MergeNext, MergeProgress,
           MergeStep, DeleteStep

\* No step leaves a merge that reads queued or processing to nobody.
LEMMA AttendStep ==
    ASSUME MergeAssumption, MergeInv, [MergeNext]_mergeVars
    PROVE  Attended'
<1> USE DEF MergeInv, Trouble, PutProgress
<1> USE DEF Attended, Requests, JobsTry, MergeTypeOK, LiveItem, NoMerge, NoMergeJob, MergeItems
<1>1. ASSUME NEW m \in Merged, NEW parts \in SUBSET MergeItems, Merge(m, parts) PROVE Attended'
  BY <1>1 DEF Merge
<1>2. ASSUME NEW m \in Merged, CheckFree(m) PROVE Attended'
  BY <1>2, RequestMoves DEF CheckFree
<1>3. ASSUME NEW m \in Merged, CreatePending(m) PROVE Attended'
  BY <1>3, RequestMoves DEF CreatePending
<1>4. ASSUME NEW m \in Merged, SaveLinks(m) PROVE Attended'
  BY <1>4, RequestMoves, MadeMoves DEF SaveLinks
<1>5. ASSUME NEW m \in Merged, Undo(m) PROVE Attended'
  BY <1>5, RequestMoves DEF Undo
<1>6. ASSUME NEW m \in Merged, Announce(m) PROVE Attended'
  BY <1>6, RequestMoves DEF Announce
<1>7. ASSUME NEW m \in Merged, HandOverMerge(m) PROVE Attended'
  BY <1>7, RequestMoves, MadeMoves DEF HandOverMerge
<1>8. ASSUME NEW m \in Merged, TakeMerge(m) PROVE Attended'
  BY <1>8, JobMoves DEF TakeMerge
<1>9. ASSUME NEW m \in Merged, ReadParts(m) PROVE Attended'
  BY <1>9, JobMoves, MergeRunFails DEF ReadParts
<1>10. ASSUME NEW m \in Merged, Concat(m) PROVE Attended'
  BY <1>10, JobMoves, MergeRunFails DEF Concat
<1>11. ASSUME NEW m \in Merged, ProcessFails(m) PROVE Attended'
  BY <1>11, MergeRunFails DEF ProcessFails
<1>12. ASSUME NEW m \in Merged, PutAudio(m) PROVE Attended'
  BY <1>12, JobMoves DEF PutAudio
<1>13. ASSUME NEW m \in Merged, MarkReady(m) PROVE Attended'
  BY <1>13, JobMoves DEF MarkReady
<1>14. ASSUME NEW m \in Merged, Stitch(m) PROVE Attended'
  BY <1>14, JobMoves, MadeMoves DEF Stitch
<1>15. ASSUME NEW m \in Merged, Complete(m) PROVE Attended'
  BY <1>15 DEF Complete
<1>16. ASSUME NEW i \in MergeItems, Delete(i) PROVE Attended'
  BY <1>16 DEF Delete
<1>17. ASSUME NEW i \in MergeItems, CheckHidden(i) PROVE Attended'
  BY <1>17 DEF CheckHidden
<1>18. ASSUME NEW i \in MergeItems, DeleteRows(i) PROVE Attended'
  BY <1>18 DEF DeleteRows
<1>19. ASSUME NEW i \in MergeItems, DeleteBlobs(i) PROVE Attended'
  BY <1>19 DEF DeleteBlobs
<1>20. ASSUME MergeCrash PROVE Attended'
  <2>1. UNCHANGED <<rows, progress>>
    BY <1>20 DEF MergeCrash
  <2>2. ASSUME NEW m \in Merged, LiveItem(m)', job'[m].pc = "none",
               progress'[m] \in {"queued", "processing"}
        PROVE  made'[m].cut
    <3>1. job[m] = NoMergeJob
      BY <1>20, <2>2, CrashMoves
    <3>2. CASE merging[m].pc = "idle"
      <4>1. made[m].cut
        BY <2>1, <2>2, <3>1, <3>2
      <4> QED BY <1>20, <4>1, CrashMoves
    <3>3. CASE merging[m].pc # "idle"
      BY <1>20, <3>3, CrashMoves
    <3> QED BY <3>2, <3>3
  <2> QED BY <2>2
<1>21. CASE UNCHANGED mergeVars
  BY <1>21 DEF mergeVars
<1> QED BY <1>1, <1>2, <1>3, <1>4, <1>5, <1>6, <1>7, <1>8, <1>9, <1>10, <1>11, <1>12, <1>13,
           <1>14, <1>15, <1>16, <1>17, <1>18, <1>19, <1>20, <1>21 DEF MergeNext, MergeProgress,
           MergeStep, DeleteStep
-----------------------------------------------------------------------------
\* Every step keeps the invariant,
LEMMA MergeSteps == ASSUME MergeAssumption, MergeInv, [MergeNext]_mergeVars PROVE MergeInv'
BY MergeTypeStep, LinkStep, DeletionStep, MergeJobStep, MergeRequestStep, WholeStep, StitchStep,
   AttendStep DEF MergeInv

\* so it holds in every reachable state.
THEOREM MergeInvariant == MergeSpec => []MergeInv
<1>1. MergeInit => MergeInv
  BY InitMerge, MergeAssumption
<1>2. MergeInv /\ [MergeNext]_mergeVars => MergeInv'
  BY MergeSteps, MergeAssumption
<1> QED BY <1>1, <1>2, PTL DEF MergeSpec

\* Every variable keeps to its type.
THEOREM MergeTypeCorrect == MergeSpec => []MergeTypeOK
<1>1. MergeInv => MergeTypeOK
  BY DEF MergeInv
<1> QED BY <1>1, MergeInvariant, PTL

\* LinksJoinLiveItems: no source is hidden behind an item that is gone, none is deleted under
\* its merge.
THEOREM LinksStayLive == MergeSpec => []LinksJoinLiveItems
<1>1. MergeInv => LinksJoinLiveItems
  BY DEF MergeInv
<1> QED BY <1>1, MergeInvariant, PTL

\* MergesAreWhole: a live merge holds its parts, and its audio is made of just those.
THEOREM MergesStayWhole == MergeSpec => []MergesAreWhole
<1>1. MergeInv => MergesAreWhole
  <2> SUFFICES ASSUME MergeInv, NEW m \in Merged
               PROVE  /\ LiveItem(m) /\ made[m].parts # {} => PartsOf(m) = made[m].parts
                      /\ rows[m] = "committed" => m \in blobs /\ made[m].audio = PartsOf(m)
    BY DEF MergesAreWhole
  <2>1. LiveItem(m) => PartsOf(m) = made[m].parts
    BY DEF MergeInv, MergeTypeOK, Made, Whole, PartsOf
  <2> QED BY <2>1 DEF MergeInv, Whole, LiveItem
<1> QED BY <1>1, MergeInvariant, PTL

\* StitchedOnce: retries of the job do not stitch the transcripts again.
THEOREM StitchesOnce == MergeSpec => []StitchedOnce
<1>1. MergeInv => StitchedOnce
  BY DEF MergeInv, Stitching, StitchedOnce
<1> QED BY <1>1, MergeInvariant, PTL

\* NoMergeStranded: a merge that shows progress has a request or a job to move it.
THEOREM NoneStranded == MergeSpec => []NoMergeStranded
<1>1. MergeInv => NoMergeStranded
  BY DEF MergeInv, Attended, NoMergeStranded, NoMerge, NoMergeJob
<1> QED BY <1>1, MergeInvariant, PTL
==============================================================================
