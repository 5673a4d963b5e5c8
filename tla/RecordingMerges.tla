-------------------------- MODULE RecordingMerges --------------------------
(***************************************************************************)
(* Merging recordings, splitting them, deleting items.  A merge hides its  *)
(* sources behind link rows and makes a pending item, whose audio a        *)
(* background job assembles; a split or a deletion removes an item with    *)
(* its links.  Requests and jobs overlap freely: the unique index and the  *)
(* foreign keys of the link rows are what they meet at.                    *)
(***************************************************************************)
EXTENDS Integers, FiniteSets

CONSTANTS
    Recordings,       \* items that were recorded
    Merged,           \* ids of items that merges create
    MergeTries,       \* runs BullMQ gives a job
    MaxTrouble        \* bound: requests to merge, split or delete, crashes, and
                      \* hand-overs or runs that fail by themselves

MergeItems == Recordings \cup Merged
None == "none"

ASSUME MergeAssumption ==
    /\ Recordings \cap Merged = {} /\ None \notin MergeItems
    /\ MergeTries \in Nat \ {0}
    /\ MaxTrouble \in Nat

VARIABLES
    rows,        \* item -> its rows in inbox_items and source_payloads
    blobs,       \* items whose audio is in the storage
    links,       \* source -> the item it is merged into: recording_merges
    merging,     \* merged item -> the request that makes it
    deleting,    \* item -> the request that deletes it
    progress,    \* merged item -> status of its `merge` extraction
    job,         \* merged item -> its job
    trouble,     \* what is used of MaxTrouble
    made         \* history: merged item -> its parts, its audio, transcripts stitched,
                 \* whether a crash or a full queue cut its request or its job short

mergeVars == <<rows, blobs, links, merging, deleting, progress, job, trouble, made>>

LiveItem(i) == rows[i] \in {"pending", "committed"}
PartsOf(m) == {s \in MergeItems : links[s] = m}

MergeRequest == [pc : {"idle", "check", "create", "links", "undo", "announce", "hand"},
            parts : SUBSET MergeItems]
NoMerge == [pc |-> "idle", parts |-> {}]
MergeJob == [pc : {"none", "waiting", "read", "concat", "put", "ready", "stitch", "done"},
        left : 0 .. MergeTries]
NoMergeJob == [pc |-> "none", left |-> 0]
Made == [parts : SUBSET MergeItems, audio : SUBSET MergeItems, stitched : Nat, cut : BOOLEAN]

MergeTypeOK ==
    /\ rows \in [MergeItems -> {"none", "pending", "committed", "deleted"}]
    /\ blobs \subseteq MergeItems
    /\ links \in [MergeItems -> Merged \cup {None}]
    /\ merging \in [Merged -> MergeRequest]
    /\ deleting \in [MergeItems -> {"idle", "check", "delete", "blobs"}]
    /\ progress \in [Merged -> {"none", "queued", "processing", "failed", "succeeded"}]
    /\ job \in [Merged -> MergeJob]
    /\ trouble \in 0 .. MaxTrouble
    /\ made \in [Merged -> Made]

MergeInit ==
    /\ rows = [i \in MergeItems |-> IF i \in Recordings THEN "committed" ELSE "none"]
    /\ blobs = Recordings
    /\ links = [i \in MergeItems |-> None]
    /\ merging = [m \in Merged |-> NoMerge]
    /\ deleting = [i \in MergeItems |-> "idle"]
    /\ progress = [m \in Merged |-> "none"]
    /\ job = [m \in Merged |-> NoMergeJob]
    /\ trouble = 0
    /\ made = [m \in Merged |-> [parts |-> {}, audio |-> {}, stitched |-> 0, cut |-> FALSE]]

Trouble == trouble < MaxTrouble /\ trouble' = trouble + 1
Cut(m) == made' = [made EXCEPT ![m].cut = TRUE]
-----------------------------------------------------------------------------
(* RecordingMergeService.merge *)

Step(m, pc) == merging' = [merging EXCEPT ![m].pc = pc]
Answer(m) == merging' = [merging EXCEPT ![m] = NoMerge]

Merge(m, parts) ==
    /\ rows[m] = "none" /\ merging[m] = NoMerge
    /\ Cardinality(parts) >= 2 /\ \A s \in parts : rows[s] = "committed"
    /\ Trouble
    /\ merging' = [merging EXCEPT ![m] = [pc |-> "check", parts |-> parts]]
    /\ UNCHANGED <<rows, blobs, links, deleting, progress, job, made>>

CheckFree(m) ==
    /\ merging[m].pc = "check"
    /\ IF \E s \in merging[m].parts : links[s] # None THEN Answer(m) ELSE Step(m, "create")
    /\ UNCHANGED <<rows, blobs, links, deleting, progress, job, trouble, made>>

CreatePending(m) ==
    /\ merging[m].pc = "create"
    /\ rows' = [rows EXCEPT ![m] = "pending"]
    /\ Step(m, "links")
    /\ UNCHANGED <<blobs, links, deleting, progress, job, trouble, made>>

\* Mutant: nothing stops a second link of one source.
SaveLinksAnyway(m) ==
    /\ merging[m].pc = "links"
    /\ IF \A i \in merging[m].parts \cup {m} : LiveItem(i)
       THEN /\ links' = [s \in MergeItems |-> IF s \in merging[m].parts THEN m ELSE links[s]]
            /\ made' = [made EXCEPT ![m].parts = merging[m].parts]
            /\ Step(m, "announce")
       ELSE Step(m, "undo") /\ UNCHANGED <<links, made>>
    /\ UNCHANGED <<rows, blobs, deleting, progress, job, trouble>>

\* Mutant: no foreign keys, as in the sqlite of the tests.
SaveLinksUnchecked(m) ==
    /\ merging[m].pc = "links"
    /\ IF \A s \in merging[m].parts : links[s] = None
       THEN /\ links' = [s \in MergeItems |-> IF s \in merging[m].parts THEN m ELSE links[s]]
            /\ made' = [made EXCEPT ![m].parts = merging[m].parts]
            /\ Step(m, "announce")
       ELSE Step(m, "undo") /\ UNCHANGED <<links, made>>
    /\ UNCHANGED <<rows, blobs, deleting, progress, job, trouble>>

\* One transaction: a source that is gone or taken, or the merged item gone,
\* breaks a constraint.
SaveLinks(m) ==
    /\ merging[m].pc = "links"
    /\ IF /\ \A i \in merging[m].parts \cup {m} : LiveItem(i)
          /\ \A s \in merging[m].parts : links[s] = None
       THEN /\ links' = [s \in MergeItems |-> IF s \in merging[m].parts THEN m ELSE links[s]]
            /\ made' = [made EXCEPT ![m].parts = merging[m].parts]
            /\ Step(m, "announce")
       ELSE Step(m, "undo") /\ UNCHANGED <<links, made>>
    /\ UNCHANGED <<rows, blobs, deleting, progress, job, trouble>>

\* The compensation is a deleteItem of its own.
Undo(m) ==
    /\ merging[m].pc = "undo"
    /\ Answer(m)
    /\ deleting' = [deleting EXCEPT ![m] = IF LiveItem(m) /\ @ = "idle" THEN "check" ELSE @]
    /\ UNCHANGED <<rows, blobs, links, progress, job, trouble, made>>

\* addExtraction throws when the item has been deleted.
Announce(m) ==
    /\ merging[m].pc = "announce"
    /\ IF LiveItem(m)
       THEN progress' = [progress EXCEPT ![m] = "queued"] /\ Step(m, "hand")
       ELSE Answer(m) /\ UNCHANGED progress
    /\ UNCHANGED <<rows, blobs, links, deleting, job, trouble, made>>

HandOverMerge(m) ==
    /\ merging[m].pc = "hand"
    /\ Answer(m)
    /\ \/ /\ job' = [job EXCEPT ![m] = [pc |-> "waiting", left |-> MergeTries]]
          /\ UNCHANGED <<trouble, made>>
       \/ Trouble /\ Cut(m) /\ UNCHANGED job
    /\ UNCHANGED <<rows, blobs, links, deleting, progress>>
-----------------------------------------------------------------------------
(* InboxService.deleteItem, for a deletion, a split or a compensation. *)

Delete(i) ==
    /\ LiveItem(i) /\ deleting[i] = "idle" /\ Trouble
    /\ deleting' = [deleting EXCEPT ![i] = "check"]
    /\ UNCHANGED <<rows, blobs, links, merging, progress, job, made>>

\* A hidden source is not deleted.
CheckHidden(i) ==
    /\ deleting[i] = "check"
    /\ deleting' = [deleting EXCEPT ![i] = IF links[i] # None THEN "idle" ELSE "delete"]
    /\ UNCHANGED <<rows, blobs, links, merging, progress, job, trouble, made>>

\* The transaction fails if a merge has taken the item meanwhile.
DeleteRows(i) ==
    /\ deleting[i] = "delete"
    /\ IF links[i] # None
       THEN deleting' = [deleting EXCEPT ![i] = "idle"] /\ UNCHANGED <<rows, links>>
       ELSE /\ rows' = [rows EXCEPT ![i] = "deleted"]
            /\ links' = [s \in MergeItems |-> IF links[s] = i THEN None ELSE links[s]]
            /\ deleting' = [deleting EXCEPT ![i] = "blobs"]
    /\ UNCHANGED <<blobs, merging, progress, job, trouble, made>>

DeleteBlobs(i) ==
    /\ deleting[i] = "blobs"
    /\ blobs' = blobs \ {i}
    /\ deleting' = [deleting EXCEPT ![i] = "idle"]
    /\ UNCHANGED <<rows, links, merging, progress, job, trouble, made>>
-----------------------------------------------------------------------------
(* RecordingMergeProcessor.process *)

GotoMerge(m, pc) == job' = [job EXCEPT ![m].pc = pc]
\* Updates by id miss the extraction of an item that has been deleted.
PutProgress(m, status) == progress' = [progress EXCEPT ![m] = IF LiveItem(m) THEN status ELSE @]
\* Mutant: a run that fails only throws.
FailRunQuietly(m) ==
    /\ UNCHANGED progress
    /\ job' = [job EXCEPT ![m] = IF @.left = 1 THEN NoMergeJob
                                 ELSE [pc |-> "waiting", left |-> @.left - 1]]

\* Mutant: no try is the last.
FailRunAgain(m) ==
    /\ PutProgress(m, "failed")
    /\ job' = [job EXCEPT ![m] = [pc |-> "waiting", left |-> @.left - 1]]

\* Marked failed and thrown again: BullMQ retries.
FailRun(m) ==
    /\ PutProgress(m, "failed")
    /\ job' = [job EXCEPT ![m] = IF @.left = 1 THEN NoMergeJob
                                 ELSE [pc |-> "waiting", left |-> @.left - 1]]

TakeMerge(m) ==
    /\ job[m].pc = "waiting"
    /\ PutProgress(m, "processing") /\ GotoMerge(m, "read")
    /\ UNCHANGED <<rows, blobs, links, merging, deleting, trouble, made>>

ReadParts(m) ==
    /\ job[m].pc = "read"
    /\ IF \A s \in made[m].parts : LiveItem(s)
       THEN GotoMerge(m, "concat") /\ UNCHANGED progress
       ELSE FailRun(m)
    /\ UNCHANGED <<rows, blobs, links, merging, deleting, trouble, made>>

Concat(m) ==
    /\ job[m].pc = "concat"
    /\ IF made[m].parts \subseteq blobs
       THEN GotoMerge(m, "put") /\ UNCHANGED progress
       ELSE FailRun(m)
    /\ UNCHANGED <<rows, blobs, links, merging, deleting, trouble, made>>

\* ffmpeg, the storage or the database fails.
ProcessFails(m) ==
    /\ job[m].pc \in {"concat", "put", "ready"} /\ Trouble
    /\ FailRun(m)
    /\ UNCHANGED <<rows, blobs, links, merging, deleting, made>>

PutAudio(m) ==
    /\ job[m].pc = "put"
    /\ blobs' = blobs \cup {m}
    /\ made' = [made EXCEPT ![m].audio = made[m].parts]
    /\ GotoMerge(m, "ready")
    /\ UNCHANGED <<rows, links, merging, deleting, progress, trouble>>

MarkReady(m) ==
    /\ job[m].pc = "ready"
    /\ rows' = [rows EXCEPT ![m] = IF LiveItem(m) THEN "committed" ELSE @]
    /\ GotoMerge(m, "stitch")
    /\ UNCHANGED <<blobs, links, merging, deleting, progress, trouble, made>>

\* Mutant: a problem in stitching is a problem of the merge.
StitchOrFail(m) ==
    /\ job[m].pc = "stitch"
    /\ IF LiveItem(m)
       THEN /\ made' = [made EXCEPT ![m].stitched = @ + 1]
            /\ \/ GotoMerge(m, "done") /\ UNCHANGED <<trouble, progress>>
               \/ Trouble /\ FailRun(m)
       ELSE FailRun(m) /\ UNCHANGED <<trouble, made>>
    /\ UNCHANGED <<rows, blobs, links, merging, deleting>>

\* Stitching is best effort: what goes wrong in it is logged.
Stitch(m) ==
    /\ job[m].pc = "stitch"
    /\ GotoMerge(m, "done")
    /\ \/ ~LiveItem(m) /\ UNCHANGED <<trouble, made>>
       \/ /\ LiveItem(m) /\ made' = [made EXCEPT ![m].stitched = @ + 1]
          /\ UNCHANGED trouble
       \/ LiveItem(m) /\ Trouble /\ UNCHANGED made
    /\ UNCHANGED <<rows, blobs, links, merging, deleting, progress>>

Complete(m) ==
    /\ job[m].pc = "done"
    /\ PutProgress(m, "succeeded")
    /\ job' = [job EXCEPT ![m] = NoMergeJob]
    /\ UNCHANGED <<rows, blobs, links, merging, deleting, trouble, made>>

\* Requests are lost where they are; BullMQ hands an active job out again.
MergeCrash ==
    /\ Trouble
    /\ merging' = [m \in Merged |-> NoMerge]
    /\ deleting' = [i \in MergeItems |-> "idle"]
    /\ made' = [m \in Merged |->
                  [made[m] EXCEPT !.cut = @ \/ merging[m] # NoMerge \/ job[m] # NoMergeJob]]
    /\ job' = [m \in Merged |-> IF job[m] = NoMergeJob THEN NoMergeJob
                                ELSE [job[m] EXCEPT !.pc = "waiting"]]
    /\ UNCHANGED <<rows, blobs, links, progress>>
-----------------------------------------------------------------------------
MergeStep(m) ==
    \/ CheckFree(m) \/ CreatePending(m) \/ SaveLinks(m) \/ Undo(m) \/ Announce(m)
    \/ HandOverMerge(m) \/ TakeMerge(m) \/ ReadParts(m) \/ Concat(m) \/ PutAudio(m)
    \/ MarkReady(m) \/ Stitch(m) \/ Complete(m)
DeleteStep(i) == CheckHidden(i) \/ DeleteRows(i) \/ DeleteBlobs(i)
MergeProgress == (\E m \in Merged : MergeStep(m)) \/ (\E i \in MergeItems : DeleteStep(i))

MergeNext ==
    \/ MergeProgress \/ MergeCrash
    \/ \E m \in Merged : ProcessFails(m) \/ \E parts \in SUBSET MergeItems : Merge(m, parts)
    \/ \E i \in MergeItems : Delete(i)

MergeSpec == MergeInit /\ [][MergeNext]_mergeVars
-----------------------------------------------------------------------------
(* Nothing stays hidden behind an item that is gone, and no item is gone    *)
(* that a merge still counts on: every link joins two live items.           *)
LinksJoinLiveItems ==
    \A s \in MergeItems : links[s] # None => LiveItem(s) /\ LiveItem(links[s])

(* A merge that is live is whole: it holds all its parts, and once it is    *)
(* committed its audio is in the storage and made of exactly those,         *)
(* whatever deletions, splits, other merges and repeated jobs do meanwhile. *)
MergesAreWhole ==
    \A m \in Merged :
        /\ LiveItem(m) /\ made[m].parts # {} => PartsOf(m) = made[m].parts
        /\ rows[m] = "committed" => m \in blobs /\ made[m].audio = PartsOf(m)

(* The transcripts of the parts are stitched once, also when the job is     *)
(* retried; only a crash in the middle of the job repeats them.             *)
StitchedOnce == \A m \in Merged : made[m].stitched <= 1 \/ made[m].cut

(* The progress shown for a merge has somebody to move it: a live merge     *)
(* that reads queued or processing has its request or its job under way,    *)
(* unless a crash or a full queue cut one of them short.                    *)
NoMergeStranded ==
    \A m \in Merged :
        /\ LiveItem(m) /\ merging[m] = NoMerge /\ job[m] = NoMergeJob
        /\ progress[m] \in {"queued", "processing"}
        => made[m].cut
=============================================================================
