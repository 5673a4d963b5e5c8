--------------------------- MODULE TopicDocuments ---------------------------
(***************************************************************************)
(* The living document of one topic.  A classification that lands an item  *)
(* in the topic arms a debounce timer; the timer, a user and the sweep     *)
(* after boot ask for a new version; a generation reads the items of the   *)
(* topic once, and looks again when it ends.  A request that finds a       *)
(* version in flight leaves the work to it.                                *)
(*                                                                         *)
(* Timers and requests live in the API process; rows and jobs survive it.  *)
(***************************************************************************)
EXTENDS Integers, FiniteSets, FiniteSetsExt

CONSTANTS
    Items,
    MaxVersions,      \* bound: versions; enough for every request the other bounds allow
    Retention,        \* succeeded versions kept
    JobTries,         \* runs BullMQ gives a job
    MaxTags,          \* bound: classifications
    MaxOthers         \* bound: all of these together: edits of the topic, requests of
                      \* the user, hand-overs and generations that fail, crashes

ASSUME TopicAssumption ==
    /\ MaxVersions \in Nat /\ Retention \in Nat \ {0} /\ JobTries \in Nat \ {0}
    /\ MaxTags \in Nat /\ MaxOthers \in Nat

Versions == 1 .. MaxVersions

\* Who calls enqueueRegeneration: three callers, and each version's re-check.
Debounce == 0
User == -1
Boot == -2
Callers == -2 .. MaxVersions

VARIABLES
    topic,       \* state of the topic in the taxonomy
    assigned,    \* items with a row of item_topics
    tagging,     \* item -> its classification job
    timer,       \* the debounce timer is armed
    sweep,       \* the sweep after boot is due
    requests,    \* caller -> how far its enqueueRegeneration has come
    docs,        \* version -> its row of topic_documents
    jobs,        \* version -> its job
    tags, others, \* what is used of the bounds
    seen         \* history, see History

spent == <<tags, others>>
taxonomy == <<topic, assigned, tagging>>
alarms == <<timer, sweep>>
topicVars == <<topic, assigned, tagging, timer, sweep, requests, docs, jobs, tags, others, seen>>

\* since: items assigned after the row was created.
Doc == [status : {"none", "queued", "processing", "succeeded", "failed"},
        sources : SUBSET Items, since : SUBSET Items]
NoDoc == [status |-> "none", sources |-> {}, since |-> {}]

\* left: runs left; sources: what the run has read; cutoff: of its pruning.
DocJob == [pc : {"none", "waiting", "started", "empty", "generating", "keeping", "pruning",
              "recheck", "ending"},
        left : 0 .. JobTries, ok : BOOLEAN, sources : SUBSET Items, cutoff : 0 .. MaxVersions]
NoDocJob == [pc |-> "none", left |-> 0, ok |-> FALSE, sources |-> {}, cutoff |-> 0]

DocRequest == [pc : {"idle", "check", "count", "insert", "hand"}, version : 0 .. MaxVersions]
NoDocRequest == [pc |-> "idle", version |-> 0]

\* read: items a generation read since they were assigned (the re-check compares
\* items, so assigning again what a running generation has read is nothing new);
\* overtaken: a version ran beside another or after a later one; skipped: a sweep
\* passed over the topic because it was archived.
TopicHistory == [read : SUBSET Items, overtaken : BOOLEAN, skipped : BOOLEAN]

TopicTypeOK ==
    /\ topic \in {"active", "archived", "deleted"}
    /\ assigned \subseteq Items
    /\ tagging \in [Items -> {"idle", "known", "unknown", "tagged"}]
    /\ {timer, sweep} \subseteq BOOLEAN
    /\ requests \in [Callers -> DocRequest]
    /\ docs \in [Versions -> Doc] /\ jobs \in [Versions -> DocJob]
    /\ seen \in TopicHistory
    /\ tags \in 0 .. MaxTags /\ others \in 0 .. MaxOthers

TopicInit ==
    /\ topic = "active" /\ assigned = {}
    /\ tagging = [i \in Items |-> "idle"]
    /\ timer = FALSE /\ sweep = FALSE
    /\ requests = [c \in Callers |-> NoDocRequest]
    /\ docs = [v \in Versions |-> NoDoc] /\ jobs = [v \in Versions |-> NoDocJob]
    /\ tags = 0 /\ others = 0
    /\ seen = [read |-> {}, overtaken |-> FALSE, skipped |-> FALSE]

Rows(statuses) == {v \in Versions : docs[v].status \in statuses}
InFlight == Rows({"queued", "processing"})
Succeeded == Rows({"succeeded"})
Latest == Max(Rows({"queued", "processing", "succeeded", "failed"}) \cup {0})
Current == Max(Succeeded \cup {0})              \* what getDocument shows
-----------------------------------------------------------------------------
(* The taxonomy, and the classification of items. *)

EditTopic(to) ==
    /\ topic # "deleted" /\ topic # to /\ others < MaxOthers
    /\ topic' = to
    /\ assigned' = IF to = "deleted" THEN {} ELSE assigned
    /\ others' = others + 1 /\ UNCHANGED tags
    /\ UNCHANGED <<tagging, alarms, requests, docs, jobs, seen>>

\* The active topics are read before the provider is asked.
Known == IF topic = "active" THEN "known" ELSE "unknown"

Classify(i) ==
    /\ tagging[i] = "idle" /\ tags < MaxTags
    /\ tagging' = [tagging EXCEPT ![i] = Known]
    /\ tags' = tags + 1 /\ UNCHANGED others
    /\ UNCHANGED <<topic, assigned, alarms, requests, docs, jobs, seen>>

\* The transaction that replaces the item's assignments.
Assign(i, lands) ==
    /\ tagging[i] \in {"known", "unknown"} /\ (lands => tagging[i] = "known")
    /\ assigned' = IF lands THEN assigned \cup {i} ELSE assigned \ {i}
    /\ tagging' = [tagging EXCEPT ![i] = IF lands THEN "tagged" ELSE "idle"]
    /\ docs' = [v \in Versions |->
                  IF lands /\ docs[v] # NoDoc THEN [docs[v] EXCEPT !.since = @ \cup {i}]
                  ELSE docs[v]]
    /\ seen' = [seen EXCEPT !.read = IF \E v \in Versions : i \in jobs[v].sources THEN @
                                     ELSE @ \ {i}]
    /\ UNCHANGED <<topic, alarms, requests, jobs, spent>>

OnTopicsAssigned(i) ==
    /\ tagging[i] = "tagged"
    /\ tagging' = [tagging EXCEPT ![i] = "idle"]
    /\ timer' = TRUE
    /\ UNCHANGED <<topic, assigned, sweep, requests, docs, jobs, spent, seen>>
-----------------------------------------------------------------------------
(* Who asks for a version. *)

AskVersion(c) == requests' = [requests EXCEPT ![c].pc = "check"]

\* The debounce outlasts the failure of a run that found the topic empty, and
\* the request of the timer is over before it fires again.
FireTimer ==
    /\ timer /\ requests[Debounce] = NoDocRequest
    /\ \A v \in Versions : jobs[v].pc # "empty"
    /\ timer' = FALSE
    /\ AskVersion(Debounce)
    /\ UNCHANGED <<taxonomy, sweep, docs, jobs, spent, seen>>

Regenerate ==
    /\ requests[User] = NoDocRequest /\ others < MaxOthers
    /\ topic # "deleted" /\ assigned # {}
    /\ AskVersion(User)
    /\ others' = others + 1 /\ UNCHANGED tags
    /\ UNCHANGED <<taxonomy, alarms, docs, jobs, seen>>

\* Mutant: the sweep asks for missing documents only.
NeedsFirstGeneration == topic = "active" /\ assigned # {} /\ Succeeded = {}

NeedsRegeneration ==
    /\ topic = "active" /\ assigned # {}
    /\ Succeeded # {} => docs[Current].since \cap assigned # {}

\* Orphaned documents go, then missing and outdated ones are asked for.
SweepTopics ==
    /\ sweep /\ sweep' = FALSE
    /\ docs' = IF topic = "deleted" THEN [v \in Versions |-> NoDoc] ELSE docs
    /\ IF NeedsRegeneration THEN AskVersion(Boot) ELSE UNCHANGED requests
    /\ seen' = [seen EXCEPT !.skipped = @ \/ topic = "archived"]
    /\ UNCHANGED <<taxonomy, timer, jobs, spent>>
-----------------------------------------------------------------------------
(* enqueueRegeneration: four awaits, each a step. *)

CheckInFlight(c) ==
    /\ requests[c].pc = "check"
    /\ requests' = [requests EXCEPT ![c] =
                      IF InFlight # {} THEN NoDocRequest ELSE [@ EXCEPT !.pc = "count"]]
    /\ UNCHANGED <<taxonomy, alarms, docs, jobs, spent, seen>>

CountVersions(c) ==
    /\ requests[c].pc = "count" /\ Latest < MaxVersions
    /\ requests' = [requests EXCEPT ![c] = [pc |-> "insert", version |-> Latest + 1]]
    /\ UNCHANGED <<taxonomy, alarms, docs, jobs, spent, seen>>

\* (topic, version) is unique: who loses the race gives up.  A number freed by
\* pruneOrphans is used again only once its old job is over.
InsertVersion(c) ==
    LET v == requests[c].version IN
    /\ requests[c].pc = "insert"
    /\ \/ /\ docs[v] # NoDoc
          /\ requests' = [requests EXCEPT ![c] = NoDocRequest]
          /\ UNCHANGED <<docs, seen>>
       \/ /\ docs[v] = NoDoc /\ jobs[v] = NoDocJob
          /\ requests' = [requests EXCEPT ![c].pc = "hand"]
          /\ docs' = [docs EXCEPT ![v] = [NoDoc EXCEPT !.status = "queued"]]
          /\ seen' = [seen EXCEPT !.overtaken = @ \/ InFlight # {}]
    /\ UNCHANGED <<taxonomy, alarms, jobs, spent>>

HandOverVersion(c) ==
    /\ requests[c].pc = "hand"
    /\ jobs' = [jobs EXCEPT ![requests[c].version] = [NoDocJob EXCEPT !.pc = "waiting",
                                                                 !.left = JobTries]]
    /\ requests' = [requests EXCEPT ![c] = NoDocRequest]
    /\ UNCHANGED <<taxonomy, alarms, docs, spent, seen>>

\* queue.add throws: the row stays queued, without a job.
HandOverVersionFails(c) ==
    /\ requests[c].pc = "hand" /\ others < MaxOthers
    /\ requests' = [requests EXCEPT ![c] = NoDocRequest]
    /\ others' = others + 1 /\ UNCHANGED tags
    /\ UNCHANGED <<taxonomy, alarms, docs, jobs, seen>>
-----------------------------------------------------------------------------
(* TopicDocumentProcessor.process. *)

GotoJob(v, pc) == jobs' = [jobs EXCEPT ![v].pc = pc]

\* Updates by id miss a row that pruneOrphans has deleted.
SetRow(v, row) == docs' = [docs EXCEPT ![v] = IF @ = NoDoc THEN NoDoc ELSE row]

\* BullMQ runs a job that threw again while it has tries left.
JobAfter(v) == IF jobs[v].ok \/ jobs[v].left = 1 THEN NoDocJob
               ELSE [NoDocJob EXCEPT !.pc = "waiting", !.left = jobs[v].left - 1]
EndJob(v) == jobs' = [jobs EXCEPT ![v] = JobAfter(v)]

TakeVersion(v) ==
    /\ jobs[v].pc = "waiting"
    /\ \/ docs[v] = NoDoc /\ jobs' = [jobs EXCEPT ![v] = NoDocJob] /\ UNCHANGED <<docs, seen>>
       \/ /\ docs[v] # NoDoc
          /\ GotoJob(v, "started")
          /\ SetRow(v, [docs[v] EXCEPT !.status = "processing"])
          /\ seen' = [seen EXCEPT !.overtaken = @ \/ v < Latest]
    /\ UNCHANGED <<taxonomy, alarms, requests, spent>>

ReadItems(v) ==
    /\ jobs[v].pc = "started"
    /\ \/ /\ (topic = "deleted" \/ assigned = {})
          /\ GotoJob(v, "empty") /\ UNCHANGED seen
       \/ /\ topic # "deleted" /\ assigned # {}
          /\ jobs' = [jobs EXCEPT ![v].pc = "generating", ![v].sources = assigned]
          /\ seen' = [seen EXCEPT !.read = @ \cup assigned]
    /\ UNCHANGED <<taxonomy, alarms, requests, docs, spent>>

Generate(v) ==
    /\ jobs[v].pc = "generating"
    /\ jobs' = [jobs EXCEPT ![v].pc = "keeping", ![v].ok = TRUE]
    /\ SetRow(v, [docs[v] EXCEPT !.status = "succeeded", !.sources = jobs[v].sources])
    /\ UNCHANGED <<taxonomy, alarms, requests, spent, seen>>

\* Nothing to read, no usable content, the provider or the database fails.
Fail(v) ==
    /\ \/ jobs[v].pc = "empty" /\ EndJob(v) /\ UNCHANGED spent
       \/ /\ jobs[v].pc = "generating" /\ others < MaxOthers
          /\ GotoJob(v, "recheck")
          /\ others' = others + 1 /\ UNCHANGED tags
    /\ SetRow(v, [docs[v] EXCEPT !.status = "failed"])
    /\ UNCHANGED <<taxonomy, alarms, requests, seen>>

\* Mutant: versions that failed, or have not run, count as kept.
FindKeptOfAll(v) ==
    /\ jobs[v].pc = "keeping"
    /\ LET rows == Rows({"queued", "processing", "succeeded", "failed"}) IN
       jobs' = [jobs EXCEPT
           ![v].pc = IF Cardinality(rows) < Retention THEN "recheck" ELSE "pruning",
           ![v].cutoff = Max({k \in rows : Cardinality({w \in rows : w >= k}) >= Retention}
                             \cup {0})]
    /\ UNCHANGED <<taxonomy, alarms, requests, docs, spent, seen>>

\* The Retention newest succeeded versions are read, then older ones deleted.
FindKept(v) ==
    /\ jobs[v].pc = "keeping"
    /\ IF Cardinality(Succeeded) < Retention
       THEN GotoJob(v, "recheck")
       ELSE jobs' = [jobs EXCEPT
                ![v].pc = "pruning",
                ![v].cutoff = CHOOSE k \in Succeeded :
                    Cardinality({w \in Succeeded : w >= k}) = Retention]
    /\ UNCHANGED <<taxonomy, alarms, requests, docs, spent, seen>>

DeleteOld(v) ==
    /\ jobs[v].pc = "pruning"
    /\ docs' = [w \in Versions |-> IF w \in Succeeded /\ w < jobs[v].cutoff THEN NoDoc
                                   ELSE docs[w]]
    /\ GotoJob(v, "recheck")
    /\ UNCHANGED <<taxonomy, alarms, requests, spent, seen>>

\* Mutant: the topic is looked at again only after a failure.
RecheckAfterFailure(v) ==
    /\ jobs[v].pc = "recheck"
    /\ IF assigned \subseteq jobs[v].sources \/ jobs[v].ok
       THEN EndJob(v) /\ UNCHANGED requests
       ELSE GotoJob(v, "ending") /\ AskVersion(v)
    /\ UNCHANGED <<taxonomy, alarms, docs, spent, seen>>

\* After a success and after a failure: items that came in since they were read.
Recheck(v) ==
    /\ jobs[v].pc = "recheck"
    /\ IF assigned \subseteq jobs[v].sources
       THEN EndJob(v) /\ UNCHANGED requests
       ELSE GotoJob(v, "ending") /\ AskVersion(v)
    /\ UNCHANGED <<taxonomy, alarms, docs, spent, seen>>

\* The job ends once its own request has.
FollowedUp(v) ==
    /\ jobs[v].pc = "ending" /\ requests[v] = NoDocRequest
    /\ EndJob(v)
    /\ UNCHANGED <<taxonomy, alarms, requests, docs, spent, seen>>

\* BullMQ hands an active job out again; timers and requests are gone, and the
\* next boot arms the sweep.
TopicCrash ==
    /\ others < MaxOthers
    /\ others' = others + 1 /\ UNCHANGED tags
    /\ timer' = FALSE /\ sweep' = TRUE
    /\ requests' = [c \in Callers |-> NoDocRequest]
    /\ jobs' = [v \in Versions |-> IF jobs[v] = NoDocJob THEN NoDocJob
                                   ELSE [NoDocJob EXCEPT !.pc = "waiting", !.left = jobs[v].left]]
    /\ tagging' = [i \in Items |-> IF tagging[i] = "idle" THEN "idle" ELSE Known]
    /\ UNCHANGED <<topic, assigned, docs, seen>>
-----------------------------------------------------------------------------
TagStep(i) == (\E lands \in BOOLEAN : Assign(i, lands)) \/ OnTopicsAssigned(i)
RequestStep(c) == CheckInFlight(c) \/ CountVersions(c) \/ InsertVersion(c) \/ HandOverVersion(c)
JobStep(v) ==
    \/ TakeVersion(v) \/ ReadItems(v) \/ Generate(v) \/ FindKept(v) \/ DeleteOld(v)
    \/ Recheck(v) \/ FollowedUp(v)
Progress ==
    \/ \E i \in Items : TagStep(i)
    \/ FireTimer \/ SweepTopics
    \/ \E c \in Callers : RequestStep(c)
    \/ \E v \in Versions : JobStep(v) \/ Fail(v)

TopicNext ==
    \/ Progress \/ Regenerate \/ TopicCrash
    \/ \E to \in {"active", "archived", "deleted"} : EditTopic(to)
    \/ \E i \in Items : Classify(i)
    \/ \E c \in Callers : HandOverVersionFails(c)

TopicSpec == TopicInit /\ [][TopicNext]_topicVars /\ WF_topicVars(Progress)
-----------------------------------------------------------------------------
Idle ==
    /\ ~timer /\ ~sweep
    /\ \A i \in Items : tagging[i] = "idle"
    /\ \A c \in Callers : requests[c] = NoDocRequest
    /\ \A v \in Versions : jobs[v] = NoDocJob

\* A row in flight that no job will ever finish: requests defer to it for good.
Stuck == \E v \in InFlight : jobs[v] = NoDocJob

Tended == Idle /\ topic = "active" /\ ~Stuck /\ ~seen.skipped

(* Once all is quiet, some generation has read every item since it was     *)
(* assigned: whatever deferred, failed, was retried or lost in a crash     *)
(* (timers live in memory), a trigger was never dropped.  Not promised     *)
(* after a hand-over was lost (Stuck) or while archived.                   *)
NoItemDropped == Tended => assigned \subseteq seen.read

(* The document shown is the newest version, and it is built from every    *)
(* item of the topic, unless the newest generation failed, or versions     *)
(* overlapped: a version that is retried, or lost a race, can read later   *)
(* than the one with the higher number, which goes on being shown.         *)
ShownIsComplete ==
    Tended /\ ~seen.overtaken /\ assigned # {} =>
        docs[Latest].status = "failed" \/ assigned \subseteq docs[Current].sources

(* A version that was written is pruned only when Retention newer ones were *)
(* written, however prunes, generations and repeated jobs interleave.       *)
Written == {v \in Versions : docs[v].sources # {}}
HistoryKept ==
    [][topic # "deleted" =>
         \A v \in Written : docs'[v] = NoDoc =>
             Cardinality({w \in Written : w > v}) >= Retention]_topicVars
=============================================================================
