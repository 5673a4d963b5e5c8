# Plaudern: TLA+ models and proofs

Plaudern is a personal memory: recordings, notes, mails and scans are ingested
as *inbox items*, and a pipeline of *extractors* derives transcripts, speakers,
summaries, facts, tasks, topics and more from them. This directory models the
parts of it where the order of events matters: the attempts that extractors make
at an item and the backfills that catch up on old ones; how items get in and
out, are merged and linked; the rows, facts, entities and documents that
extractions leave beside the edits of the user; and the timers that every
replica of the server runs.

| module | what it is |
|---|---|
| `ExtractorGraph` | the graph of extraction kinds: edges, OR-groups, roots, what its constructor validates |
| `PlaudernGraph` | the edges the 16 extractors of this repository declare, the gated kinds, the OCR bridge |
| `AttemptLedger` | abstract: what the attempts table of an item promises |
| `ExtractionPipeline` | the pipeline of one item, in detail; implements `AttemptLedger` |
| `SensitivityRow` | the sensitivity row of one item: classifications, overrides, holds, each a find and a save |
| `BackfillRuns` | boot sweeps, manual backfills, the advisory lock |
| `ItemImports` | one idempotency key: syncs, mails, notes, uploads, deletions, purges, blobs |
| `RecordingMerges` | merging recordings, splitting, deleting, the background job |
| `CalendarLinks` | one recording and one feed: syncs, automatic and manual links |
| `TopicDocuments` | the living document of one topic: debounce, coalescing, generation, re-check |
| `ExtractedRows` | commitments, questions, decisions, reminders of one item: persisted, reaped, handled |
| `FactsSupersession` | one group of personal facts: concurrent ingests and deletions, row and group locks |
| `EntityRegistry` | the entities of one user: extractions, corrections, links to contacts |
| `DeadMansSwitch` | the releases of one owner's switch: sweep, grace, grant, mail, check-ins, revokes |
| `Nudges` | the sweep that nudges about commitments, the notification engine, dismiss and snooze |
| `ExtractionPipelineProofs`, `ItemImportsProofs`, `RecordingMergesProofs`, `TopicDocumentsProofs`, `FactsSupersessionProofs` | theorems about the module of that name, for all values of its constants |
| `ItemsProofs` | theorems about `ExtractedRows`, `CalendarLinks`, `SensitivityRow`, and `MCItems` |
| `KnowledgeProofs` | theorems about `EntityRegistry`, and `MCKnowledge` |
| `ReplicasProofs` | theorems about `BackfillRuns`, `DeadMansSwitch` and `Nudges` |
| `MCPipeline`, `MCBackfill`, `MCFacts`, `MCEntities` | instances for TLC |
| `MCItems`, `MCKnowledge`, `MCReplicas` | several modules in one run, see below |

Check a run with `tlc -config PipelineAudio.cfg MCPipeline`, the proofs of a
module with `tlapm ItemImportsProofs.tla`.

`ExtractionPipeline` stands on `ExtractorGraph` and refines `AttemptLedger`. The
other modules meet it at rows they read (an attempt that has succeeded), never
at steps they share, so they are checked apart from it. `MCItems`, `MCKnowledge`
and `MCReplicas` each gather modules that share no state: the variable `focus` is
chosen at the start, and the behaviour is one of that module. What they check is
each module, not their interaction.

## Inventory

The backend is one NestJS process (possibly in several replicas) over
PostgreSQL, Redis/BullMQ and an S3 store; the queue's workers run inside it.
Paths are under `src/libs/backend`.

**Extraction pipeline** (`extraction/`). State: the in-memory set `evaluating`;
everything else is in the attempts table. `onModuleInit` subscribes to the event
stream; a terminal `extraction.updated` event starts `maybeRun` for every
dependent kind, a sentinel success for every gated kind. `maybeRun` awaits a
snapshot, evaluates readiness and coverage on it, asks the routing guard, and
enqueues. `processCommitted` enqueues the roots. *Hard:* every `await` is an
interleaving point; events are lost with the process; "in flight", "settled"
and "covered" are judged on snapshots. *Correct when:* a kind is started once per
generation of its inputs, and is started whenever it is due.

**Extractor graph** (`extraction/extractor-graph.ts`, `inbox/extractor.ts`, one
`*.extractor.ts` per kind). Built at boot, constant. *Correct when:* acyclic, no
duplicate or dangling edges.

**Attempts table** (`inbox/`). Append-only rows `extracted_payloads`:
`addExtraction` inserts a queued row, `setExtractionStatus` and
`completeExtraction` update it by id (no guard on the present status) and then
re-read it and publish an event, synchronously, in the process. The same service
creates items, marks sources committed, deletes items with their blobs, keeps
tombstones. *Hard:* outcome and event are separate; a merge and a delete meet.

**Job queue** (`queue/`). BullMQ: three tries, stalled jobs recovered once, then
failed without running the processor. *Hard:* at-least-once execution; row and
job are written to different stores.

**Ingestion** (`ingestion/`). `init` (idempotency key), `commit`, `reprocess`
(reclaims attempts pending for 15 minutes, then replays), inline text, merges of
recordings with a background job. *Hard:* find-then-create; concurrent commits.

**Backfill** (`extraction/extraction-runs.service.ts`,
`startup-backfill.service.ts`, `owner-reprocess.service.ts`). State: the table
`extraction_runs` and, per run, a cursor and a batch in memory. At boot a sweep
under a PostgreSQL advisory lock supersedes runs without a heartbeat and starts
one per kind; users start runs without any lock. *Correct when:* one sweep at a
time, no finished run is overwritten, a completed run left nothing behind.

**Sensitivity** (`sensitivity/`). One row per item: the sentinel's detected tier,
the user's override, the hold. The guard `decide` waits, holds or lets a gated
kind go. *Hard:* the row is found and saved by four writers. *Correct when:* a column
is what its owner wrote last, and the hold says that a kind is waiting.

**Extractors** (transcription, OCR, summarization, diarization and speakers,
embeddings, entities and relations, topics, tasks, commitments, questions,
decisions, facts, reminders, docmeta). Each has an `enqueue` (row, then job), a
processor (processing, read the inputs, call a provider, persist, complete), and
tables of its own. *Hard:* overlapping attempts of one kind; facts of several
items compete for one group (supersession).

**Topic documents** (`topics/topic-document.*`). State: versions of a document per
topic, timers in memory. A classification arms a debounce; the timer, a user and
a sweep after boot ask for a version; a request that finds one in flight leaves
the work to it, whose job looks again when it ends. *Hard:* the work a request
leaves to another; rows whose job is lost. *Correct when:* no assigned item is
left out of the document for good, and the version shown is the newest success.

**Recording merges** (`ingestion/merge/`). A merge inserts a pending item and links
its sources to it; a job concatenates the audio, marks the item committed and
stitches transcripts; a split undoes it. *Hard:* requests and jobs meet only at a
unique index and foreign keys. *Correct when:* links join live items, a merge is
whole, its transcripts are stitched once.

**Imports** (`plaud-sync/`, `email-ingest/`, `ingestion/`). Each import looks for the
item and its tombstone, writes a blob, creates the item. *Hard:* two stores,
replicas, deletions in between. *Correct when:* deleted items stay deleted, and a
committed item has its blob.

**Calendar** (`calendar/`). A sync stores the events of a feed and re-evaluates the
automatic links; the user links and unlinks. *Correct when:* decisions of the user
survive every pass, and the next sync sets right what overlapping ones left.

**Nudges, notifications** (`nudges/`, `notifications/`). A sweep under an advisory
lock notifies and then marks; quiet hours and a cap hold notifications back.
*Correct when:* a nudge is sent once, within the cap, and not forgotten.

**Dead-man's switch** (`audit/`). An hourly sweep under a lock arms a release when
a check-in has lapsed and grants it after a grace; requests of the owner are
several awaits long and take no lock. *Correct when:* releases follow the
check-ins and the switch, the contact is the present one, mailed once.

**Entities** (`entities/`). A registry of rows per type and name with two side
tables, aliases and suppressions, that make corrections last; a resolver links
persons to contacts. *Hard:* everyone but the corrections reads and later saves
whole rows. *Correct when:* no extraction undoes a correction, and a name leads to
the entity its mentions are filed under.

**Auth**: passkeys, challenges, adoption of old data by the first user.

The rest (chat, search, citations, open loops, MCP, AI configuration, geocoding,
storage, the web client) reads, adapts or configures; it has no multi-step
protocol of its own. `PROJECT.json` lists all parts with their status, and the
hazards with the properties that cover them.

## How the models correspond to the code

### ExtractionPipeline

One item. `log[k]` is the sequence of attempts of kind `k`, in the order of
`createdAt`; an attempt carries its row (`at`, `status`), who appended it (`by`),
the place of its job (`job`), its tries and stalls, and the outcomes it has had
(`past`, history). Each `await` between two effects separates two actions:

| code | actions |
|---|---|
| `maybeRun` | `EvalRead` (snapshot, readiness, coverage), `EvalRoute` (guard, hold), `EvalAppend`, `EvalHand`, `EvalRelease` |
| the subscription | `Deliver`, inside `Emit` and `Announce`, as the events are synchronous |
| a processor | `Start`, `Grade` (sentinel row), `Finish` (write), `Emit` (event, then BullMQ's reaction `Return`) |
| OCR's passthrough row | `BridgeText`, `Finish`, `Emit`, `BridgeDone` |
| `commit`, `processCommitted` | `Commit`, `RootAppend`, `RootHand` per root |
| `reprocess` | `Reprocess`, `Reclaim` and `Announce` per stale attempt, then the roots |
| retry endpoints | `Retry`, `RetryAppend`, `RetryHand` |
| `setManualTier` | `Override` |
| the process dies | `Crash`: `evaluating`, requests and unsent events are lost, jobs stall |

Readiness (`Met`, `Satisfies`, `Ready`), the generation (`Inputs`) and coverage
(`Covered`) follow `readiness.ts`; `Decision` follows `decide`.

Abstractions. Database calls succeed; `createdAt` values differ. What is
enabled and applies (`Relevant`) does not change. There is one commit or
reprocess request and one manual retry at a time (concurrent ones are listed as
hazards). `Start` merges the write of `processing` with the read of the input,
whose event nobody acts on; `EvalRoute` merges `decide` with the write of the
hold. How long an attempt has been pending is left open, so a reprocess may come
at any time. A worker is not run twice because its lock expired while it lives.
Providers, prompts and payloads are the outcomes they produce.

### SensitivityRow

`ExtractionPipeline` writes the sensitivity row in one step; here each write is what it
is in the code, a find and later a save. `tierRow` is the row; every gated kind, the
sentinel and the user may have several writes under way (`Turns`; the pipeline and a
backfill evaluate the same kind, two workers classify). What each has found is its
`copy`, and `Update` saves the copy with the writer's own column changed: TypeORM's
`save` writes every column that differs from the row, stale ones included (external).

| code | actions |
|---|---|
| `upsert`, `setManualTier` | `Upsert` (find), then `Update`, or `InsertRow`; `FindWinner` after a lost insert |
| `decide`, then `markHeld` or `clearHeld` | `Decide`, `Flag` (find, early return), `Update` |
| a query that fails, a process that dies | `GiveUp` |

History: `meant` has what each owner wrote last in its column, `withheld` the kinds last
told to hold, `covered` the columns that a save of another's has written back and their
owner has not written since. Tiers are open (`public`, `normal`) or closed; spans and
counts go with the detected tier, the reason with the hold. Which kinds have a local
endpoint does not change, and deleting the item, which takes the row along, is left out.

### BackfillRuns

Several replicas, items and kinds. `att` keeps, per item and kind, the latest
attempt, how many older ones are still pending, whether the target version was
reached and whether the latest attempt covers its inputs: what `shouldEnqueue` and
the pipeline ask. The items of a batch are a set, visited in the order of their ids.
`Complete` is the whole pipeline in one step (the attempt ends, the dependents
that are ready start); `ExtractionPipeline` has its detail. A replica goes
through `Boot`, `TakeLock`, and per kind `FindOpen`, `MarkStale`, `InsertRun`,
then `Unlock`; a run through `Load`, `Visit` per item, `Count`, `Finish`, or `Throw`
where a query fails (the `catch` of `execute` fails the run, unless that write fails
as well). Items begin with the attempts of an earlier version of the system
(`Histories`), which are `MadeInOrder`: what succeeded read the latest attempts of its
inputs (`source-text.ts:35`), so a success that is newer than its inputs means they
succeeded. Time is one bit per run: a heartbeat fresher than 15 minutes, which `Lapse`
ends at any moment. The routing guard and the owner's settings are `Blocked`. A run of
an unregistered kind is left out.

### FactsSupersession

One (subject, attribute) group. `facts` and `cites` are the committed tables,
`tx` the transactions that are open: what `ingest` has in memory, its uncommitted
writes and citations. A transaction reads its own writes over the committed table
(`View`, `Over`). A statement that has to wait (`WaitsFor`: a row or a value
another transaction wrote, a fact it cites or deleted, the advisory lock) is
disabled; on a cycle PostgreSQL aborts one (`Deadlocked`). These locks, READ
COMMITTED and `save()` writing back the whole row it read are external behaviour.

| code | actions |
|---|---|
| `FactsProcessor.process` | `Begin` (or `ProviderFails`), the ingest, `Complete`, `Fail` |
| `ingest`, `resolveFact`, `upsertCitation` | per value `Find`, then `Refresh` or `Create` |
| `lockGroups`, `recomputePersonalFactSupersession` | `LockGroup` (lock and reads), `Commit` (saves) |
| `deleteItem`, its part on facts | `BeginDelete`, `DropOrphans` (with the recompute's reads), `CommitDelete` |

Merged steps: the reads of one recompute, and its saves with the commit. A failed
insert is a failed transaction: the query for the winner of the insert
(`facts-registry.service.ts:292`) cannot succeed in PostgreSQL. Quotes, names and
the time of supersession (set and cleared with the pointer) are left out, as is
the merge of two people.

### TopicDocuments

One topic. `assigned` are its items, `docs` are the versions, `jobs` where their jobs stand, `requests` the
calls of `enqueueRegeneration` (by the timer, a user, the sweep and each job's own
re-check) with their awaits, `timer` and `sweep` memory of the process.

| code | actions |
|---|---|
| `TopicsProcessor.process` | `Classify`, `Assign`, `OnTopicsAssigned` (arms the timer) |
| `enqueueRegeneration` | `CheckInFlight`, `CountVersions`, `InsertVersion`, `HandOverVersion` or its failure |
| `TopicDocumentProcessor.process` | `TakeVersion`, `ReadItems`, `Generate` or `Fail`, `FindKept`, `DeleteOld`, `Recheck`, `FollowedUp` |
| the sweep after boot | `SweepTopics` |
| `updateTopic`, `deleteTopic` | `EditTopic` |

What TLC makes visible: two enqueuers, or a retry of the queue, put two versions
in flight; the re-check compares ids only; a redelivery takes a succeeded row back
to processing; a run that finds its topic empty throws before it has read the
items, so nothing is re-checked; a row whose hand-over failed stays queued and
defers every later request, those of the boot sweep too (`Stuck`).

### RecordingMerges

`rows` are items, `links` which merge hides a part, `job` and `progress` the work of
a merge, `made` (history) what it has produced. `Merge` with its checks, insert, `SaveLinks` and compensation; the
job `process` from reading its parts to `Stitch`; `FailRun`; `Delete` and split,
whose check for merges is outside their transaction. A job that races a split
leaves a blob behind; a crash before the hand-over leaves a pending merge until
the user splits it. SQLite has no foreign keys here; the model has PostgreSQL's.

### ItemImports

One key, `Importers` and `Removers` that each stand at an await. `Checks` lists the
looks of each import in the order of its code: the Plaud sync looks for the item
and then for the tombstone, the mail webhook the other way round. A mail's blob
and its row are one attachment-free mail; two deletions of one item both record
the tombstone. What TLC makes visible: a deletion between the mail's two looks is
undone, although `email-webhook.service.ts:22` says tombstones keep a deleted item
from being resurrected; racing duplicates leave blobs behind; an import that dies
between the mark and `onCommitted` never starts the pipeline.

### ExtractedRows

One table of one item. `table` is what is committed, `runs` the jobs and their transactions
(`FindRow`, `SaveRow` or `UpdateRow`, `ScanStale`, `ReapRow`, `Commit`, `Succeed`),
`edits` the user's find and save (`AskStatus`, `SaveStatus`). The four persistence
services share this protocol. Dedupe keys are `RowKeys`; the linking of rows to
entities is left out. What TLC makes visible: an overlapping re-extraction writes
back a status it read before; an older attempt that ends later reaps the rows of
the newer; in PostgreSQL a unique violation aborts the transaction, so the catch's
second query cannot succeed.

### CalendarLinks

One recording, `Events` of one feed, `events` and `pairs` the tables of events and links, `Syncers`
in several replicas (`FetchEvents`, `FindEvents`, `StoreEvent`, `ReadEvents`,
`ReadLinks`, `InsertLink`, `DeleteLink`, `TurnToStale`, `EndSync`). An event lies in
one of three places: matching the recording, elsewhere, or gone. A pass deletes by
id a link it read as automatic, also when the user made it manual since
(`crossed`); `recording-event-link.entity.ts:20` says such rows are never touched.
One event is checked in `Items` (two events with three rows pass too, 450,000
states).

### DeadMansSwitch

`switch` is the row, `releases` its releases, `sweeper` the passes of the replicas
under their lock, `calls` the requests of the owner, await by await. Time is
counted in sweeps. A sweep: `SweepBegins` (lock), `SweepFinds`, arm, `SweepGrants`,
`SweepMails`; the owner: `CheckIn`, `Update`, `Revoke`. The switch's row is saved
whole, so requests that overlap write back stale columns (`lost`, history). A
grace of zero, the panic delete and the use of the grant are left out. A sweep that
dies between grant and mail leaves a contact who is never told.

### Nudges

`states` is `nudge_state`, `deliveries` the delivery log (a sequence of times), `sweeps` the sweeps
(`Evaluate`, `Notify` with its gates, `HoldBack`, `Mark`), `acts` dismiss and snooze
(find, save). A sweep that dies after the notification and before the mark sends
it again (`told.died`). `notify` logs failures so that they "must not block a
retry" (`notifications.service.ts:179`), while the sweep marks a failed nudge as
fired.

### EntityRegistry

`rows` is the table `entities` (type, normalized name, canonical name, aliases, link
and its origin), `aliasOf` and `suppressed` the side tables, `mentions` what was
filed. Each extraction finds one entity; a job is a find, then a save.

| code | actions |
|---|---|
| `EntitiesProcessor.process`, `ingest` | `Provide`, then `Check`, `FindRow`, `FindAlias`, `Upsert`, `UpsertWinner`, `Mention` |
| `merge`, `update`, `suppress` (one transaction each) | `Merge`, `Rename`, `Respell`, `Retype`, `Suppress` |
| `linkContact`, `unlinkContact`, `convertToContact` | `OpenEdit`, `SaveEdit` |
| `autoLink` after an extraction, at boot, by request | `StartPass`, `Resolve` per row |

`stale` holds everyone who has read a row, or looked up a name, that a correction
has changed since; `spoilt` that one of them has written. `save` writes every
column and inserts a row that is gone, so such a write undoes the correction:
`contact-resolution-startup.service.ts:22` calls the worst case of a concurrent
sweep a duplicated pass, where TLC has it redo a link the user has just undone.
The properties are about everyone else. An extraction that found no row at a key
counts as overtaken when a correction then changes the row there, a merge that
hands the survivor a suppressed link included: beaten to the insert, it saves its own
contact over that row without asking for the origin
(`entities-registry.service.ts:318`), which undoes an unlink. Relations, facts, questions and
commitments that a merge repoints are left out, as are names beyond their length
and whether two are equal.

### AttemptLedger

The promise to readers of the table: attempts are appended, never removed, keep
their outcomes, and an attempt starts only when everything it requires has at
some time produced what is required (`InputsMade`). `ImplementsLedger` maps `log`
to it by forgetting everything but `by` and `past` (`Recorded`).

## Runs

| run | expects | shows |
|---|---|---|
| `PipelineAudio` | pass | types; one run per generation; the refinement of `AttemptLedger`; with failures and retries of jobs, a failing queue, a crash, an override (85,000 states) |
| `PipelineVoice` | pass | manual retry and reprocess beside the workers: no stranded attempt, no missed work (970,000 states) |
| `PipelineDocument` | pass | OCR bridge, OR-group, gated kind: due work is eventually served (120,000 states); that none is missed is a theorem |
| `LostWakeup` | violation | a dropped wakeup is never made up for |
| `SettledEarly` | violation | a dependent starts on the first failed try of a dependency that succeeds later |
| `Replicas` | pass | boot sweeps, the dead-man's switch and the nudges in two replicas, with crashes, against the owner: safety and liveness of each (320,000 states) |
| `LateRevoke` | violation | a revoke after a check-in suppresses that check-in |
| `Items` | pass | topic documents, merges, imports, extracted rows, calendar links, the sensitivity row: requests, jobs, retries and crashes overlap (2,000,000 states) |
| `BackfillWalk` | pass | a completed run left nothing behind; runs end (two items, batches of one, a failing query or a crash; 580,000 states) |
| `Knowledge` | pass | facts: one winner under concurrent ingests, the right one when nothing overlapped; entities: corrections last (1,200,000 states) |
| `FactsOrder` | violation | two overlapping ingests leave the older fact active |
| `RenameUndone` | violation | the extraction after a rename restores the old name |

Properties.

- `OncePerGeneration`: between two attempts the pipeline appended for a kind, a
  dependency got a new attempt or an attempt of the kind failed. It rests on
  `evaluating` and the coverage test together.
- `NoStrandedAttempt`: a pending attempt is queued, running or being handed over,
  unless the process crashed or the queue failed.
- `NoMissedWork`: whenever a kind is due (everything it waits for is ready, it has
  an input newer than its latest attempt, the guard is open), it is being
  evaluated or an event that evaluates it is still to come, unless its last wakeup
  was dropped. A kind all of whose dependencies are disabled has no input and is
  never due: nothing wakes it. `DueIsServed` is the liveness form: due work does
  not stay due for ever. `dropped` (history) holds the kinds whose last event met an
  evaluation that had already read its snapshot; the exception is what
  `LostWakeup` shows to be real.
- `OneOpenSweep`, `NeverClobbered`: the read-then-insert and read-then-update
  steps of the sweep.
- `CaughtUp`: no item selected by a completed run has the kind missing or
  outdated while its inputs are there, although batches are decided on old
  snapshots and inputs are re-run meanwhile. `RunsEnd` is its liveness side.

- `OneWinner`: in every committed state the pointers of the group are those of a
  single winner, although ingests find and write facts before they take the lock
  of the group, refresh the same rows and fail on deadlocks. Deletes recompute
  without that lock; behaviours where one overlapped are excepted (`overlap`,
  history), for there TLC finds pointers at deleted facts.
- `ConvergedAlone`: without overlap, a quiet group is as a recompute would leave
  it, after any sequence of extractions, re-extractions, crashes and deletions.
- `FiledWhereNamesLead`: after any merges, renames, retypes and deletions, a
  mention is filed under the entity its name leads to now. `CorrectionsHold`: no
  extraction and no resolver that could have seen a correction undoes it.
- `NoItemDropped`, `ShownIsComplete`, `HistoryKept` (topic documents): once all is
  quiet, a generation has read every item since it was assigned, and the version
  shown is complete when nothing failed; pruning keeps the newest success.
- `LinksJoinLiveItems`, `MergesAreWhole`, `StitchedOnce`, `NoMergeStranded`
  (merges), `NotResurrected`, `BlobBehindRow`, `StartedOnce` (imports).
- `HandledStays`, `RowsAreNewest` (extracted rows): what the user handled stays
  so; open rows are those of the newest extraction, when none overlapped.
- `DecisionsSurvive`, `OneSyncRepairs` (calendar): a pass leaves manual and
  suppressed links alone, and one undisturbed sync makes events and automatic
  links right whatever others left.
- `GrantedWhileDue`, `StoodDown`, `NamesCurrentContact`, `OneMailPerLapse`, and the
  liveness `LapseIsServed` (dead-man's switch); `FiresOnce`, `CapHeld`, and the
  liveness `NudgeArrives` (nudges).
- `ColumnsKept` (sensitivity row): a column is what its owner wrote last, and an item is
  held only while a gated kind waits, except where a save of another's has written the
  column back; so racing first inserts, which the unique index settles, lose nobody's
  column.
- Exceptions are history variables, named above each property: a property holds
  except when a save crossed another, a process died between two stated steps, or
  a hand-over was lost. Each was added where TLC found the violation without it.

### The five disagreements

`LostWakeup`: README "dependent extractors are event-driven and fire once their
dependencies settle" against `extraction-pipeline.service.ts:93`. `SettledEarly`:
`inbox/src/extractor.ts` "wait until its latest attempt reaches a terminal state"
against processors that publish every failed try (`summarization.processor.ts:70`,
`job-queue.ts:54`). `FactsOrder`: "regardless of ingest/delete/merge ordering"
(`fact-supersession.ts:37`) against a recompute that counts only succeeded
extractions and its own (line 117). `LateRevoke`: a revoke disarms "the lapse that
produced it" (`dead-mans-switch-release.service.ts:49`) against one that
suppresses the check-in it finds (line 315). `RenameUndone`: "a merge/rename/delete
is not undone by the next extraction run" (`entities-correction.service.ts:46`)
against an upsert that makes the longer name canonical
(`entities-registry.service.ts:315`).

Also seen, without a run of its own: `shouldEnqueue` says "no attempt is currently
in flight" (`extraction-runs.service.ts:259`) and decides on the snapshot of its
batch, so that two runs can each add one; "a user's override survives
re-classification" (`item-sensitivity.entity.ts:28`), but an upsert saves the whole row
it found some time before (`sentinel-persistence.service.ts:42`), and without its
exception `ColumnsKept` fails by an override between the two; `held` is "true while an
external-LLM extraction is withheld" (`item-sensitivity.entity.ts:76`), but a kind that
is let go clears it also while another is withheld (`extraction-pipeline.service.ts:123`).

### Bounds

`Budget` bounds each outside event (a failing provider, a crash, a failing queue,
a retry, a reprocess, an override); every run allows one of each. `Mixes` names
the sets of them that may happen in one behaviour, which keeps each run to the
interactions it is about; without outside events the pipeline is finite by
itself. One of each suffices for the races here: each needs two actors, and the
roots, dependents and sentinel are actors already. `MaxTries` is 2 where job
retries matter (a failed and a successful try) and 1 elsewhere; the code has 3.
The kinds of a run are a subgraph of the repository's: edges to kinds that are
disabled or do not apply neither wait nor wake.

`MaxWork` bounds what is begun at the sensitivity row: four, enough for a first insert
that is lost, a hold and its release, of which any may overlap.

`MaxRuns` bounds runs ever started (3: an old sweep, a new one, and one more; 2
for the walk), `MaxTroubles` crashes, failing attempts, hand-overs and queries
together: one, as each recovery is that of one trouble. Batches hold one item, so
that two items cross a batch boundary.

`MaxAttempts`, `MaxTries` (2) and `MaxRows` (2, 3 in `FactsOrder`) bound the
extractions of an item, the runs of a job and the fact rows; crashes need no bound
here, as they lose transactions and nothing else; `Workers` is 2, as in `facts.module.ts`. Two
items suffice for the pass run: three transactions are open at once already (an
extraction of each, or two of one, and a delete). Three items, without crash and
retry, are in `FactsOrder`.

Two of each actor (replicas, importers, syncers, removers, merges, versions in
flight) are what a race needs; a third waits for the same index or lock. One
bound counts all troubles of a module (`MaxTrouble`, `MaxUpsets`, `MaxShifts`,
`MaxEvents`, `MaxMoves`, `MaxCuts`, `MaxCorrections`): the edits, failures and
crashes a behaviour may have, two to four of any mix. Rows are bounded by
`MaxVersions`, `MaxReleases`, `MaxAsked`, `MaxEntities`. Time ends at `MaxTime` and
`LastTick`, long enough for a lapse, its grace, a check-in and another lapse, and
for a held-back nudge to be retried after its window; liveness is asked of what
begins early enough before the end.

`CHECK_DEADLOCK FALSE` everywhere: when the bounded outside events are spent and
the work is done, the system is idle.

### Fairness

`FairSpec` is `WF_vars(System)`: the event loop and the workers of a live process
keep taking steps while there is one to take. The code does so by awaiting its
own promises and by BullMQ's worker loop; in the models every run of `System`
steps is finite, so fairness of the whole is fairness enough and no action needs
its own. Nothing is assumed of users, failures, crashes or boots. In
`PipelineDocument` the queue and the process do not fail: `DueIsServed` says
nothing after a crash, for then only the boot sweep recovers.

In `Replicas`, `ReplicasFairness` is weak fairness of the sweeps (`setInterval`
fires while a replica lives; a dead one boots again), weak fairness of the steps
of a request that has begun, and strong fairness of the clock, which the
interleaving of sweeps would otherwise hold still. Nothing is assumed of what the
owner does, nor of crashes. The modules of `Items` and `Knowledge` are checked for
safety: what must be true once all is quiet, not that it becomes quiet.

## Proofs

Eight modules prove 46 theorems, for every value of the constants, from nothing but
the named assumptions of the modules that declare the constants (what the code
validates at boot, types, bounds that are natural numbers); TLC evaluates them in
every run. For each the argument is an inductive invariant, checked by TLC first,
that says what each reader still knows when it acts on what it has read.

**`ExtractionPipelineProofs`**

- `TypeCorrect`. The strengthening `TypeInv` adds that an attempt in a terminal
  status has that outcome in its history.
- `RunsOncePerGeneration` (`OncePerGeneration`). The property says nothing of an
  evaluation that has passed the coverage test and not yet appended. `GenerationInv`
  adds `Ordered` (attempts of a kind are numbered by `createdAt`, below the clock)
  and `Fresh`: while `maybeRun` of `k` stands between snapshot and insert, every
  attempt of `k` the pipeline appended has a newer input or a failure after it.
  `Fresh` holds by the coverage test (`PassesByRead`), and stays because only that
  evaluation appends event-driven attempts of `k`, and attempts keep their
  `createdAt`, whatever retries, reclaims and late outcomes do (`FreshStays`).
- `PipelineImplementsLedger` (`ImplementsLedger`, the refinement, step by step).
  `LedgerInv` adds `Entitled`: an evaluation or a retry that is about to append has
  evidence that entitles it, read several awaits earlier; it lasts because
  outcomes are never taken back (`past` grows).
- `NothingStranded` (`NoStrandedAttempt`) and `NothingMissed` (`NoMissedWork`), by
  `WorkInv`. `Held`: at most one of an evaluation, a retry and a request is handing
  over an attempt, and that attempt has no job yet. `Routed`: only gated kinds reach
  the guard. `Spared`: what has not happened is still in the budget, so that
  "undisturbed" stays false once false. A kind that becomes due does so by a step
  that writes an outcome, whose event is then to come, or that ends an evaluation;
  the proof goes through every step and every kind it may make due. It is this
  proof that showed `Due` too generous: a kind whose dependencies are all settled
  and irrelevant was called due, and no event ever wakes it.

**`ItemImportsProofs`**: `KeepsBlobs` (`BlobBehindRow`), `StartsOnce`
(`StartedOnce`), `NeverResurrects` (`NotResurrected`), types. `ImportInv` says whose
item is whose before it has a row (`ItemsFresh`), which check an import may stand at
(`OnRoute`), that a blob is there before the row says so and goes after the row
(`BlobsBehind`), that one import at a time has an item to start until a second commit
overlaps (`Commits`), and what a tombstone says of the looks already made (`Tombstones`).

**`RecordingMergesProofs`**: `LinksStayLive`, `MergesStayWhole`, `StitchesOnce`,
`NoneStranded`, types. `MergeInv` says that a merge has no job before it is handed
over and nothing to show before it is announced (`Requests`), that the links of a live
merge are its parts and its job puts together just those (`Whole`), that nothing is
stitched before the job comes to it (`Stitching`), and that progress has a request or a
job behind it (`Attended`).

**`ItemsProofs`**. Of extracted rows: `UserHasTheLastWord` (`HandledStays`), `ShowsTheNewest`
(`RowsAreNewest`), types. `RowInv` says that a row handled is handled in every
transaction that holds it (`Handling`), that until two transactions overlap
there is one (`OneTransaction`), how far that one has come with its batch
(`Batches`), and that the last one to commit is the newest (`Newest`).

Of the calendar: `UserDecidesLinks` (`DecisionsSurvive`), `OneSyncSetsRight`
(`OneSyncRepairs`), types. `CalendarInv`: a pair without a link keeps nothing of one
(`LinksSound`), a pass deletes only what it read as automatic (`DeletesAuto`), what a
sync that runs alone has read still holds (`AloneIs`) and how far that one has come
(`AloneKnows`), and once it has ended no sync is under way (`SettledRests`).

Of the sensitivity row: `RowKeepsItsColumns` (`ColumnsKept`), types, for any kinds and
any number of writers at once.
`SensitivityInv` adds `Fits`: what a writer has under way is of its kind, so only the
guard writes the hold. A write sets its own column whatever was there and no other
(`AmendsItsOwn`), and what it writes back besides is in `covered` or still so.

Of the run `Items`: `ItemsTypeCorrect` (`ItemsTypeOK`), since whichever module runs,
the invariants of all six hold (`ItemsInv`).

**`TopicDocumentsProofs`**: `NothingDropped` (`NoItemDropped`), `ShowsComplete`
(`ShownIsComplete`), `KeepsHistory` (`HistoryKept`, an action property), types.
`TopicInv` is of a topic that is there; once it is deleted only types remain. Its
heart is `UnreadDue`: an item no generation has read is `Due`, that is, an alarm is
set, a request still asks, a version waits to be read or was lost, or a job will look
again; so a request may give up beside a version in flight only because that version
will read, or its job look again (`InFlightTracked`). A job that found the topic empty
looks at nothing any more, and what came since has a timer that outlasts it
(`EmptyWaits`). `UncoveredDue` says the same of the newest version, as long as versions
run in order (`InOrder`); only the newest one's re-check counts there. The sweep after
boot compares by `createdAt`, which is enough because what a version has not read was
assigned after its row was made (`SinceTold`). For `HistoryKept` a prune that has read
its cutoff still finds enough versions above it (`Prunes`): other prunes delete only
below their own. Which versions a prune keeps rests on `KeptIs`: of a bounded set with
enough members, the r greatest are those from some member on.

**`ReplicasProofs`**, the sweeps that replicas run. Of backfills: `OneSweepAtATime`
(`OneOpenSweep`), `RunsCatchUp` (`CaughtUp`), `NeverClobbers` (`NeverClobbered`, an
action property), types. `SweepInv`: whoever looks, marks or inserts holds the
advisory lock (`HoldsLock`), so what its guard has read still holds when it inserts
(`GuardIsCurrent`). `WalkInv`: every item of a run that is under way is ahead of the
cursor, or in the batch and due, or settled (`Walked`), so a run that completes has
settled them all (`Completed`). *Settled* is what `CaughtUp` asks of an item: its
inputs do not allow the kind, or its latest attempt is under way, failed, or brought it
to the target version. The proof has two halves. A batch is a prefix of what is left
(`BatchIsPrefix`): nothing below its last item stays outside, which is why a batch is
defined by how many items of the scope are below each of its own. And whoever
completes or starts an attempt, whichever run, pipeline or user it is, unsettles no
item (`AttemptsMove`): an attempt that covers its inputs finds them succeeded
(`MadeInOrder`), and when an input succeeds anew, the kinds it does not cover are
started in the same step. For `NeverClobbers` a completed run has no walk left that
could fail it.

Of the switch: `DisablingStandsDown` (`StoodDown`),
`MailsWhomTheSwitchNames` (`NamesCurrentContact`), `MailsOncePerLapse`
(`OneMailPerLapse`), `GrantsWhileDue` (`GrantedWhileDue`, an action property), types.
`SwitchInv`: one replica sweeps (`OneSweeps`), and what it read when it began still
holds unless a save was lost (`SweepKnows`); a request of the owner has disarmed
what it was to disarm, or still stands before it (`CallKnows`, `OffDisarms`,
`GrantSeesOff`, `GrantSeesCheckIn`); two releases that were granted belong to
different lapses (`LapsesDiffer`).

Of nudges: `NudgesFireOnce` (`FiresOnce`), types. `NudgeInv`: one replica sweeps
(`OneNudgeSweep`), and a nudge that was sent is marked on its row or is the one the
sweep is about to mark (`SentOnce`), unless the sweep died between the two or a save
of the user crossed it, which the property excepts.

Of the cap: `NudgesKeepTheCap` (`CapHeld`). `CapInv`: the clock stands while a sweep
runs, no delivery is logged ahead of it, and a sweep about to send was told that there
is room, which it alone can fill (`OneNudgeSweep`). A delivery is one more in the
window that ends now and in none that ended before (`LogGrows`), and as the clock moves
deliveries only leave the window (`WindowMoves`).

Of the run `Replicas`: `ReplicasTypeCorrect` (`ReplicasTypeOK`), since a step of one of
the three is a stutter of the others and all their invariants hold (`ReplicasInv`).

**`FactsSupersessionProofs`**: `OneWinnerHolds` (`OneWinner`), `ConvergesWhenAlone`
(`ConvergedAlone`), types. `GroupInv`: one ingest holds the lock of a group
(`OneHolder`), and what it is about to save makes the pointers those of one winner
over the table as it is (`Planned`); without the lock nobody moves a pointer. That a
set of rows has a newest one rests on ids being bounded (`BestExists`, by the least
bound). For `ConvergedInv` one step more: while nothing overlaps, one job or one
deletion at a time, what a recompute would save is nothing, or somebody has the plan
that makes it so (`Reached`, `Ingesting`, `Deleting`).

**`KnowledgeProofs`**: `MentionsFiledWhereNamesLead` (`FiledWhereNamesLead`),
`CorrectionsHoldAlways` (`CorrectionsHold`, an action property), types.
`RegistryInv`: keys are unique and rows sound (`RowsInv`), and, until a save was
spoilt, what each job, pass and form has read is so (`Informed`, `Agrees`) unless a
correction overtook it. Then every save is `Faithful`: it writes over a row what
agrees with the row, or inserts at a key where no name leads; such a save disturbs
nobody's knowledge, and a correction disturbs only those whom it overtakes
(`Local`). The proof needed merges to overtake an extraction that had found nothing
at the key of the survivor, which the model had left out, and states what the model
took for granted of `Before`: names are unique, an extraction files one.
`KnowledgeTypeCorrect` (`KnowledgeTypeOK`) joins it with the types of the facts for
the run `Knowledge`.

Every invariant and action property of the passing runs is a theorem, and so is the
refinement. Only model-checked are the liveness properties (`DueIsServed`, `RunsEnd`,
`LapseIsServed`, `NudgeArrives`) and anything with `ENABLED`, which are out of the
prover's reach, and the five violations, which are counterexamples. Induction over
data is out of reach as well. Where a proof would have needed it, the models say the
same without recursion: a batch by counting what is below an item, the attempts of a
kind by the latest and a number, deliveries as a log that is appended to.

## Plan

1. `FactsSupersession` and `EntityRegistry` together: the merge of two people
   repoints their facts (`repointFacts`) and re-elects the groups.
2. Task citations and their registry, reminders' escalation, and the cursor of the
   Plaud sync.

## Not modelled

Provider calls, prompts, parsers and renderers; detectors of sensitive text; audio
concatenation and stitching; matching scores and search ranking; Markdown and
citations; the web client (a quarter of the lines) and its API types; DTOs,
controllers, migrations and module wiring. They are pure functions, I/O or
presentation: unit tests reach them better than interleavings do. For that reason
the modules stand for a small share of the repository's lines, and for most of
those that change shared state in more than one step.
