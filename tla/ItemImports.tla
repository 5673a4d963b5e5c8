----------------------------- MODULE ItemImports -----------------------------
(***************************************************************************)
(* How one idempotency key gets into the inbox and out of it: a recording  *)
(* that every replica's Plaud sync lists again and again, a mail that is   *)
(* delivered more than once, a note, or an upload of the client in three   *)
(* calls (init, PUT, commit); against the user's deletions and a purge.    *)
(* The blob storage cannot join a transaction, and only the unique index   *)
(* on the key stands between two imports.                                  *)
(***************************************************************************)
EXTENDS Integers, FiniteSets

CONSTANTS
    Importers,    \* imports at once; of the sync, one for each replica
    Removers,     \* deletions and purges at once
    MaxAsked,     \* bound: imports, commits, deletions and purges begun
    MaxCuts       \* bound: requests that die (a crash, or an error of what they call)

ASSUME ImportAssumption == MaxAsked \in Nat /\ MaxCuts \in Nat

\* A request that imports names, should it get so far, the item and its blob.
ItemIds == 1 .. MaxAsked

VARIABLES
    origin,       \* what the key names
    inbox,        \* item -> its rows in inbox_items and source_payloads
    tombstone,    \* the key has a row in inbox_tombstones
    store,        \* items whose blob is in the storage
    imports,      \* importer -> its request
    removals,     \* remover -> its request
    asked, cuts,  \* what is used of the bounds
    log           \* history, see ImportLog

importVars == <<origin, inbox, tombstone, store, imports, removals, asked, cuts, log>>

\* since: items created when it looked for an existing one; raced: an item of
\* the key was deleted while it ran.
Import == [pc : {"idle", "existing", "tombstone", "again", "put", "create", "head", "mark",
                 "start"},
           item : 0 .. MaxAsked, since : 0 .. MaxAsked, raced : BOOLEAN]
NoImport == [pc |-> "idle", item |-> 0, since |-> 0, raced |-> FALSE]
Removal == [pc : {"idle", "rows", "blobs"}, purge : BOOLEAN, items : SUBSET ItemIds]
NoRemoval == [pc |-> "idle", purge |-> FALSE, items |-> {}]

\* starts: runs of onCommitted; crossed: two commits read the row pending; cut: a
\* request died that had still to start the pipeline; raised: created although the
\* key was tombstoned; purged: there was a purge.
ImportLog == [starts : [ItemIds -> Nat], crossed : SUBSET ItemIds, cut : SUBSET ItemIds,
              raised : BOOLEAN, purged : BOOLEAN]

ImportTypeOK ==
    /\ origin \in {"sync", "mail", "text", "upload"}
    /\ inbox \in [ItemIds -> {"none", "pending", "committed", "deleted"}]
    /\ tombstone \in BOOLEAN /\ store \subseteq ItemIds
    /\ imports \in [Importers -> Import] /\ removals \in [Removers -> Removal]
    /\ asked \in 0 .. MaxAsked /\ cuts \in 0 .. MaxCuts /\ log \in ImportLog

ImportInit ==
    /\ origin \in {"sync", "mail", "text", "upload"}
    /\ inbox = [i \in ItemIds |-> "none"] /\ tombstone = FALSE /\ store = {}
    /\ imports = [p \in Importers |-> NoImport] /\ removals = [d \in Removers |-> NoRemoval]
    /\ asked = 0 /\ cuts = 0
    /\ log = [starts |-> [i \in ItemIds |-> 0], crossed |-> {}, cut |-> {}, raised |-> FALSE,
              purged |-> FALSE]

Existing == {i \in ItemIds : inbox[i] \in {"pending", "committed"}}
Created == Cardinality({i \in ItemIds : inbox[i] # "none"})

AskNext == asked < MaxAsked /\ asked' = asked + 1
AwaitImport(p, r) == imports' = [imports EXCEPT ![p] = r]
GotoImport(p, pc) == AwaitImport(p, [imports[p] EXCEPT !.pc = pc])
-----------------------------------------------------------------------------
(* Imports: plaud runSync, handleRawEmail, ingestText and ingestWeb, init. *)

\* Mutant: the sync looks at the tombstones first, as the mails do.
MailChecks ==
    LET steps == <<"tombstone", "existing", "again", "put">> IN
    [sync |-> steps, mail |-> steps, text |-> <<"again", "put">>,
     upload |-> <<"existing", "create">>]

\* The checks of each import in their order, and what comes after them.  (The last,
\* "again", is that of ingestBlob, ingestText and ingestWeb.)
Checks ==
    [sync |-> <<"existing", "tombstone", "again", "put">>,
     mail |-> <<"tombstone", "existing", "again", "put">>,
     text |-> <<"again", "put">>,
     upload |-> <<"existing", "create">>]
After(check) ==
    LET steps == Checks[origin]
        n == CHOOSE k \in DOMAIN steps : steps[k] = check IN
    steps[n + 1]

BeginImport(p) ==
    /\ imports[p] = NoImport /\ AskNext
    /\ AwaitImport(p, [NoImport EXCEPT !.pc = Checks[origin][1], !.item = asked + 1])
    /\ UNCHANGED <<origin, inbox, tombstone, store, removals, cuts, log>>

\* findByIdempotencyKey of the caller; init answers with what is there.
FindExisting(p) ==
    /\ imports[p].pc = "existing"
    /\ AwaitImport(p, IF Existing # {} THEN NoImport
                      ELSE [imports[p] EXCEPT !.pc = After("existing"), !.since = Created])
    /\ UNCHANGED <<origin, inbox, tombstone, store, removals, asked, cuts, log>>

\* isIdempotencyKeyTombstoned
CheckTombstone(p) ==
    /\ imports[p].pc = "tombstone"
    /\ AwaitImport(p, IF tombstone THEN NoImport
                      ELSE [imports[p] EXCEPT !.pc = After("tombstone")])
    /\ UNCHANGED <<origin, inbox, tombstone, store, removals, asked, cuts, log>>

\* After a download, or the upload of attachments.
FindAgain(p) ==
    /\ imports[p].pc = "again"
    /\ IF Existing # {} THEN AwaitImport(p, NoImport) ELSE GotoImport(p, After("again"))
    /\ UNCHANGED <<origin, inbox, tombstone, store, removals, asked, cuts, log>>

PutObject(p) ==
    /\ imports[p].pc = "put"
    /\ store' = store \cup {imports[p].item}
    /\ GotoImport(p, "create")
    /\ UNCHANGED <<origin, inbox, tombstone, removals, asked, cuts, log>>

\* Did the import bring back what it had no excuse to?
Raises(r) ==
    /\ tombstone
    /\ \/ origin = "sync" /\ r.since = Created
       \/ origin = "mail" /\ ~r.raced

\* createCommittedItem, or createPendingItem: the unique index refuses a second
\* item, whose blob stays.
CreateItem(p) ==
    LET r == imports[p] IN
    /\ r.pc = "create"
    /\ IF Existing # {} THEN AwaitImport(p, NoImport) /\ UNCHANGED <<inbox, log>>
       ELSE /\ inbox' = [inbox EXCEPT ![r.item] =
                           IF origin = "upload" THEN "pending" ELSE "committed"]
            /\ IF origin = "upload" THEN AwaitImport(p, NoImport) ELSE GotoImport(p, "start")
            /\ log' = [log EXCEPT !.raised = @ \/ Raises(r)]
    /\ UNCHANGED <<origin, tombstone, store, removals, asked, cuts>>

\* onCommitted: nothing to start on an item that is gone.
Start(p) ==
    LET i == imports[p].item IN
    /\ imports[p].pc = "start"
    /\ log' = [log EXCEPT !.starts[i] = IF i \in Existing THEN @ + 1 ELSE @]
    /\ AwaitImport(p, NoImport)
    /\ UNCHANGED <<origin, inbox, tombstone, store, removals, asked, cuts>>
-----------------------------------------------------------------------------
(* Uploads: the PUT goes past the API, then commit. *)

\* The presigned URL works whatever has become of the item.
Upload(i) ==
    /\ origin = "upload" /\ inbox[i] # "none" /\ i \notin store
    /\ store' = store \cup {i}
    /\ UNCHANGED <<origin, inbox, tombstone, imports, removals, asked, cuts, log>>

\* Mutant: a commit of what is committed goes through once more.
BeginCommitAgain(p, i) ==
    /\ imports[p] = NoImport /\ origin = "upload"
    /\ i \in Existing /\ AskNext
    /\ AwaitImport(p, [NoImport EXCEPT !.pc = "head", !.item = i])
    /\ log' = [log EXCEPT !.crossed =
                 IF \E q \in Importers : imports[q].item = i /\ imports[q].pc \in {"head", "mark"}
                 THEN @ \cup {i} ELSE @]
    /\ UNCHANGED <<origin, inbox, tombstone, store, removals, cuts>>

\* commit returns at once when the source is committed.
BeginCommit(p, i) ==
    /\ imports[p] = NoImport /\ origin = "upload"
    /\ inbox[i] = "pending" /\ AskNext
    /\ AwaitImport(p, [NoImport EXCEPT !.pc = "head", !.item = i])
    /\ log' = [log EXCEPT !.crossed =
                 IF \E q \in Importers : imports[q].item = i /\ imports[q].pc \in {"head", "mark"}
                 THEN @ \cup {i} ELSE @]
    /\ UNCHANGED <<origin, inbox, tombstone, store, removals, cuts>>

\* Mutant: the client's word is taken for the upload.
HeadSkipped(p) ==
    /\ imports[p].pc = "head"
    /\ GotoImport(p, "mark")
    /\ UNCHANGED <<origin, inbox, tombstone, store, removals, asked, cuts, log>>

HeadObject(p) ==
    /\ imports[p].pc = "head"
    /\ IF imports[p].item \in store THEN GotoImport(p, "mark") ELSE AwaitImport(p, NoImport)
    /\ UNCHANGED <<origin, inbox, tombstone, store, removals, asked, cuts, log>>

\* markSourceCommitted updates by id, and misses an item that is gone.
MarkCommitted(p) ==
    LET i == imports[p].item IN
    /\ imports[p].pc = "mark"
    /\ inbox' = [inbox EXCEPT ![i] = IF i \in Existing THEN "committed" ELSE @]
    /\ GotoImport(p, "start")
    /\ UNCHANGED <<origin, tombstone, store, removals, asked, cuts, log>>
-----------------------------------------------------------------------------
(* deleteItem and purgeAllForUser: read, one transaction, then the blobs. *)

AwaitRemoval(d, r) == removals' = [removals EXCEPT ![d] = r]

BeginRemoval(d, purge) ==
    /\ removals[d] = NoRemoval /\ (purge \/ Existing # {}) /\ AskNext
    /\ AwaitRemoval(d, [pc |-> "rows", purge |-> purge, items |-> Existing])
    /\ UNCHANGED <<origin, inbox, tombstone, store, imports, cuts, log>>

\* A purge deletes whatever the user has by now, and lifts the tombstones.
DeleteItems(d) ==
    LET r == removals[d]
        gone == IF r.purge THEN Existing ELSE r.items IN
    /\ r.pc = "rows"
    /\ inbox' = [i \in ItemIds |-> IF i \in gone THEN "deleted" ELSE inbox[i]]
    /\ tombstone' = ~r.purge
    /\ AwaitRemoval(d, [r EXCEPT !.pc = "blobs"])
    /\ imports' = [p \in Importers |-> IF imports[p] = NoImport THEN NoImport
                                       ELSE [imports[p] EXCEPT !.raced = TRUE]]
    /\ log' = [log EXCEPT !.purged = @ \/ r.purge]
    /\ UNCHANGED <<origin, store, asked, cuts>>

DeleteObjects(d) ==
    /\ removals[d].pc = "blobs"
    /\ store' = store \ removals[d].items
    /\ AwaitRemoval(d, NoRemoval)
    /\ UNCHANGED <<origin, inbox, tombstone, imports, asked, cuts, log>>

ImportDies(p) ==
    /\ imports[p] # NoImport /\ cuts < MaxCuts /\ cuts' = cuts + 1
    /\ log' = [log EXCEPT !.cut = IF imports[p].pc = "start" THEN @ \cup {imports[p].item} ELSE @]
    /\ AwaitImport(p, NoImport)
    /\ UNCHANGED <<origin, inbox, tombstone, store, removals, asked>>

RemovalDies(d) ==
    /\ removals[d] # NoRemoval /\ cuts < MaxCuts /\ cuts' = cuts + 1
    /\ AwaitRemoval(d, NoRemoval)
    /\ UNCHANGED <<origin, inbox, tombstone, store, imports, asked, log>>
-----------------------------------------------------------------------------
ImportNext ==
    \/ \E p \in Importers :
         \/ BeginImport(p) \/ FindExisting(p) \/ CheckTombstone(p) \/ FindAgain(p)
         \/ PutObject(p) \/ CreateItem(p) \/ Start(p) \/ HeadObject(p) \/ MarkCommitted(p)
         \/ ImportDies(p) \/ \E i \in ItemIds : BeginCommit(p, i)
    \/ \E i \in ItemIds : Upload(i)
    \/ \E d \in Removers :
         \/ DeleteItems(d) \/ DeleteObjects(d) \/ RemovalDies(d)
         \/ \E purge \in BOOLEAN : BeginRemoval(d, purge)

ImportSpec == ImportInit /\ [][ImportNext]_importVars
-----------------------------------------------------------------------------
(* The sync brings a deleted item back only if another import created it   *)
(* while it was under way, a mail only if it was deleted while it was.      *)
NotResurrected == log.raised => log.purged

(* A committed item has its blob, whatever imports, uploads, deletions and  *)
(* purges of the same key do, and wherever they die.                        *)
BlobBehindRow == \A i \in ItemIds : inbox[i] = "committed" => i \in store

(* The pipeline is started once for every committed item: more often only   *)
(* if two commits overlapped, never only if the request died before it.     *)
StartedOnce ==
    \A i \in ItemIds :
        /\ log.starts[i] > 1 => i \in log.crossed
        /\ inbox[i] = "committed" /\ i \notin log.cut =>
             log.starts[i] > 0 \/ \E p \in Importers : imports[p].item = i /\ imports[p].pc = "start"
=============================================================================
