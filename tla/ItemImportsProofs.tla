--------------------------- MODULE ItemImportsProofs ---------------------------
(***************************************************************************)
(* Theorems about ItemImports, for any number of importers and removers    *)
(* and every bound.                                                        *)
(***************************************************************************)
EXTENDS ItemImports, FiniteSetTheorems, TLAPS

Origins == {"sync", "mail", "text", "upload"}

(***************************************************************************)
(* The inductive invariant                                                 *)
(***************************************************************************)
Looking(p) == imports[p].pc \in {"existing", "tombstone", "again", "put", "create"}
Starting(p) == imports[p].pc \in {"head", "mark", "start"}

\* The item of an import that is still looking is nobody else's, and has no row.
ItemsFresh ==
    /\ \A i \in ItemIds : i > asked => inbox[i] = "none"
    /\ \A p \in Importers :
          /\ imports[p].pc = "idle" => imports[p].item = 0
          /\ Looking(p) => imports[p].item \in 1 .. asked /\ inbox[imports[p].item] = "none"
          /\ Starting(p) => imports[p].item \in ItemIds /\ inbox[imports[p].item] # "none"
    /\ \A p, q \in Importers : Looking(p) /\ imports[q].item = imports[p].item => p = q

\* An import makes the checks of its origin, and only an upload is pending.
OnRoute ==
    /\ \A i \in ItemIds : inbox[i] = "pending" => origin = "upload"
    /\ \A p \in Importers :
          /\ imports[p].pc \in {"existing", "tombstone"} => origin # "text"
          /\ imports[p].pc \in {"tombstone", "again", "put"} => origin # "upload"
          /\ imports[p].pc \in {"head", "mark"} => origin = "upload"

\* A blob is there before the row says so, and goes after the row.
BlobsBehind ==
    /\ \A p \in Importers :
          /\ imports[p].pc = "create" /\ origin # "upload" => imports[p].item \in store
          /\ imports[p].pc = "mark" =>
                imports[p].item \in store \/ inbox[imports[p].item] = "deleted"
    /\ \A d \in Removers : \A i \in removals[d].items :
          /\ inbox[i] # "none"
          /\ removals[d].pc = "blobs" => inbox[i] = "deleted"
    /\ BlobBehindRow

\* Until a second commit overlaps, one import at a time has an item to start.
Commits ==
    /\ \A i \in ItemIds :
          /\ inbox[i] \in {"none", "pending"} =>
                /\ log.starts[i] = 0
                /\ \A p \in Importers : imports[p].item = i => imports[p].pc # "start"
          /\ i \notin log.crossed =>
                /\ \A p, q \in Importers : Starting(p) /\ Starting(q) /\ imports[p].item = i
                                                      /\ imports[q].item = i => p = q
                /\ log.starts[i] # 0 /\ i \in Existing =>
                      \A p \in Importers : Starting(p) => imports[p].item # i
    /\ StartedOnce

\* What an import learnt by its checks is still so, or the row it took.
Tombstones ==
    /\ ~log.purged => (tombstone <=> \E i \in ItemIds : inbox[i] = "deleted")
    /\ \A d \in Removers : removals[d].pc = "rows" /\ ~removals[d].purge => removals[d].items # {}
    /\ \A p \in Importers :
          /\ imports[p].since <= Created
          /\ origin = "sync" /\ imports[p].since = Created =>
                /\ imports[p].pc = "tombstone" => Existing = {}
                /\ imports[p].pc \in {"again", "put", "create"} /\ ~log.purged =>
                      \A i \in ItemIds : inbox[i] = "none"
          /\ origin = "mail" /\ imports[p].pc \in {"existing", "again", "put", "create"}
                             /\ ~imports[p].raced => ~tombstone
    /\ NotResurrected

ImportInv ==
    ImportTypeOK /\ ItemsFresh /\ OnRoute /\ BlobsBehind /\ Commits /\ Tombstones
-----------------------------------------------------------------------------
\* The check that follows another one, for each origin.
LEMMA NextCheck ==
    ASSUME origin \in Origins
    PROVE  /\ origin = "sync" => /\ After("existing") = "tombstone"
                                 /\ After("tombstone") = "again" /\ After("again") = "put"
           /\ origin = "mail" => /\ After("tombstone") = "existing"
                                 /\ After("existing") = "again" /\ After("again") = "put"
           /\ origin = "text" => After("again") = "put"
           /\ origin = "upload" => After("existing") = "create"
           /\ origin \in {"sync", "upload"} => Checks[origin][1] = "existing"
           /\ origin = "mail" => Checks[origin][1] = "tombstone"
           /\ origin = "text" => Checks[origin][1] = "again"
<1>1. CASE origin = "sync"
  <2> DEFINE s == <<"existing", "tombstone", "again", "put">>
  <2>1. Checks[origin] = s
    BY <1>1 DEF Checks
  <2>2. DOMAIN s = 1 .. 4 /\ s[1] = "existing" /\ s[2] = "tombstone" /\ s[3] = "again" /\ s[4] = "put"
    OBVIOUS
  <2> HIDE DEF s
  <2> QED BY <1>1, <2>1, <2>2 DEF After
<1>2. CASE origin = "mail"
  <2> DEFINE s == <<"tombstone", "existing", "again", "put">>
  <2>1. Checks[origin] = s
    BY <1>2 DEF Checks
  <2>2. DOMAIN s = 1 .. 4 /\ s[1] = "tombstone" /\ s[2] = "existing" /\ s[3] = "again" /\ s[4] = "put"
    OBVIOUS
  <2> HIDE DEF s
  <2> QED BY <1>2, <2>1, <2>2 DEF After
<1>3. CASE origin = "text"
  <2> DEFINE s == <<"again", "put">>
  <2>1. Checks[origin] = s
    BY <1>3 DEF Checks
  <2>2. DOMAIN s = 1 .. 2 /\ s[1] = "again" /\ s[2] = "put"
    OBVIOUS
  <2> HIDE DEF s
  <2> QED BY <1>3, <2>1, <2>2 DEF After
<1>4. CASE origin = "upload"
  <2> DEFINE s == <<"existing", "create">>
  <2>1. Checks[origin] = s
    BY <1>4 DEF Checks
  <2>2. DOMAIN s = 1 .. 2 /\ s[1] = "existing" /\ s[2] = "create"
    OBVIOUS
  <2> HIDE DEF s
  <2> QED BY <1>4, <2>1, <2>2 DEF After
<1> QED BY <1>1, <1>2, <1>3, <1>4 DEF Origins

\* Created counts items, of which there are at most MaxAsked.
LEMMA CreatedType ==
    ASSUME ImportAssumption, ImportTypeOK
    PROVE  Created \in 0 .. MaxAsked
<1> DEFINE S == {i \in ItemIds : inbox[i] # "none"}
<1>1. IsFiniteSet(ItemIds) /\ Cardinality(ItemIds) = MaxAsked
  BY FS_Interval DEF ItemIds, ImportAssumption
<1>2. IsFiniteSet(S) /\ Cardinality(S) <= MaxAsked
  BY <1>1, FS_Subset
<1> QED BY <1>2, FS_CardinalityType DEF Created, ImportAssumption

Pcs == {"idle", "existing", "tombstone", "again", "put", "create", "head", "mark", "start"}

\* Every edit of a request that the imports make gives a request.
LEMMA ImportTypes ==
    ASSUME ImportAssumption
    PROVE  /\ NoImport \in Import
           /\ \A r \in Import, pc \in Pcs, n \in 0 .. MaxAsked :
                 /\ [r EXCEPT !.pc = pc] \in Import
                 /\ [r EXCEPT !.pc = pc, !.item = n] \in Import
                 /\ [r EXCEPT !.pc = pc, !.since = n] \in Import
                 /\ [r EXCEPT !.raced = TRUE] \in Import
<1>1. NoImport \in Import
  BY DEF NoImport, Import, ImportAssumption
<1>2. ASSUME NEW r \in Import, NEW pc \in Pcs, NEW n \in 0 .. MaxAsked
      PROVE  /\ [r EXCEPT !.pc = pc] \in Import
             /\ [r EXCEPT !.pc = pc, !.item = n] \in Import
             /\ [r EXCEPT !.pc = pc, !.since = n] \in Import
             /\ [r EXCEPT !.raced = TRUE] \in Import
  BY DEF Import, Pcs
<1> QED BY <1>1, <1>2

\* So does every edit of a removal,
LEMMA RemovalTypes ==
    /\ NoRemoval \in Removal
    /\ \A r \in Removal : [r EXCEPT !.pc = "blobs"] \in Removal
    /\ \A purge \in BOOLEAN, s \in SUBSET ItemIds :
          [pc |-> "rows", purge |-> purge, items |-> s] \in Removal
BY DEF NoRemoval, Removal

\* and of the history,
LEMMA LogTypes ==
    ASSUME NEW r \in ImportLog
    PROVE  /\ \A b \in BOOLEAN : /\ [r EXCEPT !.raised = @ \/ b] \in ImportLog
                                 /\ [r EXCEPT !.purged = @ \/ b] \in ImportLog
           /\ \A i \in ItemIds : /\ [r EXCEPT !.starts[i] = @ + 1] \in ImportLog
                                 /\ [r EXCEPT !.starts[i] = @] \in ImportLog
           /\ \A s \in SUBSET ItemIds : /\ [r EXCEPT !.crossed = s] \in ImportLog
                                        /\ [r EXCEPT !.cut = s] \in ImportLog
BY DEF ImportLog

\* and what awaits a request or a removal keeps its type.
LEMMA AwaitTypes ==
    /\ \A p \in Importers, r \in Import :
          AwaitImport(p, r) /\ imports \in [Importers -> Import]
             => imports' \in [Importers -> Import]
    /\ \A d \in Removers, r \in Removal :
          AwaitRemoval(d, r) /\ removals \in [Removers -> Removal]
             => removals' \in [Removers -> Removal]
BY DEF AwaitImport, AwaitRemoval

\* The invariant holds at the start.
LEMMA InitImport == ImportAssumption /\ ImportInit => ImportInv
<1> SUFFICES ASSUME ImportAssumption, ImportInit PROVE ImportInv
  OBVIOUS
<1> USE DEF ImportAssumption, ImportInit, ItemIds
<1>1. ImportTypeOK
  <2>1. imports \in [Importers -> Import] /\ removals \in [Removers -> Removal]
    BY ImportTypes, RemovalTypes
  <2>2. [i \in ItemIds |-> 0] \in [ItemIds -> Nat]
    OBVIOUS
  <2>3. log \in ImportLog
    BY <2>2 DEF ImportLog
  <2>4. inbox \in [ItemIds -> {"none", "pending", "committed", "deleted"}]
    OBVIOUS
  <2>5. asked \in 0 .. MaxAsked /\ cuts \in 0 .. MaxCuts
    OBVIOUS
  <2>6. /\ origin \in {"sync", "mail", "text", "upload"} 
        /\ tombstone \in BOOLEAN /\ store \subseteq ItemIds
    OBVIOUS
  <2> QED BY ONLY <2>1, <2>3, <2>4, <2>5, <2>6 DEF ImportTypeOK
<1>2. ItemsFresh
  BY DEF ItemsFresh, Looking, Starting, NoImport
<1>3. OnRoute
  BY DEF OnRoute, NoImport
<1>4. BlobsBehind
  BY DEF BlobsBehind, BlobBehindRow, NoRemoval, NoImport
<1>5. Commits
  BY DEF Commits, Starting, Existing, StartedOnce, NoImport
<1>6. Tombstones
  <2>1. Created \in 0 .. MaxAsked
    BY <1>1, CreatedType
  <2> QED BY <2>1 DEF Tombstones, NotResurrected, NoImport, NoRemoval
<1> QED BY <1>1, <1>2, <1>3, <1>4, <1>5, <1>6 DEF ImportInv
-----------------------------------------------------------------------------
\* Every step keeps the types.
LEMMA ImportTypeStep ==
    ASSUME ImportAssumption, ImportInv, [ImportNext]_importVars
    PROVE  ImportTypeOK'
<1> USE DEF ImportTypeOK
<1>0. /\ ImportTypeOK /\ origin \in Origins
      /\ \A p \in Importers : imports[p] \in Import
      /\ \A d \in Removers : removals[d] \in Removal
  BY DEF ImportInv, Origins
<1>r. \A p \in Importers, pc \in Pcs : GotoImport(p, pc) => imports' \in [Importers -> Import]
  <2> SUFFICES ASSUME NEW p \in Importers, NEW pc \in Pcs, GotoImport(p, pc)
               PROVE  imports' \in [Importers -> Import]
    OBVIOUS
  <2>1. [imports[p] EXCEPT !.pc = pc] \in Import
    BY <1>0, ImportTypes DEF ImportAssumption
  <2> QED BY <1>0, <2>1, AwaitTypes DEF GotoImport
<1>n. \A p \in Importers : AwaitImport(p, NoImport) => imports' \in [Importers -> Import]
  BY <1>0, ImportTypes, AwaitTypes
<1>s. \A check \in {"existing", "tombstone", "again"} :
         \A p \in Importers : imports[p].pc = check => After(check) \in Pcs
  BY <1>0, NextCheck DEF ImportInv, OnRoute, Origins, Pcs
<1>1. ASSUME NEW p \in Importers, BeginImport(p) PROVE ImportTypeOK'
  <2>1. Checks[origin][1] \in Pcs /\ asked + 1 \in 0 .. MaxAsked
    BY <1>0, <1>1, NextCheck DEF Origins, Pcs, BeginImport, AskNext, ImportAssumption
  <2>2. [NoImport EXCEPT !.pc = Checks[origin][1], !.item = asked + 1] \in Import
    BY <2>1, ImportTypes
  <2> QED BY <1>0, <1>1, <2>1, <2>2, AwaitTypes DEF BeginImport, AskNext
<1>2. ASSUME NEW p \in Importers, FindExisting(p) PROVE ImportTypeOK'
  <2>1. [imports[p] EXCEPT !.pc = After("existing"), !.since = Created] \in Import
    BY <1>0, <1>2, <1>s, CreatedType, ImportTypes DEF FindExisting
  <2>2. imports' \in [Importers -> Import]
    BY <1>0, <1>2, <1>n, <2>1, AwaitTypes DEF FindExisting
  <2> QED BY <1>0, <1>2, <2>2 DEF FindExisting
<1>3. ASSUME NEW p \in Importers, CheckTombstone(p) PROVE ImportTypeOK'
  <2>1. [imports[p] EXCEPT !.pc = After("tombstone")] \in Import
    BY <1>0, <1>3, <1>s, ImportTypes DEF CheckTombstone, ImportAssumption
  <2>2. imports' \in [Importers -> Import]
    BY <1>0, <1>3, <1>n, <2>1, AwaitTypes DEF CheckTombstone
  <2> QED BY <1>0, <1>3, <2>2 DEF CheckTombstone
<1>4. ASSUME NEW p \in Importers, FindAgain(p) PROVE ImportTypeOK'
  <2>1. imports' \in [Importers -> Import]
    BY <1>4, <1>n, <1>r, <1>s DEF FindAgain
  <2> QED BY <1>0, <1>4, <2>1 DEF FindAgain
<1>5. ASSUME NEW p \in Importers, PutObject(p) PROVE ImportTypeOK'
  <2>1. imports' \in [Importers -> Import]
    BY <1>5, <1>r DEF PutObject, Pcs
  <2>2. imports[p].item \in ItemIds
    BY <1>0, <1>5 DEF PutObject, ImportInv, ItemsFresh, Looking, ItemIds
  <2> QED BY <1>0, <1>5, <2>1, <2>2 DEF PutObject
<1>6. ASSUME NEW p \in Importers, CreateItem(p) PROVE ImportTypeOK'
  <2>1. imports' \in [Importers -> Import]
    BY <1>6, <1>n, <1>r DEF CreateItem, Pcs
  <2>2. Raises(imports[p]) \in BOOLEAN
    BY DEF Raises
  <2>3. log' \in ImportLog
    BY <1>0, <1>6, <2>2, LogTypes DEF CreateItem
  <2> QED BY <1>0, <1>6, <2>1, <2>3 DEF CreateItem
<1>7. ASSUME NEW p \in Importers, Start(p) PROVE ImportTypeOK'
  <2>1. imports' \in [Importers -> Import]
    BY <1>7, <1>n DEF Start
  <2>2. imports[p].item \in ItemIds
    BY <1>0, <1>7 DEF Start, ImportInv, ItemsFresh, Starting
  <2>3. log' \in ImportLog
    BY <1>0, <1>7, <2>2, LogTypes DEF Start
  <2> QED BY <1>0, <1>7, <2>1, <2>3 DEF Start
<1>8. ASSUME NEW p \in Importers, HeadObject(p) PROVE ImportTypeOK'
  <2>1. imports' \in [Importers -> Import]
    BY <1>8, <1>n, <1>r DEF HeadObject, Pcs
  <2> QED BY <1>0, <1>8, <2>1 DEF HeadObject
<1>9. ASSUME NEW p \in Importers, MarkCommitted(p) PROVE ImportTypeOK'
  <2>1. imports' \in [Importers -> Import]
    BY <1>9, <1>r DEF MarkCommitted, Pcs
  <2> QED BY <1>0, <1>9, <2>1 DEF MarkCommitted
<1>10. ASSUME NEW p \in Importers, ImportDies(p) PROVE ImportTypeOK'
  <2>1. imports' \in [Importers -> Import]
    BY <1>10, <1>n DEF ImportDies
  <2>2. imports[p].pc = "start" => imports[p].item \in ItemIds
    BY <1>0 DEF ImportInv, ItemsFresh, Starting
  <2>3. \E s \in SUBSET ItemIds : log' = [log EXCEPT !.cut = s]
    BY <1>0, <1>10, <2>2 DEF ImportDies, ImportLog
  <2>4. log' \in ImportLog
    <3> PICK s \in SUBSET ItemIds : log' = [log EXCEPT !.cut = s]
      BY <2>3
    <3> QED BY <1>0, LogTypes
  <2> QED BY <1>0, <1>10, <2>1, <2>4 DEF ImportDies, ImportAssumption
<1>11. ASSUME NEW p \in Importers, NEW i \in ItemIds, BeginCommit(p, i) PROVE ImportTypeOK'
  <2>1. [NoImport EXCEPT !.pc = "head", !.item = i] \in Import
    <3>1. "head" \in Pcs /\ i \in 0 .. MaxAsked
      BY DEF Pcs, ItemIds, ImportAssumption
    <3> QED BY <3>1, ImportTypes
  <2>2. imports' \in [Importers -> Import]
    BY <1>0, <1>11, <2>1, AwaitTypes DEF BeginCommit
  <2>3. \E s \in SUBSET ItemIds : log' = [log EXCEPT !.crossed = s]
    BY <1>0, <1>11 DEF BeginCommit, ImportLog
  <2>4. log' \in ImportLog
    <3> PICK s \in SUBSET ItemIds : log' = [log EXCEPT !.crossed = s]
      BY <2>3
    <3> QED BY <1>0, LogTypes
  <2> QED BY <1>0, <1>11, <2>2, <2>4 DEF BeginCommit, AskNext, ImportAssumption
<1>12. ASSUME NEW i \in ItemIds, Upload(i) PROVE ImportTypeOK'
  BY <1>0, <1>12 DEF Upload
<1>13. ASSUME NEW d \in Removers, DeleteItems(d) PROVE ImportTypeOK'
  <2>1. removals' \in [Removers -> Removal]
    BY <1>0, <1>13, RemovalTypes, AwaitTypes DEF DeleteItems
  <2>2. \A p \in Importers : [imports[p] EXCEPT !.raced = TRUE] \in Import /\ NoImport \in Import
    BY <1>0, ImportTypes DEF Pcs, ImportAssumption
  <2>3. imports' \in [Importers -> Import]
    BY <1>13, <2>2 DEF DeleteItems
  <2>4. log' \in ImportLog /\ tombstone' \in BOOLEAN
    BY <1>0, <1>13, LogTypes DEF DeleteItems, Removal
  <2> QED BY <1>0, <1>13, <2>1, <2>3, <2>4 DEF DeleteItems
<1>14. ASSUME NEW d \in Removers, DeleteObjects(d) PROVE ImportTypeOK'
  BY <1>0, <1>14, RemovalTypes, AwaitTypes DEF DeleteObjects
<1>15. ASSUME NEW d \in Removers, RemovalDies(d) PROVE ImportTypeOK'
  <2>1. removals' \in [Removers -> Removal]
    BY <1>0, <1>15, RemovalTypes, AwaitTypes DEF RemovalDies
  <2> QED BY <1>0, <1>15, <2>1 DEF RemovalDies, ImportAssumption
<1>16. ASSUME NEW d \in Removers, NEW purge \in BOOLEAN, BeginRemoval(d, purge)
       PROVE  ImportTypeOK'
  <2>1. Existing \in SUBSET ItemIds
    BY DEF Existing
  <2>2. removals' \in [Removers -> Removal]
    BY <1>0, <1>16, <2>1, RemovalTypes, AwaitTypes DEF BeginRemoval
  <2> QED BY <1>0, <1>16, <2>2 DEF BeginRemoval, AskNext, ImportAssumption
<1>17. CASE UNCHANGED importVars
  BY <1>0, <1>17 DEF importVars
<1> QED BY <1>1, <1>2, <1>3, <1>4, <1>5, <1>6, <1>7, <1>8, <1>9, <1>10, <1>11, <1>12, <1>13,
           <1>14,
           <1>15, <1>16, <1>17 DEF ImportNext

\* An item stays its import's own when another import gives up,
LEMMA FreshWhenDone ==
    ASSUME ImportTypeOK, ItemsFresh, NEW p \in Importers, AwaitImport(p, NoImport),
           UNCHANGED <<inbox, asked>>
    PROVE  ItemsFresh'
BY DEF ImportTypeOK, ItemsFresh, Looking, Starting, AwaitImport, NoImport, ItemIds

\* or gets on.
LEMMA FreshWhenOn ==
    ASSUME ImportTypeOK, ItemsFresh, NEW p \in Importers, NEW r, AwaitImport(p, r),
           r.item = imports[p].item, UNCHANGED <<inbox, asked>>,
           \/ Looking(p) /\ r.pc \in {"existing", "tombstone", "again", "put", "create"}
           \/ Starting(p) /\ r.pc \in {"head", "mark", "start"}
    PROVE  ItemsFresh'
BY DEF ImportTypeOK, ItemsFresh, Looking, Starting, AwaitImport, ItemIds

\* Every step keeps items fresh: an id is used by one import, and only it makes the row.
LEMMA FreshStep ==
    ASSUME ImportAssumption, ImportInv, [ImportNext]_importVars
    PROVE  ItemsFresh'
<1>0. /\ ImportTypeOK /\ ItemsFresh /\ OnRoute /\ origin \in Origins
      /\ \A p \in Importers : imports[p] \in Import
  BY DEF ImportInv, ImportTypeOK, Origins
<1>s. \A check \in {"existing", "tombstone", "again"} : \A p \in Importers :
         imports[p].pc = check =>
            After(check) \in {"existing", "tombstone", "again", "put", "create"}
  BY <1>0, NextCheck DEF OnRoute, Origins
<1>1. ASSUME NEW p \in Importers, BeginImport(p) PROVE ItemsFresh'
  <2> DEFINE r == [NoImport EXCEPT !.pc = Checks[origin][1], !.item = asked + 1]
  <2>1. r.pc \in {"existing", "tombstone", "again"} /\ r.item = asked + 1
    BY <1>0, NextCheck DEF NoImport, Origins
  <2>2. /\ imports' = [imports EXCEPT ![p] = r] /\ asked' = asked + 1 /\ inbox' = inbox
        /\ asked + 1 \in ItemIds /\ asked \in Nat
    BY <1>0, <1>1 DEF BeginImport, AwaitImport, AskNext, ImportTypeOK, ItemIds, ImportAssumption
  <2>3. \A q \in Importers : imports[q].item # asked + 1
    BY <1>0, <2>2 DEF ItemsFresh, Looking, Starting, Import, ItemIds
  <2> HIDE DEF r
  <2> QED BY <1>0, <2>1, <2>2, <2>3 DEF ImportTypeOK, ItemsFresh, Looking, Starting, ItemIds
<1>2. ASSUME NEW p \in Importers, FindExisting(p) PROVE ItemsFresh'
  <2> DEFINE r == [imports[p] EXCEPT !.pc = After("existing"), !.since = Created]
  <2>1. r.item = imports[p].item /\ r.pc = After("existing")
    BY <1>0 DEF Import
  <2>2. CASE AwaitImport(p, NoImport)
    BY <1>0, <1>2, <2>2, FreshWhenDone DEF FindExisting
  <2>3. CASE AwaitImport(p, r)
    BY <1>0, <1>2, <1>s, <2>1, <2>3, FreshWhenOn DEF FindExisting, Looking
  <2> QED BY <1>2, <2>2, <2>3 DEF FindExisting
<1>3. ASSUME NEW p \in Importers, CheckTombstone(p) PROVE ItemsFresh'
  <2> DEFINE r == [imports[p] EXCEPT !.pc = After("tombstone")]
  <2>1. r.item = imports[p].item /\ r.pc = After("tombstone")
    BY <1>0 DEF Import
  <2>2. CASE AwaitImport(p, NoImport)
    BY <1>0, <1>3, <2>2, FreshWhenDone DEF CheckTombstone
  <2>3. CASE AwaitImport(p, r)
    BY <1>0, <1>3, <1>s, <2>1, <2>3, FreshWhenOn DEF CheckTombstone, Looking
  <2> QED BY <1>3, <2>2, <2>3 DEF CheckTombstone
<1>g. ASSUME NEW p \in Importers, NEW pc, GotoImport(p, pc), UNCHANGED <<inbox, asked>>,
             \/ Looking(p) /\ pc \in {"existing", "tombstone", "again", "put", "create"}
             \/ Starting(p) /\ pc \in {"head", "mark", "start"}
      PROVE  ItemsFresh'
  <2> DEFINE r == [imports[p] EXCEPT !.pc = pc]
  <2>1. r.item = imports[p].item /\ r.pc = pc
    BY <1>0 DEF Import
  <2>2. AwaitImport(p, r)
    BY <1>g DEF GotoImport
  <2> HIDE DEF r
  <2> QED BY <1>0, <1>g, <2>1, <2>2, FreshWhenOn
<1>4. ASSUME NEW p \in Importers, FindAgain(p) PROVE ItemsFresh'
  <2>1. CASE Existing # {}
    BY <1>0, <1>4, <2>1, FreshWhenDone DEF FindAgain
  <2>2. CASE Existing = {}
    BY <1>4, <1>s, <1>g, <2>2 DEF FindAgain, Looking
  <2> QED BY <2>1, <2>2
<1>5. ASSUME NEW p \in Importers, PutObject(p) PROVE ItemsFresh'
  BY <1>5, <1>g DEF PutObject, Looking
<1>6. ASSUME NEW p \in Importers, CreateItem(p) PROVE ItemsFresh'
  <2>1. CASE Existing # {}
    BY <1>0, <1>6, <2>1, FreshWhenDone DEF CreateItem
  <2>2. CASE Existing = {}
    <3> DEFINE i == imports[p].item
    <3>1. i \in 1 .. asked /\ i \in ItemIds /\ asked \in Nat
      BY <1>0, <1>6 DEF CreateItem, ItemsFresh, Looking, Import, ImportTypeOK, ItemIds,
                        ImportAssumption
    <3>2. /\ \A j \in ItemIds : inbox'[j] = "none" <=> inbox[j] = "none" /\ j # i
          /\ asked' = asked
      BY <1>0, <1>6, <2>2, <3>1 DEF CreateItem, ImportTypeOK
    <3>3. \/ imports' = [imports EXCEPT ![p] = NoImport]
          \/ imports' = [imports EXCEPT ![p] = [imports[p] EXCEPT !.pc = "start"]]
      BY <1>6, <2>2 DEF CreateItem, AwaitImport, GotoImport
    <3>4. [imports[p] EXCEPT !.pc = "start"].item = i
          /\ [imports[p] EXCEPT !.pc = "start"].pc = "start"
      BY <1>0 DEF Import
    <3>5. \A q \in Importers : q # p => imports'[q] = imports[q] /\ (Looking(q) => imports[q].item # i)
      BY <1>0, <1>6, <3>3 DEF CreateItem, ItemsFresh, Looking, ImportTypeOK
    <3>6. \/ imports'[p].pc = "idle" /\ imports'[p].item = 0
          \/ imports'[p].pc = "start" /\ imports'[p].item = i
      <4>1. p \in DOMAIN imports /\ NoImport.pc = "idle" /\ NoImport.item = 0
        BY <1>0 DEF ImportTypeOK, NoImport
      <4> HIDE DEF i
      <4> QED BY <3>3, <3>4, <4>1
    <3>7. \A q \in Importers : q # p /\ Looking(q) => imports[q].item # i
      BY <3>5
    <3>8. inbox'[i] # "none"
      BY <3>1, <3>2
    <3> HIDE DEF i
    <3>9. ASSUME NEW q \in Importers
          PROVE  /\ imports'[q].pc = "idle" => imports'[q].item = 0
                 /\ Looking(q)' => imports'[q].item \in 1 .. asked' /\ inbox'[imports'[q].item] = "none"
                 /\ Starting(q)' => imports'[q].item \in ItemIds /\ inbox'[imports'[q].item] # "none"
      <4>1. CASE q = p
        BY <3>1, <3>6, <3>8, <4>1 DEF Looking, Starting
      <4>2. CASE q # p
        <5>1. 1 .. asked \subseteq ItemIds
          BY <1>0 DEF ImportTypeOK, ItemIds, ImportAssumption
        <5>2. imports'[q] = imports[q] /\ (Looking(q) => imports[q].item # i)
          BY <3>5, <4>2
        <5>3. /\ imports[q].pc = "idle" => imports[q].item = 0
              /\ Looking(q) => imports[q].item \in 1 .. asked /\ inbox[imports[q].item] = "none"
              /\ Starting(q) => imports[q].item \in ItemIds /\ inbox[imports[q].item] # "none"
          BY <1>0 DEF ItemsFresh
        <5>4. /\ Looking(q)' <=> Looking(q)
              /\ Starting(q)' <=> Starting(q)
          BY <5>2 DEF Looking, Starting
        <5> QED BY <3>2, <5>1, <5>2, <5>3, <5>4
      <4> QED BY <4>1, <4>2
    <3>10. ASSUME NEW q \in Importers, NEW u \in Importers, Looking(q)', 
                  imports'[u].item = imports'[q].item
           PROVE  q = u
      BY <1>0, <3>1, <3>5, <3>6, <3>10 DEF ItemsFresh, Looking
    <3>11. \A j \in ItemIds : j > asked' => inbox'[j] = "none"
      BY <1>0, <3>1, <3>2 DEF ItemsFresh
    <3> QED BY <3>9, <3>10, <3>11 DEF ItemsFresh, Looking, Starting
  <2> QED BY <2>1, <2>2
<1>7. ASSUME NEW p \in Importers, Start(p) PROVE ItemsFresh'
  BY <1>0, <1>7, FreshWhenDone DEF Start
<1>8. ASSUME NEW p \in Importers, HeadObject(p) PROVE ItemsFresh'
  <2>1. CASE imports[p].item \in store
    BY <1>8, <1>g, <2>1 DEF HeadObject, Starting
  <2>2. CASE imports[p].item \notin store
    BY <1>0, <1>8, <2>2, FreshWhenDone DEF HeadObject
  <2> QED BY <2>1, <2>2
<1>9. ASSUME NEW p \in Importers, MarkCommitted(p) PROVE ItemsFresh'
  BY <1>0, <1>9 DEF MarkCommitted, GotoImport, AwaitImport, ImportTypeOK, ItemsFresh, Looking,
                    Starting, Import, Existing, ItemIds
<1>10. ASSUME NEW p \in Importers, ImportDies(p) PROVE ItemsFresh'
  BY <1>0, <1>10, FreshWhenDone DEF ImportDies
<1>11. ASSUME NEW p \in Importers, NEW i \in ItemIds, BeginCommit(p, i) PROVE ItemsFresh'
  BY <1>0, <1>11 DEF BeginCommit, AwaitImport, AskNext, ImportTypeOK, ItemsFresh, Looking,
     Starting,
                     Import, NoImport, ItemIds
<1>12. ASSUME NEW i \in ItemIds, Upload(i) PROVE ItemsFresh'
  BY <1>0, <1>12 DEF Upload, ItemsFresh, Looking, Starting
<1>13. ASSUME NEW d \in Removers, DeleteItems(d) PROVE ItemsFresh'
  <2>1. \A i \in ItemIds : inbox'[i] = "none" <=> inbox[i] = "none"
    BY <1>0, <1>13 DEF DeleteItems, ImportInv, BlobsBehind, Existing
  <2>2. \A p \in Importers : /\ imports'[p].pc = imports[p].pc
                             /\ imports'[p].item = imports[p].item
    BY <1>0, <1>13 DEF DeleteItems, Import, NoImport
  <2> QED BY <1>0, <1>13, <2>1, <2>2 DEF DeleteItems, ItemsFresh, Looking, Starting, Import,
             ItemIds
<1>14. ASSUME NEW d \in Removers, DeleteObjects(d) PROVE ItemsFresh'
  BY <1>0, <1>14 DEF DeleteObjects, ItemsFresh, Looking, Starting
<1>15. ASSUME NEW d \in Removers, RemovalDies(d) PROVE ItemsFresh'
  BY <1>0, <1>15 DEF RemovalDies, ItemsFresh, Looking, Starting
<1>16. ASSUME NEW d \in Removers, NEW purge \in BOOLEAN, BeginRemoval(d, purge)
       PROVE  ItemsFresh'
  BY <1>0, <1>16 DEF BeginRemoval, AskNext, ImportTypeOK, ItemsFresh, Looking, Starting, ItemIds
<1>17. CASE UNCHANGED importVars
  BY <1>0, <1>17 DEF importVars, ItemsFresh, Looking, Starting
<1> QED BY <1>1, <1>2, <1>3, <1>4, <1>5, <1>6, <1>7, <1>8, <1>9, <1>10, <1>11, <1>12, <1>13,
           <1>14,
           <1>15, <1>16, <1>17 DEF ImportNext

\* Created grows by one with an item that is created, and with nothing else.
LEMMA CreatedCounts ==
    ASSUME ImportAssumption, ImportTypeOK, ImportTypeOK'
    PROVE  /\ (\A i \in ItemIds : inbox'[i] = "none" <=> inbox[i] = "none") => Created' = Created
           /\ \A i \in ItemIds :
                 (\A j \in ItemIds : inbox'[j] = "none" <=> inbox[j] = "none" /\ j # i)
                    /\ inbox[i] = "none" => Created' = Created + 1
<1> DEFINE S == {i \in ItemIds : inbox[i] # "none"}
<1>1. IsFiniteSet(S)
  <2>1. IsFiniteSet(ItemIds)
    BY FS_Interval DEF ItemIds, ImportAssumption
  <2> QED BY <2>1, FS_Subset
<1>2. (\A i \in ItemIds : inbox'[i] = "none" <=> inbox[i] = "none") => Created' = Created
  BY DEF Created
<1>3. ASSUME NEW i \in ItemIds, inbox[i] = "none",
             \A j \in ItemIds : inbox'[j] = "none" <=> inbox[j] = "none" /\ j # i
      PROVE  Created' = Created + 1
  <2>1. {j \in ItemIds : inbox'[j] # "none"} = S \cup {i} /\ i \notin S
    BY <1>3
  <2>2. Cardinality(S \cup {i}) = Cardinality(S) + 1
    BY <1>1, <2>1, FS_AddElement
  <2> QED BY <2>1, <2>2 DEF Created
<1> QED BY <1>2, <1>3

\* Every import stays on the route of its origin.
LEMMA RouteStep ==
    ASSUME ImportAssumption, ImportInv, [ImportNext]_importVars
    PROVE  OnRoute'
<1> USE DEF ImportInv, AwaitImport, GotoImport, AwaitRemoval, AskNext
<1> USE DEF ImportTypeOK, OnRoute, Import, NoImport, Existing
<1>0. origin \in Origins /\ Created \in 0 .. MaxAsked /\ ImportTypeOK'
  BY CreatedType, ImportTypeStep DEF Origins
<1>1. ASSUME NEW p \in Importers, BeginImport(p) PROVE OnRoute'
  BY <1>0, <1>1, NextCheck DEF BeginImport, Origins
<1>2. ASSUME NEW p \in Importers, FindExisting(p) PROVE OnRoute'
  BY <1>0, <1>2, NextCheck DEF FindExisting, Origins
<1>3. ASSUME NEW p \in Importers, CheckTombstone(p) PROVE OnRoute'
  BY <1>0, <1>3, NextCheck DEF CheckTombstone, Origins
<1>4. ASSUME NEW p \in Importers, FindAgain(p) PROVE OnRoute'
  BY <1>0, <1>4, NextCheck DEF FindAgain, Origins
<1>5. ASSUME NEW p \in Importers, PutObject(p) PROVE OnRoute'
  BY <1>5 DEF PutObject
<1>6. ASSUME NEW p \in Importers, CreateItem(p) PROVE OnRoute'
  BY <1>6 DEF CreateItem
<1>7. ASSUME NEW p \in Importers, Start(p) PROVE OnRoute'
  BY <1>7 DEF Start
<1>8. ASSUME NEW p \in Importers, HeadObject(p) PROVE OnRoute'
  BY <1>8 DEF HeadObject
<1>9. ASSUME NEW p \in Importers, MarkCommitted(p) PROVE OnRoute'
  BY <1>9 DEF MarkCommitted
<1>10. ASSUME NEW p \in Importers, ImportDies(p) PROVE OnRoute'
  BY <1>10 DEF ImportDies
<1>11. ASSUME NEW p \in Importers, NEW i \in ItemIds, BeginCommit(p, i) PROVE OnRoute'
  BY <1>11 DEF BeginCommit
<1>12. ASSUME NEW i \in ItemIds, Upload(i) PROVE OnRoute'
  BY <1>12 DEF Upload
<1>13. ASSUME NEW d \in Removers, DeleteItems(d) PROVE OnRoute'
  BY <1>13 DEF DeleteItems
<1>14. ASSUME NEW d \in Removers, DeleteObjects(d) PROVE OnRoute'
  BY <1>14 DEF DeleteObjects
<1>15. ASSUME NEW d \in Removers, RemovalDies(d) PROVE OnRoute'
  BY <1>15 DEF RemovalDies
<1>16. ASSUME NEW d \in Removers, NEW purge \in BOOLEAN, BeginRemoval(d, purge)
       PROVE  OnRoute'
  BY <1>16 DEF BeginRemoval
<1>17. CASE UNCHANGED importVars
  BY <1>17 DEF importVars
<1> HIDE DEF OnRoute
<1> QED BY <1>1, <1>2, <1>3, <1>4, <1>5, <1>6, <1>7, <1>8, <1>9, <1>10, <1>11, <1>12, <1>13,
           <1>14,
           <1>15, <1>16, <1>17 DEF ImportNext

\* A blob is put before the row and deleted after it, whatever meets in between.
LEMMA BlobsStep ==
    ASSUME ImportAssumption, ImportInv, [ImportNext]_importVars
    PROVE  BlobsBehind'
<1> USE DEF ImportInv, AwaitImport, GotoImport, AwaitRemoval, AskNext
<1> USE DEF ImportTypeOK, ItemsFresh, OnRoute, BlobsBehind, BlobBehindRow, Looking, Starting,
            Import, Removal, NoImport, NoRemoval, Existing
<1>0. origin \in Origins /\ Created \in 0 .. MaxAsked /\ ImportTypeOK'
  BY CreatedType, ImportTypeStep DEF Origins
<1>1. ASSUME NEW p \in Importers, BeginImport(p) PROVE BlobsBehind'
  BY <1>0, <1>1, NextCheck DEF BeginImport, Origins
<1>2. ASSUME NEW p \in Importers, FindExisting(p) PROVE BlobsBehind'
  BY <1>0, <1>2, NextCheck DEF FindExisting, Origins
<1>3. ASSUME NEW p \in Importers, CheckTombstone(p) PROVE BlobsBehind'
  BY <1>0, <1>3, NextCheck DEF CheckTombstone, Origins
<1>4. ASSUME NEW p \in Importers, FindAgain(p) PROVE BlobsBehind'
  BY <1>0, <1>4, NextCheck DEF FindAgain, Origins
<1>5. ASSUME NEW p \in Importers, PutObject(p) PROVE BlobsBehind'
  BY <1>5 DEF PutObject
<1>6. ASSUME NEW p \in Importers, CreateItem(p) PROVE BlobsBehind'
  BY <1>6 DEF CreateItem
<1>7. ASSUME NEW p \in Importers, Start(p) PROVE BlobsBehind'
  BY <1>7 DEF Start
<1>8. ASSUME NEW p \in Importers, HeadObject(p) PROVE BlobsBehind'
  BY <1>8 DEF HeadObject
<1>9. ASSUME NEW p \in Importers, MarkCommitted(p) PROVE BlobsBehind'
  BY <1>9 DEF MarkCommitted
<1>10. ASSUME NEW p \in Importers, ImportDies(p) PROVE BlobsBehind'
  BY <1>10 DEF ImportDies
<1>11. ASSUME NEW p \in Importers, NEW i \in ItemIds, BeginCommit(p, i) PROVE BlobsBehind'
  BY <1>11 DEF BeginCommit
<1>12. ASSUME NEW i \in ItemIds, Upload(i) PROVE BlobsBehind'
  BY <1>12 DEF Upload
<1>13. ASSUME NEW d \in Removers, DeleteItems(d) PROVE BlobsBehind'
  BY <1>13 DEF DeleteItems
<1>14. ASSUME NEW d \in Removers, DeleteObjects(d) PROVE BlobsBehind'
  BY <1>14 DEF DeleteObjects
<1>15. ASSUME NEW d \in Removers, RemovalDies(d) PROVE BlobsBehind'
  BY <1>15 DEF RemovalDies
<1>16. ASSUME NEW d \in Removers, NEW purge \in BOOLEAN, BeginRemoval(d, purge)
       PROVE  BlobsBehind'
  BY <1>16 DEF BeginRemoval
<1>17. CASE UNCHANGED importVars
  BY <1>17 DEF importVars
<1> HIDE DEF BlobsBehind, BlobBehindRow
<1> QED BY <1>1, <1>2, <1>3, <1>4, <1>5, <1>6, <1>7, <1>8, <1>9, <1>10, <1>11, <1>12, <1>13,
           <1>14,
           <1>15, <1>16, <1>17 DEF ImportNext

\* No step starts a pipeline twice, or forgets one, but for commits that overlap and
\* requests that die.
LEMMA CommitsStep ==
    ASSUME ImportAssumption, ImportInv, [ImportNext]_importVars
    PROVE  Commits'
<1> USE DEF ImportInv, AwaitImport, GotoImport, AwaitRemoval, AskNext
<1> USE DEF ImportTypeOK, ItemsFresh, OnRoute, Commits, StartedOnce, Looking, Starting,
            Import, ImportLog, NoImport, Existing
<1>0. origin \in Origins /\ Created \in 0 .. MaxAsked /\ ImportTypeOK'
  BY CreatedType, ImportTypeStep DEF Origins
<1>1. ASSUME NEW p \in Importers, BeginImport(p) PROVE Commits'
  BY <1>0, <1>1, NextCheck DEF BeginImport, Origins
<1>2. ASSUME NEW p \in Importers, FindExisting(p) PROVE Commits'
  BY <1>0, <1>2, NextCheck DEF FindExisting, Origins
<1>3. ASSUME NEW p \in Importers, CheckTombstone(p) PROVE Commits'
  BY <1>0, <1>3, NextCheck DEF CheckTombstone, Origins
<1>4. ASSUME NEW p \in Importers, FindAgain(p) PROVE Commits'
  <2>1. CASE Existing # {}
    BY <1>4, <2>1 DEF FindAgain
  <2>2. CASE Existing = {}
    <3>1. After("again") = "put"
      BY <1>0, <1>4, NextCheck DEF FindAgain, Origins
    <3> QED BY <1>4, <2>2, <3>1 DEF FindAgain
  <2> QED BY <2>1, <2>2
<1>5. ASSUME NEW p \in Importers, PutObject(p) PROVE Commits'
  BY <1>5 DEF PutObject
<1>6. ASSUME NEW p \in Importers, CreateItem(p) PROVE Commits'
  <2>1. CASE Existing # {}
    BY <1>6, <2>1 DEF CreateItem
  <2>2. CASE Existing = {}
    <3> DEFINE i == imports[p].item
    <3>1. i \in ItemIds /\ inbox[i] = "none"
      BY <1>6 DEF CreateItem, ItemIds, ImportAssumption
    <3>2. /\ inbox'[i] \in {"pending", "committed"}
          /\ inbox'[i] = "pending" <=> origin = "upload"
          /\ \A j \in ItemIds : j # i => inbox'[j] = inbox[j]
      BY <1>6, <2>2, <3>1 DEF CreateItem
    <3>3. UNCHANGED <<log.starts, log.crossed, log.cut>>
      BY <1>6, <2>2 DEF CreateItem
    <3>4. /\ \A q \in Importers : q # p => imports'[q] = imports[q] /\ (Starting(q) => imports[q].item # i)
          /\ origin = "upload" => imports'[p].pc = "idle"
          /\ origin # "upload" => imports'[p].pc = "start" /\ imports'[p].item = i
      BY <1>6, <2>2, <3>1 DEF CreateItem
    <3>5. log.starts[i] = 0 /\ ~ \E j \in ItemIds : inbox[j] \in {"pending", "committed"}
      BY <2>2, <3>1
    <3>6. Commits
      OBVIOUS
    <3> HIDE DEF i
    <3> QED BY ONLY <3>1, <3>2, <3>3, <3>4, <3>5, <3>6 DEF Commits, StartedOnce, Starting,
                    Existing
  <2> QED BY <2>1, <2>2
<1>7. ASSUME NEW p \in Importers, Start(p) PROVE Commits'
  BY <1>7 DEF Start
<1>8. ASSUME NEW p \in Importers, HeadObject(p) PROVE Commits'
  <2>1. \A q \in Importers : q # p => imports'[q] = imports[q]
    BY <1>8 DEF HeadObject
  <2>2. \/ imports'[p].pc = "idle"
        \/ imports'[p].pc = "mark" /\ imports'[p].item = imports[p].item
    <3>1. p \in DOMAIN imports /\ NoImport.pc = "idle"
          /\ [imports[p] EXCEPT !.pc = "mark"].pc = "mark"
          /\ [imports[p] EXCEPT !.pc = "mark"].item = imports[p].item
      OBVIOUS
    <3>2. \/ imports' = [imports EXCEPT ![p] = [imports[p] EXCEPT !.pc = "mark"]]
          \/ imports' = [imports EXCEPT ![p] = NoImport]
      BY ONLY <1>8 DEF HeadObject, GotoImport, AwaitImport
    <3> QED BY ONLY <3>1, <3>2
  <2>3. \A q \in Importers : Starting(q)' => Starting(q) /\ imports'[q].item = imports[q].item
    BY <1>8, <2>1, <2>2 DEF HeadObject
  <2>4. \A q \in Importers : /\ imports'[q].pc = "start" <=> imports[q].pc = "start"
                             /\ imports'[q].pc = "start" => imports'[q].item = imports[q].item
    BY <1>8, <2>1, <2>2 DEF HeadObject
  <2>5. UNCHANGED <<inbox, log>> /\ Existing' = Existing
    BY <1>8 DEF HeadObject
  <2>6. Commits
    OBVIOUS
  <2> QED BY ONLY <2>3, <2>4, <2>5, <2>6 DEF Commits, StartedOnce
<1>9. ASSUME NEW p \in Importers, MarkCommitted(p) PROVE Commits'
  BY <1>9 DEF MarkCommitted
<1>10. ASSUME NEW p \in Importers, ImportDies(p) PROVE Commits'
  BY <1>10 DEF ImportDies
<1>11. ASSUME NEW p \in Importers, NEW i \in ItemIds, BeginCommit(p, i) PROVE Commits'
  BY <1>11 DEF BeginCommit
<1>12. ASSUME NEW i \in ItemIds, Upload(i) PROVE Commits'
  BY <1>12 DEF Upload
<1>13. ASSUME NEW d \in Removers, DeleteItems(d) PROVE Commits'
  BY <1>13 DEF DeleteItems
<1>14. ASSUME NEW d \in Removers, DeleteObjects(d) PROVE Commits'
  BY <1>14 DEF DeleteObjects
<1>15. ASSUME NEW d \in Removers, RemovalDies(d) PROVE Commits'
  BY <1>15 DEF RemovalDies
<1>16. ASSUME NEW d \in Removers, NEW purge \in BOOLEAN, BeginRemoval(d, purge)
       PROVE  Commits'
  BY <1>16 DEF BeginRemoval
<1>17. CASE UNCHANGED importVars
  BY <1>17 DEF importVars
<1> HIDE DEF Commits, StartedOnce
<1> QED BY <1>1, <1>2, <1>3, <1>4, <1>5, <1>6, <1>7, <1>8, <1>9, <1>10, <1>11, <1>12, <1>13,
           <1>14,
           <1>15, <1>16, <1>17 DEF ImportNext

\* What an import found by its checks stays true, or it lost to an import or a deletion that
\* NotResurrected excuses.
LEMMA TombstonesStep ==
    ASSUME ImportAssumption, ImportInv, [ImportNext]_importVars
    PROVE  Tombstones'
<1> USE DEF ImportInv, AwaitImport, GotoImport, AwaitRemoval, AskNext
<1> USE DEF ImportTypeOK, ItemsFresh, OnRoute, Tombstones, NotResurrected, Looking, Starting,
            Import, Removal, ImportLog, NoImport, NoRemoval, Existing
<1>0. origin \in Origins /\ Created \in 0 .. MaxAsked /\ ImportTypeOK'
  BY CreatedType, ImportTypeStep DEF Origins
<1>1. ASSUME NEW p \in Importers, BeginImport(p) PROVE Tombstones'
  BY <1>0, <1>1, NextCheck, CreatedCounts DEF BeginImport, Origins
<1>2. ASSUME NEW p \in Importers, FindExisting(p) PROVE Tombstones'
  BY <1>0, <1>2, NextCheck, CreatedCounts DEF FindExisting, Origins
<1>3. ASSUME NEW p \in Importers, CheckTombstone(p) PROVE Tombstones'
  BY <1>0, <1>3, NextCheck, CreatedCounts DEF CheckTombstone, Origins
<1>4. ASSUME NEW p \in Importers, FindAgain(p) PROVE Tombstones'
  BY <1>0, <1>4, NextCheck, CreatedCounts DEF FindAgain, Origins
<1>5. ASSUME NEW p \in Importers, PutObject(p) PROVE Tombstones'
  BY <1>0, <1>5, CreatedCounts DEF PutObject
<1>6. ASSUME NEW p \in Importers, CreateItem(p) PROVE Tombstones'
  <2>1. CASE Existing # {}
    BY <1>0, <1>6, <2>1, CreatedCounts DEF CreateItem
  <2>2. CASE Existing = {}
    <3> DEFINE i == imports[p].item
    <3>1. i \in ItemIds /\ inbox[i] = "none"
      BY <1>6 DEF CreateItem, ItemIds, ImportAssumption
    <3>2. \A j \in ItemIds : inbox'[j] = "none" <=> inbox[j] = "none" /\ j # i
      BY <1>6, <2>2, <3>1 DEF CreateItem
    <3>3. Created' = Created + 1
      BY <1>0, <3>1, <3>2, CreatedCounts
    <3>4. \A j \in ItemIds : inbox'[j] = "deleted" <=> inbox[j] = "deleted"
      BY <1>6, <2>2, <3>1 DEF CreateItem
    <3>5. \A q \in Importers : /\ imports'[q].since <= Created
                               /\ imports'[q].raced = imports[q].raced \/ imports'[q].pc = "idle"
                               /\ imports'[q].pc \in {imports[q].pc, "idle", "start"}
      BY <1>0, <1>6, <2>2 DEF CreateItem
    <3>6. /\ log'.purged = log.purged /\ log'.raised = (log.raised \/ Raises(imports[p]))
          /\ UNCHANGED <<origin, tombstone, removals>>
      BY <1>6, <2>2 DEF CreateItem
    <3>7. Raises(imports[p]) => log.purged
      BY <1>0, <1>6, <2>2 DEF CreateItem, Raises
    <3> QED BY <1>0, <3>3, <3>4, <3>5, <3>6, <3>7
  <2> QED BY <2>1, <2>2
<1>7. ASSUME NEW p \in Importers, Start(p) PROVE Tombstones'
  <2>1. log'.purged = log.purged /\ log'.raised = log.raised
    BY <1>7 DEF Start
  <2>2. Created' = Created /\ Existing' = Existing /\ UNCHANGED <<origin, inbox, tombstone, removals>>
    BY <1>7 DEF Start, Created
  <2>3. \A q \in Importers : \/ imports'[q] = imports[q]
                             \/ imports'[q].pc = "idle" /\ imports'[q].since = 0
    <3>1. imports' = [imports EXCEPT ![p] = NoImport] /\ DOMAIN imports = Importers
      BY <1>7 DEF Start
    <3> QED BY ONLY <3>1 DEF NoImport
  <2> QED BY <1>0, <2>1, <2>2, <2>3
<1>8. ASSUME NEW p \in Importers, HeadObject(p) PROVE Tombstones'
  BY <1>0, <1>8, CreatedCounts DEF HeadObject
<1>9. ASSUME NEW p \in Importers, MarkCommitted(p) PROVE Tombstones'
  BY <1>0, <1>9, CreatedCounts DEF MarkCommitted
<1>10. ASSUME NEW p \in Importers, ImportDies(p) PROVE Tombstones'
  BY <1>0, <1>10, CreatedCounts DEF ImportDies
<1>11. ASSUME NEW p \in Importers, NEW i \in ItemIds, BeginCommit(p, i) PROVE Tombstones'
  BY <1>0, <1>11, CreatedCounts DEF BeginCommit
<1>12. ASSUME NEW i \in ItemIds, Upload(i) PROVE Tombstones'
  BY <1>0, <1>12, CreatedCounts DEF Upload
<1>13. ASSUME NEW d \in Removers, DeleteItems(d) PROVE Tombstones'
  <2>1. \A i \in ItemIds : inbox'[i] = "none" <=> inbox[i] = "none"
    BY <1>13 DEF DeleteItems, BlobsBehind
  <2>2. Created' = Created
    BY <1>0, <2>1, CreatedCounts
  <2>3. /\ log'.purged = (log.purged \/ removals[d].purge) /\ log'.raised = log.raised
        /\ tombstone' = ~removals[d].purge /\ origin' = origin
    BY <1>13 DEF DeleteItems
  <2>4. ~removals[d].purge => \E i \in ItemIds : inbox'[i] = "deleted"
    BY <1>13 DEF DeleteItems
  <2>5. \A e \in Removers : removals'[e].pc = "rows" => removals'[e] = removals[e]
    BY <1>13 DEF DeleteItems
  <2>6. \A p \in Importers : /\ imports'[p].pc = imports[p].pc
                             /\ imports'[p].since = imports[p].since
                             /\ imports[p].pc # "idle" => imports'[p].raced
    BY <1>13 DEF DeleteItems
  <2>7. ASSUME NEW p \in Importers, origin = "sync", imports'[p].since = Created'
        PROVE  /\ imports'[p].pc = "tombstone" => Existing' = {}
               /\ imports'[p].pc \in {"again", "put", "create"} /\ ~log'.purged =>
                      \A i \in ItemIds : inbox'[i] = "none"
    <3>1. imports'[p].pc = "tombstone" => Existing' = {}
      BY <1>13, <2>2, <2>6, <2>7 DEF DeleteItems
    <3> QED BY <2>1, <2>2, <2>3, <2>6, <2>7, <3>1
  <2>8. \A p \in Importers :
           origin = "mail" /\ imports'[p].pc \in {"existing", "again", "put", "create"}
              => imports'[p].raced
    BY <2>6
  <2>9. \A p \in Importers : imports'[p].since <= Created'
    BY <2>2, <2>6
  <2>10. /\ ~log'.purged => (tombstone' <=> \E i \in ItemIds : inbox'[i] = "deleted")
         /\ log'.raised => log'.purged
    BY <2>3, <2>4
  <2>11. \A e \in Removers :
            removals'[e].pc = "rows" /\ ~removals'[e].purge => removals'[e].items # {}
    BY <2>5
  <2> QED BY ONLY <2>3, <2>7, <2>8, <2>9, <2>10, <2>11 DEF Tombstones, NotResurrected
<1>14. ASSUME NEW d \in Removers, DeleteObjects(d) PROVE Tombstones'
  BY <1>0, <1>14, CreatedCounts DEF DeleteObjects
<1>15. ASSUME NEW d \in Removers, RemovalDies(d) PROVE Tombstones'
  BY <1>0, <1>15, CreatedCounts DEF RemovalDies
<1>16. ASSUME NEW d \in Removers, NEW purge \in BOOLEAN, BeginRemoval(d, purge)
       PROVE  Tombstones'
  BY <1>0, <1>16, CreatedCounts DEF BeginRemoval
<1>17. CASE UNCHANGED importVars
  BY <1>17 DEF importVars, Created
<1> HIDE DEF Tombstones, NotResurrected
<1> QED BY <1>1, <1>2, <1>3, <1>4, <1>5, <1>6, <1>7, <1>8, <1>9, <1>10, <1>11, <1>12, <1>13,
           <1>14,
           <1>15, <1>16, <1>17 DEF ImportNext

\* Every step keeps the invariant,
LEMMA ImportSteps == ASSUME ImportAssumption, ImportInv, [ImportNext]_importVars PROVE ImportInv'
BY ImportTypeStep, FreshStep, RouteStep, BlobsStep, CommitsStep, TombstonesStep DEF ImportInv

\* so it holds in every reachable state.
THEOREM ImportInvariant == ImportSpec => []ImportInv
<1>1. ImportInit => ImportInv
  BY InitImport, ImportAssumption
<1>2. ImportInv /\ [ImportNext]_importVars => ImportInv'
  BY ImportSteps, ImportAssumption
<1> QED BY <1>1, <1>2, PTL DEF ImportSpec

\* Every variable keeps to its type.
THEOREM ImportTypeCorrect == ImportSpec => []ImportTypeOK
<1>1. ImportInv => ImportTypeOK
  BY DEF ImportInv
<1> QED BY <1>1, ImportInvariant, PTL

\* BlobBehindRow: a committed item has its blob, for any imports, uploads, deletions, purges
\* and deaths of requests.
THEOREM KeepsBlobs == ImportSpec => []BlobBehindRow
<1>1. ImportInv => BlobBehindRow
  BY DEF ImportInv, BlobsBehind
<1> QED BY <1>1, ImportInvariant, PTL

\* StartedOnce: the pipeline is started once for a committed item, unless commits overlap or
\* the request dies.
THEOREM StartsOnce == ImportSpec => []StartedOnce
<1>1. ImportInv => StartedOnce
  BY DEF ImportInv, Commits
<1> QED BY <1>1, ImportInvariant, PTL

\* NotResurrected: no import brings a deleted item back that its checks should have kept out.
THEOREM NeverResurrects == ImportSpec => []NotResurrected
<1>1. ImportInv => NotResurrected
  BY DEF ImportInv, Tombstones
<1> QED BY <1>1, ImportInvariant, PTL
====
