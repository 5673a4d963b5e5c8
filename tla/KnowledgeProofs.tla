--------------------------- MODULE KnowledgeProofs ---------------------------
(***************************************************************************)
(* Theorems about EntityRegistry, and about MCKnowledge, which gathers it  *)
(* with FactsSupersession.                                                 *)
(*                                                                         *)
(* That the registry is well typed, files mentions where names lead and    *)
(* keeps the user's corrections. The argument: what a job, a pass or the   *)
(* form has read stays true of the tables until a correction overtakes it. *)
(* Whoever is overtaken is in "stale", and if it then saves the history    *)
(* says so in "spoilt". Until then every save is faithful: it writes over  *)
(* a row what agrees with the row, or inserts at a key that leads nowhere. *)
(***************************************************************************)
EXTENDS MCKnowledge, FactsSupersessionProofs, TLAPS
\* The origins of a link or its removal that the user has set.
Corrected == {"manual", "suppressed"}
RowOrNone == EntityRow \cup {NoEntity}
JobPcs == {"idle", "check", "find", "alias", "save", "winner", "mention", "done"}
JobRecord == [pc : JobPcs, key : Keys \cup {<<None, None>>}, forms : SUBSET Names,
              id : Ids \cup {0}, copy : RowOrNone]
Born == 1 .. created

\* Only persons are linked, and a link has its contact.
Sound(row) ==
    /\ row.type # "person" => row.origin = None
    /\ row.origin \in {"manual", "auto"} => row.contact # None

\* What a job has by its step.
JobSound(j) ==
    /\ j.pc \in {"check", "find", "alias", "save", "winner", "mention"} => j.key \in Keys
    /\ j.pc \in {"check", "find", "alias"} => j.id = 0
    /\ j.pc \in {"save", "winner"} =>
          j.copy \in EntityRow /\ Sound(j.copy) /\ j.copy.type = j.key[1]
    /\ j.pc = "mention" => j.id # 0

\* The tables are well typed,
StoredTypes ==
    /\ rows \in [Ids -> RowOrNone]
    /\ aliasOf \in [Keys -> Live \cup {0}]
    /\ suppressed \subseteq Keys
    /\ mentions \subseteq EntityRuns \X Live
    /\ created \in 0 .. MaxEntities
    /\ corrections \in 0 .. MaxCorrections
    /\ chosen \in [Ids -> Names \cup {None}]
    /\ moved \subseteq Keys
\* each key has one row at most,
UniqueKeys == \A e, q \in Live : KeyOf(rows[e]) = KeyOf(rows[q]) => e = q
\* and rows are sound.
RowsSound == \A e \in Live : e \in Born /\ Sound(rows[e])
RowsInv == StoredTypes /\ UniqueKeys /\ RowsSound

\* Jobs, passes and the form are well typed, and the ids they hold exist or existed.
JobsInv == job \in [EntityRuns -> JobRecord] /\ \A x \in EntityRuns : JobSound(job[x])
PassesInv ==
    /\ pass \in [Resolvers -> UNION {[some -> EntityRow] : some \in SUBSET Ids}]
    /\ \A r \in Resolvers : \A e \in DOMAIN pass[r] :
          Linkable(pass[r][e]) /\ Sound(pass[r][e])
EditInv ==
    /\ edit \in [id : Ids \cup {0}, row : RowOrNone]
    /\ edit # NoEdit => edit.id # 0 /\ edit.row \in EntityRow /\ edit.row.type = "person"
MentionsDone == \A m \in mentions : job[m[1]].pc = "done" /\ job[m[1]].key \in Keys
AllBorn ==
    /\ \A x \in EntityRuns : job[x].id \in Born \cup {0}
    /\ \A r \in Resolvers : DOMAIN pass[r] \subseteq Born
    /\ edit.id \in Born \cup {0}
HoldersInv == JobsInv /\ PassesInv /\ EditInv /\ MentionsDone /\ AllBorn
HistoryInv == spoilt \in BOOLEAN /\ stale \subseteq EntityRuns \cup Resolvers \cup {"user"}

\* A copy has the key of the row, and the link too where either says it is the user's.
Agrees(copy, row) ==
    /\ KeyOf(copy) = KeyOf(row)
    /\ (copy.origin \in Corrected \/ row.origin \in Corrected) =>
          copy.contact = row.contact /\ copy.origin = row.origin

\* A job that is about to insert a row.
Creates(j) == j.pc = "save" /\ j.id = 0
\* What a job has read, step by step, is still so.
Informed(j) ==
    /\ (j.pc \in {"find", "alias"} \/ Creates(j)) => j.key \notin suppressed
    /\ j.pc = "alias" => aliasOf[j.key] = 0 \/ At(j.key) = {}
    /\ (j.pc \in {"alias", "winner"} \/ Creates(j)) =>
          \A e \in At(j.key) : rows[e].origin # "suppressed"
    /\ Creates(j) => KeyOf(j.copy) = j.key /\ j.copy.origin = None /\ aliasOf[j.key] = 0
    /\ j.pc = "winner" => j.copy.origin \notin Corrected
    /\ (j.pc = "save" /\ j.id # 0) => (j.id \in Live /\ Agrees(j.copy, rows[j.id]))
    /\ ((j.pc = "save" /\ j.id # 0) \/ j.pc = "mention") => Resolves(j.key) = {j.id}

\* It is for all that no correction has overtaken: jobs, passes and the form.
JobsKnow == \A x \in EntityRuns \ stale : Informed(job[x])
PassesKnow == \A r \in Resolvers \ stale : \A e \in DOMAIN pass[r] :
                  e \in Live /\ Agrees(pass[r][e], rows[e])
EditKnows == ("user" \notin stale /\ edit # NoEdit) =>
    edit.id \in Live /\ Agrees(edit.row, rows[edit.id])
\* As long as no save was spoilt, and then mentions are filed where names lead.
Knowing == ~spoilt => JobsKnow /\ PassesKnow /\ EditKnows /\ FiledWhereNamesLead

RegistryInv == RowsInv /\ HoldersInv /\ HistoryInv /\ Knowing
-----------------------------------------------------------------------------
\* The columns of a row, which is not the row of a free id.
LEMMA RowFields ==
    ASSUME RegistryAssumption, NEW row \in EntityRow
    PROVE  /\ row.type \in Types /\ row.name \in Names /\ row.label \in Names
           /\ row.aliases \subseteq Names /\ row.contact \in Contacts \cup {None}
           /\ row.origin \in {None, "auto", "manual", "suppressed"}
           /\ row.type # "person" => row.contact = None
           /\ row # NoEntity /\ KeyOf(row) \in Keys
<1>1. row.type \in Types /\ row.name \in Names /\ row.label \in Names
      /\ row.aliases \subseteq Names /\ row.contact \in Contacts \cup {None}
      /\ row.origin \in {None, "auto", "manual", "suppressed"}
      /\ (row.type # "person" => row.contact = None)
  BY DEF EntityRow
<1>2. row # NoEntity
  BY <1>1, RegistryAssumption DEF NoEntity
<1>3. KeyOf(row) \in Keys
  BY <1>1 DEF KeyOf, Keys
<1> QED BY <1>1, <1>2, <1>3

\* Columns of the right types make a row.
LEMMA RowMade ==
    ASSUME NEW type \in Types, NEW name \in Names, NEW label \in Names,
           NEW aliases \in SUBSET Names, NEW contact \in Contacts \cup {None},
           NEW origin \in {None, "auto", "manual", "suppressed"},
           type # "person" => contact = None
    PROVE  [type |-> type, name |-> name, label |-> label, aliases |-> aliases,
            contact |-> contact, origin |-> origin] \in EntityRow
BY DEF EntityRow

\* The live ids are those with a row.
LEMMA LiveRows ==
    ASSUME RegistryAssumption, rows \in [Ids -> RowOrNone], NEW e \in Ids
    PROVE  e \in Live <=> rows[e] \in EntityRow
<1>1. rows[e] \in EntityRow \cup {NoEntity}
  BY DEF RowOrNone
<1>2. \A row \in EntityRow : row # NoEntity
  BY RowFields
<1> QED BY <1>1, <1>2 DEF Live

\* The row an extraction inserts,
LEMMA NewRowIs ==
    ASSUME RegistryAssumption, NEW k \in Keys
    PROVE  /\ NewRow(k) \in EntityRow /\ Sound(NewRow(k)) /\ KeyOf(NewRow(k)) = k
           /\ NewRow(k).type = k[1] /\ NewRow(k).origin = None
<1>1. k[1] \in Types /\ k[2] \in Names /\ k = <<k[1], k[2]>>
  BY DEF Keys
<1>2. NewRow(k) \in EntityRow
  BY <1>1, RowMade DEF NewRow
<1>3. NewRow(k).type = k[1] /\ NewRow(k).origin = None /\ NewRow(k).name = k[2]
  BY DEF NewRow
<1>4. Sound(NewRow(k))
  BY <1>3, RegistryAssumption DEF Sound, None
<1>5. KeyOf(NewRow(k)) = k
  BY <1>1, <1>3 DEF KeyOf
<1> QED BY <1>2, <1>3, <1>4, <1>5

\* a row that gains spellings keeps its key and its link,
LEMMA AccretedRow ==
    ASSUME RegistryAssumption, NEW row \in EntityRow, NEW name \in Names, NEW forms \in SUBSET Names
    PROVE  /\ Accreted(row, name, forms) \in EntityRow
           /\ KeyOf(Accreted(row, name, forms)) = KeyOf(row)
           /\ Accreted(row, name, forms).type = row.type
           /\ Accreted(row, name, forms).contact = row.contact
           /\ Accreted(row, name, forms).origin = row.origin
<1> DEFINE label == IF Length[name] > Length[row.label] THEN name ELSE row.label
<1> DEFINE aliases == (row.aliases \cup forms) \ {label}
<1> DEFINE new == [row EXCEPT !.label = label, !.aliases = aliases]
<1>1. new = Accreted(row, name, forms)
  BY DEF Accreted
<1>2. label \in Names /\ aliases \subseteq Names
  BY RowFields
<1>3. new \in EntityRow
  <2> HIDE DEF label, aliases
  <2> QED BY <1>2 DEF EntityRow
<1>4. new.type = row.type /\ new.name = row.name /\ new.contact = row.contact /\ new.origin = row.origin
  <2> HIDE DEF label, aliases
  <2> QED BY DEF EntityRow
<1> QED BY <1>1, <1>3, <1>4 DEF KeyOf

\* a row that is linked keeps its key,
LEMMA LinkedRow ==
    ASSUME RegistryAssumption, NEW row \in EntityRow, Linkable(row), NEW c \in Contacts
    PROVE  /\ Linked(row, c) \in EntityRow /\ Sound(Linked(row, c))
           /\ KeyOf(Linked(row, c)) = KeyOf(row) /\ Linked(row, c).type = row.type
           /\ Linked(row, c).contact = c /\ Linked(row, c).origin = "auto"
<1>1. row.type = "person"
  BY DEF Linkable
<1>2. Linked(row, c) \in EntityRow
  BY <1>1 DEF Linked, EntityRow
<1>3. Linked(row, c).type = row.type /\ Linked(row, c).name = row.name
      /\ Linked(row, c).contact = c /\ Linked(row, c).origin = "auto"
  BY DEF Linked, EntityRow
<1>4. c # None
  BY RegistryAssumption
<1> QED BY <1>1, <1>2, <1>3, <1>4 DEF Sound, KeyOf

\* and matching a row to a contact leaves a link or a suppression of the user's alone.
LEMMA MatchedRow ==
    ASSUME RegistryAssumption, NEW row \in EntityRow, Sound(row), NEW made \in Matched(row)
    PROVE  /\ made \in EntityRow /\ Sound(made) /\ made.type = row.type /\ Agrees(made, row)
           /\ row.origin \notin Corrected => made.origin \notin Corrected
<1>1. CASE made = row
  BY <1>1 DEF Agrees
<1>2. ASSUME Linkable(row), NEW c \in Contacts, made = Linked(row, c)
      PROVE  /\ made \in EntityRow /\ Sound(made) /\ made.type = row.type /\ Agrees(made, row)
             /\ row.origin \notin Corrected => made.origin \notin Corrected
  <2>1. row.origin \notin Corrected
    BY <1>2 DEF Linkable, Sound, Corrected
  <2> QED BY <1>2, <2>1, LinkedRow DEF Agrees, Corrected
<1> QED BY <1>1, <1>2 DEF Matched, Matching

\* Copies that agree with the same row agree with each other.
LEMMA AgreesTrans ==
    ASSUME NEW a, NEW b, NEW c, Agrees(a, b), Agrees(c, b)
    PROVE  Agrees(a, c)
BY DEF Agrees
-----------------------------------------------------------------------------
\* Writing a row that clashes with no other keeps the stored types, one row to a key.
LEMMA SavedRow ==
    ASSUME RegistryAssumption, RowsInv, NEW e \in Ids, NEW row \in EntityRow, Sound(row),
           ~Clash(e, row), rows' = [rows EXCEPT ![e] = row],
           created' \in created .. MaxEntities, e \in 1 .. created',
           corrections' \in 0 .. MaxCorrections, mentions' \subseteq EntityRuns \X Live,
           UNCHANGED <<aliasOf, suppressed, chosen, moved>>
    PROVE  RowsInv' /\ Live' = Live \cup {e}
<1>1. rows' \in [Ids -> RowOrNone] /\ rows'[e] = row /\ \A q \in Ids \ {e} : rows'[q] = rows[q]
  BY DEF RowsInv, StoredTypes, RowOrNone
<1>2. row # NoEntity
  BY RowFields
<1>3. Live' = Live \cup {e}
  BY <1>1, <1>2 DEF Live
<1>4. StoredTypes'
  <2>1. aliasOf' \in [Keys -> Live' \cup {0}]
    BY <1>3 DEF RowsInv, StoredTypes
  <2>2. mentions' \subseteq EntityRuns \X Live'
    BY <1>3
  <2>3. created' \in 0 .. MaxEntities
    BY RegistryAssumption DEF RowsInv, StoredTypes
  <2> QED BY <1>1, <2>1, <2>2, <2>3 DEF RowsInv, StoredTypes
<1>5. UniqueKeys'
  <2> SUFFICES ASSUME NEW a \in Live', NEW b \in Live', KeyOf(rows'[a]) = KeyOf(rows'[b]), a # b
               PROVE  FALSE
    BY DEF UniqueKeys
  <2>1. a \in Ids /\ b \in Ids
    BY DEF Live
  <2>2. CASE a = e
    BY <1>1, <1>3, <2>1, <2>2 DEF Clash
  <2>3. CASE b = e
    BY <1>1, <1>3, <2>1, <2>3 DEF Clash
  <2>4. CASE a # e /\ b # e
    BY <1>1, <1>3, <2>1, <2>4 DEF RowsInv, UniqueKeys
  <2> QED BY <2>2, <2>3, <2>4
<1>6. RowsSound'
  <2> SUFFICES ASSUME NEW q \in Live' PROVE q \in Born' /\ Sound(rows'[q])
    BY DEF RowsSound, Sound
  <2>1. CASE q = e
    BY <1>1, <2>1 DEF Born
  <2>2. CASE q # e
    <3>1. q \in Live /\ q \in Ids
      BY <1>3, <2>2 DEF Live
    <3>2. q \in Born /\ Sound(rows[q])
      BY <3>1 DEF RowsInv, RowsSound
    <3>3. q \in Born'
      BY <3>2 DEF Born, RowsInv, StoredTypes
    <3> QED BY <1>1, <2>2, <3>1, <3>2, <3>3
  <2> QED BY <2>1, <2>2
<1> QED BY <1>3, <1>4, <1>5, <1>6 DEF RowsInv

\* They hold while no row changes.
LEMMA Kept ==
    ASSUME RegistryAssumption, RowsInv, rows' = rows, created' = created,
           corrections' \in 0 .. MaxCorrections, mentions' \subseteq EntityRuns \X Live,
           UNCHANGED <<aliasOf, suppressed, chosen, moved>>
    PROVE  RowsInv' /\ Live' = Live
<1>1. Live' = Live
  BY DEF Live
<1>2. StoredTypes'
  BY <1>1 DEF RowsInv, StoredTypes
<1>3. UniqueKeys'
  BY <1>1 DEF RowsInv, UniqueKeys, KeyOf
<1>4. RowsSound'
  BY <1>1 DEF RowsInv, RowsSound, Sound, Born
<1> QED BY <1>1, <1>2, <1>3, <1>4 DEF RowsInv

\* Ids that were created stay so.
LEMMA Older ==
    ASSUME RowsInv, created' \in created .. MaxEntities
    PROVE  Born \subseteq Born'
BY DEF Born, RowsInv, StoredTypes

\* A closed form is a form.
LEMMA NoEditIs == NoEdit.id = 0 /\ NoEdit \in [id : Ids \cup {0}, row : RowOrNone]
BY DEF NoEdit, RowOrNone

\* Who holds ids and copies still does when no job and no pass moves,
LEMMA HoldersKept ==
    ASSUME HoldersInv, RowsInv, UNCHANGED <<job, pass>>, created' \in created .. MaxEntities,
           \A m \in mentions' : \E n \in mentions : n[1] = m[1],
           edit' = edit \/ edit' = NoEdit
    PROVE  HoldersInv'
<1>1. Born \subseteq Born'
  BY Older
<1>2. JobsInv'
  BY DEF HoldersInv, JobsInv
<1>3. PassesInv'
  BY DEF HoldersInv, PassesInv
<1>4. EditInv'
  BY NoEditIs DEF HoldersInv, EditInv
<1>5. MentionsDone'
  BY DEF HoldersInv, MentionsDone
<1>6. AllBorn'
  BY <1>1, NoEditIs DEF HoldersInv, AllBorn
<1> QED BY <1>2, <1>3, <1>4, <1>5, <1>6 DEF HoldersInv

\* and when one job moves.
LEMMA JobMoves ==
    ASSUME HoldersInv, RowsInv, NEW x \in EntityRuns, NEW j \in JobRecord, JobSound(j),
           job' = [job EXCEPT ![x] = j], j.id \in Born' \cup {0},
           UNCHANGED <<pass, edit>>, created' \in created .. MaxEntities,
           \/ mentions' = mentions /\ job[x].pc # "done"
           \/ /\ mentions' \subseteq mentions \cup {<<x, job[x].id>>}
              /\ j.pc = "done" /\ j.key \in Keys
    PROVE  HoldersInv'
<1>1. Born \subseteq Born'
  BY Older
<1>2. /\ job \in [EntityRuns -> JobRecord] /\ job'[x] = j
      /\ \A y \in EntityRuns \ {x} : job'[y] = job[y]
  BY DEF HoldersInv, JobsInv
<1>3. JobsInv'
  BY <1>2 DEF HoldersInv, JobsInv
<1>4. PassesInv' /\ EditInv'
  BY DEF HoldersInv, PassesInv, EditInv
<1>5. MentionsDone'
  <2> SUFFICES ASSUME NEW m \in mentions' PROVE job'[m[1]].pc = "done" /\ job'[m[1]].key \in Keys
    BY DEF MentionsDone
  <2>1. CASE m \in mentions
    <3>1. job[m[1]].pc = "done" /\ job[m[1]].key \in Keys /\ m[1] \in EntityRuns
      BY <2>1 DEF HoldersInv, MentionsDone, RowsInv, StoredTypes
    <3> QED BY <1>2, <3>1
  <2>2. CASE m = <<x, job[x].id>> /\ j.pc = "done" /\ j.key \in Keys
    BY <1>2, <2>2
  <2> QED BY <2>1, <2>2
<1>6. AllBorn'
  BY <1>1, <1>2 DEF HoldersInv, AllBorn
<1> QED BY <1>3, <1>4, <1>5, <1>6 DEF HoldersInv
-----------------------------------------------------------------------------
\* The columns of a job,
LEMMA JobIs ==
    ASSUME HoldersInv, NEW x \in EntityRuns
    PROVE  /\ job[x] \in JobRecord /\ JobSound(job[x]) /\ job[x].id \in Born \cup {0}
           /\ job[x].pc \in JobPcs /\ job[x].key \in Keys \cup {<<None, None>>}
           /\ job[x].forms \in SUBSET Names /\ job[x].id \in Ids \cup {0}
           /\ job[x].copy \in RowOrNone
<1>1. job[x] \in JobRecord /\ JobSound(job[x]) /\ job[x].id \in Born \cup {0}
  BY DEF HoldersInv, JobsInv, AllBorn
<1> QED BY <1>1 DEF JobRecord

\* of one that goes to another step,
LEMMA JobTo ==
    ASSUME NEW j \in JobRecord, NEW pc \in JobPcs,
           NEW new, new = [j EXCEPT !.pc = pc]
    PROVE  /\ new \in JobRecord /\ new.pc = pc /\ new.id = j.id /\ new.copy = j.copy
           /\ new.key = j.key /\ new.forms = j.forms
BY DEF JobRecord

\* of one that has not begun or has ended,
LEMMA IdleJobIs ==
    /\ IdleJob \in JobRecord /\ JobSound(IdleJob) /\ IdleJob.pc = "idle" /\ IdleJob.id = 0
    /\ \A k \in Keys : /\ Ended(k) \in JobRecord /\ JobSound(Ended(k)) /\ Ended(k).pc = "done"
                       /\ Ended(k).id = 0 /\ Ended(k).key = k
<1>1. IdleJob \in JobRecord
  BY DEF IdleJob, JobRecord, JobPcs, RowOrNone
<1>2. IdleJob.pc = "idle" /\ IdleJob.id = 0
  BY DEF IdleJob
<1>3. \A k \in Keys : Ended(k) \in JobRecord /\ Ended(k).pc = "done" /\ Ended(k).id = 0
                      /\ Ended(k).key = k
  BY DEF Ended, IdleJob, JobRecord, JobPcs, RowOrNone
<1> QED BY <1>1, <1>2, <1>3 DEF JobSound

\* and of one whose provider has answered.
LEMMA FindingIs ==
    ASSUME RegistryAssumption, NEW f \in Finds
    PROVE  /\ Finding(f) \in JobRecord /\ JobSound(Finding(f)) /\ Finding(f).id = 0
           /\ Finding(f).pc = "check" /\ Finding(f).key = f.key /\ f.key \in Keys
<1>1. f.key \in Keys /\ f.forms \cup {f.key[2]} \in SUBSET Names
  BY RegistryAssumption DEF Keys
<1>2. /\ Finding(f) \in JobRecord /\ Finding(f).id = 0
      /\ Finding(f).pc = "check" /\ Finding(f).key = f.key
  BY <1>1 DEF Finding, IdleJob, JobRecord, JobPcs, RowOrNone
<1> QED BY <1>1, <1>2 DEF JobSound
-----------------------------------------------------------------------------
\* A save writes over a row what agrees with it, or inserts where no name leads.
Faithful(e, row) ==
    IF e \in Live THEN Agrees(row, rows[e])
    ELSE KeyOf(row) \notin suppressed /\ aliasOf[KeyOf(row)] = 0 /\ row.origin \notin Corrected

\* A row at a key is the only one there, and the name leads to it.
LEMMA OneAt ==
    ASSUME RowsInv, NEW k, NEW e \in At(k)
    PROVE  At(k) = {e} /\ Resolves(k) = {e} /\ e \in Live /\ e \in Ids /\ KeyOf(rows[e]) = k
<1>1. e \in Live /\ e \in Ids /\ KeyOf(rows[e]) = k
  BY DEF At, Live
<1>2. \A q \in At(k) : q = e
  BY <1>1 DEF At, RowsInv, UniqueKeys
<1>3. At(k) = {e}
  BY <1>2
<1> QED BY <1>1, <1>3 DEF Resolves

\* A live row is well typed and stands at its own key.
LEMMA RowKey ==
    ASSUME RegistryAssumption, RowsInv, NEW e \in Live
    PROVE  /\ e \in Ids /\ rows[e] \in EntityRow /\ KeyOf(rows[e]) \in Keys /\ e \in At(KeyOf(rows[e]))
           /\ e \in Born /\ Sound(rows[e])
<1>1. e \in Ids
  BY DEF Live
<1>2. rows[e] \in EntityRow
  BY <1>1, LiveRows DEF RowsInv, StoredTypes
<1> QED BY <1>1, <1>2, RowFields DEF At, RowsInv, RowsSound

\* Overwriting a row by one that agrees with it moves no name,
LEMMA Overwritten ==
    ASSUME RegistryAssumption, RowsInv, NEW e \in Live, NEW row \in EntityRow, Agrees(row, rows[e]),
           rows' = [rows EXCEPT ![e] = row], UNCHANGED aliasOf
    PROVE  /\ Live' = Live
           /\ \A q \in Live : Agrees(rows'[q], rows[q])
           /\ \A k : At(k)' = At(k) /\ Resolves(k)' = Resolves(k)
<1>1. rows'[e] = row /\ \A q \in Ids \ {e} : rows'[q] = rows[q]
  BY RowKey DEF RowsInv, StoredTypes
<1>2. row # NoEntity /\ rows[e] # NoEntity /\ e \in Ids
  BY RowFields, RowKey
<1>3. Live' = Live
  BY <1>1, <1>2 DEF Live
<1>4. \A q \in Live : Agrees(rows'[q], rows[q])
  <2> TAKE q \in Live
  <2>1. q \in Ids
    BY DEF Live
  <2>2. CASE q = e
    BY <1>1, <2>2
  <2>3. CASE q # e
    BY <1>1, <2>1, <2>3 DEF Agrees
  <2> QED BY <2>2, <2>3
<1>5. \A q \in Live : KeyOf(rows'[q]) = KeyOf(rows[q])
  BY <1>4 DEF Agrees
<1>6. \A k : At(k)' = At(k)
  BY <1>3, <1>5 DEF At, KeyOf
<1>7. \A k : Resolves(k)' = Resolves(k)
  BY <1>6 DEF Resolves
<1> QED BY <1>3, <1>4, <1>6, <1>7

\* inserting one makes its name lead to it,
LEMMA Inserted ==
    ASSUME RegistryAssumption, RowsInv, NEW e \in Ids \ Live, NEW row \in EntityRow, ~Clash(e, row),
           NEW k0, k0 = KeyOf(row), aliasOf[k0] = 0,
           rows' = [rows EXCEPT ![e] = row], UNCHANGED aliasOf
    PROVE  /\ \A q \in Live : rows'[q] = rows[q] /\ q \in Live'
           /\ rows'[e] = row
           /\ At(k0) = {} /\ Resolves(k0) = {}
           /\ At(k0)' = {e} /\ Resolves(k0)' = {e}
           /\ Live' = Live \cup {e}
<1>1. rows'[e] = row /\ \A q \in Ids \ {e} : rows'[q] = rows[q]
  BY DEF RowsInv, StoredTypes
<1>2. row # NoEntity
  BY RowFields
<1>3. Live' = Live \cup {e}
  BY <1>1, <1>2 DEF Live
<1>4. \A q \in Live : rows'[q] = rows[q] /\ q # e
  BY <1>1 DEF Live
<1>5. \A q \in Live : KeyOf(rows[q]) # k0
  BY <1>4 DEF Clash
<1>6. At(k0) = {}
  BY <1>5 DEF At
<1>7. Resolves(k0) = {}
  BY <1>6 DEF Resolves
<1>8. \A k : At(k)' = {q \in Live \cup {e} : KeyOf(rows'[q]) = k}
  BY <1>3 DEF At, KeyOf
<1>9. At(k0)' = {e}
  BY <1>1, <1>4, <1>5, <1>8
<1>10. Resolves(k0)' = {e}
  BY <1>9 DEF Resolves
<1> QED BY <1>1, <1>3, <1>4, <1>6, <1>7, <1>9, <1>10

\* and moves no other name.
LEMMA InsertedElsewhere ==
    ASSUME RegistryAssumption, RowsInv, NEW e \in Ids \ Live, NEW row \in EntityRow, ~Clash(e, row),
           NEW k0, k0 = KeyOf(row), aliasOf[k0] = 0,
           rows' = [rows EXCEPT ![e] = row], UNCHANGED aliasOf, NEW k, k # k0
    PROVE  At(k)' = At(k) /\ Resolves(k)' = Resolves(k)
<1>1. Live' = Live \cup {e} /\ rows'[e] = row /\ \A q \in Live : rows'[q] = rows[q]
  BY Inserted
<1>2. At(k)' = {q \in Live \cup {e} : KeyOf(rows'[q]) = k}
  BY <1>1 DEF At, KeyOf
<1>3. KeyOf(rows'[e]) = k0 /\ \A q \in Live : KeyOf(rows'[q]) = KeyOf(rows[q])
  BY <1>1
<1>4. At(k) = {q \in Live : KeyOf(rows[q]) = k}
  BY DEF At
<1>5. At(k)' = At(k)
  BY <1>2, <1>3, <1>4
<1>6. Resolves(k)' = Resolves(k)
  BY <1>5 DEF Resolves
<1> QED BY <1>5, <1>6

\* Such an overwrite leaves what a job knows true,
LEMMA OverwriteInforms ==
    ASSUME RegistryAssumption, RowsInv, NEW e \in Live, NEW row \in EntityRow, Agrees(row, rows[e]),
           rows' = [rows EXCEPT ![e] = row], UNCHANGED <<aliasOf, suppressed>>,
           NEW j, Informed(j)
    PROVE  Informed(j)'
<1>1. /\ Live' = Live
      /\ \A q \in Live : Agrees(rows'[q], rows[q])
      /\ \A k : At(k)' = At(k) /\ Resolves(k)' = Resolves(k)
  BY Overwritten
<1>2. ASSUME \A q \in At(j.key) : rows[q].origin # "suppressed", NEW q \in At(j.key)
      PROVE  rows'[q].origin # "suppressed"
  BY <1>1, <1>2 DEF Agrees, Corrected, At
<1>3. ASSUME j.id \in Live, Agrees(j.copy, rows[j.id])
      PROVE  Agrees(j.copy, rows'[j.id])
  BY <1>1, <1>3 DEF Agrees
<1> QED BY <1>1, <1>2, <1>3 DEF Informed, Creates

\* and so does the insertion of a row nobody corrected.
LEMMA InsertInforms ==
    ASSUME RegistryAssumption, RowsInv, NEW e \in Ids \ Live, NEW row \in EntityRow, ~Clash(e, row),
           NEW k0, k0 = KeyOf(row), aliasOf[k0] = 0, row.origin \notin Corrected,
           rows' = [rows EXCEPT ![e] = row], UNCHANGED <<aliasOf, suppressed>>,
           NEW j, Informed(j)
    PROVE  Informed(j)'
<1>0. UNCHANGED aliasOf
  OBVIOUS
<1>1. \A q \in Live : rows'[q] = rows[q] /\ q \in Live'
  BY <1>0, Inserted
<1>2. rows'[e] = row
  BY <1>0, Inserted
<1>3. At(k0) = {} /\ Resolves(k0) = {}
  <2>1. At(k0) = {}
    BY <1>0, Inserted
  <2>2. Resolves(k0) = {}
    BY <1>0, Inserted
  <2> QED BY <2>1, <2>2
<1>4. At(k0)' = {e} /\ Resolves(k0)' = {e}
  BY <1>0, Inserted
<1>5. j.key # k0 => At(j.key)' = At(j.key) /\ Resolves(j.key)' = Resolves(j.key)
  BY <1>0, InsertedElsewhere
<1>6. ASSUME aliasOf[j.key] = 0 \/ At(j.key) = {}
      PROVE  aliasOf'[j.key] = 0 \/ At(j.key)' = {}
  <2>1. CASE j.key = k0
    BY <2>1
  <2>2. CASE j.key # k0
    BY <1>5, <1>6, <2>2
  <2> QED BY <2>1, <2>2
<1>7. ASSUME \A q \in At(j.key) : rows[q].origin # "suppressed", NEW q \in At(j.key)'
      PROVE  rows'[q].origin # "suppressed"
  <2>1. CASE j.key = k0
    BY <1>2, <1>4, <2>1 DEF Corrected
  <2>2. CASE j.key # k0
    <3>1. q \in At(j.key) /\ q \in Live
      BY <1>5, <2>2 DEF At
    <3> QED BY <1>1, <1>7, <3>1
  <2> QED BY <2>1, <2>2
<1>8. ASSUME j.id \in Live, Agrees(j.copy, rows[j.id])
      PROVE  j.id \in Live' /\ Agrees(j.copy, rows'[j.id])
  BY <1>1, <1>8
<1>9. ASSUME Resolves(j.key) = {j.id}
      PROVE  Resolves(j.key)' = {j.id}
  BY <1>3, <1>5, <1>9
<1> QED BY <1>6, <1>7, <1>8, <1>9 DEF Informed, Creates

\* A correction changes nothing but the rows with these ids and the names with these keys.
Local(ids, ks) ==
    /\ \A e \in Live \ ids : rows'[e] = rows[e]
    /\ \A k \in Keys \ ks :
          /\ At(k)' = At(k) /\ \A e \in At(k) : rows'[e].origin = rows[e].origin
          /\ aliasOf[k] \notin ids => aliasOf'[k] = aliasOf[k]
          /\ k \in suppressed' => k \in suppressed

\* A correction leaves what a job knows true, unless the job holds what it touches.
LEMMA LocalInforms ==
    ASSUME RegistryAssumption, RowsInv, NEW ids \in SUBSET Ids, NEW ks, Local(ids, ks),
           NEW j \in JobRecord, JobSound(j), Informed(j),
           j.pc \in {"find", "alias", "save", "winner", "mention"} => j.id \notin ids /\ j.key \notin ks
    PROVE  Informed(j)'
<1>0. 0 \notin ids /\ NoEntity \notin EntityRow
  BY RowFields DEF Ids
<1>1. SUFFICES ASSUME j.pc \in {"find", "alias", "save", "winner", "mention"} PROVE Informed(j)'
  BY DEF Informed, Creates, JobRecord, JobPcs
<1>2. j.id \notin ids /\ j.key \in Keys \ ks
  BY <1>1 DEF JobSound
<1>3. /\ At(j.key)' = At(j.key) /\ \A e \in At(j.key) : rows'[e].origin = rows[e].origin
      /\ aliasOf[j.key] \notin ids => aliasOf'[j.key] = aliasOf[j.key]
      /\ j.key \in suppressed' => j.key \in suppressed
  BY <1>2 DEF Local
<1>4. ASSUME j.id \in Live
      PROVE  rows'[j.id] = rows[j.id] /\ j.id \in Live'
  <2>1. rows'[j.id] = rows[j.id]
    BY <1>2, <1>4 DEF Local
  <2> QED BY <1>4, <2>1 DEF Live
<1>5. ASSUME Resolves(j.key) = {j.id}
      PROVE  Resolves(j.key)' = {j.id}
  <2>1. CASE At(j.key) # {}
    BY <1>3, <1>5, <2>1 DEF Resolves
  <2>2. CASE At(j.key) = {}
    <3>1. aliasOf[j.key] = j.id
      BY <1>5, <2>2 DEF Resolves
    <3>2. aliasOf'[j.key] = j.id
      BY <1>2, <1>3, <3>1
    <3> QED BY <1>3, <1>5, <2>2, <3>1, <3>2 DEF Resolves
  <2> QED BY <2>1, <2>2
<1> QED BY <1>0, <1>3, <1>4, <1>5 DEF Informed, Creates
-----------------------------------------------------------------------------
\* What a job knows stays true while rows, aliases and suppressions stay.
LEMMA SameInforms ==
    ASSUME UNCHANGED <<rows, aliasOf, suppressed>>, NEW j, Informed(j)
    PROVE  Informed(j)'
<1>1. Live' = Live
  BY DEF Live
<1>2. \A k : At(k)' = At(k)
  BY <1>1 DEF At, KeyOf
<1>3. \A k : Resolves(k)' = Resolves(k)
  BY <1>2 DEF Resolves
<1> QED BY <1>1, <1>2, <1>3 DEF Informed, Creates, Agrees

\* All jobs know what they must if each of those that are not behind does.
LEMMA AllInformed ==
    ASSUME HoldersInv,
           \A y \in EntityRuns \ stale' : \A j : j = job'[y] => Informed(j)'
    PROVE  JobsKnow'
BY DEF JobsKnow

\* Mentions stay filed when no name moves,
LEMMA FiledStill ==
    ASSUME FiledWhereNamesLead, ~spoilt, moved' = moved,
           \A m \in mentions' : m \in mentions /\ job'[m[1]].key = job[m[1]].key,
           \A k \in Keys : Resolves(k) # {} => Resolves(k)' = Resolves(k),
           \A m \in mentions : job[m[1]].key \in Keys
    PROVE  FiledWhereNamesLead'
<1> SUFFICES ASSUME NEW m \in mentions', NEW k, k = job'[m[1]].key, k \notin moved
             PROVE  Resolves(k)' = {m[2]}
  BY DEF FiledWhereNamesLead
<1>1. m \in mentions /\ k = job[m[1]].key /\ k \in Keys
  OBVIOUS
<1>2. Resolves(k) = {m[2]}
  BY <1>1 DEF FiledWhereNamesLead
<1>3. Resolves(k)' = Resolves(k)
  BY <1>1, <1>2
<1> QED BY <1>2, <1>3

\* passes know their rows when rows change to ones that agree,
LEMMA PassesStill ==
    ASSUME PassesKnow, Live \subseteq Live', \A e \in Live : Agrees(rows'[e], rows[e]),
           pass' = pass, \A r \in Resolvers : r \notin stale' => r \notin stale
    PROVE  PassesKnow'
<1> SUFFICES ASSUME NEW r \in Resolvers \ stale', NEW e \in DOMAIN pass[r]
             PROVE  e \in Live' /\ Agrees(pass[r][e], rows'[e])
  BY DEF PassesKnow, Agrees, KeyOf
<1>1. e \in Live /\ Agrees(pass[r][e], rows[e])
  BY DEF PassesKnow
<1> QED BY <1>1, AgreesTrans

\* and so does the open form.
LEMMA EditStill ==
    ASSUME EditKnows, Live \subseteq Live', \A e \in Live : Agrees(rows'[e], rows[e]),
           edit' = edit, "user" \notin stale' => "user" \notin stale
    PROVE  EditKnows'
<1> SUFFICES ASSUME "user" \notin stale', edit # NoEdit
             PROVE  edit.id \in Live' /\ Agrees(edit.row, rows'[edit.id])
  BY DEF EditKnows, Agrees, KeyOf, NoEdit, NoEntity
<1>1. edit.id \in Live /\ Agrees(edit.row, rows[edit.id])
  BY DEF EditKnows
<1> QED BY <1>1, AgreesTrans

\* A row agrees with itself.
LEMMA AgreesSelf == ASSUME NEW row PROVE Agrees(row, row)
BY DEF Agrees

\* A step of one job that saves nothing keeps the invariant, if it leaves the job informed:
LEMMA GetsOn ==
    ASSUME RegistryAssumption, RegistryInv, NEW x \in EntityRuns, NEW j \in JobRecord, JobSound(j),
           j.id \in Born \cup {0}, job[x].pc # "done", job' = [job EXCEPT ![x] = j],
           UNCHANGED <<rows, aliasOf, suppressed, mentions, pass, edit, created, corrections, chosen,
                       moved, spoilt>>,
           stale' = stale \/ stale' = stale \ {x},
           x \notin stale' /\ ~spoilt => Informed(j)
    PROVE  RegistryInv'
<1>1. RowsInv' /\ Live' = Live
  BY Kept DEF RegistryInv, RowsInv, StoredTypes
<1>2. created \in Nat /\ created \in created .. MaxEntities
  BY RegistryAssumption DEF RegistryInv, RowsInv, StoredTypes
<1>3. HoldersInv'
  <2>1. j.id \in Born' \cup {0}
    BY DEF Born
  <2>2. mentions' = mentions /\ job[x].pc # "done"
    OBVIOUS
  <2>3. UNCHANGED <<pass, edit>> /\ created' \in created .. MaxEntities /\ HoldersInv /\ RowsInv
    BY <1>2 DEF RegistryInv
  <2> QED BY <2>1, <2>2, <2>3, JobMoves
<1>4. HistoryInv'
  BY DEF RegistryInv, HistoryInv
<1>5. /\ job \in [EntityRuns -> JobRecord] /\ job'[x] = j
      /\ \A y \in EntityRuns \ {x} : job'[y] = job[y]
  BY DEF RegistryInv, HoldersInv, JobsInv
<1>6. ASSUME ~spoilt PROVE JobsKnow' /\ PassesKnow' /\ EditKnows' /\ FiledWhereNamesLead'
  <2>1. JobsKnow /\ PassesKnow /\ EditKnows /\ FiledWhereNamesLead
    BY <1>6 DEF RegistryInv, Knowing
  <2>2. JobsKnow'
    <3> SUFFICES ASSUME NEW y \in EntityRuns \ stale', NEW i, i = job'[y] PROVE Informed(i)'
      BY AllInformed DEF RegistryInv
    <3>1. Informed(i)
      <4>1. CASE y = x
        BY <1>5, <1>6, <4>1
      <4>2. CASE y # x
        BY <1>5, <2>1, <4>2 DEF JobsKnow
      <4> QED BY <4>1, <4>2
    <3>2. UNCHANGED <<rows, aliasOf, suppressed>>
      OBVIOUS
    <3> QED BY <3>1, <3>2, SameInforms
  <2>3. \A e \in Live : Agrees(rows'[e], rows[e])
    BY AgreesSelf
  <2>4. PassesKnow'
    <3>1. \A r \in Resolvers : r \notin stale' => r \notin stale
      BY RegistryAssumption
    <3> QED BY <1>1, <2>1, <2>3, <3>1, PassesStill
  <2>5. EditKnows'
    <3>1. "user" \notin stale' => "user" \notin stale
      BY RegistryAssumption
    <3> QED BY <1>1, <2>1, <2>3, <3>1, EditStill
  <2>6. FiledWhereNamesLead'
    <3>1. \A m \in mentions : job[m[1]].pc = "done" /\ job[m[1]].key \in Keys /\ m[1] \in EntityRuns
      BY DEF RegistryInv, HoldersInv, MentionsDone, RowsInv, StoredTypes
    <3>2. \A m \in mentions' : m \in mentions /\ job'[m[1]].key = job[m[1]].key
      BY <1>5, <3>1
    <3>3. \A k : Resolves(k)' = Resolves(k)
      BY <1>1 DEF Resolves, At, KeyOf
    <3> QED BY <1>6, <2>1, <3>1, <3>2, <3>3, FiledStill
  <2> QED BY <2>2, <2>4, <2>5, <2>6
<1> QED BY <1>1, <1>3, <1>4, <1>6 DEF RegistryInv, Knowing
-----------------------------------------------------------------------------
\* its extraction is appended,
LEMMA ProvideStep ==
    ASSUME RegistryAssumption, RegistryInv, NEW x \in EntityRuns, Provide(x)
    PROVE  RegistryInv'
<1>1. PICK f \in Finds : job' = [job EXCEPT ![x] = Finding(f)]
  BY DEF Provide
<1>2. ASSUME NEW j, j = Finding(f) PROVE RegistryInv'
  <2>1. /\ j \in JobRecord /\ JobSound(j) /\ j.id \in Born \cup {0} /\ j.pc = "check"
    BY <1>2, FindingIs
  <2>2. Informed(j)
    BY <2>1 DEF Informed, Creates
  <2>3. job[x].pc # "done" /\ job' = [job EXCEPT ![x] = j] /\ stale' = stale
    BY <1>1, <1>2 DEF Provide
  <2>4. UNCHANGED <<rows, aliasOf, suppressed, mentions, pass, edit, created, corrections, chosen,
                    moved, spoilt>>
    BY DEF Provide
  <2> QED BY <2>1, <2>2, <2>3, <2>4, GetsOn
<1> QED BY <1>2

\* A job that no correction overtook knows what it must.
LEMMA Informs ==
    ASSUME RegistryInv, NEW x \in EntityRuns, x \notin stale, ~spoilt
    PROVE  Informed(job[x])
BY DEF RegistryInv, Knowing, JobsKnow

\* a job looks whether its name is suppressed,
LEMMA CheckStep ==
    ASSUME RegistryAssumption, RegistryInv, NEW x \in EntityRuns, Check(x)
    PROVE  RegistryInv'
<1>1. job[x] \in JobRecord /\ JobSound(job[x]) /\ job[x].pc = "check" /\ job[x].key \in Keys
  BY JobIs DEF RegistryInv, JobSound, Check
<1>2. UNCHANGED <<rows, aliasOf, suppressed, mentions, pass, edit, created, corrections, chosen,
                  moved, spoilt, stale>>
  BY DEF Check
<1>3. CASE job[x].key \in suppressed
  <2>1. job' = [job EXCEPT ![x] = Ended(job[x].key)]
    BY <1>3 DEF Check
  <2>2. ASSUME NEW j, j = Ended(job[x].key) PROVE RegistryInv'
    <3>1. j \in JobRecord /\ JobSound(j) /\ j.id = 0 /\ j.pc = "done"
      BY <1>1, <2>2, IdleJobIs
    <3>2. Informed(j)
      BY <3>1 DEF Informed, Creates
    <3> QED BY <1>1, <1>2, <2>1, <2>2, <3>1, <3>2, GetsOn
  <2> QED BY <2>2
<1>4. CASE job[x].key \notin suppressed
  <2>1. job' = [job EXCEPT ![x] = [job[x] EXCEPT !.pc = "find"]]
    BY <1>4 DEF Check
  <2>2. ASSUME NEW j, j = [job[x] EXCEPT !.pc = "find"] PROVE RegistryInv'
    <3>1. j \in JobRecord /\ j.id = job[x].id /\ j.pc = "find" /\ j.key = job[x].key
      BY <1>1, <2>2, JobTo DEF JobPcs
    <3>2. JobSound(j) /\ j.id = 0
      BY <1>1, <3>1 DEF JobSound
    <3>3. Informed(j)
      BY <1>4, <3>1 DEF Informed, Creates
    <3> QED BY <1>1, <1>2, <2>1, <2>2, <3>1, <3>2, <3>3, GetsOn
  <2> QED BY <2>2
<1> QED BY <1>3, <1>4

\* whether there is a row,
LEMMA FindRowStep ==
    ASSUME RegistryAssumption, RegistryInv, NEW x \in EntityRuns, FindRow(x)
    PROVE  RegistryInv'
<1>1. /\ job[x] \in JobRecord /\ JobSound(job[x]) /\ job[x].pc = "find" /\ job[x].key \in Keys
      /\ job[x].id = 0 /\ job \in [EntityRuns -> JobRecord]
  BY JobIs DEF RegistryInv, JobSound, FindRow, HoldersInv, JobsInv
<1>2. UNCHANGED <<rows, aliasOf, suppressed, mentions, pass, edit, created, corrections, chosen,
                  moved, spoilt, stale>>
  BY DEF FindRow
<1>3. x \notin stale /\ ~spoilt => job[x].key \notin suppressed
  BY <1>1, Informs DEF Informed
<1>4. CASE At(job[x].key) = {}
  <2>1. job' = [job EXCEPT ![x] = [job[x] EXCEPT !.pc = "alias"]]
    BY <1>1, <1>4 DEF FindRow
  <2>2. ASSUME NEW j, j = [job[x] EXCEPT !.pc = "alias"] PROVE RegistryInv'
    <3>1. j \in JobRecord /\ j.id = 0 /\ j.pc = "alias" /\ j.key = job[x].key
      BY <1>1, <2>2, JobTo DEF JobPcs
    <3>2. JobSound(j)
      BY <1>1, <3>1 DEF JobSound
    <3>3. x \notin stale /\ ~spoilt => Informed(j)
      BY <1>3, <1>4, <3>1 DEF Informed, Creates
    <3> QED BY <1>1, <1>2, <2>1, <2>2, <3>1, <3>2, <3>3, GetsOn
  <2> QED BY <2>2
<1>5. CASE At(job[x].key) # {}
  <2>1. PICK e \in At(job[x].key) :
           job' = [job EXCEPT ![x].pc = "save", ![x].id = e, ![x].copy = rows[e]]
    BY <1>5 DEF FindRow
  <2>2. job' = [job EXCEPT ![x] = [job[x] EXCEPT !.pc = "save", !.id = e, !.copy = rows[e]]]
    BY <1>1, <2>1
  <2>3. e \in Live /\ e \in Ids /\ KeyOf(rows[e]) = job[x].key /\ Resolves(job[x].key) = {e}
    BY OneAt DEF RegistryInv
  <2>4. rows[e] \in EntityRow /\ Sound(rows[e]) /\ e \in Born /\ e # 0
    BY <2>3, RowKey DEF RegistryInv, Ids
  <2>5. ASSUME NEW j, j = [job[x] EXCEPT !.pc = "save", !.id = e, !.copy = rows[e]] PROVE RegistryInv'
    <3>1. j \in JobRecord /\ j.id = e /\ j.pc = "save" /\ j.key = job[x].key /\ j.copy = rows[e]
      <4>1. "save" \in JobPcs /\ e \in Ids \cup {0} /\ rows[e] \in RowOrNone
        BY <2>3, <2>4 DEF JobPcs, RowOrNone
      <4> QED BY <1>1, <2>5, <4>1 DEF JobRecord
    <3>2. rows[e].type = job[x].key[1]
      BY <2>3 DEF KeyOf
    <3>3. JobSound(j)
      BY <1>1, <2>4, <3>1, <3>2 DEF JobSound
    <3>4. Informed(j)
      BY <2>3, <2>4, <3>1, AgreesSelf DEF Informed, Creates
    <3> QED BY <1>1, <1>2, <2>2, <2>4, <2>5, <3>1, <3>3, <3>4, GetsOn
  <2> QED BY <2>5
<1> QED BY <1>4, <1>5

\* and whether there is an alias.
LEMMA FindAliasStep ==
    ASSUME RegistryAssumption, RegistryInv, NEW x \in EntityRuns, FindAlias(x)
    PROVE  RegistryInv'
<1> DEFINE k == job[x].key
           e == aliasOf[k]
<1>1. /\ job[x] \in JobRecord /\ JobSound(job[x]) /\ job[x].pc = "alias" /\ k \in Keys
      /\ job[x].id = 0 /\ job \in [EntityRuns -> JobRecord]
  BY JobIs DEF RegistryInv, JobSound, FindAlias, HoldersInv, JobsInv
<1>2. UNCHANGED <<rows, aliasOf, suppressed, mentions, pass, edit, created, corrections, chosen,
                  moved, spoilt, stale>>
  BY DEF FindAlias
<1>3. x \notin stale /\ ~spoilt =>
         /\ k \notin suppressed /\ (e = 0 \/ At(k) = {})
         /\ \A q \in At(k) : rows[q].origin # "suppressed"
  BY <1>1, Informs DEF Informed
<1>4. e # 0 => e \in Live /\ e \in Ids /\ rows[e] \in EntityRow /\ Sound(rows[e]) /\ e \in Born
  <2>1. e \in Live \cup {0}
    BY <1>1 DEF RegistryInv, RowsInv, StoredTypes
  <2> QED BY <2>1, RowKey DEF RegistryInv
<1>5. e # 0 /\ x \notin stale /\ ~spoilt => Resolves(k) = {e}
  BY <1>3 DEF Resolves
<1>6. CASE e = 0
  <2>1. job' = [job EXCEPT ![x] = [job[x] EXCEPT !.pc = "save", !.copy = NewRow(k)]]
    BY <1>6 DEF FindAlias
  <2>2. ASSUME NEW j, j = [job[x] EXCEPT !.pc = "save", !.copy = NewRow(k)] PROVE RegistryInv'
    <3>1. /\ NewRow(k) \in EntityRow /\ Sound(NewRow(k)) /\ KeyOf(NewRow(k)) = k
          /\ NewRow(k).type = k[1] /\ NewRow(k).origin = None
      BY <1>1, NewRowIs
    <3>2. j \in JobRecord /\ j.id = 0 /\ j.pc = "save" /\ j.key = k /\ j.copy = NewRow(k)
      <4>1. "save" \in JobPcs /\ NewRow(k) \in RowOrNone
        BY <3>1 DEF JobPcs, RowOrNone
      <4> QED BY <1>1, <2>2, <4>1 DEF JobRecord
    <3>3. JobSound(j)
      BY <1>1, <3>1, <3>2 DEF JobSound
    <3>4. x \notin stale /\ ~spoilt => Informed(j)
      BY <1>3, <1>6, <3>1, <3>2 DEF Informed, Creates
    <3> QED BY <1>1, <1>2, <2>1, <2>2, <3>2, <3>3, <3>4, GetsOn
  <2> QED BY <2>2
<1>7. CASE e # 0 /\ rows[e].type # k[1]
  <2>1. job' = [job EXCEPT ![x] = [job[x] EXCEPT !.pc = "mention", !.id = e, !.forms = {}]]
    BY <1>7 DEF FindAlias
  <2>2. ASSUME NEW j, j = [job[x] EXCEPT !.pc = "mention", !.id = e, !.forms = {}] PROVE RegistryInv'
    <3>1. j \in JobRecord /\ j.id = e /\ j.pc = "mention" /\ j.key = k
      <4>1. "mention" \in JobPcs /\ e \in Ids \cup {0} /\ {} \in SUBSET Names
        BY <1>4, <1>7 DEF JobPcs
      <4> HIDE DEF e
      <4> QED BY <1>1, <2>2, <4>1 DEF JobRecord
    <3>2. JobSound(j)
      BY <1>1, <1>7, <3>1 DEF JobSound
    <3>3. x \notin stale /\ ~spoilt => Informed(j)
      BY <1>5, <1>7, <3>1 DEF Informed, Creates
    <3> QED BY <1>1, <1>2, <1>4, <1>7, <2>1, <2>2, <3>1, <3>2, <3>3, GetsOn
  <2> QED BY <2>2
<1>8. CASE e # 0 /\ rows[e].type = k[1]
  <2>1. job' = [job EXCEPT ![x] = [job[x] EXCEPT !.pc = "save", !.id = e, !.copy = rows[e]]]
    BY <1>8 DEF FindAlias
  <2>2. ASSUME NEW j, j = [job[x] EXCEPT !.pc = "save", !.id = e, !.copy = rows[e]] PROVE RegistryInv'
    <3>1. j \in JobRecord /\ j.id = e /\ j.pc = "save" /\ j.key = k /\ j.copy = rows[e]
      <4>1. "save" \in JobPcs /\ e \in Ids \cup {0} /\ rows[e] \in RowOrNone
        BY <1>4, <1>8 DEF JobPcs, RowOrNone
      <4> HIDE DEF e
      <4> QED BY <1>1, <2>2, <4>1 DEF JobRecord
    <3>2. JobSound(j)
      BY <1>1, <1>4, <1>8, <3>1 DEF JobSound
    <3>3. x \notin stale /\ ~spoilt => Informed(j)
      BY <1>4, <1>5, <1>8, <3>1, AgreesSelf DEF Informed, Creates
    <3> QED BY <1>1, <1>2, <1>4, <1>8, <2>1, <2>2, <3>1, <3>2, <3>3, GetsOn
  <2> QED BY <2>2
<1> QED BY <1>6, <1>7, <1>8
-----------------------------------------------------------------------------
\* Agreement goes both ways.
LEMMA AgreesSym == ASSUME NEW a, NEW b, Agrees(a, b) PROVE Agrees(b, a)
BY DEF Agrees

\* A faithful save leaves what jobs know true,
LEMMA FaithfulInforms ==
    ASSUME RegistryAssumption, RowsInv, NEW e \in Ids, NEW row \in EntityRow, ~Clash(e, row),
           Faithful(e, row), rows' = [rows EXCEPT ![e] = row], UNCHANGED <<aliasOf, suppressed>>,
           NEW j, Informed(j)
    PROVE  Informed(j)'
<1>1. CASE e \in Live
  BY <1>1, OverwriteInforms DEF Faithful
<1>2. CASE e \notin Live
  <2>1. e \in Ids \ Live /\ KeyOf(row) \notin suppressed /\ aliasOf[KeyOf(row)] = 0
        /\ row.origin \notin Corrected
    BY <1>2 DEF Faithful
  <2>2. ASSUME NEW k0, k0 = KeyOf(row) PROVE Informed(j)'
    BY <2>1, <2>2, InsertInforms
  <2> QED BY <2>2
<1> QED BY <1>1, <1>2

\* changes rows to ones that agree,
LEMMA FaithfulAgrees ==
    ASSUME RegistryAssumption, RowsInv, NEW e \in Ids, NEW row \in EntityRow, ~Clash(e, row),
           Faithful(e, row), rows' = [rows EXCEPT ![e] = row], UNCHANGED <<aliasOf, suppressed>>
    PROVE  Live \subseteq Live' /\ \A q \in Live : Agrees(rows'[q], rows[q])
<1>1. CASE e \in Live
  BY <1>1, Overwritten DEF Faithful
<1>2. CASE e \notin Live
  <2>1. e \in Ids \ Live /\ aliasOf[KeyOf(row)] = 0
    BY <1>2 DEF Faithful
  <2>2. ASSUME NEW k0, k0 = KeyOf(row) PROVE \A q \in Live : rows'[q] = rows[q] /\ q \in Live'
    BY <2>1, <2>2, Inserted
  <2> QED BY <2>2, AgreesSelf
<1> QED BY <1>1, <1>2

\* and moves no name that led anywhere.
LEMMA FaithfulResolves ==
    ASSUME RegistryAssumption, RowsInv, NEW e \in Ids, NEW row \in EntityRow, ~Clash(e, row),
           Faithful(e, row), rows' = [rows EXCEPT ![e] = row], UNCHANGED <<aliasOf, suppressed>>,
           NEW k, Resolves(k) # {}
    PROVE  Resolves(k)' = Resolves(k)
<1>1. CASE e \in Live
  BY <1>1, Overwritten DEF Faithful
<1>2. CASE e \notin Live
  <2>1. e \in Ids \ Live /\ aliasOf[KeyOf(row)] = 0
    BY <1>2 DEF Faithful
  <2>2. ASSUME NEW k0, k0 = KeyOf(row) PROVE Resolves(k)' = Resolves(k)
    <3>1. aliasOf[k0] = 0 /\ UNCHANGED aliasOf
      BY <2>1, <2>2
    <3>2. Resolves(k0) = {}
      BY <2>1, <2>2, <3>1, Inserted
    <3>3. k # k0
      BY <3>2
    <3> QED BY <2>1, <2>2, <3>1, <3>3, InsertedElsewhere
  <2> QED BY <2>2
<1> QED BY <1>1, <1>2

\* What CorrectionsHold asks of a step.
CorrectionsKept ==
    /\ \A e \in Live :
          /\ KeyOf(rows'[e]) = KeyOf(rows[e])
          /\ rows[e].origin \in {"manual", "suppressed"} =>
                /\ rows'[e].contact = rows[e].contact
                /\ rows'[e].origin = rows[e].origin
    /\ \A e \in Ids \ Live : rows'[e] # NoEntity =>
          KeyOf(rows'[e]) \notin suppressed /\ aliasOf[KeyOf(rows'[e])] = 0
Obeys == ~spoilt' => CorrectionsKept

\* Rows that do not change are kept,
LEMMA UnchangedObeys == ASSUME rows' = rows PROVE Obeys
BY DEF Obeys, CorrectionsKept, Live

\* and so are the corrections by a faithful save.
LEMMA FaithfulObeys ==
    ASSUME RegistryAssumption, RowsInv, NEW e \in Ids, NEW row \in EntityRow,
           rows' = [rows EXCEPT ![e] = row], ~spoilt' => Faithful(e, row)
    PROVE  Obeys
<1> SUFFICES ASSUME Faithful(e, row) PROVE CorrectionsKept
  BY DEF Obeys
<1>1. rows'[e] = row /\ \A q \in Ids \ {e} : rows'[q] = rows[q]
  BY DEF RowsInv, StoredTypes
<1>2. ASSUME NEW q \in Live
      PROVE  /\ KeyOf(rows'[q]) = KeyOf(rows[q])
             /\ rows[q].origin \in {"manual", "suppressed"} =>
                   rows'[q].contact = rows[q].contact /\ rows'[q].origin = rows[q].origin
  <2>1. q \in Ids
    BY DEF Live
  <2>2. CASE q = e
    BY <1>1, <2>2 DEF Faithful, Agrees, Corrected
  <2>3. CASE q # e
    BY <1>1, <2>1, <2>3
  <2> QED BY <2>2, <2>3
<1>3. ASSUME NEW q \in Ids \ Live, rows'[q] # NoEntity
      PROVE  KeyOf(rows'[q]) \notin suppressed /\ aliasOf[KeyOf(rows'[q])] = 0
  <2>1. CASE q = e
    BY <1>1, <1>3, <2>1 DEF Faithful
  <2>2. CASE q # e
    BY <1>1, <1>3, <2>2 DEF Live
  <2> QED BY <2>1, <2>2
<1> QED BY <1>2, <1>3 DEF CorrectionsKept

\* A job that saves faithfully keeps the invariant and the corrections.
LEMMA Saves ==
    ASSUME RegistryAssumption, RegistryInv, NEW x \in EntityRuns, NEW e \in Ids,
           NEW row \in EntityRow, Sound(row), ~Clash(e, row), Save(x, e, row),
           created' \in created .. MaxEntities, e \in 1 .. created',
           NEW j \in JobRecord, JobSound(j), j.id = e, j.pc = "mention",
           job[x].pc # "done", job' = [job EXCEPT ![x] = j],
           UNCHANGED <<aliasOf, suppressed, mentions, pass, edit, corrections, chosen, moved, stale>>,
           x \notin stale /\ ~spoilt => Faithful(e, row),
           x \notin stale /\ ~spoilt => Resolves(j.key)' = {e}
    PROVE  RegistryInv' /\ Obeys
<1>1. rows' = [rows EXCEPT ![e] = row] /\ spoilt' = (spoilt \/ x \in stale)
  BY DEF Save
<1>2. RowsInv' /\ Live' = Live \cup {e}
  <2>1. corrections' \in 0 .. MaxCorrections /\ mentions' \subseteq EntityRuns \X Live
    BY DEF RegistryInv, RowsInv, StoredTypes
  <2> QED BY <1>1, <2>1, SavedRow DEF RegistryInv
<1>3. HoldersInv'
  <2>1. j.id \in Born' \cup {0}
    BY DEF Born
  <2> QED BY <2>1, JobMoves DEF RegistryInv
<1>4. HistoryInv'
  BY <1>1 DEF RegistryInv, HistoryInv
<1>5. /\ job \in [EntityRuns -> JobRecord] /\ job'[x] = j
      /\ \A y \in EntityRuns \ {x} : job'[y] = job[y]
  BY DEF RegistryInv, HoldersInv, JobsInv
<1>6. ASSUME ~spoilt' PROVE JobsKnow' /\ PassesKnow' /\ EditKnows' /\ FiledWhereNamesLead'
  <2>1. x \notin stale /\ ~spoilt
    BY <1>1, <1>6 DEF RegistryInv, HistoryInv
  <2>2. JobsKnow /\ PassesKnow /\ EditKnows /\ FiledWhereNamesLead /\ Faithful(e, row)
    BY <2>1 DEF RegistryInv, Knowing
  <2>3. Live \subseteq Live' /\ \A q \in Live : Agrees(rows'[q], rows[q])
    BY <1>1, <2>2, FaithfulAgrees DEF RegistryInv
  <2>4. JobsKnow'
    <3> SUFFICES ASSUME NEW y \in EntityRuns \ stale', NEW i, i = job'[y] PROVE Informed(i)'
      BY AllInformed DEF RegistryInv
    <3>1. CASE y = x
      <4>1. i = j /\ e \in Live'
        BY <1>2, <1>5, <3>1
      <4>2. Resolves(i.key)' = {e}
        BY <2>1, <4>1
      <4> QED BY <4>1, <4>2 DEF Informed, Creates
    <3>2. CASE y # x
      <4>1. Informed(i)
        BY <1>5, <2>2, <3>2 DEF JobsKnow
      <4> QED BY <1>1, <2>2, <4>1, FaithfulInforms DEF RegistryInv
    <3> QED BY <3>1, <3>2
  <2>5. PassesKnow'
    BY <2>2, <2>3, PassesStill
  <2>6. EditKnows'
    BY <2>2, <2>3, EditStill
  <2>7. FiledWhereNamesLead'
    <3>1. \A m \in mentions : job[m[1]].pc = "done" /\ job[m[1]].key \in Keys /\ m[1] \in EntityRuns
      BY DEF RegistryInv, HoldersInv, MentionsDone, RowsInv, StoredTypes
    <3>2. \A m \in mentions' : m \in mentions /\ job'[m[1]].key = job[m[1]].key
      BY <1>5, <3>1
    <3>3. \A k \in Keys : Resolves(k) # {} => Resolves(k)' = Resolves(k)
      BY <1>1, <2>2, FaithfulResolves DEF RegistryInv
    <3> QED BY <2>1, <2>2, <3>1, <3>2, <3>3, FiledStill
  <2> QED BY <2>4, <2>5, <2>6, <2>7
<1>7. Obeys
  <2>1. ~spoilt' => Faithful(e, row)
    BY <1>1 DEF RegistryInv, HistoryInv
  <2> QED BY <1>1, <2>1, FaithfulObeys DEF RegistryInv
<1> QED BY <1>2, <1>3, <1>4, <1>6, <1>7 DEF RegistryInv, Knowing
-----------------------------------------------------------------------------
\* The row a job makes of its copy agrees with the copy.
LEMMA MadeRow ==
    ASSUME RegistryAssumption, RegistryInv, NEW x \in EntityRuns, job[x].pc = "save",
           NEW row \in Matched(Accreted(job[x].copy, job[x].key[2], job[x].forms))
    PROVE  /\ job[x].key \in Keys /\ job[x].copy \in EntityRow
           /\ row \in EntityRow /\ Sound(row) /\ row.type = job[x].key[1]
           /\ Agrees(row, job[x].copy)
           /\ job[x].copy.origin \notin Corrected => row.origin \notin Corrected
<1> DEFINE copy == job[x].copy
           k == job[x].key
           acc == Accreted(copy, k[2], job[x].forms)
<1>1. k \in Keys /\ copy \in EntityRow /\ Sound(copy) /\ copy.type = k[1]
      /\ job[x].forms \in SUBSET Names
  BY JobIs DEF RegistryInv, JobSound
<1>2. k[2] \in Names
  BY <1>1 DEF Keys
<1>3. /\ acc \in EntityRow /\ KeyOf(acc) = KeyOf(copy) /\ acc.type = copy.type
      /\ acc.contact = copy.contact /\ acc.origin = copy.origin
  <2> HIDE DEF copy, k
  <2> QED BY <1>1, <1>2, AccretedRow
<1>4. Sound(acc) /\ Agrees(acc, copy)
  BY <1>1, <1>3 DEF Sound, Agrees
<1>5. /\ row \in EntityRow /\ Sound(row) /\ row.type = acc.type /\ Agrees(row, acc)
      /\ acc.origin \notin Corrected => row.origin \notin Corrected
  <2> HIDE DEF acc
  <2>1. row \in Matched(acc)
    BY DEF acc
  <2> QED BY <1>3, <1>4, <2>1, MatchedRow
<1>6. Agrees(row, copy)
  BY <1>4, <1>5, AgreesSym, AgreesTrans
<1> QED BY <1>1, <1>3, <1>5, <1>6

\* A job upserts its entity,
LEMMA UpsertStep ==
    ASSUME RegistryAssumption, RegistryInv, NEW x \in EntityRuns, Upsert(x)
    PROVE  RegistryInv' /\ Obeys
<1> DEFINE k == job[x].key
           e == IF job[x].id # 0 THEN job[x].id ELSE created + 1
<1>1. PICK row \in Matched(Accreted(job[x].copy, k[2], job[x].forms)) :
         IF Clash(e, row)
         THEN /\ job' = [job EXCEPT ![x].pc = "winner", ![x].copy = row]
              /\ UNCHANGED <<rows, created, spoilt>>
         ELSE /\ Save(x, e, row)
              /\ created' = IF e > created THEN e ELSE created
              /\ job' = [job EXCEPT ![x] = [job[x] EXCEPT !.pc = "mention", !.id = e,
                                                  !.copy = NoEntity, !.forms = {}]]
  BY DEF Upsert
<1>2. /\ job[x] \in JobRecord /\ JobSound(job[x]) /\ job[x].pc = "save"
      /\ job \in [EntityRuns -> JobRecord] /\ job[x].id \in Born \cup {0} /\ e \in Ids
  BY JobIs DEF RegistryInv, Upsert, HoldersInv, JobsInv
<1>3. /\ k \in Keys /\ job[x].copy \in EntityRow
      /\ row \in EntityRow /\ Sound(row) /\ row.type = k[1]
      /\ Agrees(row, job[x].copy)
      /\ job[x].copy.origin \notin Corrected => row.origin \notin Corrected
  BY <1>2, MadeRow
<1>4. UNCHANGED <<aliasOf, suppressed, mentions, pass, edit, corrections, chosen, moved, stale>>
  BY DEF Upsert
<1>5. KeyOf(row) = KeyOf(job[x].copy)
  BY <1>3 DEF Agrees
<1>6. ASSUME x \notin stale, ~spoilt, job[x].id # 0
      PROVE  /\ e = job[x].id /\ e \in Live /\ Agrees(row, rows[e]) /\ Resolves(k) = {e}
             /\ ~Clash(e, row)
  <2>1. e = job[x].id /\ e \in Live /\ Agrees(job[x].copy, rows[e]) /\ Resolves(k) = {e}
    BY <1>2, <1>6, Informs DEF Informed
  <2>2. Agrees(row, rows[e])
    BY <1>3, <2>1, AgreesSym, AgreesTrans
  <2>3. KeyOf(row) = KeyOf(rows[e])
    BY <2>2 DEF Agrees
  <2>4. ~Clash(e, row)
    BY <2>1, <2>3 DEF Clash, RegistryInv, RowsInv, UniqueKeys
  <2> QED BY <2>1, <2>2, <2>4
<1>7. ASSUME x \notin stale, ~spoilt, job[x].id = 0
      PROVE  /\ KeyOf(row) = k /\ k \notin suppressed /\ aliasOf[k] = 0 /\ row.origin \notin Corrected
             /\ \A q \in At(k) : rows[q].origin # "suppressed"
  <2>1. /\ KeyOf(job[x].copy) = k /\ job[x].copy.origin = None /\ aliasOf[k] = 0
        /\ k \notin suppressed /\ \A q \in At(k) : rows[q].origin # "suppressed"
    BY <1>2, <1>7, Informs DEF Informed, Creates
  <2> QED BY <1>3, <1>5, <2>1 DEF Corrected, None
<1>8. CASE Clash(e, row)
  <2>1. job' = [job EXCEPT ![x] = [job[x] EXCEPT !.pc = "winner", !.copy = row]]
    BY <1>1, <1>2, <1>8
  <2>2. UNCHANGED <<rows, created, spoilt>>
    BY <1>1, <1>8
  <2>3. ASSUME NEW j, j = [job[x] EXCEPT !.pc = "winner", !.copy = row] PROVE RegistryInv' /\ Obeys
    <3>1. j \in JobRecord /\ j.id = job[x].id /\ j.pc = "winner" /\ j.key = k /\ j.copy = row
      <4>1. "winner" \in JobPcs /\ row \in RowOrNone
        BY <1>3 DEF JobPcs, RowOrNone
      <4> QED BY <1>2, <2>3, <4>1 DEF JobRecord
    <3>2. JobSound(j)
      BY <1>3, <3>1 DEF JobSound
    <3>3. x \notin stale /\ ~spoilt => Informed(j)
      BY <1>6, <1>7, <1>8, <3>1 DEF Informed, Creates
    <3> QED BY <1>2, <1>4, <2>1, <2>2, <2>3, <3>1, <3>2, <3>3, GetsOn, UnchangedObeys
  <2> QED BY <2>3
<1>9. CASE ~Clash(e, row)
  <2>1. /\ Save(x, e, row) /\ created' = IF e > created THEN e ELSE created
        /\ job' = [job EXCEPT ![x] = [job[x] EXCEPT !.pc = "mention", !.id = e,
                                                 !.copy = NoEntity, !.forms = {}]]
    BY <1>1, <1>9
  <2>2. created' \in created .. MaxEntities /\ e \in 1 .. created'
    BY <1>2, <2>1, RegistryAssumption DEF RegistryInv, RowsInv, StoredTypes, Ids
  <2>3. ASSUME NEW j, j = [job[x] EXCEPT !.pc = "mention", !.id = e, !.copy = NoEntity, !.forms = {}]
        PROVE  RegistryInv' /\ Obeys
    <3>1. j \in JobRecord /\ j.id = e /\ j.pc = "mention" /\ j.key = k
      <4>1. "mention" \in JobPcs /\ NoEntity \in RowOrNone /\ e \in Ids \cup {0} /\ {} \in SUBSET Names
        BY <1>2 DEF JobPcs, RowOrNone
      <4> HIDE DEF e
      <4> QED BY <1>2, <2>3, <4>1 DEF JobRecord
    <3>2. JobSound(j)
      BY <1>2, <1>3, <3>1 DEF JobSound, Ids
    <3>3. ASSUME x \notin stale, ~spoilt, NEW n, n = k
          PROVE  Faithful(e, row) /\ Resolves(n)' = {e}
      <4> HIDE DEF e
      <4>1. CASE job[x].id # 0
        <5>1. e \in Live /\ Agrees(row, rows[e]) /\ Resolves(n) = {e}
          BY <1>6, <3>3, <4>1
        <5>2. Faithful(e, row)
          BY <5>1 DEF Faithful
        <5>3. rows' = [rows EXCEPT ![e] = row] /\ UNCHANGED <<aliasOf, suppressed>>
          BY <1>4, <2>1 DEF Save
        <5>4. Resolves(n)' = Resolves(n)
          BY <1>2, <1>3, <1>9, <5>1, <5>2, <5>3, FaithfulResolves DEF RegistryInv
        <5> QED BY <5>1, <5>2, <5>4
      <4>2. CASE job[x].id = 0
        <5>1. KeyOf(row) = n /\ n \notin suppressed /\ aliasOf[n] = 0 /\ row.origin \notin Corrected
          BY <1>7, <3>3, <4>2
        <5>2. e \in Ids \ Live
          BY <1>2, <4>2, RegistryAssumption DEF e, RegistryInv, RowsInv, RowsSound, Born,
             StoredTypes
        <5>3. Faithful(e, row)
          BY <5>1, <5>2 DEF Faithful
        <5>4. rows' = [rows EXCEPT ![e] = row] /\ UNCHANGED aliasOf
          BY <1>4, <2>1 DEF Save
        <5>5. Resolves(n)' = {e}
          <6>1. RowsInv /\ row \in EntityRow /\ ~Clash(e, row) /\ n = KeyOf(row) /\ aliasOf[n] = 0
            BY <1>3, <1>9, <5>1 DEF RegistryInv
          <6> QED BY <5>2, <5>4, <6>1, Inserted
        <5> QED BY <5>3, <5>5
      <4> QED BY <4>1, <4>2
    <3>4. ASSUME x \notin stale, ~spoilt PROVE Resolves(j.key)' = {e}
      <4>1. ASSUME NEW n, n = k PROVE Resolves(n)' = {e}
        BY <3>3, <3>4, <4>1
      <4> HIDE DEF e
      <4> QED BY <3>1, <4>1
    <3>5. x \notin stale /\ ~spoilt => Faithful(e, row)
      BY <3>3
    <3> HIDE DEF e
    <3> QED BY <1>2, <1>3, <1>4, <1>9, <2>1, <2>2, <2>3, <3>1, <3>2, <3>4, <3>5, Saves
  <2> QED BY <2>3
<1> QED BY <1>8, <1>9

\* it fails,
LEMMA JobFailsStep ==
    ASSUME RegistryAssumption, RegistryInv, NEW x \in EntityRuns, JobFails(x), job[x].pc # "done",
           UNCHANGED <<rows, aliasOf, suppressed, mentions, pass, edit, created, corrections, chosen,
                       moved, spoilt>>
    PROVE  RegistryInv'
<1> SUFFICES ASSUME NEW j, j = IdleJob PROVE RegistryInv'
  OBVIOUS
<1>1. j \in JobRecord /\ JobSound(j) /\ j.pc = "idle" /\ j.id = 0
  BY IdleJobIs
<1>2. Informed(j)
  BY <1>1 DEF Informed, Creates
<1>3. job' = [job EXCEPT ![x] = j] /\ stale' = stale \ {x}
  BY DEF JobFails
<1> QED BY <1>1, <1>2, <1>3, GetsOn

\* another won the race for its key and it saves over the winner,
LEMMA UpsertWinnerStep ==
    ASSUME RegistryAssumption, RegistryInv, NEW x \in EntityRuns, UpsertWinner(x)
    PROVE  RegistryInv' /\ Obeys
<1> DEFINE k == job[x].key
           copy == job[x].copy
<1>1. /\ job[x] \in JobRecord /\ JobSound(job[x]) /\ job[x].pc = "winner"
      /\ job \in [EntityRuns -> JobRecord] /\ k \in Keys /\ copy \in EntityRow /\ Sound(copy)
      /\ copy.type = k[1]
  BY JobIs DEF RegistryInv, UpsertWinner, HoldersInv, JobsInv, JobSound
<1>2. UNCHANGED <<aliasOf, suppressed, mentions, pass, edit, created, corrections, chosen, moved>>
  BY DEF UpsertWinner
<1>3. CASE At(k) = {}
  <2>1. JobFails(x) /\ UNCHANGED <<rows, spoilt>>
    BY <1>3 DEF UpsertWinner
  <2> QED BY <1>1, <1>2, <2>1, JobFailsStep, UnchangedObeys
<1>4. CASE At(k) # {}
  <2>1. PICK e \in At(k) :
           LET w == [rows[e] EXCEPT !.aliases = (@ \cup copy.aliases) \ {rows[e].label}] IN
           /\ Save(x, e, IF w.contact = None /\ copy.contact # None
                         THEN [w EXCEPT !.contact = copy.contact, !.origin = copy.origin] ELSE w)
           /\ job' = [job EXCEPT ![x] = [job[x] EXCEPT !.pc = "mention", !.id = e,
                                                    !.copy = NoEntity, !.forms = {}]]
           /\ stale' = stale
    BY <1>4 DEF UpsertWinner
  <2> DEFINE w == [rows[e] EXCEPT !.aliases = (@ \cup copy.aliases) \ {rows[e].label}]
             new == IF w.contact = None /\ copy.contact # None
                    THEN [w EXCEPT !.contact = copy.contact, !.origin = copy.origin] ELSE w
  <2>2. /\ e \in Live /\ e \in Ids /\ KeyOf(rows[e]) = k /\ rows[e] \in EntityRow /\ Sound(rows[e])
        /\ e \in Born /\ Resolves(k) = {e}
    BY OneAt, RowKey DEF RegistryInv
  <2>3. /\ w \in EntityRow /\ w.type = rows[e].type /\ w.name = rows[e].name
        /\ w.contact = rows[e].contact /\ w.origin = rows[e].origin
    <3>1. copy.aliases \subseteq Names /\ rows[e].aliases \subseteq Names
      BY <1>1, <2>2, RowFields
    <3> HIDE DEF copy
    <3> QED BY <2>2, <3>1 DEF EntityRow
  <2>4. rows[e].type = copy.type
    BY <1>1, <2>2 DEF KeyOf
  <2>5. ASSUME w.contact = None, copy.contact # None
        PROVE  /\ new \in EntityRow /\ new.type = w.type /\ new.name = w.name
               /\ new.contact = copy.contact /\ new.origin = copy.origin
    <3>1. /\ copy.contact \in Contacts \cup {None}
          /\ copy.origin \in {None, "auto", "manual", "suppressed"}
          /\ copy.type = "person"
      BY <1>1, <2>5, RowFields
    <3>2. w.type = "person"
      BY <2>3, <2>4, <3>1
    <3>3. new = [w EXCEPT !.contact = copy.contact, !.origin = copy.origin]
      BY <2>5
    <3> HIDE DEF w, new, copy
    <3> QED BY <2>3, <3>1, <3>2, <3>3 DEF EntityRow
  <2>6. new \in EntityRow /\ KeyOf(new) = k /\ Sound(new)
    <3>1. CASE w.contact = None /\ copy.contact # None
      <4> HIDE DEF w, new, copy
      <4> QED BY <1>1, <2>2, <2>3, <2>4, <2>5, <3>1 DEF KeyOf, Sound
    <3>2. CASE ~(w.contact = None /\ copy.contact # None)
      <4>1. new = w
        BY <3>2
      <4> HIDE DEF w, new, copy
      <4> QED BY <2>2, <2>3, <4>1 DEF KeyOf, Sound
    <3> QED BY <3>1, <3>2
  <2>7. ASSUME x \notin stale, ~spoilt PROVE Faithful(e, new)
    <3>1. rows[e].origin # "suppressed" /\ copy.origin \notin Corrected
      BY <1>1, <2>7, Informs DEF Informed
    <3>2. CASE w.contact = None /\ copy.contact # None
      <4>1. rows[e].origin \notin Corrected
        BY <2>2, <2>3, <3>1, <3>2 DEF Sound, Corrected
      <4>2. new.origin = copy.origin
        BY <2>5, <3>2
      <4> HIDE DEF w, new, copy
      <4> QED BY <2>2, <2>6, <3>1, <4>1, <4>2 DEF Faithful, Agrees
    <3>3. CASE ~(w.contact = None /\ copy.contact # None)
      <4>1. new = w
        BY <3>3
      <4> HIDE DEF w, new, copy
      <4> QED BY <2>2, <2>3, <2>6, <4>1 DEF Faithful, Agrees
    <3> QED BY <3>2, <3>3
  <2>8. ~Clash(e, new)
    <3> HIDE DEF new
    <3> QED BY <2>2, <2>6 DEF Clash, RegistryInv, RowsInv, UniqueKeys
  <2>9. Save(x, e, new)
    BY <2>1
  <2>10. created' \in created .. MaxEntities /\ e \in 1 .. created'
    BY <1>2, <2>2, RegistryAssumption DEF RegistryInv, RowsInv, StoredTypes, Born
  <2> HIDE DEF new, w, copy
  <2>11. ASSUME NEW n, n = k, x \notin stale, ~spoilt PROVE Resolves(n)' = {e}
    <3>1. rows' = [rows EXCEPT ![e] = new] /\ UNCHANGED <<aliasOf, suppressed>>
      BY <1>2, <2>9 DEF Save
    <3>2. Resolves(n) = {e} /\ Faithful(e, new)
      BY <2>2, <2>7, <2>11
    <3>3. Resolves(n)' = Resolves(n)
      BY <2>2, <2>6, <2>8, <3>1, <3>2, FaithfulResolves DEF RegistryInv
    <3> QED BY <3>2, <3>3
  <2>12. ASSUME NEW j, j = [job[x] EXCEPT !.pc = "mention", !.id = e, !.copy = NoEntity, !.forms = {}]
         PROVE  RegistryInv' /\ Obeys
    <3>1. j \in JobRecord /\ j.id = e /\ j.pc = "mention" /\ j.key = k
      <4>1. "mention" \in JobPcs /\ NoEntity \in RowOrNone /\ e \in Ids \cup {0} /\ {} \in SUBSET Names
        BY <2>2 DEF JobPcs, RowOrNone
      <4> QED BY <1>1, <2>12, <4>1 DEF JobRecord
    <3>2. JobSound(j)
      BY <1>1, <2>2, <3>1 DEF JobSound, Ids
    <3>3. ASSUME x \notin stale, ~spoilt PROVE Resolves(j.key)' = {e}
      BY <2>11, <3>1, <3>3
    <3>4. job' = [job EXCEPT ![x] = j] /\ stale' = stale
      BY <2>1, <2>12
    <3> QED BY <1>1, <1>2, <2>2, <2>6, <2>7, <2>8, <2>9, <2>10, <3>1, <3>2, <3>3, <3>4, Saves
  <2> QED BY <2>1, <2>12
<1> QED BY <1>3, <1>4

\* it files its mention.
LEMMA MentionStep ==
    ASSUME RegistryAssumption, RegistryInv, NEW x \in EntityRuns, Mention(x)
    PROVE  RegistryInv'
<1>1. /\ job[x] \in JobRecord /\ JobSound(job[x]) /\ job[x].pc = "mention"
      /\ job \in [EntityRuns -> JobRecord] /\ job[x].key \in Keys
  BY JobIs DEF RegistryInv, Mention, HoldersInv, JobsInv, JobSound
<1>2. UNCHANGED <<rows, aliasOf, suppressed, pass, edit, created, corrections, chosen, moved>>
  BY DEF Mention
<1>3. CASE job[x].id \notin Live
  <2>1. JobFails(x) /\ UNCHANGED <<mentions, spoilt>>
    BY <1>3 DEF Mention
  <2> QED BY <1>1, <1>2, <2>1, JobFailsStep
<1>4. CASE job[x].id \in Live
  <2>1. /\ mentions' = mentions \cup {<<x, job[x].id>>}
        /\ job' = [job EXCEPT ![x] = Ended(job[x].key)]
        /\ stale' = stale \ {x} /\ spoilt' = (spoilt \/ x \in stale)
    BY <1>4 DEF Mention
  <2>2. RowsInv' /\ Live' = Live
    <3>1. corrections' \in 0 .. MaxCorrections /\ mentions' \subseteq EntityRuns \X Live
      BY <1>2, <1>4, <2>1 DEF RegistryInv, RowsInv, StoredTypes
    <3> QED BY <1>2, <3>1, Kept DEF RegistryInv
  <2> SUFFICES ASSUME NEW j, j = Ended(job[x].key) PROVE RegistryInv'
    OBVIOUS
  <2>3. j \in JobRecord /\ JobSound(j) /\ j.pc = "done" /\ j.id = 0 /\ j.key = job[x].key
    BY <1>1, IdleJobIs
  <2>4. /\ job'[x] = j /\ \A y \in EntityRuns \ {x} : job'[y] = job[y]
        /\ job' = [job EXCEPT ![x] = j]
    BY <1>1, <2>1
  <2>5. HoldersInv'
    <3>1. created' \in created .. MaxEntities
      BY <1>2, RegistryAssumption DEF RegistryInv, RowsInv, StoredTypes
    <3>2. mentions' \subseteq mentions \cup {<<x, job[x].id>>} /\ j.pc = "done" /\ j.key \in Keys
      BY <1>1, <2>1, <2>3
    <3> QED BY <1>2, <2>3, <2>4, <3>1, <3>2, JobMoves DEF RegistryInv
  <2>6. HistoryInv'
    BY <2>1 DEF RegistryInv, HistoryInv
  <2>7. ASSUME ~spoilt' PROVE JobsKnow' /\ PassesKnow' /\ EditKnows' /\ FiledWhereNamesLead'
    <3>1. x \notin stale /\ ~spoilt /\ stale' = stale
      BY <2>1, <2>7 DEF RegistryInv, HistoryInv
    <3>2. JobsKnow /\ PassesKnow /\ EditKnows /\ FiledWhereNamesLead
      BY <3>1 DEF RegistryInv, Knowing
    <3>3. JobsKnow'
      <4> SUFFICES ASSUME NEW y \in EntityRuns \ stale', NEW i, i = job'[y] PROVE Informed(i)'
        BY AllInformed DEF RegistryInv
      <4>1. Informed(i)
        <5>1. CASE y = x
          BY <2>3, <2>4, <5>1 DEF Informed, Creates
        <5>2. CASE y # x
          BY <2>4, <3>1, <3>2, <5>2 DEF JobsKnow
        <5> QED BY <5>1, <5>2
      <4> QED BY <1>2, <4>1, SameInforms
    <3>4. \A e \in Live : Agrees(rows'[e], rows[e])
      BY <1>2, AgreesSelf
    <3>5. PassesKnow' /\ EditKnows'
      BY <1>2, <2>2, <3>1, <3>2, <3>4, PassesStill, EditStill
    <3>6. FiledWhereNamesLead'
      <4> SUFFICES ASSUME NEW m \in mentions', NEW k, k = job'[m[1]].key, k \notin moved
                   PROVE  Resolves(k)' = {m[2]}
        BY <1>2 DEF FiledWhereNamesLead
      <4>1. Resolves(k)' = Resolves(k)
        BY <1>2, <2>2 DEF Resolves, At, KeyOf
      <4>2. CASE m \in mentions
        <5>1. job[m[1]].pc = "done" /\ m[1] \in EntityRuns
          BY <4>2 DEF RegistryInv, HoldersInv, MentionsDone, RowsInv, StoredTypes
        <5>2. k = job[m[1]].key
          BY <1>1, <2>4, <5>1
        <5> QED BY <3>1, <3>2, <4>1, <4>2, <5>2 DEF FiledWhereNamesLead
      <4>3. CASE m = <<x, job[x].id>>
        <5>1. k = job[x].key
          BY <2>3, <2>4, <4>3
        <5>2. Resolves(k) = {job[x].id}
          BY <1>1, <3>1, <5>1, Informs DEF Informed
        <5> QED BY <4>1, <4>3, <5>2
      <4> QED BY <2>1, <4>2, <4>3
    <3> QED BY <3>3, <3>5, <3>6
  <2> QED BY <2>2, <2>5, <2>6, <2>7 DEF RegistryInv, Knowing
<1> QED BY <1>3, <1>4
-----------------------------------------------------------------------------
\* What a pass holds.
PassType == UNION {[some -> EntityRow] : some \in SUBSET Ids}

\* A pass holds copies of linkable rows.
LEMMA PassIs ==
    ASSUME HoldersInv, NEW r \in Resolvers
    PROVE  /\ pass \in [Resolvers -> PassType]
           /\ DOMAIN pass[r] \in SUBSET Ids /\ pass[r] \in [DOMAIN pass[r] -> EntityRow]
           /\ DOMAIN pass[r] \subseteq Born
           /\ \A e \in DOMAIN pass[r] : Linkable(pass[r][e]) /\ Sound(pass[r][e])
<1>1. pass \in [Resolvers -> PassType]
  BY DEF HoldersInv, PassesInv, PassType
<1>2. PICK some \in SUBSET Ids : pass[r] \in [some -> EntityRow]
  BY <1>1 DEF PassType
<1> QED BY <1>1, <1>2 DEF HoldersInv, PassesInv, AllBorn

\* Who holds ids and copies still does when one pass moves.
LEMMA PassMoves ==
    ASSUME HoldersInv, RowsInv, NEW r \in Resolvers, NEW some \in SUBSET Ids,
           NEW p \in [some -> EntityRow], pass' = [pass EXCEPT ![r] = p], some \subseteq Born,
           \A e \in some : Linkable(p[e]) /\ Sound(p[e]),
           UNCHANGED <<job, edit, mentions>>, created' \in created .. MaxEntities
    PROVE  /\ HoldersInv' /\ pass'[r] = p
           /\ \A q \in Resolvers \ {r} : pass'[q] = pass[q]
<1>1. Born \subseteq Born'
  BY Older
<1>2. pass \in [Resolvers -> PassType]
  BY DEF HoldersInv, PassesInv, PassType
<1>3. p \in PassType /\ DOMAIN p = some
  BY DEF PassType
<1>4. /\ pass' \in [Resolvers -> PassType] /\ pass'[r] = p
      /\ \A q \in Resolvers \ {r} : pass'[q] = pass[q]
  BY <1>2, <1>3
<1>5. PassesInv'
  <2>1. ASSUME NEW q \in Resolvers, NEW e \in DOMAIN pass'[q]
        PROVE  Linkable(pass'[q][e]) /\ Sound(pass'[q][e])
    <3>1. CASE q = r
      BY <1>3, <1>4, <2>1, <3>1
    <3>2. CASE q # r
      BY <1>4, <2>1, <3>2 DEF HoldersInv, PassesInv
    <3> QED BY <3>1, <3>2
  <2> QED BY <1>4, <2>1 DEF PassesInv, PassType, Linkable, Sound
<1>6. JobsInv' /\ EditInv' /\ MentionsDone'
  BY DEF HoldersInv, JobsInv, EditInv, MentionsDone
<1>7. AllBorn'
  BY <1>1, <1>3, <1>4 DEF HoldersInv, AllBorn
<1> QED BY <1>4, <1>5, <1>6, <1>7 DEF HoldersInv

\* A pass reads the rows it may link,
LEMMA StartPassStep ==
    ASSUME RegistryAssumption, RegistryInv, NEW r \in Resolvers, StartPass(r)
    PROVE  RegistryInv'
<1>1. PICK some \in SUBSET {e \in Live : Linkable(rows[e])} :
         pass' = [pass EXCEPT ![r] = [e \in some |-> rows[e]]]
  BY DEF StartPass
<1>2. UNCHANGED <<rows, aliasOf, suppressed, mentions, job, edit, created, corrections, chosen,
                  moved, stale, spoilt>>
  BY DEF StartPass
<1>3. \A e \in some : /\ e \in Live /\ e \in Ids /\ e \in Born /\ rows[e] \in EntityRow
                      /\ Sound(rows[e]) /\ Linkable(rows[e])
  BY RowKey DEF RegistryInv
<1>4. PICK p \in [some -> EntityRow] :
         pass' = [pass EXCEPT ![r] = p] /\ DOMAIN p = some /\ \A e \in some : p[e] = rows[e]
  <2>1. [e \in some |-> rows[e]] \in [some -> EntityRow]
    BY <1>3
  <2> QED BY <1>1, <2>1
<1>5. RowsInv' /\ Live' = Live
  BY <1>2, Kept DEF RegistryInv, RowsInv, StoredTypes
<1>6. /\ HoldersInv' /\ pass'[r] = p
      /\ \A q \in Resolvers \ {r} : pass'[q] = pass[q]
  <2>1. created' \in created .. MaxEntities
    BY <1>2, RegistryAssumption DEF RegistryInv, RowsInv, StoredTypes
  <2>2. \A e \in some : Linkable(p[e]) /\ Sound(p[e])
    BY <1>3, <1>4
  <2>3. some \in SUBSET Ids /\ some \subseteq Born
    BY <1>3
  <2> QED BY <1>2, <1>4, <2>1, <2>2, <2>3, PassMoves DEF RegistryInv
<1>7. HistoryInv'
  BY <1>2 DEF RegistryInv, HistoryInv
<1>8. ASSUME ~spoilt PROVE JobsKnow' /\ PassesKnow' /\ EditKnows' /\ FiledWhereNamesLead'
  <2>1. JobsKnow /\ PassesKnow /\ EditKnows /\ FiledWhereNamesLead
    BY <1>8 DEF RegistryInv, Knowing
  <2>2. JobsKnow'
    <3> SUFFICES ASSUME NEW y \in EntityRuns \ stale', NEW i, i = job'[y] PROVE Informed(i)'
      BY AllInformed DEF RegistryInv
    <3>1. Informed(i)
      BY <1>2, <2>1 DEF JobsKnow
    <3> QED BY <1>2, <3>1, SameInforms
  <2>3. PassesKnow'
    <3> SUFFICES ASSUME NEW q \in Resolvers \ stale', NEW e \in DOMAIN pass'[q]
                 PROVE  e \in Live' /\ Agrees(pass'[q][e], rows'[e])
      BY DEF PassesKnow, Agrees, KeyOf
    <3>1. CASE q = r
      BY <1>2, <1>3, <1>4, <1>5, <1>6, <3>1, AgreesSelf
    <3>2. CASE q # r
      BY <1>2, <1>5, <1>6, <2>1, <3>2 DEF PassesKnow
    <3> QED BY <3>1, <3>2
  <2>4. EditKnows'
    BY <1>2, <1>5, <2>1, AgreesSelf, EditStill
  <2>5. FiledWhereNamesLead'
    <3>1. \A m \in mentions : job[m[1]].key \in Keys
      BY DEF RegistryInv, HoldersInv, MentionsDone
    <3>2. \A m \in mentions' : m \in mentions /\ job'[m[1]].key = job[m[1]].key
      BY <1>2
    <3>3. \A k : Resolves(k)' = Resolves(k)
      BY <1>2, <1>5 DEF Resolves, At, KeyOf
    <3> QED BY <1>2, <1>8, <2>1, <3>1, <3>2, <3>3, FiledStill
  <2> QED BY <2>2, <2>3, <2>4, <2>5
<1> QED BY <1>2, <1>5, <1>6, <1>7, <1>8 DEF RegistryInv, Knowing

\* what it saves for one of them,
LEMMA ResolveDoes ==
    ASSUME RegistryAssumption, RegistryInv, NEW r \in Resolvers, Resolve(r)
    PROVE  \E e \in DOMAIN pass[r], p \in PassType :
              /\ p \in [DOMAIN pass[r] \ {e} -> EntityRow] /\ pass' = [pass EXCEPT ![r] = p]
              /\ \A q \in DOMAIN pass[r] \ {e} : p[q] = pass[r][q]
              /\ stale' = IF DOMAIN pass[r] \ {e} = {} THEN stale \ {r} ELSE stale
              /\ \/ UNCHANGED <<rows, spoilt>>
                 \/ \E row \in EntityRow :
                       /\ Sound(row) /\ Agrees(row, pass[r][e]) /\ ~Clash(e, row)
                       /\ Save(r, e, row)
<1>1. PICK e \in DOMAIN pass[r] :
         LET row == pass[r][e]
             rest == DOMAIN pass[r] \ {e}
         IN
         /\ \/ Matching(row) = {} /\ UNCHANGED <<rows, spoilt>>
            \/ \E c \in Contacts :
                  /\ Matching(row) # {} => c \in Matching(row)
                  /\ IF Clash(e, row) THEN UNCHANGED <<rows, spoilt>>
                     ELSE Save(r, e, Linked(row, c))
         /\ pass' = [pass EXCEPT ![r] = [q \in rest |-> @[q]]]
         /\ stale' = IF rest = {} THEN stale \ {r} ELSE stale
  BY DEF Resolve
<1>2. /\ pass \in [Resolvers -> PassType]
      /\ DOMAIN pass[r] \in SUBSET Ids /\ pass[r] \in [DOMAIN pass[r] -> EntityRow]
      /\ \A q \in DOMAIN pass[r] : Linkable(pass[r][q]) /\ Sound(pass[r][q])
  BY PassIs DEF RegistryInv
<1> DEFINE rest == DOMAIN pass[r] \ {e}
           p == [q \in rest |-> pass[r][q]]
<1>3. /\ p \in [rest -> EntityRow] /\ p \in PassType /\ pass' = [pass EXCEPT ![r] = p]
      /\ \A q \in rest : p[q] = pass[r][q]
  <2>1. p \in [rest -> EntityRow] /\ rest \in SUBSET Ids
    BY <1>2
  <2>2. pass' = [pass EXCEPT ![r] = p]
    BY <1>1, <1>2
  <2> QED BY <2>1, <2>2 DEF PassType
<1>4. \/ UNCHANGED <<rows, spoilt>>
      \/ \E row \in EntityRow :
            /\ Sound(row) /\ Agrees(row, pass[r][e]) /\ ~Clash(e, row)
            /\ Save(r, e, row)
  <2> SUFFICES ASSUME ~UNCHANGED <<rows, spoilt>>
               PROVE  \E row \in EntityRow :
                         /\ Sound(row) /\ Agrees(row, pass[r][e]) /\ ~Clash(e, row)
                         /\ Save(r, e, row)
    OBVIOUS
  <2>1. PICK c \in Contacts : ~Clash(e, pass[r][e]) /\ Save(r, e, Linked(pass[r][e], c))
    BY <1>1
  <2>2. /\ Linked(pass[r][e], c) \in EntityRow /\ Sound(Linked(pass[r][e], c))
        /\ KeyOf(Linked(pass[r][e], c)) = KeyOf(pass[r][e])
        /\ Linked(pass[r][e], c).origin = "auto"
        /\ pass[r][e].origin \notin Corrected
    BY <1>2, LinkedRow DEF Linkable, Sound, Corrected
  <2>3. Agrees(Linked(pass[r][e], c), pass[r][e])
    BY <2>2 DEF Agrees, Corrected
  <2>4. ~Clash(e, Linked(pass[r][e], c))
    BY <2>1, <2>2 DEF Clash
  <2> QED BY <2>1, <2>2, <2>3, <2>4
<1>5. stale' = IF rest = {} THEN stale \ {r} ELSE stale
  BY <1>1
<1> HIDE DEF p
<1> QED BY <1>3, <1>4, <1>5

\* and that it saves it faithfully.
LEMMA ResolveStep ==
    ASSUME RegistryAssumption, RegistryInv, NEW r \in Resolvers, Resolve(r)
    PROVE  RegistryInv' /\ Obeys
<1>1. PICK e \in DOMAIN pass[r], p \in PassType :
              /\ p \in [DOMAIN pass[r] \ {e} -> EntityRow] /\ pass' = [pass EXCEPT ![r] = p]
              /\ \A q \in DOMAIN pass[r] \ {e} : p[q] = pass[r][q]
              /\ stale' = IF DOMAIN pass[r] \ {e} = {} THEN stale \ {r} ELSE stale
              /\ \/ UNCHANGED <<rows, spoilt>>
                 \/ \E row \in EntityRow :
                       /\ Sound(row) /\ Agrees(row, pass[r][e]) /\ ~Clash(e, row)
                       /\ Save(r, e, row)
  BY ResolveDoes
<1>2. UNCHANGED <<aliasOf, suppressed, mentions, job, edit, created, corrections, chosen, moved>>
  BY DEF Resolve
<1> DEFINE rest == DOMAIN pass[r] \ {e}
<1>3. /\ e \in Ids /\ e \in Born /\ rest \in SUBSET Ids /\ rest \subseteq Born
      /\ \A q \in DOMAIN pass[r] : Linkable(pass[r][q]) /\ Sound(pass[r][q])
  BY PassIs DEF RegistryInv
<1>4. created' \in created .. MaxEntities /\ e \in 1 .. created'
  BY <1>2, <1>3, RegistryAssumption DEF RegistryInv, RowsInv, StoredTypes, Born
<1>5. /\ HoldersInv' /\ pass'[r] = p
      /\ \A q \in Resolvers \ {r} : pass'[q] = pass[q]
  <2>1. \A q \in rest : Linkable(p[q]) /\ Sound(p[q])
    BY <1>1, <1>3
  <2> HIDE DEF rest
  <2>2. p \in [rest -> EntityRow] /\ pass' = [pass EXCEPT ![r] = p]
    BY <1>1 DEF rest
  <2>3. UNCHANGED <<job, edit, mentions>> /\ HoldersInv /\ RowsInv
    BY <1>2 DEF RegistryInv
  <2>4. rest \in SUBSET Ids /\ rest \subseteq Born
    BY <1>3
  <2> QED BY <1>4, <2>1, <2>2, <2>3, <2>4, PassMoves
<1>6. DOMAIN p = rest
  BY <1>1
<1>7. RowsInv'
  <2>1. corrections' \in 0 .. MaxCorrections /\ mentions' \subseteq EntityRuns \X Live
    BY <1>2 DEF RegistryInv, RowsInv, StoredTypes
  <2>2. CASE UNCHANGED <<rows, spoilt>>
    BY <1>2, <2>1, <2>2, Kept DEF RegistryInv
  <2>3. ASSUME NEW row \in EntityRow, Sound(row), ~Clash(e, row), Save(r, e, row) PROVE RowsInv'
    BY <1>2, <1>3, <1>4, <2>1, <2>3, SavedRow DEF RegistryInv, Save
  <2> QED BY <1>1, <2>2, <2>3
<1>8. HistoryInv'
  BY <1>1 DEF RegistryInv, HistoryInv, Save
<1>9. ASSUME ~spoilt' PROVE JobsKnow' /\ PassesKnow' /\ EditKnows' /\ FiledWhereNamesLead'
  <2>1. ~spoilt
    BY <1>1, <1>9 DEF RegistryInv, HistoryInv, Save
  <2>2. JobsKnow /\ PassesKnow /\ EditKnows /\ FiledWhereNamesLead
    BY <2>1 DEF RegistryInv, Knowing
  <2>3. /\ \A j : Informed(j) => Informed(j)'
        /\ Live \subseteq Live' /\ \A q \in Live : Agrees(rows'[q], rows[q])
        /\ \A k \in Keys : Resolves(k) # {} => Resolves(k)' = Resolves(k)
    <3>1. CASE UNCHANGED <<rows, spoilt>>
      <4>1. \A j : Informed(j) => Informed(j)'
        BY <1>2, <3>1, SameInforms
      <4>2. Live' = Live
        BY <3>1 DEF Live
      <4>3. \A k \in Keys : Resolves(k) # {} => Resolves(k)' = Resolves(k)
        BY <1>2, <3>1, <4>2 DEF Resolves, At, KeyOf
      <4> QED BY <3>1, <4>1, <4>2, <4>3, AgreesSelf
    <3>2. ASSUME NEW row \in EntityRow, Agrees(row, pass[r][e]), ~Clash(e, row), Save(r, e, row)
          PROVE  /\ \A j : Informed(j) => Informed(j)'
                 /\ Live \subseteq Live' /\ \A q \in Live : Agrees(rows'[q], rows[q])
                 /\ \A k \in Keys : Resolves(k) # {} => Resolves(k)' = Resolves(k)
      <4>1. r \notin stale /\ rows' = [rows EXCEPT ![e] = row] /\ UNCHANGED <<aliasOf, suppressed>>
        BY <1>2, <1>9, <3>2 DEF Save, RegistryInv, HistoryInv
      <4>2. e \in Live /\ Agrees(pass[r][e], rows[e])
        BY <2>2, <4>1 DEF PassesKnow
      <4>3. Faithful(e, row)
        BY <3>2, <4>2, AgreesSym, AgreesTrans DEF Faithful
      <4>4. \A j : Informed(j) => Informed(j)'
        BY <1>3, <3>2, <4>1, <4>3, FaithfulInforms DEF RegistryInv
      <4>5. Live \subseteq Live' /\ \A q \in Live : Agrees(rows'[q], rows[q])
        BY <1>3, <3>2, <4>1, <4>3, FaithfulAgrees DEF RegistryInv
      <4>6. \A k \in Keys : Resolves(k) # {} => Resolves(k)' = Resolves(k)
        BY <1>3, <3>2, <4>1, <4>3, FaithfulResolves DEF RegistryInv
      <4> QED BY <4>4, <4>5, <4>6
    <3> QED BY <1>1, <3>1, <3>2
  <2>4. JobsKnow'
    <3> SUFFICES ASSUME NEW y \in EntityRuns \ stale', NEW i, i = job'[y] PROVE Informed(i)'
      BY AllInformed DEF RegistryInv
    <3>1. y \notin stale
      BY <1>1, RegistryAssumption
    <3>2. Informed(i)
      BY <1>2, <2>2, <3>1 DEF JobsKnow
    <3> QED BY <2>3, <3>2
  <2>5. PassesKnow'
    <3> SUFFICES ASSUME NEW q \in Resolvers \ stale', NEW n \in DOMAIN pass'[q]
                 PROVE  n \in Live' /\ Agrees(pass'[q][n], rows'[n])
      BY DEF PassesKnow, Agrees, KeyOf
    <3>1. /\ pass'[q][n] = pass[q][n] /\ n \in DOMAIN pass[q] /\ q \notin stale
      <4>1. CASE q = r
        BY <1>1, <1>5, <1>6, <4>1
      <4>2. CASE q # r
        BY <1>1, <1>5, <4>2
      <4> QED BY <4>1, <4>2
    <3>2. n \in Live /\ Agrees(pass[q][n], rows[n])
      BY <2>2, <3>1 DEF PassesKnow
    <3> QED BY <2>3, <3>1, <3>2, AgreesTrans
  <2>6. EditKnows'
    <3>1. "user" \notin stale' => "user" \notin stale
      BY <1>1, RegistryAssumption
    <3> QED BY <1>2, <2>2, <2>3, <3>1, EditStill
  <2>7. FiledWhereNamesLead'
    <3>1. \A m \in mentions : job[m[1]].key \in Keys
      BY DEF RegistryInv, HoldersInv, MentionsDone
    <3>2. \A m \in mentions' : m \in mentions /\ job'[m[1]].key = job[m[1]].key
      BY <1>2
    <3> QED BY <1>2, <2>1, <2>2, <2>3, <3>1, <3>2, FiledStill
  <2> QED BY <2>4, <2>5, <2>6, <2>7
<1>10. Obeys
  <2>1. CASE UNCHANGED <<rows, spoilt>>
    BY <2>1, UnchangedObeys
  <2>2. ASSUME NEW row \in EntityRow, Agrees(row, pass[r][e]), Save(r, e, row) PROVE Obeys
    <3>1. rows' = [rows EXCEPT ![e] = row] /\ (~spoilt' => r \notin stale /\ ~spoilt)
      BY <1>8, <2>2 DEF Save, RegistryInv, HistoryInv
    <3>2. ASSUME ~spoilt' PROVE Faithful(e, row)
      <4>1. e \in Live /\ Agrees(pass[r][e], rows[e])
        BY <3>1, <3>2 DEF RegistryInv, Knowing, PassesKnow
      <4> QED BY <2>2, <4>1, AgreesSym, AgreesTrans DEF Faithful
    <3> QED BY <1>3, <2>2, <3>1, <3>2, FaithfulObeys DEF RegistryInv
  <2> QED BY <1>1, <2>1, <2>2
<1> QED BY <1>5, <1>7, <1>8, <1>9, <1>10 DEF RegistryInv, Knowing
-----------------------------------------------------------------------------
\* A correction keeps the invariant when it is local to what it declares it overtakes.
LEMMA Corrects ==
    ASSUME RegistryAssumption, RegistryInv, NEW who \in {None, "user"}, NEW ids \in SUBSET Ids, NEW ks,
           Overtakes(who, ids, ks), UNCHANGED <<job, pass, created>>,
           edit' = NoEdit \/ (edit' = edit /\ who = None),
           \A m \in mentions' : \E n \in mentions : n[1] = m[1],
           RowsInv', spoilt' \in BOOLEAN,
           ~spoilt' => ~spoilt /\ Local(ids, ks) /\ FiledWhereNamesLead'
    PROVE  RegistryInv'
<1>0. 0 \notin ids /\ {None, "user"} \cap (EntityRuns \cup Resolvers) = {}
      /\ EntityRuns \cap Resolvers = {}
  BY RegistryAssumption DEF Ids
<1>1. stale' = (stale
          \cup {x \in EntityRuns :
                    /\ job[x].pc \in {"find", "alias", "save", "winner", "mention"}
                    /\ (job[x].id \in ids \/ job[x].key \in ks)}
          \cup {r \in Resolvers : DOMAIN pass[r] \cap ids # {}}
          \cup {"user" : e \in {edit.id} \cap ids}) \ {who}
  BY DEF Overtakes
<1>2. HoldersInv'
  <2>1. created' \in created .. MaxEntities
    BY RegistryAssumption DEF RegistryInv, RowsInv, StoredTypes
  <2> QED BY <2>1, HoldersKept DEF RegistryInv
<1>3. HistoryInv'
  BY <1>1 DEF RegistryInv, HistoryInv
<1>4. ASSUME ~spoilt' PROVE JobsKnow' /\ PassesKnow' /\ EditKnows' /\ FiledWhereNamesLead'
  <2>1. JobsKnow /\ PassesKnow /\ EditKnows /\ Local(ids, ks) /\ FiledWhereNamesLead'
    BY <1>4 DEF RegistryInv, Knowing
  <2>2. \A e \in Live \ ids : rows'[e] = rows[e] /\ e \in Live'
    <3>1. \A e \in Live \ ids : rows'[e] = rows[e]
      BY <2>1 DEF Local
    <3> QED BY <3>1 DEF Live
  <2>3. JobsKnow'
    <3> SUFFICES ASSUME NEW y \in EntityRuns \ stale', NEW i, i = job'[y] PROVE Informed(i)'
      BY AllInformed DEF RegistryInv
    <3>1. y \notin stale /\ i = job[y]
      BY <1>0, <1>1
    <3>2. Informed(i) /\ i \in JobRecord /\ JobSound(i)
      BY <2>1, <3>1, JobIs DEF JobsKnow, RegistryInv
    <3>3. i.pc \in {"find", "alias", "save", "winner", "mention"} => i.id \notin ids /\ i.key \notin ks
      BY <1>0, <1>1, <3>1
    <3> QED BY <2>1, <3>2, <3>3, LocalInforms DEF RegistryInv
  <2>4. PassesKnow'
    <3> SUFFICES ASSUME NEW r \in Resolvers \ stale', NEW e \in DOMAIN pass[r]
                 PROVE  e \in Live' /\ Agrees(pass[r][e], rows'[e])
      BY DEF PassesKnow, Agrees, KeyOf
    <3>1. r \notin stale /\ DOMAIN pass[r] \cap ids = {}
      BY <1>0, <1>1
    <3>2. e \in Live /\ Agrees(pass[r][e], rows[e]) /\ e \notin ids
      BY <2>1, <3>1 DEF PassesKnow
    <3> QED BY <2>2, <3>2
  <2>5. EditKnows'
    <3>1. CASE edit' = NoEdit
      BY <3>1 DEF EditKnows, NoEdit, NoEntity
    <3>2. CASE edit' = edit /\ who = None
      <4> SUFFICES ASSUME "user" \notin stale', edit # NoEdit
                   PROVE  edit.id \in Live' /\ Agrees(edit.row, rows'[edit.id])
        BY <3>2 DEF EditKnows, Agrees, KeyOf, NoEdit, NoEntity
      <4>1. "user" \notin stale /\ edit.id \notin ids
        BY <1>1, <3>2 DEF None
      <4>2. edit.id \in Live /\ Agrees(edit.row, rows[edit.id])
        BY <2>1, <4>1 DEF EditKnows
      <4> QED BY <2>2, <4>1, <4>2
    <3> QED BY <3>1, <3>2
  <2> QED BY <2>1, <2>3, <2>4, <2>5
<1> QED BY <1>2, <1>3, <1>4 DEF RegistryInv, Knowing

\* Corrections stay within their bound.
LEMMA CountedCorrection ==
    ASSUME RegistryAssumption, RowsInv, NEW who, NEW ids, NEW ks, Overtakes(who, ids, ks)
    PROVE  corrections' \in 0 .. MaxCorrections
BY RegistryAssumption DEF Overtakes, RowsInv, StoredTypes

\* The row of a merge has the key of the survivor.
LEMMA MergedRow ==
    ASSUME RegistryAssumption, NEW survivor \in EntityRow, NEW victim \in EntityRow,
           Sound(survivor), Sound(victim),
           NEW row, row = [survivor EXCEPT
              !.aliases = (survivor.aliases \cup victim.aliases \cup {victim.label}) \ {survivor.label},
              !.contact = IF survivor.type = "person" /\ survivor.contact = None THEN victim.contact
                          ELSE survivor.contact,
              !.origin = IF /\ survivor.type = "person" /\ survivor.contact = None
                            /\ victim.contact # None THEN victim.origin
                         ELSE IF /\ survivor.type = "person" /\ survivor.contact = None
                                 /\ "suppressed" \in {survivor.origin, victim.origin}
                         THEN "suppressed" ELSE survivor.origin]
    PROVE  row \in EntityRow /\ Sound(row) /\ KeyOf(row) = KeyOf(survivor)
<1> DEFINE aliases == (survivor.aliases \cup victim.aliases \cup {victim.label}) \ {survivor.label}
           contact == IF survivor.type = "person" /\ survivor.contact = None THEN victim.contact
                          ELSE survivor.contact
           origin == IF /\ survivor.type = "person" /\ survivor.contact = None
                        /\ victim.contact # None THEN victim.origin
                     ELSE IF /\ survivor.type = "person" /\ survivor.contact = None
                             /\ "suppressed" \in {survivor.origin, victim.origin}
                     THEN "suppressed" ELSE survivor.origin
<1>1. aliases \subseteq Names
  BY RowFields
<1>2. contact \in Contacts \cup {None} /\ (survivor.type # "person" => contact = None)
  BY RowFields
<1>3. origin \in {None, "auto", "manual", "suppressed"}
  BY RowFields
<1>4. /\ survivor.type # "person" => origin = None
      /\ origin \in {"manual", "auto"} => contact # None
  BY RowFields DEF Sound, None
<1>5. row = [survivor EXCEPT !.aliases = aliases, !.contact = contact, !.origin = origin]
  OBVIOUS
<1> HIDE DEF aliases, contact, origin
<1>6. row = [type |-> survivor.type, name |-> survivor.name, label |-> survivor.label,
             aliases |-> aliases, contact |-> contact, origin |-> origin]
  BY <1>5 DEF EntityRow
<1>7. /\ row.type = survivor.type /\ row.name = survivor.name
      /\ row.contact = contact /\ row.origin = origin
  BY ONLY <1>6
<1>8. row \in EntityRow
  <2>1. survivor.type \in Types /\ survivor.name \in Names /\ survivor.label \in Names
    BY RowFields
  <2> QED BY ONLY <1>1, <1>2, <1>3, <1>6, <2>1, RowMade
<1> QED BY <1>4, <1>7, <1>8 DEF Sound, KeyOf

\* What the invariant needs to know of a merge,
MergeEffect(s, v, row, ks) ==
    /\ s \in Live /\ v \in Live /\ s # v
    /\ Overtakes(None, {s, v}, ks \cup {KeyOf(rows[s])})
    /\ Sound(row) /\ KeyOf(row) = KeyOf(rows[s]) /\ KeyOf(rows[v]) \in ks
    /\ rows' = [rows EXCEPT ![v] = NoEntity, ![s] = row]
    /\ aliasOf' = [k \in Keys |-> IF k \in ks /\ k # KeyOf(rows[s]) THEN s
                                  ELSE IF aliasOf[k] = v THEN s ELSE aliasOf[k]]
    /\ mentions' = {<<m[1], IF m[2] = v THEN s ELSE m[2]>> : m \in mentions}
    /\ moved' = moved \cup {k \in ks : Elsewhere(k, {s, v})}
    /\ chosen' = [chosen EXCEPT ![v] = None]
    /\ UNCHANGED <<suppressed, job, pass, edit, created, spoilt>>

\* A merge has the effect stated,
LEMMA MergeDoes ==
    ASSUME RegistryAssumption, RegistryInv, NEW s \in Ids, NEW v \in Ids, Merge(s, v)
    PROVE  \E row \in EntityRow, ks \in SUBSET Keys :
              MergeEffect(s, v, row, ks)
<1> DEFINE survivor == rows[s]
           victim == rows[v]
           adopts == survivor.type = "person" /\ survivor.contact = None
           aliases == (survivor.aliases \cup victim.aliases \cup {victim.label}) \ {survivor.label}
           contact == IF adopts THEN victim.contact ELSE survivor.contact
           origin == IF adopts /\ victim.contact # None THEN victim.origin
                     ELSE IF adopts /\ "suppressed" \in {survivor.origin, victim.origin}
                     THEN "suppressed" ELSE survivor.origin
           ks == OfType({survivor.type, victim.type}, {victim.name} \cup victim.aliases)
           row == [survivor EXCEPT !.aliases = aliases, !.contact = contact, !.origin = origin]
           repointed == [k \in Keys |-> IF aliasOf[k] = v THEN s ELSE aliasOf[k]]
<1>1. s \in Live /\ v \in Live /\ s # v /\ Overtakes(None, {s, v}, ks \cup {KeyOf(survivor)})
  BY DEF Merge
<1>2. /\ survivor \in EntityRow /\ Sound(survivor)
      /\ victim \in EntityRow /\ Sound(victim)
  BY <1>1, RowKey DEF RegistryInv
<1>3. row \in EntityRow /\ Sound(row) /\ KeyOf(row) = KeyOf(survivor)
  <2> SUFFICES ASSUME NEW r, r = row PROVE r \in EntityRow /\ Sound(r) /\ KeyOf(r) = KeyOf(survivor)
    BY DEF Sound, KeyOf
  <2> HIDE DEF survivor, victim
  <2> QED BY <1>2, MergedRow
<1>4. ks \in SUBSET Keys /\ KeyOf(victim) \in ks
  <2> HIDE DEF survivor, victim
  <2> QED BY <1>2, RowFields DEF OfType, Keys, KeyOf
<1>5. rows' = [rows EXCEPT ![v] = NoEntity, ![s] = row]
  <2>1. rows' = [rows EXCEPT ![v] = NoEntity,
                    ![s] = [@ EXCEPT !.aliases = aliases, !.contact = contact, !.origin = origin]]
    BY DEF Merge
  <2>2. rows \in [Ids -> RowOrNone]
    BY DEF RegistryInv, RowsInv, StoredTypes
  <2> HIDE DEF aliases, contact, origin
  <2> QED BY <1>1, <2>1, <2>2
<1>6. aliasOf' = [k \in Keys |-> IF k \in ks /\ k # KeyOf(survivor) THEN s
                                 ELSE IF aliasOf[k] = v THEN s ELSE aliasOf[k]]
  <2>1. aliasOf' = Record(repointed, ks, s, KeyOf(survivor))
    BY DEF Merge
  <2> HIDE DEF ks, survivor
  <2> QED BY <2>1 DEF Record
<1>7. /\ mentions' = {<<m[1], IF m[2] = v THEN s ELSE m[2]>> : m \in mentions}
      /\ moved' = moved \cup {k \in ks : Elsewhere(k, {s, v})}
      /\ chosen' = [chosen EXCEPT ![v] = None]
      /\ UNCHANGED <<suppressed, job, pass, edit, created, spoilt>>
  BY DEF Merge
<1> HIDE DEF ks, row
<1>8. MergeEffect(s, v, row, ks)
  BY <1>1, <1>3, <1>4, <1>5, <1>6, <1>7 DEF MergeEffect
<1> QED BY <1>3, <1>4, <1>8

\* The stored types hold when rows change and none is added.
LEMMA StillStored ==
    ASSUME RegistryAssumption, RowsInv, rows' \in [Ids -> RowOrNone], Live' \subseteq Live,
           \A e \in Live' : Sound(rows'[e]), UniqueKeys',
           aliasOf' \in [Keys -> Live' \cup {0}], suppressed' \subseteq Keys,
           mentions' \subseteq EntityRuns \X Live', created' = created,
           corrections' \in 0 .. MaxCorrections, chosen' \in [Ids -> Names \cup {None}],
           moved' \subseteq Keys
    PROVE  RowsInv'
<1>1. StoredTypes'
  BY DEF RowsInv, StoredTypes
<1>2. RowsSound'
  BY DEF RowsInv, RowsSound, Born, Sound
<1> QED BY <1>1, <1>2 DEF RowsInv

\* and keeps the invariant: the names of the victim lead to the survivor.
LEMMA MergeStep ==
    ASSUME RegistryAssumption, RegistryInv, NEW s \in Ids, NEW v \in Ids, Merge(s, v)
    PROVE  RegistryInv'
<1>0. PICK row \in EntityRow, ks \in SUBSET Keys : MergeEffect(s, v, row, ks)
  BY MergeDoes
<1>1. /\ s \in Live /\ v \in Live /\ s # v
      /\ Overtakes(None, {s, v}, ks \cup {KeyOf(rows[s])})
      /\ Sound(row) /\ KeyOf(row) = KeyOf(rows[s]) /\ KeyOf(rows[v]) \in ks
      /\ rows' = [rows EXCEPT ![v] = NoEntity, ![s] = row]
      /\ aliasOf' = [k \in Keys |-> IF k \in ks /\ k # KeyOf(rows[s]) THEN s
                                    ELSE IF aliasOf[k] = v THEN s ELSE aliasOf[k]]
      /\ mentions' = {<<m[1], IF m[2] = v THEN s ELSE m[2]>> : m \in mentions}
      /\ moved' = moved \cup {k \in ks : Elsewhere(k, {s, v})}
      /\ chosen' = [chosen EXCEPT ![v] = None]
      /\ UNCHANGED <<suppressed, job, pass, edit, created, spoilt>>
  BY <1>0 DEF MergeEffect
<1> DEFINE own == KeyOf(rows[s])
<1>2. RowsInv /\ HoldersInv /\ HistoryInv
  BY DEF RegistryInv
<1>3. /\ rows' \in [Ids -> RowOrNone] /\ rows'[s] = row /\ rows'[v] = NoEntity
      /\ \A q \in Ids \ {s, v} : rows'[q] = rows[q]
  BY <1>1, <1>2 DEF RowsInv, StoredTypes, RowOrNone
<1>4. Live' = Live \ {v}
  <2>1. row # NoEntity
    BY RowFields
  <2> QED BY <1>1, <1>3, <2>1 DEF Live
<1>5. \A q \in Live' : q \in Live /\ q \in Ids /\ KeyOf(rows'[q]) = KeyOf(rows[q]) /\ Sound(rows'[q])
  <2> SUFFICES ASSUME NEW q \in Live'
               PROVE  q \in Live /\ q \in Ids /\ KeyOf(rows'[q]) = KeyOf(rows[q]) /\ Sound(rows'[q])
    OBVIOUS
  <2>1. q \in Live /\ q \in Ids /\ q # v
    BY <1>4 DEF Live
  <2>2. CASE q = s
    BY <1>1, <1>3, <2>1, <2>2
  <2>3. CASE q # s
    BY <1>2, <1>3, <2>1, <2>3 DEF RowsInv, RowsSound
  <2> QED BY <2>1, <2>2, <2>3
<1>6. \A k : At(k)' = At(k) \ {v}
  <2> SUFFICES ASSUME NEW k PROVE At(k)' = At(k) \ {v}
    OBVIOUS
  <2>1. At(k)' = {q \in Live' : KeyOf(rows'[q]) = k}
    BY DEF At, KeyOf
  <2>2. At(k) = {q \in Live : KeyOf(rows[q]) = k}
    BY DEF At
  <2> QED BY <1>4, <1>5, <2>1, <2>2
<1>7. \A k \in Keys : aliasOf[k] \in Live \cup {0} /\ aliasOf'[k] \in Live' \cup {0}
  <2>1. \A k \in Keys : aliasOf[k] \in Live \cup {0}
    BY <1>2 DEF RowsInv, StoredTypes
  <2>2. s \in Live' /\ v # 0 /\ s # 0
    BY <1>1, <1>4 DEF Ids
  <2> QED BY <1>1, <1>4, <2>1, <2>2
<1>8. \A m \in mentions : m \in EntityRuns \X Live
  BY <1>2 DEF RowsInv, StoredTypes
<1>9. RowsInv'
  <2>1. UniqueKeys'
    BY <1>2, <1>5 DEF UniqueKeys, RowsInv, KeyOf
  <2>2. aliasOf' \in [Keys -> Live' \cup {0}]
    <3> HIDE DEF own
    <3> QED BY <1>1, <1>7
  <2>3. mentions' \subseteq EntityRuns \X Live'
    BY <1>1, <1>4, <1>8
  <2>4. chosen' \in [Ids -> Names \cup {None}] /\ moved' \subseteq Keys /\ suppressed' \subseteq Keys
    BY <1>1, <1>2 DEF RowsInv, StoredTypes
  <2>5. corrections' \in 0 .. MaxCorrections
    BY <1>1, <1>2, CountedCorrection
  <2>6. created' = created /\ Live' \subseteq Live /\ \A e \in Live' : Sound(rows'[e])
    BY <1>1, <1>4, <1>5
  <2> QED BY <1>2, <1>3, <2>1, <2>2, <2>3, <2>4, <2>5, <2>6, StillStored
<1>10. s \in At(own) /\ v \in At(KeyOf(rows[v])) /\ own # KeyOf(rows[v]) /\ own \in Keys
  BY <1>1, <1>2, RowKey DEF RowsInv, UniqueKeys
<1>11. Local({s, v}, ks \cup {own})
  <2>1. \A e \in Live \ {s, v} : rows'[e] = rows[e]
    BY <1>3 DEF Live
  <2>2. ASSUME NEW k \in Keys \ (ks \cup {own})
        PROVE  /\ At(k)' = At(k) /\ \A e \in At(k) : rows'[e].origin = rows[e].origin
               /\ aliasOf[k] \notin {s, v} => aliasOf'[k] = aliasOf[k]
               /\ k \in suppressed' => k \in suppressed
    <3>1. s \notin At(k) /\ v \notin At(k)
      BY <1>1, <2>2 DEF At
    <3>2. At(k)' = At(k)
      BY <1>6, <3>1
    <3>3. \A e \in At(k) : rows'[e].origin = rows[e].origin
      BY <1>3, <3>1 DEF At, Live
    <3>4. aliasOf[k] \notin {s, v} => aliasOf'[k] = aliasOf[k]
      BY <1>1, <2>2
    <3> QED BY <1>1, <3>2, <3>3, <3>4
  <2> QED BY <2>1, <2>2 DEF Local
<1>12. ASSUME ~spoilt PROVE FiledWhereNamesLead'
  <2> SUFFICES ASSUME NEW n \in mentions', NEW k, k = job'[n[1]].key, k \notin moved'
               PROVE  Resolves(k)' = {n[2]}
    BY DEF FiledWhereNamesLead
  <2>1. PICK m \in mentions : n = <<m[1], IF m[2] = v THEN s ELSE m[2]>>
    BY <1>1
  <2>2. k = job[m[1]].key /\ k \in Keys /\ k \notin moved
    BY <1>1, <1>2, <2>1 DEF HoldersInv, MentionsDone
  <2>3. Resolves(k) = {m[2]} /\ m[2] \in Live /\ m[2] # 0
    <3>1. FiledWhereNamesLead
      BY <1>12 DEF RegistryInv, Knowing
    <3>2. Resolves(k) = {m[2]}
      BY <1>12, <2>1, <2>2, <3>1 DEF FiledWhereNamesLead
    <3>3. m[2] \in Live
      BY <1>8, <2>1
    <3> QED BY <3>2, <3>3 DEF Live, Ids
  <2>4. aliasOf'[k] = IF k \in ks /\ k # own THEN s ELSE IF aliasOf[k] = v THEN s ELSE aliasOf[k]
    BY <1>1, <2>2
  <2>5. At(k)' = At(k) \ {v} /\ s # v /\ s # 0
    BY <1>1, <1>6 DEF Ids
  <2>6. Resolves(k)' = IF At(k)' # {} THEN At(k)' ELSE {aliasOf'[k]} \ {0}
    BY DEF Resolves
  <2>7. CASE At(k) # {}
    <3>1. At(k) = {m[2]}
      BY <2>3, <2>7 DEF Resolves
    <3>2. CASE m[2] = v
      <4>1. k = KeyOf(rows[v])
        BY <3>1, <3>2 DEF At
      <4>2. aliasOf'[k] = s
        BY <1>1, <1>10, <2>4, <4>1
      <4> HIDE DEF own
      <4> QED BY <2>1, <2>5, <2>6, <3>1, <3>2, <4>2
    <3>3. CASE m[2] # v
      <4>1. n[2] = m[2]
        BY <2>1, <3>3
      <4>2. At(k)' = {m[2]}
        BY <2>5, <3>1, <3>3
      <4> QED BY <2>6, <4>1, <4>2
    <3> QED BY <3>2, <3>3
  <2>8. CASE At(k) = {}
    <3>1. aliasOf[k] = m[2]
      BY <2>3, <2>8 DEF Resolves
    <3>2. k # own
      BY <1>10, <2>8
    <3>3. CASE m[2] \in {s, v}
      <4>1. aliasOf'[k] = s
        BY <2>4, <3>1, <3>3
      <4> QED BY <2>1, <2>5, <2>6, <2>8, <3>3, <4>1
    <3>4. CASE m[2] \notin {s, v}
      <4>1. Elsewhere(k, {s, v})
        BY <2>3, <3>4 DEF Elsewhere
      <4>2. k \notin ks
        BY <1>1, <2>2, <4>1
      <4>3. aliasOf'[k] = m[2]
        BY <2>4, <3>1, <3>4, <4>2
      <4> QED BY <2>1, <2>3, <2>5, <2>6, <2>8, <3>4, <4>3
    <3> QED BY <3>3, <3>4
  <2> QED BY <2>7, <2>8
<1>13. \A m \in mentions' : \E n \in mentions : n[1] = m[1]
  BY <1>1
<1>14. /\ spoilt' \in BOOLEAN /\ (spoilt' = spoilt) /\ UNCHANGED <<job, pass, created>>
       /\ edit' = edit /\ {s, v} \in SUBSET Ids
  BY <1>1, <1>2 DEF HistoryInv
<1> HIDE DEF own
<1>15. Overtakes(None, {s, v}, ks \cup {own})
  BY <1>1 DEF own
<1> QED BY <1>9, <1>11, <1>12, <1>13, <1>14, <1>15, Corrects

\* and of a rename or a change of type.
UpdateEffect(e, new, row, ks, free) ==
    /\ e \in Live /\ \A q \in At(new) : q = e
    /\ KeyOf(rows[e]) # new /\ KeyOf(rows[e]) \in ks
    /\ Overtakes(None, {e}, ks \cup free \cup {new})
    /\ Sound(row) /\ KeyOf(row) = new
    /\ rows' = [rows EXCEPT ![e] = row]
    /\ suppressed' = suppressed \ {new}
    /\ aliasOf' \in [Keys -> Live \cup {0}]
    /\ \A k \in Keys :
          /\ k # new /\ k \in ks => aliasOf'[k] = e
          /\ k # new /\ k \notin ks /\ k \notin free => aliasOf'[k] = aliasOf[k]
          /\ k # new /\ k \notin ks /\ k \in free => aliasOf[k] = 0
    /\ moved' = moved \cup {k \in ks \cup {new} : Elsewhere(k, {e})}
    /\ UNCHANGED <<mentions, job, pass, edit, created, spoilt>>

\* A rename or a change of type has the effect stated,
LEMMA UpdateDoes ==
    ASSUME RegistryAssumption, RegistryInv, NEW e \in Ids, NEW type \in Types, NEW name \in Names,
           NEW label \in Names, Update(e, type, name, label), NEW new, new = <<type, name>>
    PROVE  \E row \in EntityRow, ks \in SUBSET Keys, free \in SUBSET Keys :
              UpdateEffect(e, new, row, ks, free)
<1> DEFINE old == rows[e]
           cleared == [aliasOf EXCEPT ![new] = 0]
           ks == {KeyOf(old), <<type, old.name>>, <<old.type, name>>}
           recorded == Record(cleared, ks, e, new)
           merged == {<<type, n>> : n \in {k[2] : k \in {q \in Keys : recorded[q] = e}}}
           free == IF type = old.type THEN {} ELSE {k \in merged : recorded[k] = 0}
           aliases == IF name = old.name THEN old.aliases ELSE (old.aliases \cup {old.label}) \ {label}
           contact == IF type = "person" THEN old.contact ELSE None
           origin == IF type = "person" THEN old.origin ELSE None
           row == [type |-> type, name |-> name, label |-> label, aliases |-> aliases,
                   contact |-> contact, origin |-> origin]
<1>1. /\ e \in Live /\ \A q \in At(new) : q = e
      /\ KeyOf(old) # new
      /\ Overtakes(None, {e}, ks \cup free \cup {new})
      /\ rows' = [rows EXCEPT ![e] = row]
      /\ suppressed' = suppressed \ {new}
      /\ aliasOf' = Record(recorded, free, e, new)
      /\ moved' = moved \cup {k \in ks \cup {new} : Elsewhere(k, {e})}
      /\ UNCHANGED <<mentions, job, pass, edit, created, spoilt>>
  BY ZenonT(40) DEF Update
<1>2. old \in EntityRow /\ Sound(old) /\ e # 0
  BY <1>1, RowKey DEF RegistryInv, Ids
<1>3. /\ row \in EntityRow /\ Sound(row) /\ KeyOf(row) = new
  <2>1. /\ old.type \in Types /\ old.label \in Names /\ old.aliases \subseteq Names
        /\ old.contact \in Contacts \cup {None}
        /\ old.origin \in {None, "auto", "manual", "suppressed"}
        /\ old.type # "person" => old.contact = None
    BY <1>2, RowFields
  <2>2. /\ aliases \in SUBSET Names /\ contact \in Contacts \cup {None}
        /\ origin \in {None, "auto", "manual", "suppressed"}
        /\ type # "person" => contact = None
    <3> HIDE DEF old
    <3> QED BY <2>1
  <2>3. /\ type # "person" => origin = None
        /\ origin \in {"manual", "auto"} => contact # None
    <3> HIDE DEF old
    <3> QED BY <1>2 DEF Sound, None
  <2> HIDE DEF aliases, contact, origin
  <2>4. row \in EntityRow
    BY <2>2, RowMade
  <2>5. row.type = type /\ row.name = name /\ row.contact = contact /\ row.origin = origin
    OBVIOUS
  <2> QED BY <2>3, <2>4, <2>5 DEF Sound, KeyOf
<1>4. ks \in SUBSET Keys /\ KeyOf(old) \in ks /\ new \in Keys
  <2>1. old.type \in Types /\ old.name \in Names
    BY <1>2, RowFields
  <2> QED BY <2>1 DEF KeyOf, Keys
<1>5. \A k \in Keys : aliasOf[k] \in Live \cup {0} /\ aliasOf \in [Keys -> Live \cup {0}]
  BY DEF RegistryInv, RowsInv, StoredTypes
<1> HIDE DEF ks, row
<1>6. \A k \in Keys : recorded[k] = IF k \in ks /\ k # new THEN e ELSE IF k = new THEN 0 ELSE aliasOf[k]
  BY <1>4, <1>5 DEF Record
<1> HIDE DEF recorded
<1>7. free \in SUBSET Keys /\ \A k \in free : recorded[k] = 0
  BY DEF Keys
<1> HIDE DEF free
<1>8. \A k \in Keys : aliasOf'[k] = IF k \in free /\ k # new THEN e ELSE recorded[k]
  BY <1>1 DEF Record
<1>9. aliasOf' \in [Keys -> Live \cup {0}]
  <2>1. aliasOf' = [k \in Keys |-> IF k \in free \ {new} THEN e ELSE recorded[k]]
    BY <1>1 DEF Record
  <2>2. \A k \in Keys : recorded[k] \in Live \cup {0}
    BY <1>1, <1>5, <1>6
  <2> QED BY <1>1, <2>1, <2>2
<1>10. \A k \in Keys :
          /\ k # new /\ k \in ks => aliasOf'[k] = e
          /\ k # new /\ k \notin ks /\ k \notin free => aliasOf'[k] = aliasOf[k]
          /\ k # new /\ k \notin ks /\ k \in free => aliasOf[k] = 0
  BY <1>6, <1>7, <1>8
<1>11. UpdateEffect(e, new, row, ks, free)
  BY <1>1, <1>3, <1>4, <1>9, <1>10 DEF UpdateEffect
<1> QED BY <1>3, <1>4, <1>7, <1>11

\* and keeps the invariant: old names lead where the row went.
LEMMA UpdateStep ==
    ASSUME RegistryAssumption, RegistryInv, NEW e \in Ids, NEW type \in Types, NEW name \in Names,
           NEW label \in Names, Update(e, type, name, label), chosen' \in [Ids -> Names \cup {None}]
    PROVE  RegistryInv'
<1> SUFFICES ASSUME NEW new, new = <<type, name>> PROVE RegistryInv'
  OBVIOUS
<1>0. PICK row \in EntityRow, ks \in SUBSET Keys, free \in SUBSET Keys :
         UpdateEffect(e, new, row, ks, free)
  BY UpdateDoes
<1>1. /\ e \in Live /\ \A q \in At(new) : q = e
      /\ KeyOf(rows[e]) # new /\ KeyOf(rows[e]) \in ks
      /\ Overtakes(None, {e}, ks \cup free \cup {new})
      /\ Sound(row) /\ KeyOf(row) = new
      /\ rows' = [rows EXCEPT ![e] = row]
      /\ suppressed' = suppressed \ {new}
      /\ aliasOf' \in [Keys -> Live \cup {0}]
      /\ \A k \in Keys :
            /\ k # new /\ k \in ks => aliasOf'[k] = e
            /\ k # new /\ k \notin ks /\ k \notin free => aliasOf'[k] = aliasOf[k]
            /\ k # new /\ k \notin ks /\ k \in free => aliasOf[k] = 0
      /\ moved' = moved \cup {k \in ks \cup {new} : Elsewhere(k, {e})}
      /\ UNCHANGED <<mentions, job, pass, edit, created, spoilt>>
  BY <1>0 DEF UpdateEffect
<1>2. RowsInv /\ HoldersInv /\ HistoryInv /\ new \in Keys /\ e # 0
  BY DEF RegistryInv, Keys, Ids
<1>3. /\ rows' \in [Ids -> RowOrNone] /\ rows'[e] = row
      /\ \A q \in Ids \ {e} : rows'[q] = rows[q]
  BY <1>1, <1>2 DEF RowsInv, StoredTypes, RowOrNone
<1>4. Live' = Live
  <2>1. row # NoEntity
    BY RowFields
  <2> QED BY <1>1, <1>3, <2>1 DEF Live
<1>5. At(new) = {}
  BY <1>1 DEF At
<1>6. \A q \in Live : q # e => rows'[q] = rows[q] /\ KeyOf(rows[q]) # new /\ Sound(rows[q]) /\ q \in Ids
  BY <1>2, <1>3, <1>5 DEF At, Live, RowsInv, RowsSound
<1>7. At(new)' = {e}
  <2>1. At(new)' = {q \in Live' : KeyOf(rows'[q]) = new}
    BY DEF At, KeyOf
  <2>2. ASSUME NEW q \in Live, q # e PROVE KeyOf(rows'[q]) # new
    BY <1>6, <2>2
  <2>3. KeyOf(rows'[e]) = new
    BY <1>1, <1>3
  <2> QED BY <1>1, <1>4, <2>1, <2>2, <2>3
<1>8. \A k : k # new => At(k)' = At(k) \ {e}
  <2> SUFFICES ASSUME NEW k, k # new PROVE At(k)' = At(k) \ {e}
    OBVIOUS
  <2>1. At(k)' = {q \in Live' : KeyOf(rows'[q]) = k}
    BY DEF At, KeyOf
  <2>2. At(k) = {q \in Live : KeyOf(rows[q]) = k}
    BY DEF At
  <2>3. \A q \in Live : KeyOf(rows'[q]) = k <=> KeyOf(rows[q]) = k /\ q # e
    BY <1>1, <1>3, <1>6
  <2> QED BY <1>4, <2>1, <2>2, <2>3
<1>9. RowsInv'
  <2>1. UniqueKeys'
    <3> SUFFICES ASSUME NEW a \in Live, NEW b \in Live, KeyOf(rows'[a]) = KeyOf(rows'[b]), a # b
                 PROVE  FALSE
      BY <1>4 DEF UniqueKeys, KeyOf
    <3>1. CASE a = e
      BY <1>1, <1>3, <1>6, <3>1
    <3>2. CASE b = e
      BY <1>1, <1>3, <1>6, <3>2
    <3>3. CASE a # e /\ b # e
      BY <1>2, <1>6, <3>3 DEF RowsInv, UniqueKeys
    <3> QED BY <3>1, <3>2, <3>3
  <2>2. aliasOf' \in [Keys -> Live' \cup {0}]
    BY <1>1, <1>4
  <2>3. mentions' \subseteq EntityRuns \X Live'
    BY <1>1, <1>2, <1>4 DEF RowsInv, StoredTypes
  <2>4. moved' \subseteq Keys /\ suppressed' \subseteq Keys
    BY <1>1, <1>2 DEF RowsInv, StoredTypes
  <2>5. corrections' \in 0 .. MaxCorrections
    BY <1>1, <1>2, CountedCorrection
  <2>6. created' = created /\ Live' \subseteq Live
    BY <1>1, <1>4
  <2>7. \A q \in Live' : Sound(rows'[q])
    BY <1>1, <1>3, <1>4, <1>6
  <2> QED BY <1>2, <1>3, <2>1, <2>2, <2>3, <2>4, <2>5, <2>6, <2>7, StillStored
<1>10. Local({e}, ks \cup free \cup {new})
  <2>1. \A q \in Live \ {e} : rows'[q] = rows[q]
    BY <1>6
  <2>2. ASSUME NEW k \in Keys \ (ks \cup free \cup {new})
        PROVE  /\ At(k)' = At(k) /\ \A q \in At(k) : rows'[q].origin = rows[q].origin
               /\ aliasOf[k] \notin {e} => aliasOf'[k] = aliasOf[k]
               /\ k \in suppressed' => k \in suppressed
    <3>1. e \notin At(k)
      BY <1>1, <2>2 DEF At
    <3>2. At(k)' = At(k)
      <4>1. k # new
        BY <2>2
      <4>2. At(k)' = At(k) \ {e}
        BY <1>8, <4>1
      <4> QED BY <3>1, <4>2
    <3>3. \A q \in At(k) : rows'[q].origin = rows[q].origin
      BY <1>6, <3>1 DEF At
    <3> QED BY <1>1, <2>2, <3>2, <3>3
  <2> QED BY <2>1, <2>2 DEF Local
<1>11. ASSUME ~spoilt PROVE FiledWhereNamesLead'
  <2> SUFFICES ASSUME NEW m \in mentions', NEW k, k = job'[m[1]].key, k \notin moved'
               PROVE  Resolves(k)' = {m[2]}
    BY DEF FiledWhereNamesLead
  <2>1. m \in mentions /\ k = job[m[1]].key /\ k \in Keys /\ k \notin moved
    BY <1>1, <1>2 DEF HoldersInv, MentionsDone
  <2>2. Resolves(k) = {m[2]} /\ m[2] \in Live /\ m[2] # 0
    <3>1. FiledWhereNamesLead
      BY <1>11 DEF RegistryInv, Knowing
    <3>2. Resolves(k) = {m[2]}
      BY <1>11, <2>1, <3>1 DEF FiledWhereNamesLead
    <3>3. m[2] \in Live
      BY <1>2, <2>1 DEF RowsInv, StoredTypes
    <3> QED BY <3>2, <3>3 DEF Live, Ids
  <2>3. Resolves(k)' = IF At(k)' # {} THEN At(k)' ELSE {aliasOf'[k]} \ {0}
    BY DEF Resolves
  <2>4. CASE m[2] # e
    <3>1. Elsewhere(k, {e})
      BY <2>2, <2>4 DEF Elsewhere
    <3>2. k \notin ks /\ k # new
      BY <1>1, <2>1, <3>1
    <3>3. At(k)' = At(k) \ {e}
      BY <1>8, <3>2
    <3>4. CASE At(k) # {}
      BY <2>2, <2>3, <2>4, <3>3, <3>4 DEF Resolves
    <3>5. CASE At(k) = {}
      <4>1. aliasOf[k] = m[2]
        BY <2>2, <3>5 DEF Resolves
      <4>2. aliasOf'[k] = m[2]
        BY <1>1, <2>1, <2>2, <3>2, <4>1
      <4> QED BY <2>2, <2>3, <3>3, <3>5, <4>2
    <3> QED BY <3>4, <3>5
  <2>5. CASE m[2] = e /\ k = new
    BY <1>7, <2>3, <2>5
  <2>6. CASE m[2] = e /\ k # new
    <3>1. At(k)' = At(k) \ {e}
      BY <1>8, <2>6
    <3>2. At(k) \subseteq {e}
      BY <2>2, <2>6 DEF Resolves
    <3>3. aliasOf'[k] = e
      <4>1. CASE At(k) # {}
        <5>1. k = KeyOf(rows[e])
          BY <3>2, <4>1 DEF At
        <5> QED BY <1>1, <2>1, <2>6, <5>1
      <4>2. CASE At(k) = {}
        <5>1. aliasOf[k] = e
          BY <2>2, <2>6, <4>2 DEF Resolves
        <5> QED BY <1>1, <1>2, <2>1, <2>6, <5>1
      <4> QED BY <4>1, <4>2
    <3> QED BY <1>2, <2>3, <2>6, <3>1, <3>2, <3>3
  <2> QED BY <2>4, <2>5, <2>6
<1>12. \A m \in mentions' : \E n \in mentions : n[1] = m[1]
  BY <1>1
<1>13. /\ spoilt' \in BOOLEAN /\ spoilt' = spoilt /\ UNCHANGED <<job, pass, created>>
       /\ edit' = edit /\ {e} \in SUBSET Ids
  BY <1>1, <1>2 DEF HistoryInv
<1>14. Overtakes(None, {e}, ks \cup free \cup {new})
  BY <1>1
<1> QED BY <1>9, <1>10, <1>11, <1>12, <1>13, <1>14, Corrects

\* So does a removal,
LEMMA SuppressStep ==
    ASSUME RegistryAssumption, RegistryInv, NEW e \in Ids, Suppress(e)
    PROVE  RegistryInv'
<1> DEFINE row == rows[e]
           names == OfType({row.type}, {row.name} \cup row.aliases) \cup {k \in Keys : aliasOf[k] = e}
<1>1. /\ e \in Live /\ Overtakes(None, {e}, names)
      /\ suppressed' = suppressed \cup names
      /\ rows' = [rows EXCEPT ![e] = NoEntity]
      /\ aliasOf' = [k \in Keys |-> IF aliasOf[k] = e THEN 0 ELSE aliasOf[k]]
      /\ mentions' = {m \in mentions : m[2] # e}
      /\ chosen' = [chosen EXCEPT ![e] = None]
      /\ UNCHANGED <<job, pass, edit, created, moved, spoilt>>
  BY DEF Suppress
<1>2. RowsInv /\ HoldersInv /\ HistoryInv /\ e # 0
  BY DEF RegistryInv, Ids
<1>3. names \in SUBSET Keys /\ KeyOf(rows[e]) \in names
  <2>1. rows[e] \in EntityRow
    BY <1>1, RowKey DEF RegistryInv
  <2>2. row.type \in Types /\ row.name \in Names /\ row.aliases \subseteq Names
    BY <2>1, RowFields
  <2> HIDE DEF row
  <2>3. names \in SUBSET Keys /\ KeyOf(row) \in names
    BY <2>2 DEF OfType, Keys, KeyOf
  <2> QED BY <2>3 DEF row
<1> HIDE DEF names
<1>4. /\ rows' \in [Ids -> RowOrNone] /\ rows'[e] = NoEntity
      /\ \A q \in Ids \ {e} : rows'[q] = rows[q]
  BY <1>1, <1>2 DEF RowsInv, StoredTypes, RowOrNone
<1>5. Live' = Live \ {e} /\ \A q \in Live' : q \in Live /\ q # e /\ rows'[q] = rows[q]
  BY <1>4 DEF Live
<1>6. ASSUME NEW k PROVE At(k)' = At(k) \ {e}
  <2>1. At(k)' = {q \in Live' : KeyOf(rows'[q]) = k}
    BY DEF At, KeyOf
  <2>2. At(k) = {q \in Live : KeyOf(rows[q]) = k}
    BY DEF At
  <2>3. \A q \in Live' : KeyOf(rows'[q]) = KeyOf(rows[q])
    BY <1>5
  <2> QED BY <1>5, <2>1, <2>2, <2>3
<1>7. RowsInv'
  <2>1. UniqueKeys'
    BY <1>2, <1>5 DEF UniqueKeys, RowsInv, KeyOf
  <2>2. aliasOf' \in [Keys -> Live' \cup {0}]
    BY <1>1, <1>2, <1>5 DEF RowsInv, StoredTypes
  <2>3. mentions' \subseteq EntityRuns \X Live'
    BY <1>1, <1>2, <1>5 DEF RowsInv, StoredTypes
  <2>4. /\ moved' \subseteq Keys /\ suppressed' \subseteq Keys
        /\ chosen' \in [Ids -> Names \cup {None}]
    BY <1>1, <1>2, <1>3 DEF RowsInv, StoredTypes
  <2>5. corrections' \in 0 .. MaxCorrections
    BY <1>1, <1>2, CountedCorrection
  <2>6. created' = created /\ Live' \subseteq Live
    BY <1>1, <1>5
  <2>7. \A q \in Live' : Sound(rows'[q])
    BY <1>2, <1>5 DEF RowsInv, RowsSound
  <2> QED BY <1>2, <1>4, <2>1, <2>2, <2>3, <2>4, <2>5, <2>6, <2>7, StillStored
<1>8. Local({e}, names)
  <2>1. \A q \in Live \ {e} : rows'[q] = rows[q]
    BY <1>4 DEF Live
  <2>2. ASSUME NEW k \in Keys \ names
        PROVE  /\ At(k)' = At(k) /\ \A q \in At(k) : rows'[q].origin = rows[q].origin
               /\ aliasOf[k] \notin {e} => aliasOf'[k] = aliasOf[k]
               /\ k \in suppressed' => k \in suppressed
    <3>1. e \notin At(k)
      BY <1>3, <2>2 DEF At
    <3>2. At(k)' = At(k)
      BY <1>6, <3>1
    <3>3. \A q \in At(k) : rows'[q].origin = rows[q].origin
      BY <1>4, <3>1 DEF At, Live
    <3> QED BY <1>1, <2>2, <3>2, <3>3
  <2> QED BY <2>1, <2>2 DEF Local
<1>9. ASSUME ~spoilt PROVE FiledWhereNamesLead'
  <2> SUFFICES ASSUME NEW m \in mentions', NEW k, k = job'[m[1]].key, k \notin moved'
               PROVE  Resolves(k)' = {m[2]}
    BY DEF FiledWhereNamesLead
  <2>1. m \in mentions /\ m[2] # e /\ k = job[m[1]].key /\ k \in Keys /\ k \notin moved
    BY <1>1, <1>2 DEF HoldersInv, MentionsDone
  <2>2. Resolves(k) = {m[2]}
    <3>1. FiledWhereNamesLead
      BY <1>9 DEF RegistryInv, Knowing
    <3> QED BY <1>9, <2>1, <3>1 DEF FiledWhereNamesLead
  <2>3. Resolves(k)' = IF At(k)' # {} THEN At(k)' ELSE {aliasOf'[k]} \ {0}
    BY DEF Resolves
  <2>4. At(k)' = At(k) \ {e}
    BY <1>6
  <2>5. CASE At(k) # {}
    BY <2>1, <2>2, <2>3, <2>4, <2>5 DEF Resolves
  <2>6. CASE At(k) = {}
    <3>1. aliasOf[k] = m[2] /\ m[2] # 0
      BY <2>2, <2>6 DEF Resolves
    <3>2. aliasOf'[k] = m[2]
      BY <1>1, <2>1, <3>1
    <3> QED BY <2>3, <2>4, <2>6, <3>1, <3>2
  <2> QED BY <2>5, <2>6
<1>10. \A m \in mentions' : \E n \in mentions : n[1] = m[1]
  BY <1>1
<1>11. /\ spoilt' \in BOOLEAN /\ spoilt' = spoilt /\ UNCHANGED <<job, pass, created>>
       /\ edit' = edit /\ {e} \in SUBSET Ids
  BY <1>1, <1>2 DEF HistoryInv
<1> QED BY <1>1, <1>7, <1>8, <1>9, <1>10, <1>11, Corrects

\* Overwriting a row by one with its key moves no name,
LEMMA SameKey ==
    ASSUME RegistryAssumption, RowsInv, NEW e \in Live, NEW row \in EntityRow,
           KeyOf(row) = KeyOf(rows[e]), rows' = [rows EXCEPT ![e] = row], UNCHANGED aliasOf
    PROVE  /\ rows' \in [Ids -> RowOrNone] /\ rows'[e] = row /\ \A q \in Ids \ {e} : rows'[q] = rows[q]
           /\ Live' = Live /\ UniqueKeys'
           /\ \A k : At(k)' = At(k) /\ Resolves(k)' = Resolves(k)
<1>1. e \in Ids /\ row # NoEntity /\ rows[e] # NoEntity
  BY RowFields DEF Live
<1>2. /\ rows' \in [Ids -> RowOrNone] /\ rows'[e] = row
      /\ \A q \in Ids \ {e} : rows'[q] = rows[q]
  BY <1>1 DEF RowsInv, StoredTypes, RowOrNone
<1>3. Live' = Live
  BY <1>1, <1>2 DEF Live
<1>4. \A q \in Live : KeyOf(rows'[q]) = KeyOf(rows[q])
  BY <1>2 DEF Live
<1>5. UniqueKeys'
  BY <1>3, <1>4 DEF UniqueKeys, RowsInv, KeyOf
<1>6. \A k : At(k)' = At(k)
  BY <1>3, <1>4 DEF At, KeyOf
<1>7. \A k : Resolves(k)' = Resolves(k)
  BY <1>6 DEF Resolves
<1> QED BY <1>2, <1>3, <1>5, <1>6, <1>7

\* is local,
LEMMA SameKeyLocal ==
    ASSUME RegistryAssumption, RowsInv, NEW e \in Live, NEW row \in EntityRow,
           KeyOf(row) = KeyOf(rows[e]), rows' = [rows EXCEPT ![e] = row],
           UNCHANGED <<aliasOf, suppressed>>, NEW ks,
           KeyOf(row) \in ks \/ row.origin = rows[e].origin
    PROVE  Local({e}, ks)
<1>1. /\ rows'[e] = row /\ \A q \in Ids \ {e} : rows'[q] = rows[q]
      /\ \A k : At(k)' = At(k)
  BY SameKey
<1>2. ASSUME NEW k \in Keys \ ks, NEW q \in At(k) PROVE rows'[q].origin = rows[q].origin
  <2>1. q \in Ids /\ KeyOf(rows[q]) = k
    BY DEF At, Live
  <2>2. CASE q = e
    BY <1>1, <1>2, <2>1, <2>2
  <2>3. CASE q # e
    BY <1>1, <2>1, <2>3
  <2> QED BY <2>2, <2>3
<1>3. \A q \in Live \ {e} : rows'[q] = rows[q]
  BY <1>1 DEF Live
<1> QED BY <1>1, <1>2, <1>3 DEF Local

\* and leaves mentions filed.
LEMMA SameResolves ==
    ASSUME RegistryInv, ~spoilt, UNCHANGED <<mentions, job, moved>>, \A k : Resolves(k)' = Resolves(k)
    PROVE  FiledWhereNamesLead'
<1>1. FiledWhereNamesLead /\ \A m \in mentions : job[m[1]].key \in Keys
  BY DEF RegistryInv, Knowing, HoldersInv, MentionsDone
<1> QED BY <1>1, FiledStill

\* as does a new spelling,
LEMMA RespellStep ==
    ASSUME RegistryAssumption, RegistryInv, NEW e \in Ids, Respell(e)
    PROVE  RegistryInv'
<1>1. /\ e \in Live /\ Overtakes(None, {e}, {})
      /\ rows' = [rows EXCEPT ![e].label = rows[e].name]
      /\ chosen' = [chosen EXCEPT ![e] = rows[e].name]
      /\ UNCHANGED <<aliasOf, suppressed, mentions, job, pass, edit, created, moved, spoilt>>
  BY DEF Respell
<1>2. RowsInv /\ HoldersInv /\ HistoryInv /\ rows[e] \in EntityRow /\ Sound(rows[e])
  BY <1>1, RowKey DEF RegistryInv
<1> SUFFICES ASSUME NEW row, row = [rows[e] EXCEPT !.label = rows[e].name] PROVE RegistryInv'
  OBVIOUS
<1>3. /\ row \in EntityRow /\ row.type = rows[e].type /\ row.name = rows[e].name
      /\ row.contact = rows[e].contact /\ row.origin = rows[e].origin /\ rows[e].name \in Names
  BY <1>2 DEF EntityRow
<1>4. Sound(row) /\ KeyOf(row) = KeyOf(rows[e])
  BY <1>2, <1>3 DEF Sound, KeyOf
<1>5. rows' = [rows EXCEPT ![e] = row]
  BY <1>1
<1>6. /\ rows' \in [Ids -> RowOrNone] /\ rows'[e] = row /\ \A q \in Ids \ {e} : rows'[q] = rows[q]
      /\ Live' = Live /\ UniqueKeys'
      /\ \A k : Resolves(k)' = Resolves(k)
  <2>1. row \in EntityRow /\ KeyOf(row) = KeyOf(rows[e]) /\ UNCHANGED aliasOf /\ RowsInv /\ e \in Live
    BY <1>1, <1>2, <1>3, <1>4
  <2> QED BY <1>5, <2>1, SameKey
<1>7. RowsInv'
  <2>1. \A q \in Live' : Sound(rows'[q])
    BY <1>2, <1>4, <1>6 DEF RowsInv, RowsSound, Live
  <2>2. /\ aliasOf' \in [Keys -> Live' \cup {0}] /\ suppressed' \subseteq Keys
        /\ mentions' \subseteq EntityRuns \X Live' /\ created' = created /\ moved' \subseteq Keys
        /\ chosen' \in [Ids -> Names \cup {None}]
    BY <1>1, <1>2, <1>3, <1>6 DEF RowsInv, StoredTypes
  <2>3. corrections' \in 0 .. MaxCorrections
    BY <1>1, <1>2, CountedCorrection
  <2> QED BY <1>2, <1>6, <2>1, <2>2, <2>3, StillStored
<1>8. Local({e}, {})
  BY <1>1, <1>2, <1>3, <1>4, <1>5, SameKeyLocal
<1>9. ~spoilt => FiledWhereNamesLead'
  BY <1>1, <1>6, SameResolves
<1>10. \A m \in mentions' : \E n \in mentions : n[1] = m[1]
  BY <1>1
<1>11. /\ spoilt' \in BOOLEAN /\ spoilt' = spoilt /\ UNCHANGED <<job, pass, created>>
       /\ edit' = edit /\ {e} \in SUBSET Ids
  BY <1>1, <1>2 DEF HistoryInv
<1> QED BY <1>1, <1>7, <1>8, <1>9, <1>10, <1>11, Corrects

\* the form that is opened,
LEMMA OpenEditStep ==
    ASSUME RegistryAssumption, RegistryInv, OpenEdit
    PROVE  RegistryInv'
<1>1. PICK e \in Live : rows[e].type = "person" /\ edit' = [id |-> e, row |-> rows[e]]
  BY DEF OpenEdit
<1>2. UNCHANGED <<rows, aliasOf, suppressed, mentions, job, pass, created, corrections, chosen,
                  moved, stale, spoilt>>
  BY DEF OpenEdit
<1>3. e \in Ids /\ rows[e] \in EntityRow /\ e \in Born /\ e # 0
  BY RowKey DEF RegistryInv, Ids
<1>4. RowsInv' /\ Live' = Live
  BY <1>2, Kept DEF RegistryInv, RowsInv, StoredTypes
<1>5. HoldersInv'
  <2>1. EditInv'
    BY <1>1, <1>3 DEF EditInv, RowOrNone
  <2>2. JobsInv' /\ PassesInv' /\ MentionsDone'
    BY <1>2 DEF RegistryInv, HoldersInv, JobsInv, PassesInv, MentionsDone
  <2>3. AllBorn'
    BY <1>1, <1>2, <1>3 DEF RegistryInv, HoldersInv, AllBorn, Born
  <2> QED BY <2>1, <2>2, <2>3 DEF HoldersInv
<1>6. HistoryInv'
  BY <1>2 DEF RegistryInv, HistoryInv
<1>7. ASSUME ~spoilt PROVE JobsKnow' /\ PassesKnow' /\ EditKnows' /\ FiledWhereNamesLead'
  <2>1. JobsKnow /\ PassesKnow /\ EditKnows /\ FiledWhereNamesLead
    BY <1>7 DEF RegistryInv, Knowing
  <2>2. JobsKnow'
    <3> SUFFICES ASSUME NEW y \in EntityRuns \ stale', NEW i, i = job'[y] PROVE Informed(i)'
      BY AllInformed DEF RegistryInv
    <3>1. Informed(i)
      BY <1>2, <2>1 DEF JobsKnow
    <3> QED BY <1>2, <3>1, SameInforms
  <2>3. PassesKnow'
    BY <1>2, <1>4, <2>1, AgreesSelf, PassesStill
  <2>4. EditKnows'
    BY <1>1, <1>2, <1>4, AgreesSelf DEF EditKnows
  <2>5. FiledWhereNamesLead'
    <3>1. \A k : Resolves(k)' = Resolves(k)
      BY <1>2, <1>4 DEF Resolves, At, KeyOf
    <3> QED BY <1>2, <1>7, <3>1, SameResolves
  <2> QED BY <2>2, <2>3, <2>4, <2>5
<1> QED BY <1>2, <1>4, <1>5, <1>6, <1>7 DEF RegistryInv, Knowing

\* The row of a form has the key of the one it was opened on.
LEMMA EditedRow ==
    ASSUME RegistryAssumption, NEW old \in EntityRow, old.type = "person",
           NEW row \in {[old EXCEPT !.contact = c, !.origin = "manual"] : c \in Contacts}
                          \cup {[old EXCEPT !.contact = None, !.origin = "suppressed"]}
    PROVE  row \in EntityRow /\ Sound(row) /\ KeyOf(row) = KeyOf(old)
<1>1. ASSUME NEW c \in Contacts, row = [old EXCEPT !.contact = c, !.origin = "manual"]
      PROVE  row \in EntityRow /\ Sound(row) /\ KeyOf(row) = KeyOf(old)
  <2>1. row \in EntityRow
    BY <1>1 DEF EntityRow
  <2>2. row.type = old.type /\ row.name = old.name /\ row.contact = c /\ c # None
    BY <1>1, RegistryAssumption DEF EntityRow
  <2> QED BY <2>1, <2>2 DEF Sound, KeyOf
<1>2. ASSUME row = [old EXCEPT !.contact = None, !.origin = "suppressed"]
      PROVE  row \in EntityRow /\ Sound(row) /\ KeyOf(row) = KeyOf(old)
  <2>1. row \in EntityRow
    BY <1>2 DEF EntityRow
  <2>2. row.type = old.type /\ row.name = old.name /\ row.origin = "suppressed"
    BY <1>2 DEF EntityRow
  <2> QED BY <2>1, <2>2 DEF Sound, KeyOf
<1> QED BY <1>1, <1>2

\* and the form that is saved.
LEMMA SaveEditStep ==
    ASSUME RegistryAssumption, RegistryInv, SaveEdit
    PROVE  RegistryInv'
<1> SUFFICES ASSUME NEW e, e = edit.id PROVE RegistryInv'
  OBVIOUS
<1>1. /\ edit # NoEdit /\ edit' = NoEdit
      /\ UNCHANGED <<aliasOf, suppressed, mentions, job, pass, created, chosen, moved>>
  BY DEF SaveEdit
<1>0. created' \in created .. MaxEntities
  BY <1>1, RegistryAssumption DEF RegistryInv, RowsInv, StoredTypes
<1>2. PICK row \in {[edit.row EXCEPT !.contact = c, !.origin = "manual"] : c \in Contacts}
                      \cup {[edit.row EXCEPT !.contact = None, !.origin = "suppressed"]} :
         /\ Overtakes("user", {e}, {KeyOf(row)})
         /\ IF Clash(e, row) THEN UNCHANGED <<rows, spoilt>> ELSE Save("user", e, row)
  BY DEF SaveEdit
<1>3. RowsInv /\ HoldersInv /\ HistoryInv
  BY DEF RegistryInv
<1>4. /\ e \in Born /\ e \in Ids /\ edit.row \in EntityRow /\ edit.row.type = "person"
  <2>1. e # 0 /\ edit.row \in EntityRow /\ edit.row.type = "person"
    BY <1>1, <1>3 DEF HoldersInv, EditInv
  <2>2. e \in Born \cup {0} /\ e \in Ids \cup {0}
    BY <1>3 DEF HoldersInv, AllBorn, EditInv
  <2> QED BY <2>1, <2>2
<1>5. row \in EntityRow /\ Sound(row) /\ KeyOf(row) = KeyOf(edit.row)
  BY <1>4, EditedRow
<1>6. corrections' \in 0 .. MaxCorrections
  BY <1>2, <1>3, CountedCorrection
<1>7. mentions' \subseteq EntityRuns \X Live /\ created' \in created .. MaxEntities
      /\ e \in 1 .. created'
  <2>1. mentions' \subseteq EntityRuns \X Live
    BY <1>1, <1>3 DEF RowsInv, StoredTypes
  <2>2. created \in 0 .. MaxEntities /\ MaxEntities \in Nat /\ created' = created
    BY <1>1, <1>3, RegistryAssumption DEF RowsInv, StoredTypes
  <2>4. e \in 1 .. created'
    BY <1>4, <2>2 DEF Born
  <2> QED BY <1>0, <2>1, <2>4
<1>8. CASE Clash(e, row)
  <2>1. UNCHANGED <<rows, spoilt>>
    BY <1>2, <1>8
  <2>2. RowsInv' /\ Live' = Live
    BY <1>1, <1>3, <1>6, <1>7, <2>1, Kept
  <2>3. \A k : At(k)' = At(k) /\ Resolves(k)' = Resolves(k)
    BY <1>1, <2>1, <2>2 DEF Resolves, At, KeyOf
  <2>4. Local({e}, {KeyOf(row)})
    BY <1>1, <2>1, <2>3 DEF Local
  <2>5. ~spoilt => FiledWhereNamesLead'
    BY <1>1, <2>3, SameResolves
  <2>6. \A m \in mentions' : \E n \in mentions : n[1] = m[1]
    BY <1>1
  <2>7. spoilt' \in BOOLEAN /\ spoilt' = spoilt /\ {e} \in SUBSET Ids
    BY <1>3, <1>4, <2>1 DEF HistoryInv
  <2> QED BY <1>1, <1>2, <2>2, <2>4, <2>5, <2>6, <2>7, Corrects
<1>9. CASE ~Clash(e, row)
  <2>1. rows' = [rows EXCEPT ![e] = row] /\ spoilt' = (spoilt \/ "user" \in stale)
    BY <1>2, <1>9 DEF Save
  <2>2. RowsInv'
    BY <1>1, <1>3, <1>4, <1>5, <1>6, <1>7, <1>9, <2>1, SavedRow
  <2>3. ASSUME ~spoilt' PROVE ~spoilt /\ Local({e}, {KeyOf(row)}) /\ FiledWhereNamesLead'
    <3>1. ~spoilt /\ "user" \notin stale
      BY <1>3, <2>1, <2>3 DEF HistoryInv
    <3>2. e \in Live /\ Agrees(edit.row, rows[e])
      BY <1>1, <3>1 DEF RegistryInv, Knowing, EditKnows
    <3>3. KeyOf(row) = KeyOf(rows[e])
      BY <1>5, <3>2 DEF Agrees
    <3>4. Local({e}, {KeyOf(row)})
      BY <1>1, <1>3, <1>5, <2>1, <3>2, <3>3, SameKeyLocal
    <3>5. \A k : Resolves(k)' = Resolves(k)
      BY <1>1, <1>3, <1>5, <2>1, <3>2, <3>3, SameKey
    <3>6. FiledWhereNamesLead'
      BY <1>1, <3>1, <3>5, SameResolves
    <3> QED BY <3>1, <3>4, <3>6
  <2>4. \A m \in mentions' : \E n \in mentions : n[1] = m[1]
    BY <1>1
  <2>5. spoilt' \in BOOLEAN /\ {e} \in SUBSET Ids
    BY <1>3, <1>4, <2>1 DEF HistoryInv
  <2> QED BY <1>1, <1>2, <2>2, <2>3, <2>4, <2>5, Corrects
<1> QED BY <1>8, <1>9
-----------------------------------------------------------------------------
\* What was extracted before.
LEMMA BeforeIs ==
    ASSUME RegistryAssumption, NEW n \in DOMAIN Before
    PROVE  /\ n \in Ids /\ n \in 1 .. Len(Before) /\ Len(Before) \in 0 .. MaxEntities
           /\ Before[n].by \in EntityRuns /\ Before[n].key \in Keys /\ Before[n].forms \in SUBSET Names
<1>1. /\ Before \in Seq([by : EntityRuns, key : Keys, forms : SUBSET Names])
      /\ Len(Before) <= MaxEntities /\ MaxEntities \in Nat
  BY RegistryAssumption
<1>2. n \in 1 .. Len(Before) /\ Len(Before) \in Nat
  BY <1>1
<1> DEFINE S == [by : EntityRuns, key : Keys, forms : SUBSET Names]
<1>3. Before[n] \in S
  <2>1. Before \in Seq(S)
    BY <1>1
  <2> HIDE DEF S
  <2> QED BY <1>2, <2>1
<1> QED BY <1>1, <1>2, <1>3 DEF Ids

\* The invariant holds at the start,
LEMMA InitHolds == ASSUME RegistryAssumption, RegistryInit PROVE RegistryInv
<1> DEFINE First(n) == Accreted(NewRow(Before[n].key), Before[n].key[2], Before[n].forms)
<1>1. Len(Before) \in 0 .. MaxEntities /\ DOMAIN Before = 1 .. Len(Before)
      /\ MaxEntities \in Nat /\ MaxCorrections \in Nat
  BY RegistryAssumption
<1>2. ASSUME NEW n \in DOMAIN Before
      PROVE  First(n) \in EntityRow /\ KeyOf(First(n)) = Before[n].key /\ Sound(First(n))
             /\ First(n) # NoEntity
  <2>1. Before[n].key \in Keys /\ Before[n].forms \in SUBSET Names
    BY BeforeIs
  <2>2. Before[n].key[2] \in Names
    BY <2>1 DEF Keys
  <2>3. /\ NewRow(Before[n].key) \in EntityRow /\ Sound(NewRow(Before[n].key))
        /\ KeyOf(NewRow(Before[n].key)) = Before[n].key
    BY <2>1, NewRowIs
  <2>4. /\ First(n) \in EntityRow /\ KeyOf(First(n)) = Before[n].key
        /\ First(n).type = NewRow(Before[n].key).type
        /\ First(n).contact = NewRow(Before[n].key).contact
        /\ First(n).origin = NewRow(Before[n].key).origin
    BY <2>1, <2>2, <2>3, AccretedRow
  <2>5. Sound(First(n))
    BY <2>3, <2>4 DEF Sound
  <2> QED BY <2>4, <2>5, RowFields
<1> HIDE DEF First
<1>3. /\ rows = [e \in Ids |-> IF e \in DOMAIN Before THEN First(e) ELSE NoEntity]
      /\ DOMAIN Before \subseteq Ids
  BY BeforeIs DEF RegistryInit, First
<1>4. Live = DOMAIN Before /\ \A e \in Live : rows[e] = First(e)
  BY <1>2, <1>3 DEF Live
<1>5. RowsInv
  <2>1. rows \in [Ids -> RowOrNone]
    BY <1>2, <1>3 DEF RowOrNone
  <2>2. /\ aliasOf \in [Keys -> Live \cup {0}] /\ suppressed \subseteq Keys
        /\ created \in 0 .. MaxEntities /\ corrections \in 0 .. MaxCorrections
        /\ chosen \in [Ids -> Names \cup {None}] /\ moved \subseteq Keys
    BY <1>1 DEF RegistryInit
  <2>3. mentions \subseteq EntityRuns \X Live
    BY <1>4, BeforeIs DEF RegistryInit
  <2>4. UniqueKeys
    BY <1>2, <1>4, RegistryAssumption DEF UniqueKeys
  <2>5. RowsSound
    BY <1>1, <1>2, <1>4 DEF RowsSound, Born, RegistryInit
  <2> QED BY <2>1, <2>2, <2>3, <2>4, <2>5 DEF RowsInv, StoredTypes
<1>6. ASSUME NEW x \in EntityRuns
      PROVE  /\ \/ job[x] = IdleJob /\ \A n \in DOMAIN Before : Before[n].by # x
                \/ \E n \in DOMAIN Before : Before[n].by = x /\ job[x] = Ended(Before[n].key)
             /\ job[x] \in JobRecord /\ JobSound(job[x]) /\ job[x].id = 0
             /\ job[x].pc \in {"idle", "done"}
  <2>1. \/ job[x] = IdleJob /\ \A n \in DOMAIN Before : Before[n].by # x
        \/ \E n \in DOMAIN Before : Before[n].by = x /\ job[x] = Ended(Before[n].key)
    BY DEF RegistryInit
  <2> QED BY <2>1, IdleJobIs, BeforeIs
<1>7. ASSUME NEW n \in DOMAIN Before PROVE job[Before[n].by] = Ended(Before[n].key)
  <2>1. Before[n].by \in EntityRuns
    BY BeforeIs
  <2>2. PICK m \in DOMAIN Before :
                Before[m].by = Before[n].by /\ job[Before[n].by] = Ended(Before[m].key)
    BY <1>6, <2>1
  <2>3. m = n
    BY <2>2, RegistryAssumption
  <2> QED BY <2>2, <2>3
<1>8. HoldersInv
  <2>1. JobsInv
    <3>1. job \in [EntityRuns -> JobRecord]
      BY <1>6 DEF RegistryInit
    <3> QED BY <1>6, <3>1 DEF JobsInv
  <2>2. PassesInv
    <3>1. <<>> \in [{} -> EntityRow] /\ DOMAIN <<>> = {} /\ {} \in SUBSET Ids
      OBVIOUS
    <3>2. \A r \in Resolvers : pass[r] = <<>>
      BY DEF RegistryInit
    <3>3. pass \in [Resolvers -> UNION {[some -> EntityRow] : some \in SUBSET Ids}]
      BY <3>1 DEF RegistryInit
    <3> QED BY <3>1, <3>2, <3>3 DEF PassesInv
  <2>3. EditInv
    BY NoEditIs DEF EditInv, RegistryInit
  <2>4. MentionsDone
    <3> SUFFICES ASSUME NEW m \in mentions PROVE job[m[1]].pc = "done" /\ job[m[1]].key \in Keys
      BY DEF MentionsDone
    <3>1. PICK n \in DOMAIN Before : m = <<Before[n].by, n>>
      BY DEF RegistryInit
    <3> QED BY <1>7, <3>1, IdleJobIs, BeforeIs
  <2>5. AllBorn
    <3>1. \A r \in Resolvers : DOMAIN pass[r] = {}
      BY DEF RegistryInit
    <3> QED BY <1>6, <3>1, NoEditIs DEF AllBorn, RegistryInit
  <2> QED BY <2>1, <2>2, <2>3, <2>4, <2>5 DEF HoldersInv
<1>9. HistoryInv
  BY DEF HistoryInv, RegistryInit
<1>10. JobsKnow
  BY <1>6 DEF JobsKnow, Informed, Creates
<1>11. PassesKnow /\ EditKnows
  BY DEF PassesKnow, EditKnows, RegistryInit
<1>12. FiledWhereNamesLead
  <2> SUFFICES ASSUME NEW m \in mentions PROVE Resolves(job[m[1]].key) = {m[2]}
    BY DEF FiledWhereNamesLead
  <2>1. PICK n \in DOMAIN Before : m = <<Before[n].by, n>>
    BY DEF RegistryInit
  <2>2. job[m[1]].key = Before[n].key
    BY <1>7, <2>1, IdleJobIs, BeforeIs
  <2>3. n \in At(Before[n].key)
    BY <1>2, <1>4 DEF At
  <2>4. Resolves(Before[n].key) = {n}
    BY <1>5, <2>3, OneAt
  <2> QED BY <2>1, <2>2, <2>4
<1> QED BY <1>5, <1>8, <1>9, <1>10, <1>11, <1>12 DEF RegistryInv, Knowing

\* when nothing happens,
LEMMA StutterHolds == ASSUME RegistryAssumption, RegistryInv, UNCHANGED registryVars PROVE RegistryInv'
<1>1. /\ UNCHANGED <<rows, aliasOf, suppressed, mentions, job, pass, edit, created, corrections,
                     chosen, moved, stale, spoilt>>
  BY DEF registryVars
<1>2. RowsInv' /\ Live' = Live
  BY <1>1, Kept DEF RegistryInv, RowsInv, StoredTypes
<1>3. HoldersInv'
  <2>1. created' \in created .. MaxEntities
    BY <1>1, RegistryAssumption DEF RegistryInv, RowsInv, StoredTypes
  <2>2. \A m \in mentions' : \E n \in mentions : n[1] = m[1]
    BY <1>1
  <2> QED BY <1>1, <2>1, <2>2, HoldersKept DEF RegistryInv
<1>4. HistoryInv'
  BY <1>1 DEF RegistryInv, HistoryInv
<1>5. ASSUME ~spoilt PROVE JobsKnow' /\ PassesKnow' /\ EditKnows' /\ FiledWhereNamesLead'
  <2>1. JobsKnow /\ PassesKnow /\ EditKnows
    BY <1>5 DEF RegistryInv, Knowing
  <2>2. JobsKnow'
    <3> SUFFICES ASSUME NEW y \in EntityRuns \ stale', NEW i, i = job'[y] PROVE Informed(i)'
      BY AllInformed DEF RegistryInv
    <3>1. Informed(i)
      BY <1>1, <2>1 DEF JobsKnow
    <3> QED BY <1>1, <3>1, SameInforms
  <2>3. PassesKnow'
    BY <1>1, <1>2, <2>1, AgreesSelf, PassesStill
  <2>4. EditKnows'
    BY <1>1, <1>2, <2>1, AgreesSelf, EditStill
  <2>5. FiledWhereNamesLead'
    <3>1. \A k : Resolves(k)' = Resolves(k)
      BY <1>1, <1>2 DEF Resolves, At, KeyOf
    <3> QED BY <1>1, <1>5, <3>1, SameResolves
  <2> QED BY <2>2, <2>3, <2>4, <2>5
<1> QED BY <1>1, <1>2, <1>3, <1>4, <1>5 DEF RegistryInv, Knowing

\* and after every step.
LEMMA StepHolds ==
    ASSUME RegistryAssumption, RegistryInv, RegistryNext
    PROVE  RegistryInv'
<1>1. ASSUME NEW x \in EntityRuns, IngestEntity(x) PROVE RegistryInv'
  BY <1>1, ProvideStep, CheckStep, FindRowStep, FindAliasStep, UpsertStep, UpsertWinnerStep,
     MentionStep
     DEF IngestEntity
<1>2. ASSUME NEW r \in Resolvers, StartPass(r) \/ Resolve(r) PROVE RegistryInv'
  BY <1>2, StartPassStep, ResolveStep
<1>3. ASSUME Correct PROVE RegistryInv'
  <2>1. ASSUME NEW s \in Ids, NEW v \in Ids, Merge(s, v) PROVE RegistryInv'
    BY <2>1, MergeStep
  <2>2. ASSUME NEW e \in Ids, Rename(e) PROVE RegistryInv'
    <3>1. PICK type \in Types, name \in Names :
             Update(e, type, name, name) /\ chosen' = [chosen EXCEPT ![e] = name]
      BY <2>2 DEF Rename
    <3>2. chosen' \in [Ids -> Names \cup {None}]
      BY <3>1 DEF RegistryInv, RowsInv, StoredTypes
    <3> QED BY <3>1, <3>2, UpdateStep
  <2>3. ASSUME NEW e \in Ids, Respell(e) PROVE RegistryInv'
    BY <2>3, RespellStep
  <2>4. ASSUME NEW e \in Ids, Retype(e) PROVE RegistryInv'
    <3>1. PICK type \in Types :
             Update(e, type, rows[e].name, rows[e].label) /\ chosen' = chosen
      BY <2>4 DEF Retype
    <3>2. chosen' \in [Ids -> Names \cup {None}]
      BY <3>1 DEF RegistryInv, RowsInv, StoredTypes
    <3>3. rows[e].name \in Names /\ rows[e].label \in Names
      <4>1. e \in Live
        BY <3>1 DEF Update
      <4> QED BY <4>1, RowKey, RowFields DEF RegistryInv
    <3> QED BY <3>1, <3>2, <3>3, UpdateStep
  <2>5. ASSUME NEW e \in Ids, Suppress(e) PROVE RegistryInv'
    BY <2>5, SuppressStep
  <2>6. CASE OpenEdit
    BY <2>6, OpenEditStep
  <2>7. CASE SaveEdit
    BY <2>7, SaveEditStep
  <2> QED BY <1>3, <2>1, <2>2, <2>3, <2>4, <2>5, <2>6, <2>7 DEF Correct
<1> QED BY <1>1, <1>2, <1>3 DEF RegistryNext

\* So it always holds.
LEMMA Invariance == RegistrySpec => []RegistryInv
<1>1. RegistryInit => RegistryInv
  BY InitHolds, RegistryAssumption
<1>2. RegistryInv /\ [RegistryNext]_registryVars => RegistryInv'
  BY StepHolds, StutterHolds, RegistryAssumption
<1> QED BY <1>1, <1>2, PTL DEF RegistrySpec

\* The invariant says of what type everything is.
LEMMA RegistryTypes == ASSUME RegistryAssumption, RegistryInv PROVE RegistryTypeOK
<1>1. \A e \in Live : rows[e] \in EntityRow
  BY RowKey DEF RegistryInv
<1> QED BY <1>1 DEF RegistryTypeOK, RegistryInv, RowsInv, StoredTypes

\* Every reachable state of the registry, its jobs, passes and form is well typed.
THEOREM RegistryTypeCorrect == RegistrySpec => []RegistryTypeOK
<1>1. RegistryInv => RegistryTypeOK
  BY RegistryTypes, RegistryAssumption
<1> QED BY <1>1, Invariance, PTL

\* A mention is filed under the entity its name leads to, for any number of extractions,
\* passes, merges, renames, removals and edits that overlap, unless a correction has
\* overtaken an extraction that then saved what it had read before.
THEOREM MentionsFiledWhereNamesLead == RegistrySpec => []FiledWhereNamesLead
<1>1. RegistryInv => FiledWhereNamesLead
  <2> SUFFICES ASSUME RegistryInv, ~spoilt PROVE FiledWhereNamesLead
    BY DEF FiledWhereNamesLead
  <2> QED BY DEF RegistryInv, Knowing
<1> QED BY <1>1, Invariance, PTL

\* Only the user's own actions correct,
LEMMA StepObeys ==
    ASSUME RegistryAssumption, RegistryInv, RegistryNext, corrections' = corrections
    PROVE  Obeys
<1>1. ASSUME NEW x \in EntityRuns, IngestEntity(x) PROVE Obeys
  <2>1. CASE Upsert(x) \/ UpsertWinner(x)
    BY <2>1, UpsertStep, UpsertWinnerStep
  <2>2. CASE Provide(x) \/ Check(x) \/ FindRow(x) \/ FindAlias(x) \/ Mention(x)
    <3>1. rows' = rows
      BY <2>2 DEF Provide, Check, FindRow, FindAlias, Mention
    <3> QED BY <3>1, UnchangedObeys
  <2> QED BY <1>1, <2>1, <2>2 DEF IngestEntity
<1>2. ASSUME NEW r \in Resolvers, Resolve(r) PROVE Obeys
  BY <1>2, ResolveStep
<1>3. ASSUME NEW r \in Resolvers, StartPass(r) PROVE Obeys
  BY <1>3, UnchangedObeys DEF StartPass
<1>4. CASE OpenEdit
  BY <1>4, UnchangedObeys DEF OpenEdit
<1>5. ASSUME NEW who, NEW ids, NEW ks, Overtakes(who, ids, ks) PROVE FALSE
  BY <1>5 DEF Overtakes, RegistryInv, RowsInv, StoredTypes
<1>6. ASSUME NEW s \in Ids, NEW v \in Ids, Merge(s, v) PROVE FALSE
  BY <1>5, <1>6, MergeDoes DEF MergeEffect
<1>7. ASSUME NEW e \in Ids, NEW type \in Types, NEW name \in Names, NEW label \in Names,
             Update(e, type, name, label)
      PROVE  FALSE
  <2>1. \E ids, ks : Overtakes(None, ids, ks)
    BY <1>7 DEF Update
  <2> QED BY <1>5, <2>1
<1>8. ASSUME NEW e \in Ids, Rename(e) PROVE FALSE
  BY <1>7, <1>8 DEF Rename
<1>9. ASSUME NEW e \in Ids, Retype(e) PROVE FALSE
  <2>1. PICK type \in Types : Update(e, type, rows[e].name, rows[e].label)
    BY <1>9 DEF Retype
  <2>2. e \in Live
    BY <2>1 DEF Update
  <2>3. rows[e].name \in Names /\ rows[e].label \in Names
    BY <2>2, RowKey, RowFields DEF RegistryInv
  <2> QED BY <1>7, <2>1, <2>3
<1>10. ASSUME NEW e \in Ids, Respell(e) PROVE FALSE
  <2>1. Overtakes(None, {e}, {})
    BY <1>10 DEF Respell
  <2> QED BY <1>5, <2>1
<1>11. ASSUME NEW e \in Ids, Suppress(e) PROVE FALSE
  <2>1. \E ks : Overtakes(None, {e}, ks)
    BY <1>11 DEF Suppress
  <2> QED BY <1>5, <2>1
<1>12. ASSUME SaveEdit PROVE FALSE
  <2>1. \E ids, ks : Overtakes("user", ids, ks)
    BY <1>12 DEF SaveEdit
  <2> QED BY <1>5, <2>1
<1> QED BY <1>1, <1>2, <1>3, <1>4, <1>6, <1>8, <1>9, <1>10, <1>11, <1>12 DEF RegistryNext, Correct

\* so what is no correction leaves a link and a suppression of the user's as he made them,
\* keeps every entity under its key, and brings no removed entity back, unless a save of what
\* was read before a correction has gone through.
THEOREM CorrectionsHoldAlways == RegistrySpec => CorrectionsHold
<1>1. RegistryInv /\ [RegistryNext]_registryVars =>
         [corrections' = corrections /\ ~spoilt' =>
            /\ \A e \in Live :
                  /\ KeyOf(rows'[e]) = KeyOf(rows[e])
                  /\ rows[e].origin \in {"manual", "suppressed"} =>
                        /\ rows'[e].contact = rows[e].contact
                        /\ rows'[e].origin = rows[e].origin
            /\ \A e \in Ids \ Live : rows'[e] # NoEntity =>
                  KeyOf(rows'[e]) \notin suppressed /\ aliasOf[KeyOf(rows'[e])] = 0]_registryVars
  BY StepObeys, RegistryAssumption DEF Obeys, CorrectionsKept
<1> QED BY <1>1, Invariance, PTL DEF RegistrySpec, CorrectionsHold

\* Whichever of them runs, every variable of both modules keeps to its type.
THEOREM KnowledgeTypeCorrect == KnowledgeSpec => []KnowledgeTypeOK
<1> DEFINE Both == TypeInv /\ RegistryInv
<1>1. KnowledgeInit => Both
  BY TypeInit, InitHolds, RegistryAssumption DEF KnowledgeInit
<1>2. Both /\ [KnowledgeNext]_knowledgeVars => Both'
  <2> SUFFICES ASSUME TypeInv, RegistryInv, [KnowledgeNext]_knowledgeVars
               PROVE  TypeInv' /\ RegistryInv'
    OBVIOUS
  <2>1. [Next]_vars
    BY DEF KnowledgeNext, OnFacts, OnEntities, knowledgeVars
  <2>2. RegistryNext \/ UNCHANGED registryVars
    BY DEF KnowledgeNext, OnFacts, OnEntities, knowledgeVars
  <2> QED BY <2>1, <2>2, TypeStep, StepHolds, StutterHolds, RegistryAssumption
<1>3. Both => KnowledgeTypeOK
  BY FactsTypes, RegistryTypes, RegistryAssumption DEF KnowledgeTypeOK
<1> QED BY <1>1, <1>2, <1>3, PTL DEF KnowledgeSpec
=============================================================================
