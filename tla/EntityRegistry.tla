--------------------------- MODULE EntityRegistry ---------------------------
(***************************************************************************)
(* The entities of one user: what extractions find is filed under a row    *)
(* per type and name, the user merges, renames, retypes and deletes rows   *)
(* and links persons to contacts, and a resolver links the others.         *)
(*                                                                         *)
(* A correction is one transaction that locks its rows.  Everyone else     *)
(* reads a row, computes, and saves it whole: save writes back every       *)
(* column, and inserts the row anew when it is gone by then.               *)
(***************************************************************************)
EXTENDS Integers, Sequences

CONSTANTS
    Names,         \* normalized names
    Length,        \* name -> the length of its spelling
    Types,         \* of entities, "person" among them
    Contacts,      \* voice profiles
    ContactName,   \* contact -> its name
    EntityRuns,    \* the extractions of kind entities, each of which finds one
    Finds,         \* what an extraction may find: a key, surface forms
    Before,        \* what was found first, and by which extraction: a row each
    Resolvers,     \* passes of the contact resolver that may be under way
    MaxEntities,   \* bound: rows ever created
    MaxCorrections \* bound: corrections by the user

Keys == Types \X Names
Ids == 1 .. MaxEntities
None == "none"

ASSUME RegistryAssumption ==
    /\ Length \in [Names -> Nat] /\ "person" \in Types
    /\ ContactName \in [Contacts -> Names] /\ None \notin Contacts \cup Names \cup Types
    /\ EntityRuns \cap Resolvers = {} /\ {None, "user"} \cap (EntityRuns \cup Resolvers) = {}
    /\ Finds \subseteq [key : Keys, forms : SUBSET Names]
    /\ Before \in Seq([by : EntityRuns, key : Keys, forms : SUBSET Names])
    /\ \A m, n \in DOMAIN Before :    \* an extraction finds one, names are unique
          m # n => Before[m].by # Before[n].by /\ Before[m].key # Before[n].key
    /\ Len(Before) <= MaxEntities
    /\ MaxEntities \in Nat /\ MaxCorrections \in Nat

VARIABLES
    rows,         \* id -> row of entities, or NoEntity
    aliasOf,      \* entity_aliases: key -> id, or 0
    suppressed,   \* entity_suppressions: keys
    mentions,     \* entity_mentions: extraction, id
    job,          \* extraction -> where its ingest is
    pass,         \* resolver -> the rows it has read and not yet resolved
    edit,         \* a link or unlink between its read and its save
    created,      \* rows created so far
    corrections,  \* corrections made so far
    chosen,       \* history: id -> the name the user gave it last
    moved,        \* history: keys the user gave to another entity
    stale,        \* history: who holds what a correction has changed since
    spoilt        \* history: one of them has written

registryVars == <<rows, aliasOf, suppressed, mentions, job, pass, edit, created, corrections,
                  chosen, moved, stale, spoilt>>

\* name: normalizedName; label: canonicalName; contact: voiceProfileId.
EntityRow == {r \in [type : Types, name : Names, label : Names, aliases : SUBSET Names,
               contact : Contacts \cup {None},
               origin : {None, "auto", "manual", "suppressed"}] :
           r.type # "person" => r.contact = None}
NoEntity == [type |-> None, name |-> None, label |-> None, aliases |-> {}, contact |-> None,
          origin |-> None]

Live == {e \in Ids : rows[e] # NoEntity}
KeyOf(row) == <<row.type, row.name>>
At(k) == {e \in Live : KeyOf(rows[e]) = k}

\* What an extraction that finds k now is filed under.
Resolves(k) == IF At(k) # {} THEN At(k) ELSE {aliasOf[k]} \ {0}
-----------------------------------------------------------------------------
(* save: every column of the row as it was read and changed.               *)
Clash(e, row) == \E q \in Live \ {e} : KeyOf(rows[q]) = KeyOf(row)

\* By someone whose copy a correction has overtaken, or not.
Save(who, e, row) ==
    /\ rows' = [rows EXCEPT ![e] = row]
    /\ spoilt' = (spoilt \/ who \in stale)

(***************************************************************************)
(* Ingest                                                                  *)
(***************************************************************************)
IdleJob == [pc |-> "idle", key |-> <<None, None>>, forms |-> {}, id |-> 0, copy |-> NoEntity]

Finding(f) ==
    [IdleJob EXCEPT !.pc = "check", !.key = f.key, !.forms = f.forms \cup {f.key[2]}]

Ended(k) == [IdleJob EXCEPT !.pc = "done", !.key = k]

\* The provider has answered.
Provide(x) ==
    /\ job[x].pc = "idle"
    /\ \E f \in Finds : job' = [job EXCEPT ![x] = Finding(f)]
    /\ UNCHANGED <<rows, aliasOf, suppressed, mentions, pass, edit, created, corrections, chosen,
                   moved, stale, spoilt>>

\* A suppressed name is skipped: no row, no mention.
Check(x) ==
    /\ job[x].pc = "check"
    /\ job' = [job EXCEPT ![x] = IF @.key \in suppressed THEN Ended(@.key)
                                ELSE [@ EXCEPT !.pc = "find"]]
    /\ UNCHANGED <<rows, aliasOf, suppressed, mentions, pass, edit, created, corrections, chosen,
                   moved, stale, spoilt>>

FindRow(x) ==
    /\ job[x].pc = "find"
    /\ IF At(job[x].key) = {} THEN job' = [job EXCEPT ![x].pc = "alias"]
       ELSE \E e \in At(job[x].key) :
               job' = [job EXCEPT ![x].pc = "save", ![x].id = e, ![x].copy = rows[e]]
    /\ UNCHANGED <<rows, aliasOf, suppressed, mentions, pass, edit, created, corrections, chosen,
                   moved, stale, spoilt>>

NewRow(k) == [type |-> k[1], name |-> k[2], label |-> k[2], aliases |-> {}, contact |-> None,
              origin |-> None]

\* A merged or renamed name leads to its entity (the alias and the entity are
\* read in one step); one of another type is mentioned and left alone.
\* Otherwise the row is new.
FindAlias(x) ==
    LET k == job[x].key
        e == aliasOf[k]
    IN
    /\ job[x].pc = "alias"
    /\ job' = [job EXCEPT ![x] =
          IF e = 0 THEN [@ EXCEPT !.pc = "save", !.copy = NewRow(k)]
          ELSE IF rows[e].type # k[1] THEN [@ EXCEPT !.pc = "mention", !.id = e, !.forms = {}]
          ELSE [@ EXCEPT !.pc = "save", !.id = e, !.copy = rows[e]]]
    /\ UNCHANGED <<rows, aliasOf, suppressed, mentions, pass, edit, created, corrections, chosen,
                   moved, stale, spoilt>>

\* The longer spelling becomes canonical, the surface forms aliases.
Accreted(row, name, forms) ==
    LET label == IF Length[name] > Length[row.label] THEN name ELSE row.label
    IN  [row EXCEPT !.label = label, !.aliases = (@ \cup forms) \ {label}]

\* Mutant: the row's own type is not looked at.
LinkableWhatever(row) == row.contact = None /\ row.origin # "suppressed"

\* Mutant: what was unlinked is linked again.
LinkableAgain(row) == row.type = "person" /\ row.contact = None

Linkable(row) == row.type = "person" /\ row.contact = None /\ row.origin # "suppressed"
Matching(row) == {c \in Contacts : ContactName[c] \in {row.label} \cup row.aliases}
Linked(row, c) == [row EXCEPT !.contact = c, !.origin = "auto"]

\* An exact name match links a person.
Matched(row) ==
    IF Linkable(row) /\ Matching(row) # {} THEN {Linked(row, c) : c \in Matching(row)} ELSE {row}

\* The row is saved, unless another has taken its name.
Upsert(x) ==
    LET k == job[x].key
        e == IF job[x].id # 0 THEN job[x].id ELSE created + 1
    IN
    /\ job[x].pc = "save" /\ e \in Ids
    /\ \E row \in Matched(Accreted(job[x].copy, k[2], job[x].forms)) :
          IF Clash(e, row)
          THEN /\ job' = [job EXCEPT ![x].pc = "winner", ![x].copy = row]
               /\ UNCHANGED <<rows, created, spoilt>>
          ELSE /\ Save(x, e, row)
               /\ created' = IF e > created THEN e ELSE created
               /\ job' = [job EXCEPT ![x] = [@ EXCEPT !.pc = "mention", !.id = e,
                                                   !.copy = NoEntity, !.forms = {}]]
    /\ UNCHANGED <<aliasOf, suppressed, mentions, pass, edit, corrections, chosen, moved, stale>>

\* The unique index refused it: the winner is read again and takes the aliases
\* and the link.
JobFails(x) == job' = [job EXCEPT ![x] = IdleJob] /\ stale' = stale \ {x}

UpsertWinner(x) ==
    LET row == job[x].copy IN
    /\ job[x].pc = "winner"
    /\ IF At(job[x].key) = {} THEN JobFails(x) /\ UNCHANGED <<rows, spoilt>>
       ELSE \E e \in At(job[x].key) :
               LET w == [rows[e] EXCEPT !.aliases = (@ \cup row.aliases) \ {rows[e].label}] IN
               /\ Save(x, e, IF w.contact = None /\ row.contact # None
                             THEN [w EXCEPT !.contact = row.contact, !.origin = row.origin] ELSE w)
               /\ job' = [job EXCEPT ![x] = [@ EXCEPT !.pc = "mention", !.id = e,
                                                   !.copy = NoEntity, !.forms = {}]]
               /\ stale' = stale
    /\ UNCHANGED <<aliasOf, suppressed, mentions, pass, edit, created, corrections, chosen,
                   moved>>

\* The mention refers to a live row, or the insert fails and the job with it.
Mention(x) ==
    /\ job[x].pc = "mention"
    /\ IF job[x].id \in Live
       THEN /\ mentions' = mentions \cup {<<x, job[x].id>>}
            /\ job' = [job EXCEPT ![x] = Ended(@.key)]
            /\ stale' = stale \ {x} /\ spoilt' = (spoilt \/ x \in stale)
       ELSE JobFails(x) /\ UNCHANGED <<mentions, spoilt>>
    /\ UNCHANGED <<rows, aliasOf, suppressed, pass, edit, created, corrections, chosen, moved>>

IngestEntity(x) ==
    Provide(x) \/ Check(x) \/ FindRow(x) \/ FindAlias(x) \/ Upsert(x) \/ UpsertWinner(x) \/ Mention(x)

(***************************************************************************)
(* The contact resolver, after an extraction or at a boot, in any replica  *)
(***************************************************************************)
\* The persons without a contact are read; each is weighed in turn, which
\* takes the answer of a model, and saved if a contact was found.
StartPass(r) ==
    /\ pass[r] = <<>>
    /\ \E some \in SUBSET {e \in Live : Linkable(rows[e])} :
          /\ some # {}
          /\ pass' = [pass EXCEPT ![r] = [e \in some |-> rows[e]]]
    /\ UNCHANGED <<rows, aliasOf, suppressed, mentions, job, edit, created, corrections, chosen,
                   moved, stale, spoilt>>

Resolve(r) ==
    /\ \E e \in DOMAIN pass[r] :
          LET row == pass[r][e]
              rest == DOMAIN pass[r] \ {e}
          IN
          /\ \/ Matching(row) = {} /\ UNCHANGED <<rows, spoilt>>
             \/ \E c \in Contacts :
                   /\ Matching(row) # {} => c \in Matching(row)
                   /\ IF Clash(e, row) THEN UNCHANGED <<rows, spoilt>>
                      ELSE Save(r, e, Linked(row, c))
          /\ pass' = [pass EXCEPT ![r] = [q \in rest |-> @[q]]]
          /\ stale' = IF rest = {} THEN stale \ {r} ELSE stale
    /\ UNCHANGED <<aliasOf, suppressed, mentions, job, edit, created, corrections, chosen, moved>>

(***************************************************************************)
(* Corrections                                                             *)
(***************************************************************************)
\* A correction changes the rows in ids and what the keys in ks mean: whoever
\* has read one of them is behind.
Overtakes(who, ids, ks) ==
    /\ corrections < MaxCorrections /\ corrections' = corrections + 1
    /\ stale' = (stale
          \cup {x \in EntityRuns :
                    /\ job[x].pc \in {"find", "alias", "save", "winner", "mention"}
                    /\ (job[x].id \in ids \/ job[x].key \in ks)}
          \cup {r \in Resolvers : DOMAIN pass[r] \cap ids # {}}
          \cup {"user" : e \in {edit.id} \cap ids}) \ {who}

\* recordAlias for each of the keys in ks, but the entity's own.
Record(alias, ks, e, own) == [k \in Keys |-> IF k \in ks \ {own} THEN e ELSE alias[k]]

\* Mutant: a merged name is recorded under one of the two types.
OfOneType(types, names) == {CHOOSE t \in types : TRUE} \X names

OfType(types, names) == types \X names
Elsewhere(k, ids) == Resolves(k) # {} /\ Resolves(k) \cap ids = {}

\* The victim's mentions, aliases and link go to the survivor.
Merge(s, v) ==
    LET survivor == rows[s]
        victim == rows[v]
        adopts == survivor.type = "person" /\ survivor.contact = None
        aliases == (survivor.aliases \cup victim.aliases \cup {victim.label}) \ {survivor.label}
        contact == IF adopts THEN victim.contact ELSE survivor.contact
        origin == IF adopts /\ victim.contact # None THEN victim.origin
                  ELSE IF adopts /\ "suppressed" \in {survivor.origin, victim.origin}
                  THEN "suppressed" ELSE survivor.origin
        ks == OfType({survivor.type, victim.type}, {victim.name} \cup victim.aliases)
        repointed == [k \in Keys |-> IF aliasOf[k] = v THEN s ELSE aliasOf[k]]
    IN
    /\ {s, v} \subseteq Live /\ s # v
    /\ Overtakes(None, {s, v}, ks \cup {KeyOf(survivor)})
    /\ rows' = [rows EXCEPT ![v] = NoEntity,
                 ![s] = [@ EXCEPT !.aliases = aliases, !.contact = contact, !.origin = origin]]
    /\ aliasOf' = Record(repointed, ks, s, KeyOf(survivor))
    /\ mentions' = {<<m[1], IF m[2] = v THEN s ELSE m[2]>> : m \in mentions}
    /\ moved' = moved \cup {k \in ks : Elsewhere(k, {s, v})}
    /\ chosen' = [chosen EXCEPT ![v] = None]
    /\ UNCHANGED <<suppressed, job, pass, edit, created, spoilt>>

\* Rename, retype or both; the old identity and, after a retype, the names
\* merged in before lead here.
Update(e, type, name, label) ==
    LET old == rows[e]
        new == <<type, name>>
        cleared == [aliasOf EXCEPT ![new] = 0]
        ks == {KeyOf(old), <<type, old.name>>, <<old.type, name>>}
        recorded == Record(cleared, ks, e, new)
        merged == {<<type, n>> : n \in {k[2] : k \in {q \in Keys : recorded[q] = e}}}
        free == IF type = old.type THEN {} ELSE {k \in merged : recorded[k] = 0}
        aliases == IF name = old.name THEN old.aliases ELSE (old.aliases \cup {old.label}) \ {label}
    IN
    /\ e \in Live
    /\ \A q \in At(new) : q = e
    /\ KeyOf(old) # new
    /\ Overtakes(None, {e}, ks \cup free \cup {new})
    /\ rows' = [rows EXCEPT ![e] = [type |-> type, name |-> name, label |-> label,
                                    aliases |-> aliases,
                                    contact |-> IF type = "person" THEN old.contact ELSE None,
                                    origin |-> IF type = "person" THEN old.origin ELSE None]]
    /\ suppressed' = suppressed \ {new}
    /\ aliasOf' = Record(recorded, free, e, new)
    /\ moved' = moved \cup {k \in ks \cup {new} : Elsewhere(k, {e})}
    /\ UNCHANGED <<mentions, job, pass, edit, created, spoilt>>

Rename(e) ==
    \E type \in Types, name \in Names :
        Update(e, type, name, name) /\ chosen' = [chosen EXCEPT ![e] = name]

\* The spelling alone: nothing is recorded.
Respell(e) ==
    /\ e \in Live /\ rows[e].label # rows[e].name
    /\ Overtakes(None, {e}, {})
    /\ rows' = [rows EXCEPT ![e].label = rows[e].name]
    /\ chosen' = [chosen EXCEPT ![e] = rows[e].name]
    /\ UNCHANGED <<aliasOf, suppressed, mentions, job, pass, edit, created, moved, spoilt>>

Retype(e) ==
    \E type \in Types : Update(e, type, rows[e].name, rows[e].label) /\ chosen' = chosen

\* The entity is deleted, and no name of it comes back.
Suppress(e) ==
    LET row == rows[e]
        names == OfType({row.type}, {row.name} \cup row.aliases)
                 \cup {k \in Keys : aliasOf[k] = e}
    IN
    /\ e \in Live
    /\ Overtakes(None, {e}, names)
    /\ suppressed' = suppressed \cup names
    /\ rows' = [rows EXCEPT ![e] = NoEntity]
    /\ aliasOf' = [k \in Keys |-> IF aliasOf[k] = e THEN 0 ELSE aliasOf[k]]
    /\ mentions' = {m \in mentions : m[2] # e}
    /\ chosen' = [chosen EXCEPT ![e] = None]
    /\ UNCHANGED <<job, pass, edit, created, moved, spoilt>>

\* linkContact, unlinkContact, convertToContact: find, then save.
NoEdit == [id |-> 0, row |-> NoEntity]

OpenEdit ==
    /\ edit = NoEdit
    /\ \E e \in Live : rows[e].type = "person" /\ edit' = [id |-> e, row |-> rows[e]]
    /\ UNCHANGED <<rows, aliasOf, suppressed, mentions, job, pass, created, corrections, chosen,
                   moved, stale, spoilt>>

SaveEdit ==
    LET e == edit.id IN
    /\ edit # NoEdit
    /\ \E row \in {[edit.row EXCEPT !.contact = c, !.origin = "manual"] : c \in Contacts}
                   \cup {[edit.row EXCEPT !.contact = None, !.origin = "suppressed"]} :
          /\ Overtakes("user", {e}, {KeyOf(row)})
          /\ IF Clash(e, row) THEN UNCHANGED <<rows, spoilt>> ELSE Save("user", e, row)
    /\ edit' = NoEdit
    /\ UNCHANGED <<aliasOf, suppressed, mentions, job, pass, created, chosen, moved>>

Correct ==
    \/ \E s, v \in Ids : Merge(s, v)
    \/ \E e \in Ids : Rename(e) \/ Respell(e) \/ Retype(e) \/ Suppress(e)
    \/ OpenEdit \/ SaveEdit

(***************************************************************************)
(* Specification                                                           *)
(***************************************************************************)
RegistryInit ==
    /\ rows = [e \in Ids |-> IF e \in DOMAIN Before
                             THEN Accreted(NewRow(Before[e].key), Before[e].key[2], Before[e].forms)
                             ELSE NoEntity]
    /\ job = [x \in EntityRuns |->
                 IF \E n \in DOMAIN Before : Before[n].by = x
                 THEN Ended(Before[CHOOSE n \in DOMAIN Before : Before[n].by = x].key) ELSE IdleJob]
    /\ aliasOf = [k \in Keys |-> 0] /\ suppressed = {}
    /\ mentions = {<<Before[n].by, n>> : n \in DOMAIN Before}
    /\ pass = [r \in Resolvers |-> <<>>]
    /\ edit = NoEdit
    /\ created = Len(Before) /\ corrections = 0
    /\ chosen = [e \in Ids |-> None] /\ moved = {} /\ stale = {} /\ spoilt = FALSE

RegistryNext ==
    \/ \E x \in EntityRuns : IngestEntity(x)
    \/ \E r \in Resolvers : StartPass(r) \/ Resolve(r)
    \/ Correct

RegistrySpec == RegistryInit /\ [][RegistryNext]_registryVars

(***************************************************************************)
(* Properties                                                              *)
(***************************************************************************)
(* What is stored refers to what there is, and only a person is linked to  *)
(* a contact.  spoilt and stale are history alone.                         *)
RegistryTypeOK ==
    /\ \A e \in Live : rows[e] \in EntityRow
    /\ aliasOf \in [Keys -> Live \cup {0}]
    /\ suppressed \subseteq Keys /\ mentions \subseteq EntityRuns \X Live
    /\ created \in 0 .. MaxEntities /\ corrections \in 0 .. MaxCorrections
    /\ chosen \in [Ids -> Names \cup {None}] /\ moved \subseteq Keys

(* Whatever the user merges, renames, retypes and deletes, in any order,   *)
(* the entity an extraction's mention is filed under is the one that the   *)
(* next extraction of the same name would be filed under, unless the user  *)
(* gave the name to another entity, or someone saved what it had read      *)
(* before a correction: rows, entity_aliases and entity_suppressions       *)
(* agree (entities-correction.service.ts:42-48).                           *)
FiledWhereNamesLead ==
    ~spoilt => \A m \in mentions :
                  job[m[1]].key \in moved \/ Resolves(job[m[1]].key) = {m[2]}

(* Extractions and resolvers undo no correction they could have seen: they *)
(* leave the names and types of entities, a link the user made and an      *)
(* unlink alone, and create no entity under a name that is suppressed or   *)
(* leads elsewhere (entities-registry.service.ts:198-201, 264-267).        *)
CorrectionsHold ==
    [][corrections' = corrections /\ ~spoilt' =>
        /\ \A e \in Live :
              /\ KeyOf(rows'[e]) = KeyOf(rows[e])
              /\ rows[e].origin \in {"manual", "suppressed"} =>
                    /\ rows'[e].contact = rows[e].contact
                    /\ rows'[e].origin = rows[e].origin
        /\ \A e \in Ids \ Live : rows'[e] # NoEntity =>
              KeyOf(rows'[e]) \notin suppressed /\ aliasOf[KeyOf(rows'[e])] = 0]_registryVars

(* An entity the user renamed keeps that spelling through the extractions  *)
(* that read it afterwards (entities-correction.service.ts:46-48).         *)
(* Refuted: an extraction that finds the longer name it had makes that     *)
(* canonical again (entities-registry.service.ts:315).                     *)
RenamesHold == ~spoilt => \A e \in Live : chosen[e] # None => rows[e].label = chosen[e]
=============================================================================
