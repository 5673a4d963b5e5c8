---------------------------- MODULE SensitivityRow ----------------------------
(***************************************************************************)
(* The row of one item in item_sensitivity, and all that write it: the     *)
(* sentinel's classifications, the user's overrides, and the guard, which  *)
(* marks the item held or clears it for each gated kind.  Each finds the   *)
(* whole row, changes its own columns and saves the row as it found it;    *)
(* nothing locks the row or looks at a version.  ExtractionPipeline has    *)
(* what the guard lets go, with each write in one step.                    *)
(***************************************************************************)
EXTENDS Integers

CONSTANTS
    Gated,        \* kinds that call an external LLM
    LocalGated,   \* those whose endpoint is local
    Turns,        \* what one of them, the sentinel or the user has under way at once
    MaxWork       \* bound: pieces of work begun

ASSUME SensitivityAssumption ==
    /\ LocalGated \subseteq Gated /\ Gated \cap {"sentinel", "owner"} = {}
    /\ MaxWork \in Nat

VARIABLES
    tierRow,      \* the row, or Unclassified
    work,         \* writer -> where it stands
    meant,        \* history: what the owner of each column wrote there last
    withheld,     \* history: kinds last told to wait for a local endpoint
    covered,      \* history: columns a save of another's has since written back, see WritesBack
    left          \* what remains of the bound

sensitivityVars == <<tierRow, work, meant, withheld, covered, left>>

Writers == (Gated \cup {"sentinel", "owner"}) \X Turns

Names == {"detected", "manual", "held"}

\* closed: sensitive or secret.
Grades == {"open", "closed"}
Columns == [detected : Grades \cup {"none"}, manual : Grades \cup {"none"}, held : BOOLEAN]
Unclassified == [detected |-> "none", manual |-> "none", held |-> FALSE]

Work == [pc : {"idle", "insert", "retry", "flag", "update"},
         to : Grades \cup {"none", "hold", "clear"}, copy : Columns]
NoWork == [pc |-> "idle", to |-> "none", copy |-> Unclassified]

SensitivityTypeOK ==
    /\ tierRow \in Columns /\ meant \in Columns
    /\ work \in [Writers -> Work]
    /\ withheld \subseteq Gated /\ covered \subseteq Names /\ left \in 0 .. MaxWork

SensitivityInit ==
    /\ tierRow = Unclassified /\ meant = Unclassified
    /\ work = [w \in Writers |-> NoWork]
    /\ withheld = {} /\ covered = {} /\ left = MaxWork

Exists == tierRow.detected # "none"
Closed(r) == (IF r.manual = "none" THEN r.detected ELSE r.manual) = "closed"

\* The column a writer owns.
Own(w) == CASE w[1] = "sentinel" -> "detected" [] w[1] = "owner" -> "manual" [] OTHER -> "held"

\* Columns of others that a save would write back as they were when it found them.
WritesBack(w) == {c \in Names \ {Own(w)} : tierRow[c] # work[w].copy[c]}

\* The row with what a writer has to write in its column.
Amend(w, r, to) ==
    CASE w[1] = "sentinel" -> [r EXCEPT !.detected = to]
      [] w[1] = "owner" -> [r EXCEPT !.manual = to]
      [] OTHER -> [r EXCEPT !.held = to = "hold"]

\* With an override alone an item is detected 'normal'.
Create(w, to) == Amend(w, [Unclassified EXCEPT !.detected = "open"], to)

\* Mutant: the update resets the columns the insert resets.
ResavedAnew(w) == Create(w, work[w].to)
Resaved(w) == Amend(w, work[w].copy, work[w].to)

Goto(w, pc, to) == work' = [work EXCEPT ![w] = [pc |-> pc, to |-> to, copy |-> tierRow]]
Rest(w) == work' = [work EXCEPT ![w] = NoWork]

Begin(w) == work[w].pc = "idle" /\ left # 0 /\ left' = left - 1

\* A kind that is told to hold, or let go, has been told.
Told(w, to) == withheld' = IF to = "hold" THEN withheld \cup {w[1]} ELSE withheld \ {w[1]}
-----------------------------------------------------------------------------
\* A classification or a request finds the row, or has one to create.
Upsert(w) ==
    /\ Begin(w)
    /\ \E to \in Grades \cup {"none"} :
          /\ w[1] = "owner" \/ (w[1] = "sentinel" /\ to # "none")
          /\ Goto(w, IF Exists THEN "update" ELSE "insert", to)
    /\ UNCHANGED <<tierRow, meant, withheld, covered>>

\* The first to insert the row has it; of the others a request fails, and a
\* classification looks for the row it lost to.
InsertRow(w) ==
    /\ work[w].pc = "insert"
    /\ IF Exists
       THEN /\ IF w[1] = "sentinel" THEN Goto(w, "retry", work[w].to) ELSE Rest(w)
            /\ UNCHANGED <<tierRow, meant>>
       ELSE /\ tierRow' = Create(w, work[w].to) /\ meant' = Create(w, work[w].to)
            /\ Rest(w)
    /\ UNCHANGED <<withheld, covered, left>>

FindWinner(w) ==
    /\ work[w].pc = "retry" /\ Exists
    /\ Goto(w, "update", work[w].to)
    /\ UNCHANGED <<tierRow, meant, withheld, covered, left>>

\* The guard decides by the row, which has to be there, and goes on to mark or clear.
Decide(w) ==
    /\ w[1] \in Gated /\ Exists
    /\ Begin(w)
    /\ Goto(w, "flag", IF Closed(tierRow) /\ w[1] \notin LocalGated THEN "hold" ELSE "clear")
    /\ UNCHANGED <<tierRow, meant, withheld, covered>>

\* markHeld and clearHeld: nothing to save when the row says so already.
Flag(w) ==
    /\ work[w].pc = "flag"
    /\ IF tierRow.held = (work[w].to = "hold")
       THEN Rest(w) /\ Told(w, work[w].to)
       ELSE Goto(w, "update", work[w].to) /\ UNCHANGED withheld
    /\ UNCHANGED <<tierRow, meant, covered, left>>

\* The save writes every column as it is in the copy.
Update(w) ==
    /\ work[w].pc = "update"
    /\ tierRow' = Resaved(w) /\ meant' = Amend(w, meant, work[w].to)
    /\ covered' = (covered \ {Own(w)}) \cup WritesBack(w)
    /\ Rest(w)
    /\ IF w[1] \in Gated THEN Told(w, work[w].to) ELSE UNCHANGED withheld
    /\ UNCHANGED left

\* A query fails, or the process dies: the job is tried again, the request and the
\* evaluation are lost.
GiveUp(w) ==
    /\ work[w].pc # "idle"
    /\ Rest(w)
    /\ UNCHANGED <<tierRow, meant, withheld, covered, left>>

SensitivityNext ==
    \E w \in Writers : Upsert(w) \/ InsertRow(w) \/ FindWinner(w) \/ Decide(w) \/ Flag(w)
                          \/ Update(w) \/ GiveUp(w)

SensitivitySpec == SensitivityInit /\ [][SensitivityNext]_sensitivityVars
-----------------------------------------------------------------------------
(* A column is what its owner wrote there last, and an item is held only   *)
(* while a gated kind waits for it, except where a save of another's,      *)
(* found before, has written the column back.  In particular the unique    *)
(* index settles who creates the row, the classification that loses keeps  *)
(* the override it lost to, and the evaluation that lets the last kind go  *)
(* leaves no hold behind.                                                  *)
ColumnsKept ==
    /\ \A c \in Names \ covered : tierRow[c] = meant[c]
    /\ "held" \notin covered /\ tierRow.held => withheld # {}
=============================================================================
