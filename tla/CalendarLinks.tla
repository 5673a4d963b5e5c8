---------------------------- MODULE CalendarLinks ----------------------------
(***************************************************************************)
(* One recording, one calendar feed, and the links between them.  A sync   *)
(* fetches the feed, stores its events, and re-evaluates the automatic     *)
(* links on what it has read; every replica syncs on its own timer.  The   *)
(* user links and unlinks by hand meanwhile, each by a find and a save,    *)
(* and the pass must leave those decisions alone.                          *)
(***************************************************************************)
EXTENDS Integers, FiniteSets

CONSTANTS
    Events,       \* identities in the feed: a uid and an instance
    Syncers,      \* replicas; one sync at a time in each (`running`)
    MaxRows,      \* bound: rows inserted, of events and of links
    MaxShifts     \* bound: changes of the feed, requests of the user, syncs that die

ASSUME CalendarAssumption == {MaxRows, MaxShifts} \subseteq Nat

VARIABLES
    feed,        \* event -> where the calendar has it now
    autoLink,    \* the switch of the feed
    events,      \* event -> its row in calendar_events
    pairs,       \* event -> the row that links it to the recording
    syncs,       \* replica -> its sync
    clicks,      \* event -> the user's request about its link
    inserted, shifts,  \* what is used of the bounds
    ledger       \* history, see Ledger

calendarVars == <<feed, autoLink, events, pairs, syncs, clicks, inserted, shifts, ledger>>

RowIds == 0 .. MaxRows       \* 0: no row
Places == {"gone", "over", "away"}    \* over: overlaps the recording
EventRow == [id : RowIds, at : Places]
NoEvent == [id |-> 0, at |-> "gone"]
Link == [id : RowIds, kind : {"none", "auto", "manual", "suppressed"}]
NoLink == [id |-> 0, kind |-> "none"]

\* todo: events still to store, then links still to write; fetched, rows, auto and
\* found: what it has read; alone: nobody else has done anything since it began.
Sync == [pc : {"idle", "existing", "store", "links", "insert", "delete"},
         todo : SUBSET Events, fetched : [Events -> Places], rows : [Events -> EventRow],
         auto : BOOLEAN, found : [Events -> Link], alone : BOOLEAN]
NoSync == [pc |-> "idle", todo |-> {}, fetched |-> [e \in Events |-> "gone"],
           rows |-> [e \in Events |-> NoEvent], auto |-> FALSE,
           found |-> [e \in Events |-> NoLink], alone |-> FALSE]

Click == [pc : {"idle", "save"}, to : {"manual", "suppressed"}, read : Link, event : RowIds]
NoClick == [pc |-> "idle", to |-> "manual", read |-> NoLink, event |-> 0]

\* decided: the user's last word on a pair; crossed: pairs it came between a sync's
\* reading of the links and its delete; settled: a sync ended alone, and nothing has
\* changed since.
Ledger == [decided : [Events -> {"none", "manual", "suppressed"}], crossed : SUBSET Events,
           settled : BOOLEAN]

CalendarTypeOK ==
    /\ feed \in [Events -> Places] /\ autoLink \in BOOLEAN
    /\ events \in [Events -> EventRow] /\ pairs \in [Events -> Link]
    /\ syncs \in [Syncers -> Sync] /\ clicks \in [Events -> Click]
    /\ inserted \in RowIds /\ shifts \in 0 .. MaxShifts /\ ledger \in Ledger

CalendarInit ==
    /\ feed = [e \in Events |-> "over"] /\ autoLink = TRUE
    /\ events = [e \in Events |-> NoEvent] /\ pairs = [e \in Events |-> NoLink]
    /\ syncs = [c \in Syncers |-> NoSync] /\ clicks = [e \in Events |-> NoClick]
    /\ inserted = 0 /\ shifts = 0
    /\ ledger = [decided |-> [e \in Events |-> "none"], crossed |-> {}, settled |-> FALSE]

Shift == shifts < MaxShifts /\ shifts' = shifts + 1
Fresh == inserted < MaxRows /\ inserted' = inserted + 1

\* Sync c takes the step to s; the others are no longer alone.
Advance(c, s) ==
    syncs' = [d \in Syncers |-> IF d = c THEN s
                                ELSE IF syncs[d] = NoSync THEN NoSync
                                ELSE [syncs[d] EXCEPT !.alone = FALSE]]
Goes(c, pc, todo) == Advance(c, [syncs[c] EXCEPT !.pc = pc, !.todo = todo])
\* Somebody else does something.
Disturb ==
    syncs' = [c \in Syncers |-> IF syncs[c] = NoSync THEN NoSync
                                ELSE [syncs[c] EXCEPT !.alone = FALSE]]
Unsettle == ledger' = [ledger EXCEPT !.settled = FALSE]
-----------------------------------------------------------------------------
(* storeEvents *)

FetchEvents(c) ==
    /\ syncs[c] = NoSync
    /\ Advance(c, [NoSync EXCEPT !.pc = "existing", !.fetched = feed,
                                 !.alone = \A d \in Syncers : syncs[d] = NoSync])
    /\ Unsettle
    /\ UNCHANGED <<feed, autoLink, events, pairs, clicks, inserted, shifts>>

FindEvents(c) ==
    /\ syncs[c].pc = "existing"
    /\ Advance(c, [syncs[c] EXCEPT !.pc = "store", !.todo = Events, !.rows = events])
    /\ UNCHANGED <<feed, autoLink, events, pairs, clicks, inserted, shifts, ledger>>

\* A row goes, its link with it.
Drop(e) ==
    /\ events' = [events EXCEPT ![e] = NoEvent]
    /\ pairs' = [pairs EXCEPT ![e] = NoLink]
    /\ ledger' = [ledger EXCEPT !.decided[e] = "none", !.crossed = @ \ {e}]

\* Mutant: events that are not in the feed any more stay.
KeepEvent(c, e) ==
    LET s == syncs[c]
        row == s.rows[e] IN
    /\ s.pc = "store" /\ e \in s.todo
    /\ Goes(c, "store", s.todo \ {e})
    /\ IF s.fetched[e] # "gone" /\ row = NoEvent /\ events[e] = NoEvent
       THEN /\ Fresh
            /\ events' = [events EXCEPT ![e] = [id |-> inserted', at |-> s.fetched[e]]]
       ELSE UNCHANGED <<events, inserted>>
    /\ UNCHANGED <<feed, autoLink, pairs, clicks, shifts, ledger>>

\* Upsert by what was read, or delete by id what was not fetched.  The save of a
\* row that somebody deleted inserts it again; an identity that is there breaks the
\* unique index, and the store of this feed is over.
StoreEvent(c, e) ==
    LET s == syncs[c]
        row == s.rows[e]
        new == [id |-> row.id, at |-> s.fetched[e]] IN
    /\ s.pc = "store" /\ e \in s.todo
    /\ \/ /\ s.fetched[e] = "gone"
          /\ Goes(c, "store", s.todo \ {e})
          /\ IF row # NoEvent /\ events[e].id = row.id THEN Drop(e)
             ELSE UNCHANGED <<events, pairs, ledger>>
          /\ UNCHANGED inserted
       \/ /\ s.fetched[e] # "gone"
          /\ row # NoEvent => row.at # s.fetched[e]
          /\ IF events[e].id \notin {0, row.id}
             THEN Goes(c, "store", {}) /\ UNCHANGED <<events, inserted>>
             ELSE /\ Goes(c, "store", s.todo \ {e})
                  /\ \/ row # NoEvent /\ events' = [events EXCEPT ![e] = new] /\ UNCHANGED inserted
                     \/ row = NoEvent /\ Fresh
                        /\ events' = [events EXCEPT ![e] = [new EXCEPT !.id = inserted']]
          /\ UNCHANGED <<pairs, ledger>>
       \/ /\ s.fetched[e] = row.at /\ row # NoEvent       \* unchanged
          /\ Goes(c, "store", s.todo \ {e})
          /\ UNCHANGED <<events, pairs, inserted, ledger>>
    /\ UNCHANGED <<feed, autoLink, clicks, shifts>>
-----------------------------------------------------------------------------
(* autoLinkWindow *)

\* The events of the window, then the switches of their feeds: nothing between the
\* two reads concerns both.
ReadEvents(c) ==
    /\ syncs[c].pc = "store" /\ syncs[c].todo = {}
    /\ Advance(c, [NoSync EXCEPT !.pc = "links", !.rows = events, !.auto = autoLink,
                                 !.alone = syncs[c].alone])
    /\ UNCHANGED <<feed, autoLink, events, pairs, clicks, inserted, shifts, ledger>>

Desired(s) == {e \in Events : s.auto /\ s.rows[e].at = "over"}
Missing(s) == {e \in Desired(s) : s.found[e] = NoLink}

\* Mutant: any link that does not overlap goes.
StaleOfAll(s) == {e \in Events : s.found[e] # NoLink /\ e \notin Desired(s)}

\* Automatic links that do not overlap any more, except those a feed made before it
\* opted out.
Stale(s) ==
    {e \in Events \ Desired(s) : s.found[e].kind = "auto" /\ (s.auto \/ s.rows[e] = NoEvent)}

ReadLinks(c) ==
    /\ syncs[c].pc = "links"
    /\ LET s == [syncs[c] EXCEPT !.found = pairs] IN
       Advance(c, [s EXCEPT !.pc = "insert", !.todo = Missing(s)])
    /\ UNCHANGED <<feed, autoLink, events, pairs, clicks, inserted, shifts, ledger>>

\* A link that is there by now, or an event that is not: the pass is over.
InsertLink(c, e) ==
    LET s == syncs[c] IN
    /\ s.pc = "insert" /\ e \in s.todo
    /\ IF pairs[e] # NoLink \/ events[e].id # s.rows[e].id
       THEN Advance(c, NoSync) /\ UNCHANGED <<pairs, inserted>>
       ELSE /\ Goes(c, "insert", s.todo \ {e})
            /\ Fresh
            /\ pairs' = [pairs EXCEPT ![e] = [id |-> inserted', kind |-> "auto"]]
    /\ UNCHANGED <<feed, autoLink, events, clicks, shifts, ledger>>

TurnToStale(c) ==
    /\ syncs[c].pc = "insert" /\ syncs[c].todo = {}
    /\ Goes(c, "delete", Stale(syncs[c]))
    /\ UNCHANGED <<feed, autoLink, events, pairs, clicks, inserted, shifts, ledger>>

DeleteLink(c, e) ==
    LET s == syncs[c]
        hit == pairs[e].id = s.found[e].id IN
    /\ s.pc = "delete" /\ e \in s.todo
    /\ Goes(c, "delete", s.todo \ {e})
    /\ pairs' = [pairs EXCEPT ![e] = IF hit THEN NoLink ELSE @]
    /\ ledger' = [ledger EXCEPT !.crossed =
                    IF hit /\ pairs[e].kind # s.found[e].kind THEN @ \cup {e} ELSE @]
    /\ UNCHANGED <<feed, autoLink, events, clicks, inserted, shifts>>

EndSync(c) ==
    /\ syncs[c].pc = "delete" /\ syncs[c].todo = {}
    /\ Advance(c, NoSync)
    /\ ledger' = [ledger EXCEPT !.settled = syncs[c].alone]
    /\ UNCHANGED <<feed, autoLink, events, pairs, clicks, inserted, shifts>>

SyncDies(c) ==
    /\ syncs[c] # NoSync /\ Shift
    /\ Advance(c, NoSync)
    /\ UNCHANGED <<feed, autoLink, events, pairs, clicks, inserted, ledger>>
-----------------------------------------------------------------------------
(* The calendar and the user. *)

MoveEvent(e, place) ==
    /\ feed[e] # place /\ Shift
    /\ feed' = [feed EXCEPT ![e] = place]
    /\ Disturb /\ Unsettle
    /\ UNCHANGED <<autoLink, events, pairs, clicks, inserted>>

ToggleAutoLink ==
    /\ Shift /\ autoLink' = ~autoLink
    /\ Disturb /\ Unsettle
    /\ UNCHANGED <<feed, events, pairs, clicks, inserted>>

\* link and unlink look up the pair.
AskLink(e, to) ==
    /\ clicks[e] = NoClick /\ events[e] # NoEvent /\ Shift
    /\ to = "suppressed" => pairs[e].kind \in {"auto", "manual"}
    /\ clicks' = [clicks EXCEPT ![e] = [pc |-> "save", to |-> to, read |-> pairs[e],
                                        event |-> events[e].id]]
    /\ UNCHANGED <<feed, autoLink, events, pairs, syncs, inserted, ledger>>

\* ... and save: an insert if there was none, or if it is gone; it fails if another
\* row has taken the pair, or the event is gone.
SaveLink(e) ==
    LET k == clicks[e]
        ok == pairs[e].id \in {0, k.read.id} /\ events[e].id = k.event IN
    /\ k.pc = "save"
    /\ IF ~ok THEN UNCHANGED <<pairs, inserted, ledger>>
       ELSE /\ \/ k.read = NoLink /\ Fresh
                  /\ pairs' = [pairs EXCEPT ![e] = [id |-> inserted', kind |-> k.to]]
               \/ k.read # NoLink /\ UNCHANGED inserted
                  /\ pairs' = [pairs EXCEPT ![e] = [id |-> k.read.id, kind |-> k.to]]
            /\ ledger' = [ledger EXCEPT !.decided[e] = k.to, !.crossed = @ \ {e},
                                        !.settled = FALSE]
    /\ clicks' = [clicks EXCEPT ![e] = NoClick]
    /\ Disturb
    /\ UNCHANGED <<feed, autoLink, events, shifts>>
-----------------------------------------------------------------------------
CalendarNext ==
    \/ \E c \in Syncers :
         \/ FetchEvents(c) \/ FindEvents(c) \/ ReadEvents(c) \/ ReadLinks(c)
         \/ TurnToStale(c) \/ EndSync(c) \/ SyncDies(c)
         \/ \E e \in Events : StoreEvent(c, e) \/ InsertLink(c, e) \/ DeleteLink(c, e)
    \/ ToggleAutoLink
    \/ \E e \in Events :
         \/ SaveLink(e)
         \/ \E place \in Places : MoveEvent(e, place)
         \/ \E to \in {"manual", "suppressed"} : AskLink(e, to)

CalendarSpec == CalendarInit /\ [][CalendarNext]_calendarVars
-----------------------------------------------------------------------------
(* What the user has linked or unlinked stays so, whatever passes of        *)
(* whichever replica come after: unless the decision fell between a pass's  *)
(* reading of the links and its delete.                                     *)
DecisionsSurvive ==
    \A e \in Events : ledger.decided[e] # "none" =>
        pairs[e].kind = ledger.decided[e] \/ e \in ledger.crossed

(* However syncs crossed, failed or died before: a sync that runs alone     *)
(* leaves the calendar as it is, and on it exactly the links it should have *)
(* where the user has not decided.                                          *)
OneSyncRepairs ==
    ledger.settled =>
        \A e \in Events :
            /\ events[e].at = feed[e]
            /\ autoLink /\ pairs[e].kind \in {"none", "auto"} =>
                 (pairs[e].kind = "auto" <=> feed[e] = "over")
=============================================================================
