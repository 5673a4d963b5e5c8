------------------------------- MODULE Nudges -------------------------------
(***************************************************************************)
(* Nudges about open commitments: a sweep derives who is due one, asks the *)
(* notification engine, which may hold it back (quiet hours, a cap per     *)
(* day), and marks what needs no retry; meanwhile the user dismisses,      *)
(* snoozes, or closes the commitment.  The sweep and the user write the    *)
(* same row of nudge_state, each by a read and a later save.               *)
(***************************************************************************)
EXTENDS Integers, Sequences, FiniteSets

CONSTANTS
    Commitments, Sweepers,
    DueAt,            \* commitment -> when classifyNudge starts to say so
    QuietTimes,       \* times in the user's quiet hours
    Window, MaxPerDay, \* the frequency cap: so many in the last Window units
    SnoozeTime,
    LastTick,         \* bound: the clock
    MaxMoves          \* bound: of the user, failing sends, and sweeps that die

ASSUME NudgeAssumption ==
    /\ Commitments # {}
    /\ {Window, SnoozeTime} \subseteq Nat \ {0} /\ {MaxPerDay, LastTick, MaxMoves} \subseteq Nat
    /\ DueAt \in [Commitments -> Nat] /\ QuietTimes \subseteq Nat

VARIABLES
    time,
    open,        \* commitments still open, and not resolved by a later recording
    states,      \* commitment -> its row of nudge_state
    deliveries,  \* when notifications were sent: rows of notification_delivery
    sweeps,      \* sweeper -> its sweepUser
    acts,        \* commitment -> the user's action on it
    moves,       \* what is used of MaxMoves
    told         \* history, see History

nudgeVars == <<time, open, states, deliveries, sweeps, acts, moves, told>>

Stamp == -1 .. LastTick + SnoozeTime    \* -1: null
State == [exists : BOOLEAN, dismissed : BOOLEAN, snoozedUntil : Stamp, nudgedAt : Stamp]
NoState == [exists |-> FALSE, dismissed |-> FALSE, snoozedUntil |-> -1, nudgedAt |-> -1]

\* due: evaluated and not dealt with yet; states: as read for all of them; on: the
\* commitment at hand; row: its row as read again.
NudgeSweep == [pc : {"idle", "states", "loop", "send", "find", "mark"}, at : 0 .. LastTick,
          due : SUBSET Commitments, states : [Commitments -> State],
          on : Commitments, row : State]
Act == [pc : {"idle", "save"}, what : {"dismiss", "snooze"}, row : State]

\* sent: notifications since the last snooze;
\* crossed: a save wrote back what somebody else had changed, or a snooze was
\* saved between a notification and its mark; tried: a delivery failed, or no
\* channel was left, so there will be no other.
NudgeHistory == [sent : [Commitments -> Nat], crossed : SUBSET Commitments,
                 tried : SUBSET Commitments, died : BOOLEAN]

SomeCommitment == CHOOSE c \in Commitments : TRUE
NoNudgeSweep == [pc |-> "idle", at |-> 0, due |-> {}, states |-> [c \in Commitments |-> NoState],
            on |-> SomeCommitment, row |-> NoState]
NoAct == [pc |-> "idle", what |-> "dismiss", row |-> NoState]

NudgeTypeOK ==
    /\ time \in 0 .. LastTick /\ open \subseteq Commitments
    /\ states \in [Commitments -> State]
    /\ deliveries \in Seq(0 .. LastTick)
    /\ sweeps \in [Sweepers -> NudgeSweep] /\ acts \in [Commitments -> Act]
    /\ moves \in 0 .. MaxMoves /\ told \in NudgeHistory

NudgeInit ==
    /\ time = 0 /\ open = Commitments
    /\ states = [c \in Commitments |-> NoState]
    /\ deliveries = <<>>
    /\ sweeps = [w \in Sweepers |-> NoNudgeSweep]
    /\ acts = [c \in Commitments |-> NoAct]
    /\ moves = 0
    /\ told = [sent |-> [c \in Commitments |-> 0], crossed |-> {}, tried |-> {}, died |-> FALSE]

Move == moves < MaxMoves /\ moves' = moves + 1
Snoozed(row, at) == row.snoozedUntil > at
Wanted(row, at) == ~row.dismissed /\ ~Snoozed(row, at) /\ row.nudgedAt = -1
-----------------------------------------------------------------------------
(* sweepUser, one sweep at a time (an advisory lock). *)

\* Mutant: replicas sweep side by side.
EvaluateUnlocked(w) ==
    /\ sweeps[w].pc = "idle"
    /\ LET due == {c \in open : DueAt[c] <= time} IN
       /\ due # {}
       /\ sweeps' = [sweeps EXCEPT ![w] = [NoNudgeSweep EXCEPT !.pc = "states", !.at = time,
                                                          !.due = due]]
    /\ UNCHANGED <<time, open, states, deliveries, acts, moves, told>>

Evaluate(w) ==
    /\ \A v \in Sweepers : sweeps[v].pc = "idle"
    /\ LET due == {c \in open : DueAt[c] <= time} IN
       /\ due # {}
       /\ sweeps' = [sweeps EXCEPT ![w] = [NoNudgeSweep EXCEPT !.pc = "states", !.at = time,
                                                          !.due = due]]
    /\ UNCHANGED <<time, open, states, deliveries, acts, moves, told>>

\* The loop over what is due, with the rows read before it.
Onward(w, s) ==
    sweeps' = [sweeps EXCEPT ![w] =
        LET rest == {c \in s.due : Wanted(s.states[c], s.at)} IN
        IF rest = {} THEN NoNudgeSweep
        ELSE [NoNudgeSweep EXCEPT !.pc = "loop", !.at = s.at, !.due = rest, !.states = s.states]]

StatesByCommitment(w) ==
    /\ sweeps[w].pc = "states"
    /\ Onward(w, [sweeps[w] EXCEPT !.states = states])
    /\ UNCHANGED <<time, open, states, deliveries, acts, moves, told>>

Recent(at) ==
    Cardinality({n \in DOMAIN deliveries : deliveries[n] \in (at - Window + 1) .. at})
HeldBack(at) == at \in QuietTimes \/ Recent(at) >= MaxPerDay

\* Mutant: the cap and the quiet hours are an answer like any other.
MarkHeldBack(w, c) ==
    /\ sweeps[w].pc = "loop" /\ c \in sweeps[w].due
    /\ HeldBack(sweeps[w].at)
    /\ sweeps' = [sweeps EXCEPT ![w].pc = "find", ![w].on = c, ![w].due = @ \ {c}]
    /\ UNCHANGED <<time, open, states, deliveries, acts, moves, told>>

\* notify answers suppressed_quiet_hours or frequency_capped: no mark, so the next
\* sweep tries again.
HoldBack(w, c) ==
    /\ sweeps[w].pc = "loop" /\ c \in sweeps[w].due
    /\ HeldBack(sweeps[w].at)
    /\ Onward(w, [sweeps[w] EXCEPT !.due = @ \ {c}])
    /\ UNCHANGED <<time, open, states, deliveries, acts, moves, told>>

\* notify: past the gates, then sent and logged.
Notify(w, c) ==
    /\ sweeps[w].pc = "loop" /\ c \in sweeps[w].due
    /\ ~HeldBack(sweeps[w].at)
    /\ sweeps' = [sweeps EXCEPT ![w].pc = "send", ![w].on = c, ![w].due = @ \ {c}]
    /\ UNCHANGED <<time, open, states, deliveries, acts, moves, told>>

Send(w) ==
    LET c == sweeps[w].on IN
    /\ sweeps[w].pc = "send"
    /\ sweeps' = [sweeps EXCEPT ![w].pc = "find"]
    /\ \/ /\ deliveries' = Append(deliveries, time)
          /\ told' = [told EXCEPT !.sent[c] = @ + 1]
          /\ UNCHANGED moves
       \/ /\ Move         \* failed, or no channel: terminal as well
          /\ told' = [told EXCEPT !.tried = @ \cup {c}]
          /\ UNCHANGED deliveries
    /\ UNCHANGED <<time, open, states, acts>>

\* findOrCreateState
FindOrCreate(c) == states' = [states EXCEPT ![c].exists = TRUE]

FindState(w) ==
    LET c == sweeps[w].on IN
    /\ sweeps[w].pc = "find"
    /\ FindOrCreate(c)
    /\ sweeps' = [sweeps EXCEPT ![w].pc = "mark", ![w].row = states'[c]]
    /\ UNCHANGED <<time, open, deliveries, acts, moves, told>>

\* save: every column that differs from the table is written.
SaveState(c, read, row) ==
    /\ states' = [states EXCEPT ![c] = row]
    /\ told' = [told EXCEPT !.crossed = IF states[c] # read THEN @ \cup {c} ELSE @]

Mark(w) ==
    LET s == sweeps[w] IN
    /\ s.pc = "mark"
    /\ SaveState(s.on, s.row, [s.row EXCEPT !.nudgedAt = s.at])
    /\ Onward(w, s)
    /\ UNCHANGED <<time, open, deliveries, acts, moves>>

Die(w) ==
    /\ sweeps[w].pc # "idle" /\ Move
    /\ sweeps' = [sweeps EXCEPT ![w] = NoNudgeSweep]
    /\ told' = [told EXCEPT !.died = TRUE]
    /\ UNCHANGED <<time, open, states, deliveries, acts>>
-----------------------------------------------------------------------------
(* The user. *)

Close(c) ==
    /\ c \in open /\ Move
    /\ open' = open \ {c}
    /\ UNCHANGED <<time, states, deliveries, sweeps, acts, told>>

\* act: findOrCreateState, then save.
Begin(c, what) ==
    /\ acts[c] = NoAct /\ Move
    /\ FindOrCreate(c)
    /\ acts' = [acts EXCEPT ![c] = [pc |-> "save", what |-> what, row |-> states'[c]]]
    /\ UNCHANGED <<time, open, deliveries, sweeps, told>>

Dismiss(c) ==
    /\ acts[c].pc = "save" /\ acts[c].what = "dismiss"
    /\ states' = [states EXCEPT ![c] = [acts[c].row EXCEPT !.dismissed = TRUE]]
    /\ told' = [told EXCEPT !.crossed = IF states[c] # acts[c].row THEN @ \cup {c} ELSE @]
    /\ acts' = [acts EXCEPT ![c] = NoAct]
    /\ UNCHANGED <<time, open, deliveries, sweeps, moves>>

Snooze(c) ==
    LET row == acts[c].row IN
    /\ acts[c].pc = "save" /\ acts[c].what = "snooze"
    /\ states' = [states EXCEPT ![c] = [row EXCEPT !.snoozedUntil = time + SnoozeTime,
                                                   !.nudgedAt = -1]]
    /\ told' = [told EXCEPT !.sent[c] = 0,
                            !.tried = @ \ {c},
                            !.crossed = IF \/ [states[c] EXCEPT !.nudgedAt = -1]
                                                # [row EXCEPT !.nudgedAt = -1]
                                           \/ \E w \in Sweepers : sweeps[w].on = c
                                                /\ sweeps[w].pc \in {"send", "find", "mark"}
                                        THEN @ \cup {c} ELSE @]
    /\ acts' = [acts EXCEPT ![c] = NoAct]
    /\ UNCHANGED <<time, open, deliveries, sweeps, moves>>

\* A unit is hours: nothing is halfway when it passes.
NudgeTick ==
    /\ time < LastTick /\ time' = time + 1
    /\ \A w \in Sweepers : sweeps[w].pc = "idle"
    /\ \A c \in Commitments : acts[c] = NoAct
    /\ UNCHANGED <<open, states, deliveries, sweeps, acts, moves, told>>
-----------------------------------------------------------------------------
NudgeSweepStep(w) ==
    \/ Evaluate(w) \/ StatesByCommitment(w) \/ Send(w) \/ FindState(w) \/ Mark(w)
    \/ \E c \in Commitments : HoldBack(w, c) \/ Notify(w, c)
ActStep(c) == Dismiss(c) \/ Snooze(c)

NudgeNext ==
    \/ NudgeTick
    \/ \E w \in Sweepers : NudgeSweepStep(w) \/ Die(w)
    \/ \E c \in Commitments : \/ Close(c) \/ ActStep(c)
                              \/ \E what \in {"dismiss", "snooze"} : Begin(c, what)

\* Time passes, the timer of the sweep fires, requests are answered.
NudgeFairness ==
    /\ SF_nudgeVars(NudgeTick)
    /\ WF_nudgeVars(\E w \in Sweepers : NudgeSweepStep(w))
    /\ WF_nudgeVars(\E c \in Commitments : ActStep(c))
NudgeSpec == NudgeInit /\ [][NudgeNext]_nudgeVars /\ NudgeFairness
-----------------------------------------------------------------------------
(* A nudge is sent once until it is snoozed, however sweeps and replicas    *)
(* follow each other: unless a sweep died between a notification and its    *)
(* mark, or the user's save crossed it.                                     *)
FiresOnce ==
    \A c \in Commitments : told.sent[c] > 1 => told.died \/ c \in told.crossed

(* No more than MaxPerDay notifications of the category in any window, also *)
(* within one sweep.                                                        *)
CapHeld == \A t \in 0 .. time : Recent(t) <= MaxPerDay

(* Whoever is due a nudge gets it, though quiet hours or the cap held it    *)
(* back, a sweep died, or it had been sent before a snooze; or a delivery   *)
(* was tried and failed, the user closed, dismissed or snoozed it, saves    *)
(* crossed, or the clock ends while it is held back.                        *)
Owed(c) == c \in open /\ DueAt[c] <= time /\ ~states[c].dismissed /\ ~Snoozed(states[c], time)
NudgeArrives ==
    \A c \in Commitments :
        []<>(\/ ~Owed(c) \/ told.sent[c] > 0 \/ c \in told.tried \/ c \in told.crossed
             \/ time = LastTick /\ HeldBack(time))
=============================================================================
