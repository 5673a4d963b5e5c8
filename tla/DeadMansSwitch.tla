--------------------------- MODULE DeadMansSwitch ---------------------------
(***************************************************************************)
(* The dead-man's switch of one owner: an hourly sweep arms a release when *)
(* a check-in has lapsed and grants it to the trusted contact once a grace *)
(* window is over; the owner checks in, edits or disables the switch, and  *)
(* revokes.  The sweep holds a lock against other sweeps, not against the  *)
(* owner, whose requests are several awaits long and may overlap.          *)
(***************************************************************************)
EXTENDS Integers, FiniteSets

CONSTANTS
    Hosts,            \* API processes that sweep
    Tabs,             \* requests of the owner that may be in flight at once
    Contacts,
    Interval, Grace,  \* units of time; a grace of zero days is not modelled
    MaxTime,          \* bound: the clock
    MaxReleases,      \* bound: releases armed
    MaxEvents         \* bound: requests of the owner, and sweeps that die (a crash, or
                      \* an error of the database)

ASSUME SwitchAssumption ==
    /\ Contacts # {}       \* contactEmail is not null in a release
    /\ Interval \in Nat \ {0} /\ Grace \in Nat \ {0}
    /\ {MaxTime, MaxReleases, MaxEvents} \subseteq Nat

Times == -1 .. MaxTime      \* -1: null
Ids == 1 .. MaxReleases

VARIABLES
    clock,
    switch,      \* the row of dead_mans_switch
    releases,    \* id -> row of dead_mans_switch_release
    armed,       \* releases created so far
    sweeper,     \* replica -> its sweepUser
    calls,       \* tab -> the request it waits for
    events,      \* what is used of MaxEvents
    lost         \* history: a save of the switch row undid another request's write, or
                 \* two updates were under way at once

switchVars == <<clock, switch, releases, armed, sweeper, calls, events, lost>>

Switch == [enabled : BOOLEAN, contact : Contacts, checkedIn : Times, suspended : Times]

\* lapse: the check-in whose lapse armed it; stale: armed on a switch that had
\* changed since it was read, or before a stand-down had written its suppression;
\* mails: sent to the contact.
Release == [status : {"none", "pending", "active", "cancelled", "revoked"},
            contact : Contacts, graceUntil : 0 .. MaxTime + Grace,
            lapse : Times, stale : BOOLEAN, mails : 0 .. 2]

\* at: its "now"; switch and release: what it read.
SwitchSweep == [pc : {"idle", "find", "cancel", "arm", "grant", "mail"}, at : 0 .. MaxTime,
          switch : Switch, release : 0 .. MaxReleases]

\* row: what it read, then what it saves; ids: the releases it has read.
Call == [pc : {"idle", "save", "sync", "cancelPending", "findActive", "revokeActive",
               "findPending", "savePending", "saveRevoked", "readSwitch", "suppress"},
         op : {"checkIn", "update", "revoke"}, row : Switch, ids : SUBSET Ids,
         base : Switch, any : BOOLEAN]

NoSwitch == [enabled |-> TRUE, contact |-> CHOOSE k \in Contacts : TRUE,
             checkedIn |-> 0, suspended |-> -1]
NoSwitchSweep == [pc |-> "idle", at |-> 0, switch |-> NoSwitch, release |-> 0]
NoCall == [pc |-> "idle", op |-> "checkIn", row |-> NoSwitch, ids |-> {}, base |-> NoSwitch,
           any |-> FALSE]
NoRelease == [status |-> "none", contact |-> NoSwitch.contact, graceUntil |-> 0,
              lapse |-> -1, stale |-> FALSE, mails |-> 0]

SwitchTypeOK ==
    /\ clock \in 0 .. MaxTime /\ switch \in Switch
    /\ releases \in [Ids -> Release] /\ armed \in 0 .. MaxReleases
    /\ sweeper \in [Hosts -> SwitchSweep] /\ calls \in [Tabs -> Call]
    /\ events \in 0 .. MaxEvents /\ lost \in BOOLEAN

SwitchInit ==
    /\ clock = 0 /\ switch = NoSwitch
    /\ releases = [r \in Ids |-> NoRelease] /\ armed = 0
    /\ sweeper = [w \in Hosts |-> NoSwitchSweep]
    /\ calls = [t \in Tabs |-> NoCall]
    /\ events = 0 /\ lost = FALSE

With(status) == {r \in Ids : releases[r].status = status}
LiveReleases == With("pending") \cup With("active")
Lapsed(row, at) == at >= row.checkedIn + Interval
Suspended(row) == row.suspended = row.checkedIn
-----------------------------------------------------------------------------
(* sweepUser, under the advisory lock. *)

AwaitSweep(w, s) == sweeper' = [sweeper EXCEPT ![w] = s]

\* Mutant: nothing keeps two replicas from sweeping at once.
SweepUnlocked(w) ==
    /\ sweeper[w].pc = "idle"
    /\ switch.enabled
    /\ AwaitSweep(w, [NoSwitchSweep EXCEPT !.pc = "find", !.at = clock, !.switch = switch])
    /\ UNCHANGED <<clock, switch, releases, armed, calls, events, lost>>

SweepBegins(w) ==
    /\ \A v \in Hosts : sweeper[v].pc = "idle"
    /\ switch.enabled
    /\ AwaitSweep(w, [NoSwitchSweep EXCEPT !.pc = "find", !.at = clock, !.switch = switch])
    /\ UNCHANGED <<clock, switch, releases, armed, calls, events, lost>>

\* What the sweep does next about what it found.
Due(s, r) ==
    IF ~Lapsed(s.switch, s.at)
    THEN IF r \in With("pending") THEN "cancel" ELSE "idle"
    ELSE IF r = 0 THEN IF Suspended(s.switch) THEN "idle" ELSE "arm"
    ELSE IF r \in With("pending") /\ s.at >= releases[r].graceUntil THEN "grant"
    ELSE "idle"

\* Mutant: any release of the owner stands in the way, those that are over too.
SweepFindsAny(w) ==
    /\ sweeper[w].pc = "find"
    /\ LET r == armed
           s == sweeper[w] IN
       AwaitSweep(w, IF Due(s, r) = "idle" THEN NoSwitchSweep
                     ELSE [s EXCEPT !.pc = Due(s, r), !.release = r])
    /\ UNCHANGED <<clock, switch, releases, armed, calls, events, lost>>

SweepFinds(w) ==
    /\ sweeper[w].pc = "find"
    /\ \E r \in IF LiveReleases = {} THEN {0} ELSE LiveReleases :
         LET s == sweeper[w] IN
         AwaitSweep(w, IF Due(s, r) = "idle" THEN NoSwitchSweep
                       ELSE [s EXCEPT !.pc = Due(s, r), !.release = r,
                                      !.switch = IF r = 0 THEN @ ELSE NoSwitch])
    /\ UNCHANGED <<clock, switch, releases, armed, calls, events, lost>>

\* A save by primary key: whatever the row has become.
PutReleases(R, status) ==
    releases' = [r \in Ids |-> IF r \in R THEN [releases[r] EXCEPT !.status = status]
                               ELSE releases[r]]

SweepCancels(w) ==
    /\ sweeper[w].pc = "cancel"
    /\ PutReleases({sweeper[w].release}, "cancelled")
    /\ AwaitSweep(w, NoSwitchSweep)
    /\ UNCHANGED <<clock, switch, armed, calls, events, lost>>

StandingDown == \E t \in Tabs : calls[t].pc \in {"readSwitch", "suppress"}

SweepArms(w) ==
    LET s == sweeper[w] IN
    /\ s.pc = "arm" /\ armed < MaxReleases
    /\ armed' = armed + 1
    /\ releases' = [releases EXCEPT ![armed + 1] =
                      [status |-> "pending", contact |-> s.switch.contact,
                       graceUntil |-> s.at + Grace, lapse |-> s.switch.checkedIn,
                       stale |-> s.switch # switch \/ StandingDown, mails |-> 0]]
    /\ AwaitSweep(w, NoSwitchSweep)
    /\ UNCHANGED <<clock, switch, calls, events, lost>>

\* Mutant: the grant is a save of what was read.
SweepGrantsAnyway(w) ==
    /\ sweeper[w].pc = "grant"
    /\ PutReleases({sweeper[w].release}, "active")
    /\ AwaitSweep(w, [sweeper[w] EXCEPT !.pc = "mail"])
    /\ UNCHANGED <<clock, switch, armed, calls, events, lost>>

\* UPDATE ... WHERE status = 'pending'.
SweepGrants(w) ==
    /\ sweeper[w].pc = "grant"
    /\ IF sweeper[w].release \in With("pending")
       THEN /\ PutReleases({sweeper[w].release}, "active")
            /\ AwaitSweep(w, [sweeper[w] EXCEPT !.pc = "mail"])
       ELSE AwaitSweep(w, NoSwitchSweep) /\ UNCHANGED releases
    /\ UNCHANGED <<clock, switch, armed, calls, events, lost>>

SweepMails(w) ==
    /\ sweeper[w].pc = "mail"
    /\ releases' = [releases EXCEPT ![sweeper[w].release].mails = @ + 1]
    /\ AwaitSweep(w, NoSwitchSweep)
    /\ UNCHANGED <<clock, switch, armed, calls, events, lost>>

\* The lock goes with its session.
SweepDies(w) ==
    /\ sweeper[w].pc # "idle" /\ events < MaxEvents
    /\ AwaitSweep(w, NoSwitchSweep)
    /\ events' = events + 1
    /\ UNCHANGED <<clock, switch, releases, armed, calls, lost>>
-----------------------------------------------------------------------------
(* Requests of the owner.  Check-in and update read the switch and save it. *)

AwaitCall(t, c) == calls' = [calls EXCEPT ![t] = c]
GotoCall(t, pc) == AwaitCall(t, [calls[t] EXCEPT !.pc = pc])

Running(ops) == {t \in Tabs : calls[t] # NoCall /\ calls[t].op \in ops}

AskSwitch(t, c) ==
    /\ calls[t] = NoCall /\ events < MaxEvents
    /\ AwaitCall(t, c)
    /\ events' = events + 1
    /\ UNCHANGED <<clock, switch, releases, armed, sweeper, lost>>

CheckIn(t) ==
    AskSwitch(t, [NoCall EXCEPT !.pc = "save", !.op = "checkIn", !.base = switch,
                          !.row = [switch EXCEPT !.checkedIn = clock, !.suspended = -1]])

Update(t, enabled, contact) ==
    AskSwitch(t, [NoCall EXCEPT !.pc = "save", !.op = "update", !.base = switch,
                          !.row = [switch EXCEPT !.enabled = enabled, !.contact = contact]])

Revoke(t, r) ==
    /\ r \in LiveReleases
    /\ AskSwitch(t, [NoCall EXCEPT !.pc = "saveRevoked", !.op = "revoke", !.ids = {r}])

\* The whole row is compared with the table, so columns another request has
\* changed since are written back.
SaveSwitch(t) ==
    LET c == calls[t] IN
    /\ c.pc = "save"
    /\ switch' = c.row
    /\ lost' = (lost \/ switch # c.base
                 \/ (c.op = "update" /\ Running({"update"}) # {t}))
    /\ AwaitCall(t, IF c.op = "checkIn"
                    THEN [c EXCEPT !.pc = "findPending", !.row = NoSwitch, !.base = NoSwitch]
                    ELSE [c EXCEPT !.pc = "sync", !.base = NoSwitch])
    /\ UNCHANGED <<clock, releases, armed, sweeper, events>>

\* cancelPendingReleases
FindPending(t) ==
    /\ calls[t].pc = "findPending"
    /\ AwaitCall(t, IF With("pending") = {} THEN NoCall
                    ELSE [calls[t] EXCEPT !.pc = "savePending", !.ids = With("pending")])
    /\ UNCHANGED <<clock, switch, releases, armed, sweeper, events, lost>>

SavePending(t) ==
    /\ calls[t].pc = "savePending"
    /\ PutReleases(calls[t].ids, "cancelled")
    /\ AwaitCall(t, NoCall)
    /\ UNCHANGED <<clock, switch, armed, sweeper, events, lost>>

\* Mutant: the contact of a release is the one it was armed with.
SyncNothing(t) ==
    /\ calls[t].pc = "sync"
    /\ AwaitCall(t, IF calls[t].row.enabled THEN NoCall
                    ELSE [calls[t] EXCEPT !.pc = "cancelPending"])
    /\ UNCHANGED <<clock, switch, releases, armed, sweeper, events, lost>>

\* syncPendingContactSnapshot
Sync(t) ==
    /\ calls[t].pc = "sync"
    /\ releases' = [r \in Ids |-> IF r \in With("pending")
                                  THEN [releases[r] EXCEPT !.contact = calls[t].row.contact]
                                  ELSE releases[r]]
    /\ AwaitCall(t, IF calls[t].row.enabled THEN NoCall
                    ELSE [calls[t] EXCEPT !.pc = "cancelPending"])
    /\ UNCHANGED <<clock, switch, armed, sweeper, events, lost>>

\* disarmForDisable: pending releases, then active ones, then the suppression.
CancelPending(t) ==
    /\ calls[t].pc = "cancelPending"
    /\ PutReleases(With("pending"), "cancelled")
    /\ AwaitCall(t, [calls[t] EXCEPT !.pc = "findActive", !.any = With("pending") # {}])
    /\ UNCHANGED <<clock, switch, armed, sweeper, events, lost>>

FindActive(t) ==
    /\ calls[t].pc = "findActive"
    /\ AwaitCall(t, IF With("active") # {}
                    THEN [calls[t] EXCEPT !.pc = "revokeActive", !.ids = With("active")]
                    ELSE IF calls[t].any THEN [calls[t] EXCEPT !.pc = "readSwitch"]
                    ELSE NoCall)
    /\ UNCHANGED <<clock, switch, releases, armed, sweeper, events, lost>>

\* At most one release is live: the loop over the active ones is one update.
RevokeActive(t) ==
    /\ calls[t].pc = "revokeActive"
    /\ LET won == calls[t].ids \cap With("active") IN
       /\ PutReleases(won, "revoked")
       /\ AwaitCall(t, IF won # {} \/ calls[t].any THEN [calls[t] EXCEPT !.pc = "readSwitch"]
                       ELSE NoCall)
    /\ UNCHANGED <<clock, switch, armed, sweeper, events, lost>>

SaveRevoked(t) ==
    /\ calls[t].pc = "saveRevoked"
    /\ PutReleases(calls[t].ids, "revoked")
    /\ GotoCall(t, "readSwitch")
    /\ UNCHANGED <<clock, switch, armed, sweeper, events, lost>>

\* suppressArmingForCurrentLapse
ReadSwitch(t) ==
    /\ calls[t].pc = "readSwitch"
    /\ AwaitCall(t, [calls[t] EXCEPT !.pc = "suppress", !.ids = {}, !.any = FALSE,
                                  !.row = [NoSwitch EXCEPT !.checkedIn = switch.checkedIn]])
    /\ UNCHANGED <<clock, switch, releases, armed, sweeper, events, lost>>

Suppress(t) ==
    /\ calls[t].pc = "suppress"
    /\ switch' = [switch EXCEPT !.suspended = calls[t].row.checkedIn]
    /\ AwaitCall(t, NoCall)
    /\ UNCHANGED <<clock, releases, armed, sweeper, events, lost>>

\* A unit is days, a sweep or a request seconds: nothing is halfway when it passes.
SwitchTick ==
    /\ clock < MaxTime
    /\ \A w \in Hosts : sweeper[w].pc = "idle"
    /\ \A t \in Tabs : calls[t] = NoCall
    /\ clock' = clock + 1
    /\ UNCHANGED <<switch, releases, armed, sweeper, calls, events, lost>>
-----------------------------------------------------------------------------
SwitchSweepStep(w) ==
    \/ SweepBegins(w) \/ SweepFinds(w) \/ SweepCancels(w)
    \/ SweepArms(w) \/ SweepGrants(w) \/ SweepMails(w)
CallStep(t) ==
    \/ SaveSwitch(t) \/ FindPending(t) \/ SavePending(t) \/ Sync(t) \/ CancelPending(t)
    \/ FindActive(t) \/ RevokeActive(t) \/ SaveRevoked(t) \/ ReadSwitch(t) \/ Suppress(t)

SwitchNext ==
    \/ SwitchTick
    \/ \E w \in Hosts : SwitchSweepStep(w) \/ SweepDies(w)
    \/ \E t \in Tabs :
         \/ CallStep(t) \/ CheckIn(t)
         \/ \E e \in BOOLEAN, k \in Contacts : Update(t, e, k)
         \/ \E r \in Ids : Revoke(t, r)

\* Time passes, the timer of the sweep fires every hour, requests are answered.
SwitchFairness ==
    /\ SF_switchVars(SwitchTick)
    /\ WF_switchVars(\E w \in Hosts : SwitchSweepStep(w))
    /\ WF_switchVars(\E t \in Tabs : CallStep(t))
SwitchSpec == SwitchInit /\ [][SwitchNext]_switchVars /\ SwitchFairness
-----------------------------------------------------------------------------
(* A release is granted only while the check-in is still lapsed and the     *)
(* switch still on, although the sweep decided on rows it read before: the  *)
(* only exceptions are requests still under way, and a lost update.         *)
GrantedWhileDue ==
    [][\A r \in Ids :
         releases[r].status # "active" /\ releases'[r].status = "active" /\ ~lost =>
           /\ Lapsed(switch, clock) \/ Running({"checkIn"}) # {}
           /\ switch.enabled \/ Running({"update"}) # {}]_switchVars

(* A switch that is off has no live release once the requests are over,     *)
(* whatever a sweep was doing meanwhile, unless the sweep armed one on the  *)
(* switch it had read before.                                               *)
StoodDown ==
    ~switch.enabled /\ Running({"checkIn", "update", "revoke"}) = {} /\ ~lost =>
        \A r \in LiveReleases : releases[r].stale

(* The contact a pending release names is the one of the switch, once the   *)
(* requests are over.                                                       *)
NamesCurrentContact ==
    Running({"update"}) = {} /\ ~lost =>
        \A r \in With("pending") : releases[r].stale \/ releases[r].contact = switch.contact

(* One lapse of the check-in mails the contact once, however often it is   *)
(* revoked, cancelled by a disable, or swept, by whichever replica.         *)
NoneStale == \A r \in Ids : ~releases[r].stale
OneMailPerLapse ==
    ~lost /\ NoneStale =>
        /\ \A r \in Ids : releases[r].mails <= 1
        /\ \A r, s \in Ids : releases[r].mails + releases[s].mails = 2
                             /\ releases[r].lapse = releases[s].lapse => r = s

(* A check-in that stays lapsed on a switch that is on, and that no revoke  *)
(* has suppressed, ends in a grant, though sweeps may die and earlier       *)
(* releases have been cancelled; or is in its grace when the clock ends.     *)
Neglected == switch.enabled /\ Lapsed(switch, clock) /\ ~Suspended(switch)
LapseIsServed ==
    []<>(\/ ~Neglected \/ With("active") # {}
         \/ \E r \in With("pending") : releases[r].graceUntil > MaxTime)

(* "durably disarms the switch for the lapse that produced it": a revoke    *)
(* never suppresses a check-in that is not lapsed.  Violated: an owner who  *)
(* checks in and then revokes the grant that is out has no switch left.     *)
SuppressesOnlyLapses ==
    ~lost /\ NoneStale /\ Suspended(switch) => Lapsed(switch, clock)
=============================================================================
