---------------------------- MODULE PresenceHub ----------------------------
(***************************************************************************)
(* Presence of one player as one friend of theirs sees it (presence.rs,    *)
(* presence_routes.rs): the in-memory hub, the server-side level, reports  *)
(* over sockets and HTTP, the sweep, and the fan-out of every change to    *)
(* the friend's connection.                                                *)
(*                                                                         *)
(* A call is at the step it does next.  The hub's mutex makes one hub      *)
(* operation a step; every await is between two steps.  The star system is *)
(* a flag, and a view is "offline", "status" or "system".                  *)
(***************************************************************************)
EXTENDS Integers, Sequences

CONSTANTS Trays, CONNECTION_QUEUE, MaxHubCalls, MaxHubFaults

Web == "web"
Sweeper == "sweep"
Callers == Trays \cup {Web, Sweeper}
Levels == {"off", "status", "system"}
Views == {"offline", "status", "system"}
NoEntry == [system |-> FALSE, age |-> -1, stray |-> FALSE]
Idle == [at |-> "idle", level |-> "off", system |-> FALSE, view |-> "offline", alone |-> TRUE]

VARIABLES level,     \* users.presence_level
          entry,     \* the hub's entry: age 0 fresh, 1 past REFANOUT_AFTER, 2 past the TTL
          call,      \* caller -> the call it serves
          open,      \* trays with a registered connection
          watch,     \* the friend's connection: "closed", "joining", "viewing", "open"
          viewAt,    \* the level the joining friend has read
          queue,     \* pushes queued for the friend
          seen,      \* what the friend's client shows
          lost,      \* a push was dropped or a fan-out failed since the last one sent
          crossed,   \* history: the last fan-out overlapped another
          begun, hubFaults

hubVars == <<level, entry, call, open, watch, viewAt, queue, seen, lost, crossed, begun, hubFaults>>

HubInit ==
    /\ level \in Levels /\ entry = NoEntry /\ call = [c \in Callers |-> Idle]
    /\ open = {} /\ watch = "closed" /\ viewAt = "off" /\ queue = <<>> /\ seen = "offline"
    /\ lost = FALSE /\ crossed = FALSE /\ begun = 0 /\ hubFaults = 0

view(e, l) ==
    IF l = "off" \/ e.age \notin {0, 1} THEN "offline"
    ELSE IF l = "system" /\ e.system THEN "system" ELSE "status"

Go(c, step) == call' = [call EXCEPT ![c] = step]
BeginCall(c) == call[c] = Idle /\ begun < MaxHubCalls /\ begun' = begun + 1
HubFault == hubFaults < MaxHubFaults /\ hubFaults' = hubFaults + 1

\* Calls whose change of the hub friends have still to be told of.
Telling == {c \in Callers : call[c].at \in {"view", "narrow", "send"}}
\* c changed the hub and goes on to tell: it overlaps every other that does.
GoTell(c, step) ==
    call' = [d \in Callers |->
        IF d = c THEN [step EXCEPT !.alone = @ /\ Telling \subseteq {c}]
        ELSE IF d \in Telling THEN [call[d] EXCEPT !.alone = FALSE] ELSE call[d]]

-----------------------------------------------------------------------------
(* A report: apply_report.                                                 *)

BeginReport(c) ==
    /\ BeginCall(c) /\ (c \in open \/ c = Web)
    /\ \E s \in BOOLEAN : Go(c, [Idle EXCEPT !.at = "level", !.system = s])
    /\ UNCHANGED <<level, entry, open, watch, viewAt, queue, seen, lost, crossed, hubFaults>>

ReadLevel(c) ==
    /\ call[c].at = "level"
    /\ \/ /\ Go(c, IF level = "off" THEN [call[c] EXCEPT !.at = "clear"]
                   ELSE [call[c] EXCEPT !.at = "set", !.level = level])
          /\ UNCHANGED hubFaults
       \/ HubFault /\ Go(c, Idle)
    /\ UNCHANGED <<level, entry, open, watch, viewAt, queue, seen, lost, crossed, begun>>

\* Mutant: the system is kept at either level.
kept_always(c) == call[c].system
kept_system(c) == call[c].system /\ call[c].level = "system"

set(c) ==
    /\ call[c].at = "set"
    /\ entry' = [system |-> kept_system(c), age |-> 0, stray |-> call[c].level # level]
    /\ IF entry.age # 0 \/ entry.system # kept_system(c)
       THEN GoTell(c, [call[c] EXCEPT !.at = "view"]) ELSE Go(c, Idle)
    /\ UNCHANGED <<level, open, watch, viewAt, queue, seen, lost, crossed, begun, hubFaults>>

\* The view fanned out is taken with the level read before.
TakeView(c) ==
    /\ call[c].at = "view"
    /\ Go(c, [call[c] EXCEPT !.at = "send", !.view = view(entry, call[c].level)])
    /\ UNCHANGED <<level, entry, open, watch, viewAt, queue, seen, lost, crossed, begun, hubFaults>>

\* apply_offline, and a report while the level is off.
clear(c) ==
    /\ call[c].at = "clear" /\ entry' = NoEntry
    /\ IF entry = NoEntry THEN Go(c, Idle)
       ELSE GoTell(c, [call[c] EXCEPT !.at = "send", !.view = "offline"])
    /\ UNCHANGED <<level, open, watch, viewAt, queue, seen, lost, crossed, begun, hubFaults>>

-----------------------------------------------------------------------------
(* fan_out: the friends are listed, then each open connection is pushed to.*)

\* A full queue drops the push; without a connection there is nobody to tell.
send_to(v) ==
    IF watch = "closed" THEN UNCHANGED <<queue, lost>>
    ELSE IF Len(queue) < CONNECTION_QUEUE THEN queue' = Append(queue, v) /\ lost' = FALSE
    ELSE UNCHANGED queue /\ lost' = TRUE

fan_out(c) ==
    /\ call[c].at = "send" /\ Go(c, Idle) /\ crossed' = ~call[c].alone
    /\ \/ send_to(call[c].view) /\ UNCHANGED hubFaults
       \/ HubFault /\ lost' = TRUE /\ UNCHANGED queue
    /\ UNCHANGED <<level, entry, open, watch, viewAt, seen, begun>>

-----------------------------------------------------------------------------
(* Going offline, closing a connection, the sweep.                         *)

Offline(c) ==
    /\ c # Sweeper /\ BeginCall(c) /\ (c \in open \/ c = Web)
    /\ Go(c, [Idle EXCEPT !.at = "clear"])
    /\ UNCHANGED <<level, entry, open, watch, viewAt, queue, seen, lost, crossed, hubFaults>>

register(t) ==
    /\ t \notin open /\ call[t] = Idle /\ open' = open \cup {t}
    /\ UNCHANGED <<level, entry, call, watch, viewAt, queue, seen, lost, crossed, begun, hubFaults>>

unregister(t) ==
    /\ t \in open /\ BeginCall(t) /\ open' = open \ {t}
    /\ IF open = {t} THEN Go(t, [Idle EXCEPT !.at = "clear"]) ELSE UNCHANGED call
    /\ UNCHANGED <<level, entry, watch, viewAt, queue, seen, lost, crossed, hubFaults>>

EntryAges ==
    /\ entry.age \in {0, 1} /\ entry' = [entry EXCEPT !.age = @ + 1]
    /\ UNCHANGED <<level, call, open, watch, viewAt, queue, seen, lost, crossed, begun, hubFaults>>

sweep ==
    /\ call[Sweeper] = Idle /\ entry.age = 2 /\ entry' = NoEntry
    /\ GoTell(Sweeper, [Idle EXCEPT !.at = "send"])
    /\ UNCHANGED <<level, open, watch, viewAt, queue, seen, lost, crossed, begun, hubFaults>>

-----------------------------------------------------------------------------
(* put_settings: write the level, read it back, then tell.                 *)

set_level(l) ==
    /\ BeginCall(Web) /\ level' = l /\ Go(Web, [Idle EXCEPT !.at = "back"])
    /\ UNCHANGED <<entry, open, watch, viewAt, queue, seen, lost, crossed, hubFaults>>

\* When the read-back fails nothing more is done about the new level.
ReadBack ==
    /\ call[Web].at = "back"
    /\ \/ /\ Go(Web, [call[Web] EXCEPT !.at = IF level = "off" THEN "clear" ELSE "settled",
                                       !.level = level])
          /\ UNCHANGED <<entry, lost, hubFaults>>
       \/ /\ HubFault /\ Go(Web, Idle) /\ lost' = TRUE
          /\ entry' = IF entry = NoEntry THEN entry ELSE [entry EXCEPT !.stray = TRUE]
    /\ UNCHANGED <<level, open, watch, viewAt, queue, seen, crossed, begun>>

\* The current view, told if there is any.
ViewSettings ==
    LET v == view(entry, call[Web].level)
    IN  /\ call[Web].at = "settled"
        /\ IF v = "offline" THEN Go(Web, Idle)
           ELSE GoTell(Web, [call[Web] EXCEPT
                    !.at = IF call[Web].level = "status" THEN "narrow" ELSE "send", !.view = v])
        /\ UNCHANGED <<level, entry, open, watch, viewAt, queue, seen, lost, crossed, begun, hubFaults>>

\* Narrowing to `status` drops the kept system.  It stores an entry even if
\* the player has gone offline since the view was taken.
narrow ==
    /\ call[Web].at = "narrow"
    /\ entry' = [system |-> FALSE, age |-> 0, stray |-> entry = NoEntry]
    /\ GoTell(Web, [call[Web] EXCEPT !.at = "send"])
    /\ UNCHANGED <<level, open, watch, viewAt, queue, seen, lost, crossed, begun, hubFaults>>

-----------------------------------------------------------------------------
(* The friend's connection, opened at any time and held from then on.      *)

Join ==
    /\ watch = "closed" /\ watch' = "joining" /\ lost' = FALSE /\ crossed' = FALSE
    /\ UNCHANGED <<level, entry, call, open, viewAt, queue, seen, begun, hubFaults>>

\* friends_view: the levels are read, then the hub is looked at and the first
\* messages are sent, before any queued push.
ReadLevels ==
    /\ watch = "joining" /\ watch' = "viewing" /\ viewAt' = level
    /\ UNCHANGED <<level, entry, call, open, queue, seen, lost, crossed, begun, hubFaults>>

FirstView ==
    /\ watch = "viewing" /\ watch' = "open" /\ seen' = view(entry, viewAt)
    /\ UNCHANGED <<level, entry, call, open, viewAt, queue, lost, crossed, begun, hubFaults>>

Deliver ==
    /\ watch = "open" /\ queue # <<>> /\ seen' = Head(queue) /\ queue' = Tail(queue)
    /\ UNCHANGED <<level, entry, call, open, watch, viewAt, lost, crossed, begun, hubFaults>>

-----------------------------------------------------------------------------
HubNext ==
    \/ \E c \in Callers :
        BeginReport(c) \/ ReadLevel(c) \/ set(c) \/ TakeView(c) \/ clear(c) \/ fan_out(c) \/ Offline(c)
    \/ \E t \in Trays : register(t) \/ unregister(t)
    \/ EntryAges \/ sweep
    \/ \E l \in Levels : set_level(l)
    \/ ReadBack \/ ViewSettings \/ narrow
    \/ Join \/ ReadLevels \/ FirstView \/ Deliver

SweepStep == sweep \/ fan_out(Sweeper)

HubSpec == HubInit /\ [][HubNext]_hubVars

-----------------------------------------------------------------------------
(* Properties.                                                             *)

\* Type invariant.
HubTypeOK ==
    /\ level \in Levels /\ viewAt \in Levels /\ seen \in Views /\ open \subseteq Trays
    /\ entry \in [system : BOOLEAN, age : -1 .. 2, stray : BOOLEAN]
    /\ call \in [Callers -> [at : {"idle", "level", "set", "view", "clear", "send", "back",
                                   "settled", "narrow"},
                             level : Levels, system : BOOLEAN, view : Views, alone : BOOLEAN]]
    /\ Len(queue) <= CONNECTION_QUEUE /\ begun \in 0 .. MaxHubCalls

\* The hub keeps no more than the stored level allows: nothing at "off", no
\* system at "status", but while the change of level is being carried out.
\* Excused (stray) is what a report stored under a level that was changed after
\* it had read it, and a change of level whose read-back failed; both go with
\* the next report or with the TTL.
KeptWithinLevel ==
    entry # NoEntry /\ ~entry.stray /\ call[Web].at \notin {"back", "clear", "settled", "narrow"}
    => /\ level # "off"
       /\ level = "status" /\ entry.age < 2 => ~entry.system

\* Once every call has ended and every push has arrived, the friend's client
\* shows what the hub holds at the stored level.  Excused are a dropped push or
\* failed fan-out (lost), two fan-outs that overlapped and may have been pushed
\* in the other order (crossed), a stray entry, and one past its TTL that the
\* sweep has still to find.
FriendSeesCurrent ==
    /\ \A c \in Callers : call[c] = Idle
    /\ watch = "open" /\ queue = <<>>
    /\ ~lost /\ ~crossed /\ ~entry.stray /\ entry.age < 2
    => seen = view(entry, level)

\* An entry past its TTL, which the sweep forgets.
Expired == entry.age = 2

\* What the hub keeps: no more than the level allows, and friends see what it has.
PresenceSound == HubTypeOK /\ KeptWithinLevel /\ FriendSeesCurrent
=============================================================================
