----------------------------- MODULE EventFolds -----------------------------
(***************************************************************************)
(* The two folds that turn a player's event stream into runs of contracts  *)
(* and lives of the character (crates/starstats-core/src/contract_life.rs  *)
(* and character_life.rs).  A step hands one more event to both loops;     *)
(* what they would return if the stream ended there is computed from their *)
(* state and compared with a definition that looks at the whole stream.    *)
(*                                                                         *)
(* The contract loop keeps its open runs in a hash map and drains it in an *)
(* unspecified order.  Instants are numbers; 0 is a timestamp that does    *)
(* not parse.  The parseable ones do not decrease, as the callers order    *)
(* the stream.                                                             *)
(***************************************************************************)
EXTENDS Integers, FiniteSets, SequencesExt

CONSTANTS Missions,        \* a sequence: the order of the mission ids
          Objectives, Shards,
          Instants,        \* those that parse
          SessionGapSecs,
          MaxStream        \* how many events a stream of each theme has

\* What the events of a stream are about.
Themes == {"closing", "steps", "lives"}

VARIABLES
    theme, stream,
    runs,        \* closed runs, in the order they were pushed
    openRuns,    \* the open run of each mission, NoRun when none
    lastTs,      \* the last timestamp that parsed, 0 before
    lastTsStr,   \* the last timestamp, parsed or not
    shard,       \* the shard of the last join
    lives,       \* closed lives
    openLife,    \* the life under way
    sessions

foldVars == <<theme, stream, runs, openRuns, lastTs, lastTsStr, shard, lives,
              openLife, sessions>>

MissionIds == ToSet(Missions)
NoRun == [accept |-> 0]
NoShard == "no shard"
NoLife == [start |-> -1]

Verbs == {"hud_complete", "hud_failed", "hud_withdrawn"}

Event(kinds, ms, ats) == [kind : kinds, on : ms, at : ats]

EventsOf(t) ==
    CASE t = "closing" -> Event({"accept"}, MissionIds, Instants \union {0})
                            \union Event({"hud_complete"}, {Missions[1]}, Instants)
                            \union Event({"join"}, Shards, Instants)
                            \union Event({"session_end", "game_crash"}, {"all"}, Instants)
      [] t = "steps"   -> Event({"accept"} \union Verbs, {Missions[1]}, {1})
                            \union Event({"new", "complete", "withdrawn"}, Objectives, {1})
      [] t = "lives"   -> Event({"death", "inferred_death", "game_crash", "incap",
                                 "spawn", "planet"}, {"all"}, Instants \union {0})

\* Banners are HUD notifications; step banners are about the first mission.
Banner(e) == e.kind \in {"accept", "new", "complete", "withdrawn"} \union Verbs
StepBanner(e) == e.kind \in {"new", "complete", "withdrawn"}
MissionOf(e) == IF StepBanner(e) THEN Missions[1] ELSE e.on

FoldInit ==
    /\ theme \in Themes /\ stream = <<>>
    /\ runs = <<>> /\ openRuns = [m \in MissionIds |-> NoRun]
    /\ lastTs = 0 /\ lastTsStr = 0 /\ shard = NoShard
    /\ lives = <<>> /\ openLife = NoLife /\ sessions = 0

-----------------------------------------------------------------------------
(* Contracts *)

OpenIn(open) == {m \in MissionIds : open[m] # NoRun}

close_run(run, reason, closedAt) ==
    [run EXCEPT !.reason = reason, !.closedAt = closedAt, !.lastEvent = closedAt]

\* Every open run with one reason, pushed in the order the map yields them.
close_all(open, reason, closedAt) ==
    {[n \in DOMAIN order |-> close_run(open[order[n]], reason, closedAt)] :
        order \in {s \in [1..Cardinality(OpenIn(open)) -> OpenIn(open)] :
                      Cardinality(ToSet(s)) = Len(s)}}

StepAt(run, o) == {n \in DOMAIN run.steps : run.steps[n].objective = o}

upsert_step(run, o) ==
    IF StepAt(run, o) # {} THEN run
    ELSE [run EXCEPT !.steps = Append(@, [objective |-> o, state |-> "in_progress"])]

\* complete_step and withdraw_step: resolved, and inserted resolved if unseen.
resolve_step(run, o, to) ==
    IF StepAt(run, o) # {}
    THEN [run EXCEPT !.steps = [n \in DOMAIN @ |->
             IF @[n].objective = o THEN [@[n] EXCEPT !.state = to] ELSE @[n]]]
    ELSE [run EXCEPT !.steps = Append(@, [objective |-> o, state |-> to]),
                     !.partial = TRUE]

NewRun(i, e) ==
    [accept |-> i, mission |-> e.on, at |-> e.at, server |-> shard,
     reason |-> "none", closedAt |-> -1, lastEvent |-> e.at,
     partial |-> FALSE, steps |-> <<>>]

\* One banner against the open runs: what is closed, and what stays open.
handle_hud(open, i, e) ==
    LET m   == MissionOf(e)
        run == open[m]
    IN  CASE e.kind = "accept" ->
               [closed |-> IF run = NoRun THEN <<>>
                           ELSE <<close_run(run, "superseded", e.at)>>,
                open   |-> [open EXCEPT ![m] = NewRun(i, e)]]
          [] e.kind \in Verbs /\ run # NoRun ->
               [closed |-> <<close_run(run, e.kind, e.at)>>,
                open   |-> [open EXCEPT ![m] = NoRun]]
          [] StepBanner(e) /\ run # NoRun ->
               [closed |-> <<>>,
                open   |-> [open EXCEPT ![m] =
                   [IF e.kind = "new" THEN upsert_step(run, e.on)
                    ELSE resolve_step(run, e.on, e.kind) EXCEPT !.lastEvent = e.at]]]
          [] OTHER -> [closed |-> <<>>, open |-> open]

NoOpenRuns == [m \in MissionIds |-> NoRun]

\* A gap before the event closes every open run at the previous timestamp.
SessionGap(prev, at) == at # 0 /\ prev # 0 /\ at - prev > SessionGapSecs

\* The event itself, on the runs the gap left open.
ClosesAll(e) ==
    \/ e.kind \in {"session_end", "game_crash"}
    \/ e.kind = "join" /\ shard \notin {NoShard, e.on}

ContractStep(e) ==
    LET open1 == IF SessionGap(lastTs, e.at) THEN NoOpenRuns ELSE openRuns
        hud   == handle_hud(open1, Len(stream) + 1, e)
        why   == IF e.kind = "join" THEN "shard_change" ELSE e.kind
    IN  \E first \in IF SessionGap(lastTs, e.at)
                     THEN close_all(openRuns, "session_gap", lastTsStr) ELSE {<<>>} :
        \E then \in IF ClosesAll(e) THEN close_all(open1, why, e.at) ELSE {<<>>} :
            /\ runs' = runs \o first \o then \o (IF Banner(e) THEN hud.closed ELSE <<>>)
            /\ openRuns' = CASE ClosesAll(e) -> NoOpenRuns
                             [] Banner(e)    -> hud.open
                             [] OTHER        -> open1
            /\ shard' = IF e.kind = "join" THEN e.on ELSE shard
            /\ lastTsStr' = e.at

\* The runs still open at the end of the stream.
AtEnd(run) ==
    [run EXCEPT !.reason =
        IF run.lastEvent # 0 /\ lastTs # 0 /\ lastTs - run.lastEvent <= SessionGapSecs
        THEN "in_progress" ELSE "unknown"]

MissionRank(m) == CHOOSE n \in DOMAIN Missions : Missions[n] = m

\* Sorted by accept time, then mission; the sort keeps the order of equals.
Sorted(rs) ==
    LET Before(x, y) ==
            LET a == rs[x] b == rs[y]
            IN  \/ a.at < b.at
                \/ a.at = b.at /\ MissionRank(a.mission) < MissionRank(b.mission)
                \/ a.at = b.at /\ a.mission = b.mission /\ x < y
    IN  [n \in DOMAIN rs |-> rs[SetToSortSeq(DOMAIN rs, Before)[n]]]

\* What derive_contract_runs returns, the open runs drained in some order.
derive_contract_runs ==
    {Sorted(runs \o [n \in DOMAIN order |-> AtEnd(openRuns[order[n]])]) :
        order \in {s \in [1..Cardinality(OpenIn(openRuns)) -> OpenIn(openRuns)] :
                      Cardinality(ToSet(s)) = Len(s)}}

-----------------------------------------------------------------------------
(* Lives *)

is_passive(e) == e.kind = "planet" \/ Banner(e)

OpenLife(start) == [start |-> start, first |-> 0, last |-> 0, incaps |-> 0]

mark_active(life, at) ==
    [life EXCEPT !.first = IF @ = 0 THEN at ELSE @, !.last = at]

close_if_active(life, ended) ==
    IF life.first = 0
    THEN <<>>
    ELSE <<[start |-> life.start, ended |-> ended, incaps |-> life.incaps,
            secs |-> IF life.first # 0 /\ life.last >= life.first
                     THEN life.last - life.first ELSE -1]>>

\* A life nothing happened in is dropped, unless a death or crash ended it.
close(life, ended) ==
    IF life.first = 0 /\ ended \notin {"death", "inferred_death", "game_crash"}
    THEN <<>>
    ELSE <<[start |-> life.start, ended |-> ended, incaps |-> life.incaps,
            secs |-> IF life.first # 0 /\ life.last >= life.first
                     THEN life.last - life.first ELSE -1]>>

LifeStep(e) ==
    LET gap    == SessionGap(lastTs, e.at)
        begins == gap \/ openLife = NoLife
        life1  == IF begins THEN OpenLife(e.at) ELSE openLife
        life2  == IF is_passive(e) \/ e.at = 0 THEN life1 ELSE mark_active(life1, e.at)
        ends   == e.kind \in {"death", "inferred_death", "game_crash"}
    IN  /\ sessions' = sessions + (IF begins THEN 1 ELSE 0)
        /\ lives' = lives \o (IF gap /\ openLife # NoLife
                              THEN close(openLife, "session_gap") ELSE <<>>)
                          \o (IF ends THEN close(life2, e.kind) ELSE <<>>)
        /\ openLife' = CASE ends             -> OpenLife(e.at)
                         [] e.kind = "incap" -> [life2 EXCEPT !.incaps = @ + 1]
                         [] OTHER            -> life2

\* What derive_lives returns.
derive_lives ==
    lives \o (IF openLife = NoLife THEN <<>> ELSE close(openLife, "still_alive"))

-----------------------------------------------------------------------------
(* The stream *)

\* One more event, in the order of the timestamps that parse.
Feed ==
    /\ Len(stream) < MaxStream[theme]
    /\ \E e \in EventsOf(theme) :
          /\ e.at = 0 \/ e.at >= lastTs
          /\ ContractStep(e)
          /\ LifeStep(e)
          /\ stream' = Append(stream, e)
          /\ lastTs' = IF e.at = 0 THEN lastTs ELSE e.at
    /\ UNCHANGED theme

FoldNext == Feed

FoldSpec == FoldInit /\ [][FoldNext]_foldVars

-----------------------------------------------------------------------------
(* What the folds should return, from the whole stream *)

\* The loops keep within the stream they were handed.
FoldTypeOK ==
    /\ theme \in Themes /\ Len(stream) <= MaxStream[theme]
    /\ \A i \in DOMAIN stream : stream[i] \in EventsOf(theme)
    /\ OpenIn(openRuns) \subseteq MissionIds
    /\ shard \in Shards \union {NoShard}
    /\ sessions \in 0..Len(stream)

\* The last timestamp before event j that parses, 0 when none does.
ParsedBefore(j) ==
    LET is == {i \in 1..j - 1 : stream[i].at # 0}
    IN  IF is = {} THEN 0 ELSE stream[Max(is)].at

GapBefore(j) == SessionGap(ParsedBefore(j), stream[j].at)

\* The shard in effect before event j.
ShardBefore(j) ==
    LET is == {i \in 1..j - 1 : stream[i].kind = "join"}
    IN  IF is = {} THEN NoShard ELSE stream[Max(is)].on

\* Event j ends the run accepted at i, and why.
ClosesRun(i, j) ==
    LET e == stream[j]
    IN  CASE GapBefore(j) -> "session_gap"
          [] e.kind \in {"session_end", "game_crash"} -> e.kind
          [] e.kind = "join" /\ ShardBefore(j) \notin {NoShard, e.on} -> "shard_change"
          [] e.kind \in Verbs /\ e.on = stream[i].on -> e.kind
          [] e.kind = "accept" /\ e.on = stream[i].on -> "superseded"
          [] OTHER -> "none"

\* The objectives first named at j, by a banner between i and the run's end.
FirstNamed(i, to, j) ==
    /\ j \in i + 1..to /\ StepBanner(stream[j]) /\ stream[i].on = Missions[1]
    /\ \A k \in i + 1..j - 1 : StepBanner(stream[k]) => stream[k].on # stream[j].on

StepsOf(i, to) ==
    LET named == SetToSortSeq({j \in i + 1..to : FirstNamed(i, to, j)}, LAMBDA a, b : a < b)
        StateOf(o) ==
            LET js == {j \in i + 1..to : /\ stream[j].kind \in {"complete", "withdrawn"}
                                         /\ stream[j].on = o}
            IN  IF js = {} THEN "in_progress" ELSE stream[Max(js)].kind
    IN  [n \in DOMAIN named |-> [objective |-> stream[named[n]].on,
                                 state |-> StateOf(stream[named[n]].on)]]

\* The run accepted at i, by the first event that closes it.
RunOf(i) ==
    LET ends == {j \in i + 1..Len(stream) : ClosesRun(i, j) # "none"}
        to   == IF ends = {} THEN Len(stream) ELSE Min(ends) - 1
        base == [accept |-> i, mission |-> stream[i].on, at |-> stream[i].at,
                 server |-> ShardBefore(i), steps |-> StepsOf(i, to),
                 partial |-> \E j \in i + 1..to :
                                FirstNamed(i, to, j) /\ stream[j].kind # "new"]
        mine == {i} \union {j \in i + 1..to : StepBanner(stream[j])
                                               /\ stream[i].on = Missions[1]}
        last == stream[Max(mine)].at
        shut == LET j == Min(ends)
                IN  IF ClosesRun(i, j) = "session_gap" THEN stream[j - 1].at ELSE stream[j].at
        live == last # 0 /\ lastTs # 0 /\ lastTs - last <= SessionGapSecs
    IN  IF ends = {}
        THEN base @@ [reason |-> IF live THEN "in_progress" ELSE "unknown",
                      closedAt |-> -1, lastEvent |-> last]
        ELSE base @@ [reason |-> ClosesRun(i, Min(ends)), closedAt |-> shut,
                      lastEvent |-> shut]

\* Each accepted contract is one run, closed by the first event that could
\* close it and by nothing else, with the steps announced meanwhile; the list
\* is the same whatever order the hash map was drained in.
RunsAsDefined ==
    LET of == SetToSortSeq({i \in DOMAIN stream : stream[i].kind = "accept"},
                           LAMBDA a, b : a < b)
    IN  derive_contract_runs = {Sorted([n \in DOMAIN of |-> RunOf(of[n])])}

\* The lives end at each death and crash, and before each gap.
EndsLife(j) == stream[j].kind \in {"death", "inferred_death", "game_crash"}

\* The first events of lives: the first, those after a gap, and the one after
\* each death or crash.  A life may have none when it is the last.
LifeStarts ==
    {j \in DOMAIN stream : j = 1 \/ GapBefore(j) \/ EndsLife(j - 1)}

\* The life whose events are a..b.
LifeOf(a, b) ==
    LET active == {j \in a..b : ~is_passive(stream[j]) /\ stream[j].at # 0}
        ended  == CASE EndsLife(b) -> stream[b].kind
                    [] b < Len(stream) -> "session_gap"
                    [] OTHER -> "still_alive"
    IN  [start  |-> IF a = 1 \/ GapBefore(a) THEN stream[a].at ELSE stream[a - 1].at,
         ended  |-> ended,
         incaps |-> Cardinality({j \in a..b : stream[j].kind = "incap"}),
         secs   |-> IF active = {} THEN -1
                    ELSE stream[Max(active)].at - stream[Min(active)].at,
         counts |-> active # {} \/ EndsLife(b)]

\* Every death and every crash ends exactly one life, a life is as long as the
\* time from its first to its last event of the player's own, and there is one
\* session more than there are gaps.
LivesAsDefined ==
    LET starts == SetToSortSeq(LifeStarts, LAMBDA a, b : a < b)
        all == [n \in DOMAIN starts |->
                  LifeOf(starts[n], IF n = Len(starts) THEN Len(stream)
                                    ELSE starts[n + 1] - 1)]
        kept == SelectSeq(all, LAMBDA l : l.counts)
    IN  /\ derive_lives = [n \in DOMAIN kept |->
              [start |-> kept[n].start, ended |-> kept[n].ended,
               incaps |-> kept[n].incaps, secs |-> kept[n].secs]]
        /\ sessions = Cardinality({j \in DOMAIN stream : j = 1 \/ GapBefore(j)})

\* The two loops return, after every event, what the whole stream defines.
FoldsSound ==
    /\ FoldTypeOK
    /\ RunsAsDefined
    /\ LivesAsDefined
=============================================================================
