----------------------------- MODULE Inference ------------------------------
(***************************************************************************)
(* The inference pass of the client's ingest tasks                         *)
(* (crates/starstats-core/src/inference.rs, run by process_buffer in       *)
(* crates/starstats-client/src/gamelog.rs and by backfill.rs).             *)
(*                                                                         *)
(* A task feeds the log in buffers.  Each buffer's recognised lines enter  *)
(* a rolling window of bounded size, then every rule runs once over what   *)
(* is left in the window, and each new inference is stored under the key   *)
(* of its rule and trigger.  The live tail makes its rules anew for each   *)
(* buffer; the backfill makes them once for all its files, and the rule    *)
(* for a change of location keeps what it last saw.                        *)
(*                                                                         *)
(* A line is a record: its kind, its instant in ticks, and the shop or     *)
(* planet it names.  Its position in the log stands for its key.           *)
(***************************************************************************)
EXTENDS Integers, FiniteSets, Sequences, Commerce

CONSTANTS Planets, Shops, Ticks,
          TicksPerSec,          \* num_seconds drops the fraction of a second
          DeathSecs, ShopSecs,  \* the wall-clock windows of two rules
          Capacity,             \* INFERENCE_WINDOW_CAPACITY
          MaxLog,               \* how many lines a log of each topic has
          MaxInferFaults

\* The kinds of lines a behaviour is about.
Topics == {"deaths", "places", "shops"}

VARIABLES
    path,       \* "live" or "backfill"
    topic,
    lines,      \* what the game wrote
    fed,        \* how many lines the task has read
    marked,     \* where a restart may begin: before the last buffer, or the archive
    kept,       \* the lines whose observed row is stored
    window,     \* InferenceWindow.recent, as positions
    emitted,    \* InferenceWindow.emitted
    place,      \* LocationChangeState
    inferred,   \* the inferred rows in storage
    passes,     \* history: the window of each pass, and whether its rules were new
    unstored,   \* history: the keys whose insert failed
    inferFaults

inferVars == <<path, topic, lines, fed, marked, kept, window, emitted, place,
               inferred, passes, unstored, inferFaults>>

\* The positions a log may have.
Positions == UNION {1..MaxLog[t] : t \in Topics}

NoPlace == [prev |-> 0, inventory |-> FALSE]

Keys == [rule : {"death", "place", "timeout", "travel"}, trigger : Positions]

Line(kinds, ats, whats) == [kind : kinds, at : ats, what : whats]

\* The lines of a topic.
LinesOf(t) ==
    CASE t = "deaths" -> Line({"vehicle", "spawn"}, Ticks, {NoId})
      [] t = "places" -> Line({"planet"}, {0}, Planets)
                           \union Line({"inventory", "beacon"}, {0}, {NoId})
      [] t = "shops"  -> Line({"buy", "response"}, Ticks, Shops \union {NoId})

\* The window is bounded and holds stored lines only, the cursor stays behind
\* what was read, and a key emitted since the start is stored or failed.
InferTypeOK ==
    /\ path \in {"live", "backfill"} /\ topic \in Topics
    /\ Len(lines) <= MaxLog[topic] /\ \A i \in DOMAIN lines : lines[i] \in LinesOf(topic)
    /\ marked <= fed /\ fed <= Len(lines)
    /\ kept \subseteq DOMAIN lines
    /\ Len(window) <= Capacity /\ ToSet(window) \subseteq kept
    /\ emitted \subseteq Keys /\ unstored \subseteq Keys
    /\ place \in [prev : {0} \union Positions, inventory : BOOLEAN]
    /\ inferred \subseteq Keys
    /\ emitted \subseteq inferred \union unstored

InferInit ==
    /\ path \in {"live", "backfill"} /\ topic \in Topics
    /\ lines = <<>> /\ fed = 0 /\ marked = 0
    /\ kept = {} /\ window = <<>> /\ emitted = {} /\ place = NoPlace
    /\ inferred = {} /\ passes = <<>> /\ unstored = {} /\ inferFaults = 0

-----------------------------------------------------------------------------
(* The rules *)

\* Whole seconds from one line to another, truncated towards zero.
Secs(i, j) ==
    LET d == lines[j].at - lines[i].at
    IN  IF d >= 0 THEN d \div TicksPerSec ELSE -((-d) \div TicksPerSec)

window_up_to_secs(w, n, secs) ==
    {w[m] : m \in {k \in n + 1..Len(w) : Secs(w[n], w[k]) <= secs}}

\* The lines of w after the trigger, within the rule's seconds of it.
window_within_secs(w, n, secs) ==
    {w[m] : m \in {k \in n + 1..Len(w) : Secs(w[n], w[k]) \in 1..secs}}

implicit_death(w, n) ==
    /\ lines[w[n]].kind = "vehicle"
    /\ \E s \in window_within_secs(w, n, DeathSecs) : lines[s].kind = "spawn"

implicit_shop_request_timeout(w, n) ==
    /\ lines[w[n]].kind = "buy"
    /\ ~ \E r \in window_within_secs(w, n, ShopSecs) :
            lines[r].kind = "response" /\ SameShop(lines[w[n]], lines[r])

travel_to_contract_location(w, n) == lines[w[n]].kind = "beacon"

\* What the location rule remembers after one more line.
Remember(st, i) ==
    CASE lines[i].kind = "planet"    -> [prev |-> i, inventory |-> FALSE]
      [] lines[i].kind = "inventory" -> [st EXCEPT !.inventory = TRUE]
      [] OTHER                       -> st

\* The rule's memory just before position n of the window.
Remembered(st, w, n) == FoldLeft(Remember, st, SubSeq(w, 1, n - 1))

implicit_location_change(st, w, n) ==
    LET before == Remembered(st, w, n)
    IN  /\ lines[w[n]].kind = "planet"
        /\ before.prev # 0 /\ ~before.inventory
        /\ lines[before.prev].what # lines[w[n]].what

\* Every rule on every line of the window.
infer_with_rules(st, w) ==
    LET Fires(rule, n) ==
            CASE rule = "death"   -> implicit_death(w, n)
              [] rule = "place"   -> implicit_location_change(st, w, n)
              [] rule = "timeout" -> implicit_shop_request_timeout(w, n)
              [] rule = "travel"  -> travel_to_contract_location(w, n)
    IN  {[rule |-> r, trigger |-> w[n]] :
            <<r, n>> \in {f \in {k.rule : k \in Keys} \X DOMAIN w : Fires(f[1], f[2])}}

-----------------------------------------------------------------------------
(* The tasks *)

\* The game writes a line.
LogLine ==
    /\ Len(lines) < MaxLog[topic]
    /\ \E l \in LinesOf(topic) : lines' = Append(lines, l)
    /\ UNCHANGED <<path, topic, fed, marked, kept, window, emitted, place,
                   inferred, passes, unstored, inferFaults>>

\* InferenceWindow::push: the oldest line leaves a full window.
push(w, i) == Append(IF Len(w) = Capacity THEN Tail(w) ELSE w, i)

\* The rules a pass runs with: the live tail compiles them for each drain.
RulesState == IF path = "live" THEN NoPlace ELSE place

\* One buffer: every line read since the last one, then one pass.  The insert
\* of an observed row may fail, and its line is skipped; the insert of an
\* inferred row may fail after its key is among the emitted ones.
process_buffer ==
    /\ fed < Len(lines)
    /\ \E lost \in SUBSET (fed + 1..Len(lines)) :
         LET read  == SelectSeq([n \in 1..Len(lines) - fed |-> fed + n],
                                LAMBDA i : i \notin lost)
             w     == FoldLeft(push, window, read)
             found == infer_with_rules(RulesState, w) \ emitted
         IN \E missed \in SUBSET (found \ inferred) :
             /\ inferFaults' = inferFaults + Cardinality(lost) + Cardinality(missed)
             /\ inferFaults' <= MaxInferFaults
             /\ kept' = kept \union ToSet(read)
             /\ window' = w
             /\ place' = FoldLeft(Remember, RulesState, w)
             /\ emitted' = emitted \union found
             /\ inferred' = inferred \union (found \ missed)
             /\ unstored' = unstored \union missed
             /\ passes' = Append(passes, [seen |-> w, fresh |-> RulesState = NoPlace])
    /\ fed' = Len(lines)
    /\ marked' = IF path = "live" THEN fed ELSE marked
    /\ UNCHANGED <<path, topic, lines>>

\* The application stops and starts, and the task begins at its cursor: the
\* live tail writes it after each buffer, the backfill after each archive.
TaskRestarts ==
    /\ fed > 0 /\ inferFaults < MaxInferFaults
    /\ inferFaults' = inferFaults + 1
    /\ fed' \in {marked} \union (IF path = "live" THEN {fed} ELSE {})
    /\ window' = <<>> /\ emitted' = {} /\ place' = NoPlace
    /\ UNCHANGED <<path, topic, lines, marked, kept, inferred, passes, unstored>>

\* The backfill goes on to its next archive: a new window, the same rules.
NextArchive ==
    /\ path = "backfill" /\ fed = Len(lines) /\ marked < fed
    /\ marked' = fed
    /\ window' = <<>> /\ emitted' = {}
    /\ UNCHANGED <<path, topic, lines, fed, kept, place, inferred, passes,
                   unstored, inferFaults>>

InferNext == LogLine \/ process_buffer \/ TaskRestarts \/ NextArchive

InferSpec == InferInit /\ [][InferNext]_inferVars

-----------------------------------------------------------------------------
(* Properties *)

TriggersOf(rule) == {k.trigger : k \in {x \in inferred : x.rule = rule}}

\* Instants i and j are in this order, by whole seconds, and j is soon enough.
Follows(i, j, secs) ==
    /\ lines[j].at - lines[i].at >= TicksPerSec
    /\ lines[j].at - lines[i].at < (secs + 1) * TicksPerSec

\* A stored death has, in the log, a destruction and a later spawn within the
\* rule's seconds, whatever the order the timestamps arrived in; a change of
\* location inferred with fresh rules joins two different planets that no
\* inventory request and no other planet separates among the stored lines.
InferredIsJustified ==
    /\ \A d \in TriggersOf("death") :
          /\ lines[d].kind = "vehicle"
          /\ \E s \in kept : s > d /\ lines[s].kind = "spawn" /\ Follows(d, s, DeathSecs)
    /\ (\A n \in DOMAIN passes : passes[n].fresh) =>
          \A t \in TriggersOf("place") : \E q \in kept :
             /\ q < t /\ lines[q].kind = "planet" /\ lines[q].what # lines[t].what
             /\ \A i \in kept \intersect (q + 1..t - 1) :
                   lines[i].kind \notin {"planet", "inventory"}

\* A destruction and its spawn that were once in the window together are a
\* stored death, unless the row's own insert failed.
SeenTogetherIsInferred ==
    \A n \in DOMAIN passes : \A i, j \in ToSet(passes[n].seen) :
        (/\ i < j /\ lines[i].kind = "vehicle" /\ lines[j].kind = "spawn"
         /\ Follows(i, j, DeathSecs))
            => [rule |-> "death", trigger |-> i] \in inferred \union unstored

\* The lines of ls that answer request t in time.
AnswersIn(ls, t) ==
    {r \in ls : /\ r > t /\ lines[r].kind = "response"
                /\ SameShop(lines[t], lines[r]) /\ Follows(t, r, ShopSecs)}

\* The first pass that sees a purchase decides it for good: it is reported as
\* timed out exactly when that pass saw no answer, whatever later passes see,
\* after a restart too.
FirstPassDecides ==
    \A t \in Of(lines, "buy") :
        LET by == {n \in DOMAIN passes : t \in ToSet(passes[n].seen)}
        IN  by # {} =>
              ([rule |-> "timeout", trigger |-> t] \in inferred \union unstored
                 <=> AnswersIn(ToSet(passes[Min(by)].seen), t) = {})

\* No answer is paired twice or with a later request or another shop's, and no
\* answer is left over beside a request it could have answered.
PairsSound(events) ==
    LET pairs == pair_transactions(events)
        used  == {pairs[q] : q \in DOMAIN pairs}
    IN  /\ \A p, q \in DOMAIN pairs : pairs[p] = pairs[q] => p = q
        /\ \A q \in DOMAIN pairs :
              SameShop(events[q], events[pairs[q]]) /\ events[q].at <= events[pairs[q]].at
        /\ \A r \in Of(events, "response") \ used :
              Candidates(events, pairs, r) = {}

\* When every line names its shop, newest first (the client's reading) and
\* oldest first answer equally many requests.
SameAnsweredEitherWay(events) ==
    (\A i \in DOMAIN events : events[i].what # NoId) =>
        Cardinality(DOMAIN pair_transactions(events))
            = Cardinality(DOMAIN pair_transactions(Reverse(events)))

\* Both, of every short log of shop lines.
CommerceSound ==
    (topic = "shops" /\ path = "live" /\ fed = 0) =>
        \A l \in LinesOf("shops") :
            LET events == Append(lines, l)
            IN  PairsSound(events) /\ SameAnsweredEitherWay(events)

\* The inference pass reports what the log bears out and nothing twice, in live
\* tail and backfill, across drains, lost rows and restarts; the pairing of
\* shop lines is a matching.
InferenceSound ==
    /\ InferTypeOK
    /\ InferredIsJustified
    /\ SeenTogetherIsInferred
    /\ FirstPassDecides
    /\ CommerceSound
=============================================================================
