----------------------------- MODULE StatRollup -----------------------------
(***************************************************************************)
(* The derived statistics of one handle on the server: session_summary,    *)
(* contract_runs and the row of stat_rollup_state that says which of them  *)
(* is out of date (repo.rs, retention.rs, users.rs).                       *)
(*                                                                         *)
(* Ingest adds events and flags both rollups; a read that finds a flag     *)
(* recomputes under an advisory lock and clears the flag if updated_at is  *)
(* still what it captured; the retention sweep deletes old events batch by *)
(* batch and flags the handle afterwards; an account may be deleted.       *)
(*                                                                         *)
(* An event is its timestamp; 0 stands for one that has none.  A session   *)
(* row is the set of events it was built from, contract_runs the history   *)
(* it was derived from.                                                    *)
(***************************************************************************)
EXTENDS Integers, FiniteSets, FiniteSetsExt

CONSTANTS Times,       \* timestamps
          Untimed,     \* {0} if events without one are sent
          Launcher,    \* those of events that are not gameplay
          Gap,         \* SESSION_IDLE_GAP_MINUTES
          Readers,     \* requests that may rebuild
          BatchSize,   \* DELETE_BATCH_SIZE
          BatchCap,    \* PER_USER_BATCH_CAP
          MaxIngests, MaxDeletes, MaxRollupFaults

ASSUME TimeAssumption ==
    /\ Times \subseteq Nat \ {0} /\ Untimed \subseteq {0} /\ Gap \in Nat
    /\ \E last \in Times : \A t \in Times : t <= last
ASSUME BatchAssumption == BatchSize \in Nat \ {0} /\ BatchCap \in Nat \ {0}

VARIABLES events,    \* rows of `events` under this handle
          old,       \* those received before the retention cutoff
          sessions,  \* session_summary
          runs,      \* contract_runs
          row,       \* the stat_rollup_state row: "none", or its rebuilt_at
          dirty,     \* the rollups it flags
          from,      \* sessions_dirty_from_ts, 0: NULL
          rd,        \* rebuilds
          moved,     \* those whose captured updated_at is no longer the row's
          batches,   \* batches the running sweep has deleted
          ingests, deletes, rollupFaults,
          sOff, cOff, tainted   \* history: see the properties

table == <<events, old, sessions, runs>>
state == <<row, dirty, from>>
rollupBounds == <<ingests, deletes, rollupFaults>>
history == <<sOff, cOff, tainted>>
rollupVars == <<table, state, rd, moved, batches, rollupBounds, history>>

Sessions == "sessions"
Contracts == "contracts"
Kinds == {Sessions, Contracts}
Events == Times \cup Untimed

-----------------------------------------------------------------------------
(* Sessions.                                                               *)

Timed(E) == E \ {0}
Play(E) == Timed(E) \ Launcher

\* A session starts at an event more than Gap after the one before it.
Starts(E) == {x \in E : \A y \in E : y < x => x - y > Gap}
Sessionise(E) ==
    {{y \in E : y >= s /\ \A z \in Starts(E) : z <= y => z <= s} : s \in Starts(E)}

\* session_rebuild_window: what is discarded, and where to start again.
DiscardFrom(dirtyFrom) == dirtyFrom - Gap
RebuildFrom(dirtyFrom) ==
    Min({Min(s) : s \in {s \in sessions : Max(s) >= DiscardFrom(dirtyFrom)}}
        \cup {dirtyFrom})

\* The sessions the rebuild keeps and those it inserts; all are new if the
\* pending range is unknown.
Kept(dirtyFrom) ==
    IF dirtyFrom = 0 THEN {}
    ELSE {s \in sessions : Max(s) < DiscardFrom(dirtyFrom)}
Inserted(dirtyFrom) ==
    LET E == Play(events)
    IN  Sessionise(IF dirtyFrom = 0 THEN E
                   ELSE {x \in E : x >= RebuildFrom(dirtyFrom)})

-----------------------------------------------------------------------------
Idle == [pc |-> "idle", kind |-> Sessions, from |-> 0,
         new |-> {}, seen |-> {}]

RollupInit ==
    /\ events = {} /\ old = {} /\ sessions = {} /\ runs = {}
    /\ row = "none" /\ dirty = {} /\ from = 0
    /\ rd = [r \in Readers |-> Idle] /\ moved = {} /\ batches = 0
    /\ ingests = 0 /\ deletes = 0 /\ rollupFaults = 0
    /\ sOff = FALSE /\ cOff = FALSE /\ tainted = {}

\* A missing row counts as dirty.
Dirty(k) == row = "none" \/ k \in dirty

\* Rebuilds inside their transaction, holding the advisory lock of their kind.
InTx == {r \in Readers : rd[r].pc \in {"read", "clear"}}

\* A write of the row, the one that inserts it included: no two transactions
\* set the same updated_at, and a capture of no row equals none.
Touch == moved' = InTx

Fault == rollupFaults < MaxRollupFaults /\ rollupFaults' = rollupFaults + 1

-----------------------------------------------------------------------------
(* Ingest: one statement inserts the events and flags the handle.          *)

Flags == Kinds

\* LEAST ignores NULLs; dirty with NULL stays NULL: a full rebuild is owed.
Watermark(B) ==
    IF Sessions \in dirty /\ from = 0 THEN 0
    ELSE IF Timed(B) = {} THEN from
    ELSE Min(Timed(B) \cup (IF from = 0 THEN {} ELSE {from}))

\* insert_batch; rows already there are skipped and flag nothing.
InsertBatch(B) ==
    /\ ingests < MaxIngests /\ ingests' = ingests + 1
    /\ events' = events \cup B
    /\ row' = IF row = "none" THEN "never" ELSE row
    /\ dirty' = Flags /\ from' = Watermark(B) /\ Touch
    /\ UNCHANGED <<old, sessions, runs, rd, batches, deletes, rollupFaults, history>>

-----------------------------------------------------------------------------
(* Reads.                                                                  *)

\* ensure_session_stats_fresh, ensure_contract_runs_fresh.
EnsureFresh(r, k) ==
    /\ rd[r].pc = "idle"
    /\ Dirty(k)
    /\ k = Sessions => row # "recent"
    /\ rd' = [rd EXCEPT ![r] = [Idle EXCEPT !.pc = "lock", !.kind = k]]
    /\ UNCHANGED <<table, state, moved, batches, rollupBounds, history>>

\* The interval since the last rebuild runs out.
IntervalPasses ==
    /\ row = "recent"
    /\ row' = "past"
    /\ UNCHANGED <<table, dirty, from, rd, moved, batches, rollupBounds, history>>

\* The advisory lock, then the row; a rebuild that finds the flag cleared
\* while it waited ends here.
Capture(r) ==
    /\ rd[r].pc = "lock"
    /\ \A q \in InTx : rd[q].kind # rd[r].kind
    /\ rd' = [rd EXCEPT ![r] =
                IF Dirty(rd[r].kind)
                THEN [Idle EXCEPT !.pc = "read", !.kind = rd[r].kind, !.from = from]
                ELSE Idle]
    /\ UNCHANGED <<table, state, moved, batches, rollupBounds, history>>

\* Recompute from the events committed so far.
Read(r) ==
    /\ rd[r].pc = "read"
    /\ rd' = [rd EXCEPT ![r] =
                IF rd[r].kind = Sessions
                THEN [rd[r] EXCEPT !.pc = "clear", !.new = Inserted(rd[r].from)]
                ELSE [rd[r] EXCEPT !.pc = "clear", !.seen = Timed(events)]]
    /\ UNCHANGED <<table, state, moved, batches, rollupBounds, history>>

\* Mutant: a session rebuild clears its flag whatever happened meanwhile.
ClearsBlind(r) == rd[r].kind = Sessions \/ row = "none" \/ r \notin moved
\* The upsert inserts a missing row, and updates one that is as captured.
Clears(r) == row = "none" \/ r \notin moved

Touched(r) == IF Clears(r) THEN InTx \ {r} ELSE moved \ {r}

\* A flag the insert does not name has its default, TRUE.
ClearFlag(r, k) ==
    /\ dirty' = IF ~Clears(r) THEN dirty
                ELSE (IF row = "none" THEN Kinds ELSE dirty) \ {k}
    /\ moved' = Touched(r)

CommitSessions(r) ==
    /\ rd[r].pc = "clear" /\ rd[r].kind = Sessions
    /\ sessions' = Kept(rd[r].from) \cup rd[r].new
    /\ ClearFlag(r, Sessions)
    /\ from' = IF Clears(r) THEN 0 ELSE from
    /\ row' = IF Clears(r) THEN "recent" ELSE row
    /\ sOff' = (r \in tainted \/ (sOff /\ ~(rd[r].from = 0 /\ Clears(r))))
    /\ rd' = [rd EXCEPT ![r] = Idle] /\ tainted' = tainted \ {r}
    /\ UNCHANGED <<events, old, runs, batches, rollupBounds, cOff>>

CommitContracts(r) ==
    /\ rd[r].pc = "clear" /\ rd[r].kind = Contracts
    /\ runs' = rd[r].seen
    /\ ClearFlag(r, Contracts)
    /\ row' = IF row = "none" THEN "never" ELSE row
    /\ cOff' = (r \in tainted \/ (cOff /\ ~Clears(r)))
    /\ rd' = [rd EXCEPT ![r] = Idle] /\ tainted' = tainted \ {r}
    /\ UNCHANGED <<events, old, sessions, from, batches, rollupBounds, sOff>>

\* The request is dropped or the database refuses: the transaction rolls back.
RebuildFails(r) ==
    /\ rd[r].pc # "idle"
    /\ Fault
    /\ rd' = [rd EXCEPT ![r] = Idle]
    /\ moved' = moved \ {r} /\ tainted' = tainted \ {r}
    /\ UNCHANGED <<table, state, batches, ingests, deletes, sOff, cOff>>

-----------------------------------------------------------------------------
(* Retention.                                                              *)

\* The retention period of everything stored so far runs out.
TimePasses ==
    /\ batches = 0 /\ old # events
    /\ old' = events
    /\ UNCHANGED <<events, sessions, runs, state, rd, moved, batches, rollupBounds, history>>

PurgeBatch ==
    /\ old # {} /\ batches < BatchCap
    /\ \E X \in SUBSET old :
        /\ Cardinality(X) = Min({BatchSize, Cardinality(old)})
        /\ events' = events \ X /\ old' = old \ X
    /\ batches' = batches + 1
    /\ UNCHANGED <<sessions, runs, state, rd, moved, rollupBounds, history>>

\* Mutant: the flag of the sessions is forgotten.
PurgeFlagsContracts == dirty \cup {Contracts}
PurgeFlags == Kinds

\* The flags follow when nothing is left to delete or the cap is reached; the
\* watermark stays as it is.
PurgeFlag ==
    /\ batches > 0 /\ (old = {} \/ batches = BatchCap)
    /\ batches' = 0
    /\ row' = IF row = "none" THEN "never" ELSE row
    /\ dirty' = PurgeFlags /\ Touch
    /\ sOff' = (sOff \/ from # 0)
    /\ UNCHANGED <<table, from, rd, rollupBounds, cOff, tainted>>

\* A later batch or the flagging fails: what is deleted stays deleted.
PurgeFails ==
    /\ batches > 0
    /\ Fault
    /\ batches' = 0
    /\ sOff' = TRUE /\ cOff' = TRUE /\ tainted' = InTx
    /\ UNCHANGED <<table, state, rd, moved, ingests, deletes>>

-----------------------------------------------------------------------------
(* Account deletion; the handle may be registered again.                   *)

RowGone == row' = "none" /\ dirty' = {} /\ from' = 0

Forget ==
    /\ deletes < MaxDeletes /\ deletes' = deletes + 1
    /\ events' = {} /\ old' = {} /\ runs' = {}
    /\ RowGone
    /\ tainted' = InTx /\ cOff' = FALSE
    /\ UNCHANGED <<rd, moved, batches, ingests, rollupFaults>>

\* delete_user: the events go to a pseudonym, session_summary is left behind.
DeleteUser == Forget /\ sOff' = (sessions # {}) /\ UNCHANGED sessions

\* purge_user
PurgeUser == Forget /\ sOff' = FALSE /\ sessions' = {}

-----------------------------------------------------------------------------
Rebuild(r) ==
    \/ Capture(r)
    \/ Read(r)
    \/ CommitSessions(r)
    \/ CommitContracts(r)

RollupNext ==
    \/ \E B \in (SUBSET (Events \ events)) \ {{}} : InsertBatch(B)
    \/ \E r \in Readers, k \in Kinds : EnsureFresh(r, k)
    \/ \E r \in Readers : Rebuild(r)
    \/ \E r \in Readers : RebuildFails(r)
    \/ IntervalPasses
    \/ TimePasses \/ PurgeBatch \/ PurgeFlag \/ PurgeFails
    \/ DeleteUser \/ PurgeUser

RollupSpec == RollupInit /\ [][RollupNext]_rollupVars

-----------------------------------------------------------------------------
ReaderType ==
    [pc : {"idle", "lock", "read", "clear"}, kind : Kinds,
     from : Times \cup {0}, new : SUBSET SUBSET Times,
     seen : SUBSET Times]

\* Types; without a row nothing of it is left over (stat_rollup_state), and
\* at most one rebuild of a kind is in its transaction.
RollupTypeOK ==
    /\ events \subseteq Events /\ old \subseteq events
    /\ sessions \subseteq SUBSET Times /\ {} \notin sessions /\ runs \subseteq Times
    /\ row \in {"none", "never", "recent", "past"}
    /\ dirty \subseteq Kinds /\ from \in Times \cup {0}
    /\ row = "none" => dirty = {} /\ from = 0
    /\ from # 0 => Sessions \in dirty
    /\ rd \in [Readers -> ReaderType]
    /\ \A r, q \in InTx : rd[r].kind = rd[q].kind => r = q
    /\ batches \in 0 .. BatchCap
    /\ {sOff, cOff} \subseteq BOOLEAN /\ tainted \subseteq InTx /\ moved \subseteq InTx

\* Sessions that are not flagged are those of the stored events.  The claim
\* rests while a sweep is deleting, and after what sOff records: a sweep that
\* found a watermark or ended early, an account deleted with sessions left or
\* during a rebuild; until the next full rebuild.
SessionsFresh ==
    ~Dirty(Sessions) /\ ~sOff /\ batches = 0 => sessions = Sessionise(Play(events))

\* The same for contract_runs; cOff records a sweep that ended early, or an
\* account deleted during a rebuild (rebuild_contract_runs_for_handle).
ContractsFresh ==
    ~Dirty(Contracts) /\ ~cOff /\ batches = 0 => runs = Timed(events)

\* A rebuild from the watermark alone gives what a full one would: no session
\* that a late event extends or bridges is kept (session_rebuild_window).
WatermarkSound ==
    from # 0 /\ ~sOff /\ batches = 0 =>
        Kept(from) \cup Inserted(from) = Sessionise(Play(events))

\* Both flags are off: what the reads bring about.
Settled == row # "none" /\ dirty = {}

\* "Flag the handle dirty so the next read recomputes them from the surviving
\* rows" (retention.rs): what is served after a sweep is of surviving rows.
PurgeRecomputes ==
    ~Dirty(Sessions) /\ batches = 0 => UNION sessions \subseteq events

\* What a reader of the rollups relies on.
RollupsSound == RollupTypeOK /\ SessionsFresh /\ ContractsFresh /\ WatermarkSound
=============================================================================
