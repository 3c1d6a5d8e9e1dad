----------------------------- MODULE AuditChain -----------------------------
(***************************************************************************)
(* The hash-chained audit log of starstats-server                          *)
(* (crates/starstats-server/src/audit.rs, migrations/0002_audit_log.sql).  *)
(*                                                                         *)
(* Every server process (a Replica) has a bounded channel and ONE writer   *)
(* task.  `append` queues an entry and returns; the writer appends the     *)
(* queued entries to the table audit_log, one transaction each:            *)
(*                                                                         *)
(*   idle -Recv-> begin -Lock-> locked -ReadTail-> hashed -Insert->        *)
(*   inserted -Commit-> committed -Mirror-> idle                           *)
(*                                                                         *)
(* The advisory lock is held from Lock to Commit, across all replicas.     *)
(* The column seq is a BIGSERIAL: its value comes from a database sequence *)
(* that is not rolled back, while the hash covers `tail.seq + 1` computed  *)
(* in Rust.                                                                *)
(***************************************************************************)
EXTENDS Naturals, Sequences

CONSTANTS
  Replica,      \* server processes, concurrent or one after the other
  Handler,      \* audit entries appended by HTTP handlers
  Background,   \* audit entries appended by background jobs
  Capacity,     \* AUDIT_WRITER_CHANNEL_CAPACITY
  MaxFaults,    \* bound on failed transactions and process deaths
  None          \* "no replica", "no entry"

Entry == Handler \cup Background

ASSUME AuditAssumption ==
  /\ Capacity \in Nat \ {0}
  /\ MaxFaults \in Nat
  /\ None \notin Replica \cup Entry
  /\ Handler \cap Background = {}

VARIABLES
  log,       \* audit_log: the committed rows in commit order
  nextval,   \* the sequence behind audit_log.seq
  lock,      \* holder of AUDIT_LOG_ADVISORY_LOCK, or None
  phase,     \* phase[r]: "serving", "signalled" (serve has returned),
             \*   "draining" (channel closed) or "stopped"
  queue,     \* queue[r]: the mpsc channel, oldest first
  blocked,   \* blocked[r]: appends waiting for room, oldest first
  pc,        \* pc[r]: where r's writer task is
  cur,       \* cur[r]: the entry the writer is working on
  tail,      \* tail[r]: (next_seq, prev_hash) as computed from the tail row
  rowseq,    \* rowseq[r]: the seq the database gave the uncommitted row
  mirror,    \* the objects in the MinIO bucket
  lost,      \* entries no row will ever record
  faults     \* faults so far

vars == <<log, nextval, lock, phase, queue, blocked, pc, cur, tail, rowseq,
          mirror, lost, faults>>

ZeroHash == <<>>

\* SHA-256 over prev_hash, the canonical payload and the seq, taken as
\* injective: the digest is the tuple of what it covers.
Hash(prev, entry, seq) == <<prev, entry, seq>>

\* SELECT seq, row_hash FROM audit_log ORDER BY seq DESC LIMIT 1
TailIndex == CHOOSE i \in DOMAIN log : \A j \in DOMAIN log : log[j].seq <= log[i].seq

TailSeq == IF log = <<>> THEN 0 ELSE log[TailIndex].seq

TailHash == IF log = <<>> THEN ZeroHash ELSE log[TailIndex].hash

Elems(s) == {s[i] : i \in DOMAIN s}

\* The entries that exist only in the memory of process r.
Held(r) == Elems(queue[r]) \cup Elems(blocked[r]) \cup ({cur[r]} \ {None})

Logged == {log[i].entry : i \in DOMAIN log}

Fresh(e) == e \notin Logged \cup lost \cup UNION {Held(r) : r \in Replica}

NoTail == [seq |-> 0, prev |-> ZeroHash]

Init ==
  /\ log = <<>>
  /\ nextval = 1
  /\ lock = None
  /\ phase = [r \in Replica |-> "serving"]
  /\ queue = [r \in Replica |-> <<>>]
  /\ blocked = [r \in Replica |-> <<>>]
  /\ pc = [r \in Replica |-> "idle"]
  /\ cur = [r \in Replica |-> None]
  /\ tail = [r \in Replica |-> NoTail]
  /\ rowseq = [r \in Replica |-> 0]
  /\ mirror = {}
  /\ lost = {}
  /\ faults = 0

writerVars == <<pc, cur, tail, rowseq>>
dbVars == <<log, nextval, lock>>

-----------------------------------------------------------------------------
(* append: try_send, and when the channel is full an awaited send.  A slot *)
(* freed by the writer is handed to the oldest waiter, so try_send finds   *)
(* room only if the waiters leave some.                                    *)

Accepts(r) == phase[r] \in {"serving", "signalled"}

MayAppend(r, e) ==
  /\ Fresh(e)
  /\ phase[r] = "serving"
       \/ (phase[r] \in {"signalled", "draining"} /\ e \in Background)

AppendQueued(r, e) ==
  /\ MayAppend(r, e)
  /\ Accepts(r)
  /\ Len(queue[r]) + Len(blocked[r]) < Capacity
  /\ queue' = [queue EXCEPT ![r] = Append(@, e)]
  /\ UNCHANGED <<dbVars, phase, blocked, writerVars, mirror, lost, faults>>

AppendWaits(r, e) ==
  /\ MayAppend(r, e)
  /\ Accepts(r)
  /\ Len(queue[r]) + Len(blocked[r]) >= Capacity
  /\ blocked' = [blocked EXCEPT ![r] = Append(@, e)]
  /\ UNCHANGED <<dbVars, phase, queue, writerVars, mirror, lost, faults>>

\* The channel is closed: the entry is dropped (and append returns Ok).
AppendDropped(r, e) ==
  /\ MayAppend(r, e)
  /\ phase[r] = "draining"
  /\ lost' = lost \cup {e}
  /\ UNCHANGED <<dbVars, phase, queue, blocked, writerVars, mirror, faults>>

\* The oldest waiter's awaited send completes.
SendUnblocks(r) ==
  /\ Accepts(r)
  /\ blocked[r] # <<>>
  /\ Len(queue[r]) < Capacity
  /\ queue' = [queue EXCEPT ![r] = Append(@, Head(blocked[r]))]
  /\ blocked' = [blocked EXCEPT ![r] = Tail(@)]
  /\ UNCHANGED <<dbVars, phase, writerVars, mirror, lost, faults>>

\* The client of a waiting request disconnects: its handler's future is
\* dropped inside the awaited send, and the entry with it.
AppendCancelled(r, i) ==
  /\ blocked[r][i] \in Handler
  /\ faults < MaxFaults
  /\ faults' = faults + 1
  /\ blocked' = [blocked EXCEPT ![r] = SubSeq(@, 1, i - 1) \o SubSeq(@, i + 1, Len(@))]
  /\ lost' = lost \cup {blocked[r][i]}
  /\ UNCHANGED <<dbVars, phase, queue, writerVars, mirror>>

-----------------------------------------------------------------------------
(* writer_loop and write_one                                               *)

Recv(r) ==
  /\ phase[r] # "stopped"
  /\ pc[r] = "idle"
  /\ queue[r] # <<>>
  /\ cur' = [cur EXCEPT ![r] = Head(queue[r])]
  /\ queue' = [queue EXCEPT ![r] = Tail(@)]
  /\ pc' = [pc EXCEPT ![r] = "begin"]
  /\ UNCHANGED <<dbVars, phase, blocked, tail, rowseq, mirror, lost, faults>>

\* Mutant of Lock: the advisory lock is not waited for.
LockUnguarded(r) ==
  /\ pc[r] = "begin"
  /\ lock' = r
  /\ pc' = [pc EXCEPT ![r] = "locked"]
  /\ UNCHANGED <<log, nextval, phase, queue, blocked, cur, tail, rowseq,
                 mirror, lost, faults>>

\* SELECT pg_advisory_xact_lock: waits until no transaction holds the lock.
Lock(r) ==
  /\ pc[r] = "begin"
  /\ lock = None
  /\ lock' = r
  /\ pc' = [pc EXCEPT ![r] = "locked"]
  /\ UNCHANGED <<log, nextval, phase, queue, blocked, cur, tail, rowseq,
                 mirror, lost, faults>>

ReadTail(r) ==
  /\ pc[r] = "locked"
  /\ tail' = [tail EXCEPT ![r] = [seq |-> TailSeq + 1, prev |-> TailHash]]
  /\ pc' = [pc EXCEPT ![r] = "hashed"]
  /\ UNCHANGED <<dbVars, phase, queue, blocked, cur, rowseq, mirror, lost,
                 faults>>

\* Mutant of Rollback: the failed entry is put back at the end of the queue
\* although the writer still counts it as failed.
RollbackRequeues(r) ==
  /\ lock' = IF lock = r THEN None ELSE lock
  /\ lost' = lost \cup {cur[r]}
  /\ queue' = [queue EXCEPT ![r] = Append(@, cur[r])]
  /\ cur' = [cur EXCEPT ![r] = None]
  /\ pc' = [pc EXCEPT ![r] = "idle"]
  /\ UNCHANGED <<log, phase, blocked, tail, rowseq, mirror>>

\* A transaction that ends without committing: the lock goes, the entry is
\* logged as failed and forgotten.  The sequence keeps the value it gave.
Rollback(r) ==
  /\ lock' = IF lock = r THEN None ELSE lock
  /\ lost' = lost \cup {cur[r]}
  /\ cur' = [cur EXCEPT ![r] = None]
  /\ pc' = [pc EXCEPT ![r] = "idle"]
  /\ UNCHANGED <<log, phase, queue, blocked, tail, rowseq, mirror>>

\* INSERT INTO audit_log: the default of seq draws from the sequence, and
\* the trigger audit_log_check_chain compares prev_hash with the tail.
Insert(r) ==
  /\ pc[r] = "hashed"
  /\ nextval' = nextval + 1
  /\ UNCHANGED faults
  /\ IF tail[r].prev = TailHash
     THEN /\ rowseq' = [rowseq EXCEPT ![r] = nextval]
          /\ pc' = [pc EXCEPT ![r] = "inserted"]
          /\ UNCHANGED <<log, lock, phase, queue, blocked, cur, tail, mirror, lost>>
     ELSE Rollback(r)

NewRow(r) ==
  [seq   |-> rowseq[r],
   entry |-> cur[r],
   prev  |-> tail[r].prev,
   hash  |-> Hash(tail[r].prev, cur[r], tail[r].seq)]

\* Mutant of Commit: the row is replaced instead of appended.
CommitOverwrites(r) ==
  /\ pc[r] = "inserted"
  /\ log' = <<NewRow(r)>>
  /\ lock' = IF lock = r THEN None ELSE lock
  /\ pc' = [pc EXCEPT ![r] = "committed"]
  /\ UNCHANGED <<nextval, phase, queue, blocked, cur, tail, rowseq, mirror,
                 lost, faults>>

Commit(r) ==
  /\ pc[r] = "inserted"
  /\ log' = Append(log, NewRow(r))
  /\ lock' = IF lock = r THEN None ELSE lock
  /\ pc' = [pc EXCEPT ![r] = "committed"]
  /\ UNCHANGED <<nextval, phase, queue, blocked, cur, tail, rowseq, mirror,
                 lost, faults>>

\* MinioMirror::append after the commit: best effort, never retried.
Mirror(r) ==
  /\ pc[r] = "committed"
  /\ mirror' \in {mirror,
                  mirror \cup {[seq  |-> tail[r].seq,
                                hash |-> Hash(tail[r].prev, cur[r], tail[r].seq)]}}
  /\ cur' = [cur EXCEPT ![r] = None]
  /\ pc' = [pc EXCEPT ![r] = "idle"]
  /\ UNCHANGED <<dbVars, phase, queue, blocked, tail, rowseq, lost, faults>>

\* The database fails the transaction at some statement or at the commit.
WriteFails(r) ==
  /\ pc[r] \in {"begin", "locked", "hashed", "inserted"}
  /\ faults < MaxFaults
  /\ faults' = faults + 1
  /\ Rollback(r)
  /\ UNCHANGED nextval

\* The commit succeeds but its acknowledgement is lost: write_one returns an
\* error, so the row exists and is not mirrored.
CommitUnacknowledged(r) ==
  /\ pc[r] = "inserted"
  /\ faults < MaxFaults
  /\ faults' = faults + 1
  /\ log' = Append(log, NewRow(r))
  /\ lock' = IF lock = r THEN None ELSE lock
  /\ cur' = [cur EXCEPT ![r] = None]
  /\ pc' = [pc EXCEPT ![r] = "idle"]
  /\ UNCHANGED <<nextval, phase, queue, blocked, tail, rowseq, mirror, lost>>

-----------------------------------------------------------------------------
(* Shutdown: main waits for axum::serve to return (no handler is left in   *)
(* an append) and signals the writer, which closes the channel the next    *)
(* time it is between two entries and then flushes what is queued.         *)

ShutdownAndDrain(r) ==
  /\ phase[r] = "serving"
  /\ Elems(blocked[r]) \cap Handler = {}
  /\ phase' = [phase EXCEPT ![r] = "signalled"]
  /\ UNCHANGED <<dbVars, queue, blocked, writerVars, mirror, lost, faults>>

\* receiver.close(): the sends still waiting for room fail.
CloseChannel(r) ==
  /\ phase[r] = "signalled"
  /\ pc[r] = "idle"
  /\ phase' = [phase EXCEPT ![r] = "draining"]
  /\ lost' = lost \cup Elems(blocked[r])
  /\ blocked' = [blocked EXCEPT ![r] = <<>>]
  /\ UNCHANGED <<dbVars, queue, writerVars, mirror, faults>>

WriterExits(r) ==
  /\ phase[r] = "draining"
  /\ pc[r] = "idle"
  /\ queue[r] = <<>>
  /\ phase' = [phase EXCEPT ![r] = "stopped"]
  /\ UNCHANGED <<dbVars, queue, blocked, writerVars, mirror, lost, faults>>

\* The process dies, or AUDIT_DRAIN_TIMEOUT expires and main returns: what
\* was in memory is gone, an open transaction is rolled back.
Die(r) ==
  /\ phase[r] # "stopped"
  /\ faults < MaxFaults
  /\ faults' = faults + 1
  /\ phase' = [phase EXCEPT ![r] = "stopped"]
  /\ lost' = lost \cup (Held(r) \ Logged)
  /\ lock' = IF lock = r THEN None ELSE lock
  /\ queue' = [queue EXCEPT ![r] = <<>>]
  /\ blocked' = [blocked EXCEPT ![r] = <<>>]
  /\ cur' = [cur EXCEPT ![r] = None]
  /\ pc' = [pc EXCEPT ![r] = "idle"]
  /\ UNCHANGED <<log, nextval, tail, rowseq, mirror>>

-----------------------------------------------------------------------------
WriterStep(r) ==
  \/ Recv(r) \/ Lock(r) \/ ReadTail(r) \/ Insert(r) \/ Commit(r) \/ Mirror(r)
  \/ CloseChannel(r) \/ WriterExits(r)

Next ==
  \E r \in Replica :
    \/ \E e \in Entry : AppendQueued(r, e) \/ AppendWaits(r, e) \/ AppendDropped(r, e)
    \/ \E i \in DOMAIN blocked[r] : AppendCancelled(r, i)
    \/ SendUnblocks(r)
    \/ WriterStep(r)
    \/ WriteFails(r)
    \/ CommitUnacknowledged(r)
    \/ ShutdownAndDrain(r)
    \/ Die(r)

Spec == Init /\ [][Next]_vars

-----------------------------------------------------------------------------
(* Properties                                                              *)

\* Type invariant.  The digests are opaque: only rows' seq and entry are typed.
TypeOK ==
  /\ log \in Seq(Elems(log))
  /\ \A i \in DOMAIN log : log[i].seq \in Nat /\ log[i].entry \in Entry
  /\ nextval \in Nat \ {0}
  /\ lock \in Replica \cup {None}
  /\ phase \in [Replica -> {"serving", "signalled", "draining", "stopped"}]
  /\ queue \in [Replica -> Seq(Entry)]
  /\ blocked \in [Replica -> Seq(Entry)]
  /\ pc \in [Replica -> {"idle", "begin", "locked", "hashed", "inserted", "committed"}]
  /\ cur \in [Replica -> Entry \cup {None}]
  /\ \A r \in Replica : pc[r] # "idle" => cur[r] \in Entry
  /\ tail = [r \in Replica |-> [seq |-> tail[r].seq, prev |-> tail[r].prev]]
  /\ \A r \in Replica : tail[r].seq \in Nat
  /\ rowseq \in [Replica -> Nat]
  /\ lost \subseteq Entry
  /\ faults \in Nat

\* Row j is the row right before row i in seq order.
Precedes(j, i) ==
  /\ log[j].seq < log[i].seq
  /\ \A k \in DOMAIN log : log[k].seq <= log[j].seq \/ log[k].seq >= log[i].seq

\* The chain never forks or breaks, whatever the replicas do concurrently and
\* wherever a process dies: seq is a key, and walking the table in seq order
\* every row's prev_hash is the hash of the row before it (audit.rs, the
\* advisory lock around write_one).
ChainLinked ==
  /\ \A i, j \in DOMAIN log : i # j => log[i].seq # log[j].seq
  /\ \A i \in DOMAIN log :
       \/ /\ \A j \in DOMAIN log : log[i].seq <= log[j].seq
          /\ log[i].prev = ZeroHash
       \/ \E j \in DOMAIN log : Precedes(j, i) /\ log[i].prev = log[j].hash

\* No entry is recorded twice and no entry recorded is also given up: a
\* failed or killed write is never half done (write_one's transaction).
AtMostOnce ==
  /\ \A i, j \in DOMAIN log : i # j => log[i].entry # log[j].entry
  /\ Logged \cap lost = {}

\* A deploy loses nothing: as long as no transaction fails and no process is
\* killed, every entry a request handler appended is kept until it is a row;
\* only a background job that appends after the channel is closed loses its
\* entry (main.rs: serve returns, then shutdown_and_drain).
CleanShutdownKeepsHandled == faults = 0 => lost \subseteq Background

\* The mirror holds committed rows only, one object per key, although it is
\* written outside the transaction (audit_mirror.rs: object_key).
MirrorOfCommitted ==
  /\ \A m \in mirror : \E i \in DOMAIN log : log[i].hash = m.hash
  /\ \A m, n \in mirror : m.seq = n.seq => m = n

\* The table is append-only: no step changes or removes a committed row.
AppendOnly == [][Len(log) <= Len(log') /\ SubSeq(log', 1, Len(log)) = log]_log

\* Whatever append has accepted is settled in the end: it is a row, or the
\* process or its transaction failed.  No writer waits for ever for the lock.
QueuedIsSettled ==
  \A e \in Entry : (\E r \in Replica : e \in Held(r)) ~> (e \in Logged \cup lost)

\* What 0002_audit_log.sql says a row_hash covers: the row's own seq.
HashCoversSeq ==
  \A i \in DOMAIN log : log[i].hash = Hash(log[i].prev, log[i].entry, log[i].seq)

\* What becomes of an accepted entry: at most one row, kept by a clean shutdown,
\* and in the mirror only once it is committed.
EntriesKept == TypeOK /\ AtMostOnce /\ CleanShutdownKeepsHandled /\ MirrorOfCommitted
=============================================================================
