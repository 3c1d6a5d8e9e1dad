# StarStats: TLA+ models and proofs

Specifications of the parts of StarStats where order, crashes and concurrency
decide whether the numbers a player sees are right. Paths below are relative to
the repository root; `server/`, `client/` and `core/` stand for
`crates/starstats-server/src/`, `crates/starstats-client/src/` and
`crates/starstats-core/src/`.

## 1. The system

```
 Game.log ──tail──▶ SQLite outbox ──lanes──▶ POST /v1/ingest ──▶ events ──▶ rollups ──▶ pages
 Game-*.log ─backfill─▲   (tray)                (Axum server)   (Postgres)      ▲
                                                     │                      retention
                                                     └──▶ audit log ──▶ MinIO mirror
```

* The **tray client** (Tauri) tails `Game.log`, reads rotated archives once, and
  keeps every recognised line as a row of a local SQLite table. That table is an
  outbox: two lanes (priority and bulk) send unsent rows in batches that carry a
  per-device ordinal.
* The **server** (Axum, Postgres at READ COMMITTED, SpiceDB, MinIO) gates,
  validates and stores batches, keeps derived tables (sessions, contract runs,
  counts) that are rebuilt lazily when a page is read, purges old events by tier,
  and appends security-relevant changes to a hash-chained audit log.
* The **web app and the tray UI** are views.

The inventory of all parts, including those left out and why, is the
`components` list of `PROJECT.json`. The hazards the code is exposed to, each
at its line, are its `hazards` list. Hazards of parts with no module yet carry a
note naming the planned module.

## 2. Modules

| module | models | state | lines of TLA+ |
|---|---|---|---|
| `AuditChain` | `server/audit.rs`, trigger of `0002_audit_log.sql`, shutdown in `server/main.rs` | committed rows, the sequence, the advisory lock; per process the channel, blocked senders and the writer's program counter | 442 |
| `SyncOutbox` (+ `MCSyncOutbox`) | `client/sync.rs`, the outbox half of `client/storage.rs`, token and lane handling of `client/commands.rs`; `server/ingest.rs`, `restriction_guard.rs`, insert and ordinals of `server/repo.rs` | rows, counter, token, lanes with their stacks, requests in flight, the server's tables | 583 |
| `TailCursor` (+ `MCTailCursor`) | `client/gamelog.rs`, `client/backfill.rs`, cursors of `client/storage.rs`, burst detection of `core/templates.rs` | files, the tail and backfill tasks, their cursors, the rows | 444 |
| `StatRollup` (+ `MCStatRollup`) | flags and rebuilds in `server/repo.rs`, `server/retention.rs`, purge and deletion in `server/users.rs` | events, both rollups, the state row, rebuilds in progress, the sweep | 339 |
| `AuditChainProofs`, `TailCursorProofs`, `StatRollupProofs`, `StatSessionProofs` | theorems about the above | | |

### AuditChain

One action per step of `append` (`AppendQueued`, `AppendWaits`,
`AppendDropped`, `AppendCancelled`, `SendUnblocks`) and per `await` of the
writer task (`Recv`, `Lock`, `ReadTail`, `Insert`, `Commit`, `Mirror`), so that
replicas interleave where they do in the code. `Insert` draws from the
database sequence and applies the trigger's check. A write may fail at any point
of its transaction (`WriteFails`), commit without the answer arriving
(`CommitUnacknowledged`), and the process may die (`Die`). `ShutdownAndDrain`,
`CloseChannel` and `WriterExits` are the graceful path.

A digest is the triple of what it is computed over, so distinct inputs
give distinct digests.

### SyncOutbox

A lane is a program counter with the locals of `drain_once`: the stack of
sub-batches, the batch being sent, its ordinal, the reply, the number of
quarantined rows. Every kind of reply (accepted, auth, sync disabled, bad
request, transient) has its action. A request lives on at the server after the
client has timed out or the tray has restarted. The server serves it in three
steps, `Gate`, `InsertBatch`, `Observe`, and either of the last two may fail.
`respawn` does not stop an old lane at once: it runs on to its next await.
Pairing is three steps (`PairSave`, `PairReset`, `PairRespawn`). An
account check is a request whose answer is applied later.

### TailCursor

The environment writes lines, whole or in part, and rotates the file; the tail
notices through notifications that coalesce. `Resume` is the resume rule by
signature and length. A drain is `DrainOpen`, `DrainRead`, one `DrainProcess`
per insert, `DrainCommit`; the backfill likewise by chunk with a carry. A stop
of the tray may fall between any two. Faults: a failed insert, a failed read in
the tail or in an archive, a failed cursor save.

### StatRollup

`InsertBatch` is ingest's transaction (events, flags, watermark). A rebuild is
`EnsureFresh` (the gates of the page), `Capture` (advisory lock, read
`updated_at` and the watermark), `Read`, `CommitSessions` or
`CommitContracts`; each may fail. A sweep is a run of `PurgeBatch`, each its own
transaction, then `PurgeFlag`; it may fail in between. `DeleteUser` and
`PurgeUser` forget the handle.

`updated_at` is only ever compared for equality with a captured value. The set
`moved` holds the rebuilds for which the comparison would fail.

## 3. What is checked

`CHECK_DEADLOCK FALSE` everywhere: each instance bounds faults, rows or
operations, and once the bound is used up and the work is done nothing is left
to do.

| run | instance | shows |
|---|---|---|
| `audit` | 2 replicas, 3 entries (one by a background task), a channel of 1 slot, 2 faults | rows are linked in `seq` order across replicas (`ChainLinked`); one row per entry (`AtMostOnce`); a clean deploy loses no handler's entry (`CleanShutdownKeepsHandled`); the mirror holds only committed rows; the log only grows; an accepted entry becomes a row or is lost to a fault (`QueuedIsSettled`) |
| `outbox_faults` | 4 rows in two lanes, one refused, one invalid, 2 faults or repairs | a row counted as sent was dealt with (`AckedIsHandled`); bisection quarantines only the refused row (`QuarantineIsolates`) and keeps sends in order (`StackAscending`); no false gap is reported (`NoFalseGap`) |
| `outbox_account` | 2 rows, 2 devices, 3 revocations, restrictions, pairings, respawns, restarts or checks | a running lane sends with the stored token; no row is in two awaited requests; no false gap for the paired device |
| `outbox_live` | 3 rows, 2 refused, quarantine cap 1, 3 faults | the queue drains (`QueueDrains`) |
| `tail` | 2 files, 3 lines, chunks of 2, one fault, 2 starts | a row is stored once (`StoredOnce`); both cursors pass only stored lines (`TailCursorCovers`, `BackfillCovers`); chunking splits no burst (`BurstsWhole`) |
| `tail_live` | 2 files, 2 lines, a read error, 2 starts | a line of the live log is stored with no further write needed to wake the tail; every line of an archive is stored after the next start, including one the tail has skipped |
| `rollup` | times 1..3 and an event without time, idle gap 1, 2 batches of up to 2, 2 readers, sweep | a rollup that is not flagged is that of the stored events (`SessionsFresh`, `ContractsFresh`); an incremental rebuild equals a full one (`WatermarkSound`) |
| `rollup_live` | times 1..2 of which one from the launcher, one deletion, one fault | the same, and both flags come off in the end (`RollupsSettle`) |

Why the bounds suffice to see the interesting cases: two replicas, lanes or
readers are what a race needs, and every race in the code is between two; two
faults allow a fault during the recovery from another; three lines with chunks
of two put a burst across a chunk boundary; three times with an idle gap of one
let a late event bridge two sessions; a quarantine cap of one against two
refused rows makes a drain bail and resume. The theorems of section 5 remove
the bounds for the invariants they cover.

### Where the code and its documentation differ

| run | statement | what the code does |
|---|---|---|
| `audit_hash` | `0002_audit_log.sql:15`: the hash covers `seq` | `write_one` hashes `tail.seq + 1`; the row's `seq` comes from the sequence, which a rolled-back insert has advanced. The chain stays linked, but a verifier that follows the schema comment rejects the row |
| `outbox_loss` | `client/sync.rs:11`: "events never get lost" | a failed insert transaction is answered with 200 and the rows are marked sent |
| `outbox_silent` | `client/sync.rs:938`, on sync that "had silently died" behind a green pill | a late account check stops new lanes; the next valid check clears `auth_lost` and starts none |
| `rollup_purge` | `server/retention.rs:221`: "the next read recomputes them from the surviving rows" | the sweep keeps a pending watermark; sessions of purged events before it stay |

Observed while modelling, not stated as runs:

* a burst that grows across a crash gets a second summary (`client/gamelog.rs:514`
  expects the same summary again);
* a burst split over two drains and then backfilled leaves its members and the
  summary in the table;
* `client/gamelog.rs:463` says the cursor only advances on success; the offset in
  memory has already advanced when a read fails in mid-file, and the next drain
  saves it. The backfill recovers the lines (`BackfillCovers`);
* a file too short to sign may hand its offset to a longer successor;
* a contract rebuild in flight during `delete_user` re-creates its rows;
* a sweep that fails after some batches leaves the rollups unflagged;
* the retention sweep binds `claimed_handle` as written while events are stored
  in lower case.

## 4. Fairness

* **AuditChain**: weak fairness of each step of the writer task, which tokio runs
  when its await is ready; strong fairness of `Lock`, since Postgres queues the
  waiters of an advisory lock. No fairness of appends, faults or shutdown.
* **SyncOutbox**: weak fairness of each lane's next step and of its timeout
  (`reqwest` has one), of the server serving a request, and of the remaining steps
  of a pairing once begun. None of user operations or faults, which are bounded.
* **TailCursor**: weak fairness of the tail's and the backfill's steps.
  The game need not write again.
* **StatRollup**: strong fairness of `EnsureFresh` for each rollup (pages are
  opened again; this is an assumption about use, not about the code, and
  `RollupsSettle` says what follows from it), weak fairness of a running
  rebuild, of the minimum interval between rebuilds, and of the sweep's
  next step.

## 5. What is proved

TLAPS checks these for every value of the constants.

| theorem | statement | assumptions on constants |
|---|---|---|
| `AuditTypeCorrect`, `ChainNeverForks` | `TypeOK`, `ChainLinked` | `None` is no replica or entry, the channel has room |
| `RowsStoredOnce`, `GameLogCovered`, `ArchivesCovered` | `StoredOnce`, `TailCursorCovers`, `BackfillCovers` | naturals; a burst has at least two lines, a chunk at least one, and the carry is as long as a burst can be without being one |
| `RollupTypeCorrect`, `ContractRunsFresh` | `TypeOK`, `ContractsFresh` | times are naturals above 0 with a last one |
| `SessionSummaryFresh`, `IncrementalIsFull` | `SessionsFresh`, `WatermarkSound` | the same, and the idle gap is a natural |

**Chain.** `ChainLinked` is not inductive: that the row a writer inserts is
linked to the last row depends on what the writer read some steps before. The
invariant adds that the lock is held by exactly the writer between `Lock` and
the end of its transaction, that the tail it has read is the tail until it
commits, that commit order is `seq` order, and that a drawn `seq` is above every
committed one.

**Cursors.** A cursor passes only what is stored because, inside a drain, every
line read so far is stored, has failed, or is still on the task's list. That
needs in turn that a signature identifies the file whose lines were read, and
that the burst a summary stands for is made of lines of that list. Rows are
unique because the insert compares content and not only keys.

**Contract runs.** An undisturbed rebuild (one not in `moved`) has seen every
event that is stored; a rollup stays flagged while a rebuild of it runs; hence
clearing the flag only when `updated_at` is as captured is sound.

**Sessions.** The core is a lemma about the idle-gap partition: if the sessions
kept are those that end more than the gap before the point of rebuild, and
nothing before that point has changed, the kept and the new sessions together
are the partition of all events. It is proved without recursion: a session is
characterised by its start, that is a time with no event in the gap before it.
Around it, the invariant says that behind a watermark nothing is missing, and
that the row's watermark only moves down while a rebuild runs.

TLC has checked each inductive invariant on the instances above before it was
proved.

**Model-checked only.** All liveness (`QueuedIsSettled`, `QueueDrains`,
`LiveLineStored`, `ArchiveRecovered`, `RollupsSettle`), the outbox's
invariants, `AtMostOnce`, `CleanShutdownKeepsHandled`, `MirrorOfCommitted`,
`AppendOnly`, `BurstsWhole`. Liveness under fairness is outside what the prover
handles; the others are left for later.

## 6. Abstractions

* *AuditChain*: payloads are opaque; the read side is left out, it changes nothing.
* *SyncOutbox*: a row is its id with fixed attributes (lane, refused by the
  server, failing validation). Backoff delays are left out: a lane may try again
  at any time. The preference pull and the tag report touch no outbox state.
  The shared HTTP connection pool is not modelled.
* *TailCursor*: lines are equally long and differ in content; a line stands for a
  recognised record; one burst rule whose anchor and members are the same
  pattern. A change of the configured path, reingest and reparse are left out.
* *StatRollup*: one handle, since every statement is keyed by it. An event is
  its timestamp (0: none), a session the set of its timestamps, the contract
  runs the history they were folded from. `character_records` and
  `entity_rollup_agg` are written in the same transactions. Time passing ages
  everything stored so far. The history variables `sOff`, `cOff` and `tainted`
  record the situations the freshness claims leave out: a sweep that found a
  watermark or ended early, and an account deleted with sessions left or during
  a rebuild. `rollup_purge` shows the first of these.

## 7. What is not modelled, and the plan

The four modules cover about 3,400 lines of a Rust code base of some 165,000
(tests included). Most of the rest is read-side queries, HTTP plumbing, text
parsing, reference data and single-statement stores, where there is no protocol
to check. The parts that do have one, in the order planned:

1. `ConfigStore`: tasks that load `config.toml`, await the server and save the
   whole file (`client/commands.rs`, `client/main.rs`, `client/cloud_sync.rs`).
2. `FriendSync`: friendships in Postgres, tuples in SpiceDB, best-effort writes,
   the reconcile loop; an abstract specification "the tuples follow the
   friendships" to refine. Chat rooms and handle renames build on it.
3. `DonationWebhook`: delivery recorded before it is applied.
4. `EventCounts`: counts bumped by ingest, recomputed by retention and by the
   nightly reconcile; composes with `StatRollup`'s sweep.
5. `PresenceHub`, `LfgBoard`, `Waitlist`, `DevicePairing`.
6. Pure algorithms against a reference: `classify_batch_sequence`,
   `chunk_by_bytes`, `ExitWatch::observe`, the contract fold.
7. An abstract outbox (a row is pending, then handled once) implemented by
   `SyncOutbox`; proofs of `AckedIsHandled` and `NoFalseGap`; a composition of
   tail and outbox.
8. Proofs of the remaining audit-log invariants and of the refinements.
