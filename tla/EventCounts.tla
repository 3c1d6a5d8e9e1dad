---------------------------- MODULE EventCounts ----------------------------
(***************************************************************************)
(* One row of stat_event_counts, the count of one handle's events of one   *)
(* type, and everything that writes it: the ingest statement (repo.rs),    *)
(* the retention purge (retention.rs), the erasure of an account           *)
(* (users.rs) and the nightly reconcile (stat_reconcile.rs).               *)
(*                                                                         *)
(* Every statement reads the events committed before it began and locks    *)
(* the row it writes until its transaction ends (READ COMMITTED).  Events  *)
(* are counted, not told apart; a row that does not exist is NoRow.        *)
(***************************************************************************)
EXTENDS Integers

CONSTANTS Ingests, MaxEvents, MaxErasures, MaxPurges, MaxCountFaults

NoRow == -1
Unheld == "none"
Reconcile == "reconcile"
Retention == "retention"
Erasure == "erasure"
Idle == [at |-> "idle", n |-> 0]

VARIABLES stored,     \* committed events of the handle and type
          row,        \* the committed count, NoRow
          lock,       \* whose transaction has the row locked
          tx,         \* writer -> what its transaction does next, and what it read
          sent, erasures, purges, countFaults,
          overlapped, \* history: another writer's work overlapped the reconcile
          drift       \* history: the row is off, for a reason the code leaves to the reconcile

countVars == <<stored, row, lock, tx, sent, erasures, purges, countFaults, overlapped, drift>>

Writers == Ingests \cup {Reconcile, Retention, Erasure}
CountInit ==
    /\ stored = 0 /\ row = NoRow /\ lock = Unheld /\ tx = [w \in Writers |-> Idle]
    /\ sent = 0 /\ erasures = 0 /\ purges = 0 /\ countFaults = 0
    /\ overlapped = FALSE /\ drift = FALSE

Counted(n) == IF n = 0 THEN NoRow ELSE n
Go(w, at, n) == tx' = [tx EXCEPT ![w] = [at |-> at, n |-> n]]
Stop(w) == tx' = [tx EXCEPT ![w] = Idle]
\* A writer takes the row's lock, or has it already.
Locks(w) == lock \in {Unheld, w} /\ lock' = w
Unlocks(w) == lock' = IF lock = w THEN Unheld ELSE lock
CountFault == countFaults < MaxCountFaults /\ countFaults' = countFaults + 1

-----------------------------------------------------------------------------
(* insert_batch: events, count and dirty flag in one statement.            *)

\* Mutant: the batch is counted, the rows the index refused included.
SentRows(duplicate) == 1
InsertedRows(duplicate) == IF duplicate THEN 0 ELSE 1

Roll(i, duplicate) ==
    /\ tx[i] = Idle /\ sent < MaxEvents /\ sent' = sent + 1
    /\ duplicate => stored > 0
    /\ IF InsertedRows(duplicate) = 0 THEN UNCHANGED <<lock, tx>>
       ELSE Locks(i) /\ Go(i, "commit", IF duplicate THEN 0 ELSE 1)
    /\ UNCHANGED <<stored, row, erasures, purges, countFaults, overlapped, drift>>

CommitIngest(i) ==
    /\ tx[i].at = "commit" /\ Stop(i) /\ Unlocks(i)
    /\ stored' = stored + tx[i].n /\ row' = IF row = NoRow THEN 1 ELSE row + 1
    /\ overlapped' = TRUE
    /\ drift' = (drift \/ tx[Erasure].at \in {"row", "commit"})
    /\ UNCHANGED <<sent, erasures, purges, countFaults>>

-----------------------------------------------------------------------------
(* purge_user_events: batches of deletes, each its own transaction, then   *)
(* the row deleted and rebuilt in one.                                     *)

PurgeBatch ==
    /\ tx[Retention].at \in {"idle", "batch"} /\ tx[Erasure] = Idle
    /\ tx[Retention] = Idle => purges < MaxPurges
    /\ purges' = purges + (IF tx[Retention] = Idle THEN 1 ELSE 0)
    /\ \E k \in 1 .. stored : stored' = stored - k
    /\ Go(Retention, "batch", 0) /\ overlapped' = TRUE
    /\ UNCHANGED <<row, lock, sent, erasures, countFaults, drift>>

\* A row that is not there is not waited for.
DeleteRow ==
    /\ tx[Retention].at = "batch" /\ tx[Erasure] = Idle
    /\ IF row = NoRow THEN UNCHANGED lock ELSE Locks(Retention)
    /\ Go(Retention, "count", 0)
    /\ UNCHANGED <<stored, row, sent, erasures, purges, countFaults, overlapped, drift>>

CountSurvivors ==
    /\ tx[Retention].at = "count" /\ Go(Retention, "insert", stored)
    /\ UNCHANGED <<stored, row, lock, sent, erasures, purges, countFaults, overlapped, drift>>

\* The insert fails on a row another transaction has committed meanwhile, and
\* with it the rebuild.
CommitRebuild ==
    /\ tx[Retention].at = "insert" /\ Stop(Retention)
    /\ IF lock = Retention
       THEN row' = Counted(tx[Retention].n) /\ Unlocks(Retention) /\ drift' = FALSE
       ELSE /\ tx[Retention].n > 0 => lock = Unheld
            /\ UNCHANGED lock
            /\ row' = IF row = NoRow THEN Counted(tx[Retention].n) ELSE row
            /\ drift' = (drift \/ row # NoRow)
    /\ overlapped' = TRUE
    /\ UNCHANGED <<stored, sent, erasures, purges, countFaults>>

RetentionFails ==
    /\ tx[Retention] # Idle /\ CountFault /\ Stop(Retention) /\ Unlocks(Retention)
    /\ drift' = TRUE
    /\ UNCHANGED <<stored, row, sent, erasures, purges, overlapped>>

-----------------------------------------------------------------------------
(* Erasing an account: purge_user deletes events and row; delete_user      *)
(* renames the events and leaves the row.                                  *)

EraseEvents ==
    /\ tx[Erasure] = Idle /\ tx[Retention] = Idle
    /\ erasures < MaxErasures /\ erasures' = erasures + 1
    /\ \E at \in {"row", "leave"} : Go(Erasure, at, stored)
    /\ overlapped' = TRUE
    /\ UNCHANGED <<stored, row, lock, sent, purges, countFaults, drift>>

EraseRow ==
    /\ tx[Erasure].at = "row" /\ Go(Erasure, "commit", tx[Erasure].n)
    /\ IF row = NoRow THEN UNCHANGED lock ELSE Locks(Erasure)
    /\ UNCHANGED <<stored, row, sent, erasures, purges, countFaults, overlapped, drift>>

CommitErasure ==
    /\ tx[Erasure].at \in {"commit", "leave"} /\ Stop(Erasure) /\ Unlocks(Erasure)
    /\ stored' = stored - tx[Erasure].n
    /\ row' = IF lock = Erasure THEN NoRow ELSE row
    /\ drift' = (drift \/ (tx[Erasure].at = "leave" /\ tx[Erasure].n > 0))
    /\ overlapped' = TRUE
    /\ UNCHANGED <<sent, erasures, purges, countFaults>>

-----------------------------------------------------------------------------
(* run_reconcile                                                           *)

ReadTruth ==
    /\ tx[Reconcile] = Idle /\ Go(Reconcile, IF stored = 0 THEN "orphans" ELSE "upsert", stored)
    /\ overlapped' = (tx[Erasure] # Idle)
    /\ UNCHANGED <<stored, row, lock, sent, erasures, purges, countFaults, drift>>

Upsert ==
    /\ tx[Reconcile].at = "upsert" /\ Locks(Reconcile)
    /\ Go(Reconcile, "orphans", tx[Reconcile].n)
    /\ UNCHANGED <<stored, row, sent, erasures, purges, countFaults, overlapped, drift>>

\* Rows with no event behind them, as of the second statement.
Orphaned == stored = 0 /\ (row # NoRow \/ lock = Reconcile)
FindOrphan ==
    /\ tx[Reconcile].at = "orphans"
    /\ Go(Reconcile, IF Orphaned THEN "delete" ELSE "commit", tx[Reconcile].n)
    /\ UNCHANGED <<stored, row, lock, sent, erasures, purges, countFaults, overlapped, drift>>

DeleteOrphan ==
    /\ tx[Reconcile].at = "delete" /\ Locks(Reconcile) /\ Go(Reconcile, "commit", 0)
    /\ UNCHANGED <<stored, row, sent, erasures, purges, countFaults, overlapped, drift>>

CommitReconcile ==
    /\ tx[Reconcile].at = "commit" /\ Stop(Reconcile) /\ Unlocks(Reconcile)
    /\ row' = IF lock = Reconcile THEN Counted(tx[Reconcile].n) ELSE row
    /\ drift' = overlapped
    /\ UNCHANGED <<stored, sent, erasures, purges, countFaults, overlapped>>

ReconcileFails ==
    /\ tx[Reconcile] # Idle /\ CountFault /\ Stop(Reconcile) /\ Unlocks(Reconcile)
    /\ UNCHANGED <<stored, row, sent, erasures, purges, overlapped, drift>>

-----------------------------------------------------------------------------
ReconcileStep == ReadTruth \/ Upsert \/ FindOrphan \/ DeleteOrphan \/ CommitReconcile
CommitStep ==
    (\E i \in Ingests : CommitIngest(i)) \/ DeleteRow \/ CountSurvivors \/ CommitRebuild
       \/ EraseRow \/ CommitErasure

CountNext ==
    \/ \E i \in Ingests : CommitIngest(i) \/ \E d \in BOOLEAN : Roll(i, d)
    \/ PurgeBatch \/ DeleteRow \/ CountSurvivors \/ CommitRebuild \/ RetentionFails
    \/ EraseEvents \/ EraseRow \/ CommitErasure
    \/ ReadTruth \/ Upsert \/ FindOrphan \/ DeleteOrphan \/ CommitReconcile \/ ReconcileFails

CountSpec == CountInit /\ [][CountNext]_countVars

-----------------------------------------------------------------------------
(* Properties.                                                             *)

\* Type invariant.
CountTypeOK ==
    /\ stored \in 0 .. MaxEvents /\ row \in {NoRow} \cup 0 .. 2 * MaxEvents
    /\ lock \in Writers \cup {Unheld}
    /\ tx \in [Writers -> [at : {"idle", "commit", "batch", "count", "insert", "row", "leave",
                                 "upsert", "orphans", "delete"}, n : 0 .. MaxEvents]]

\* While no writer is at work the row is the number of events, through any
\* interleaving of ingests, purges, erasures and reconciles.  Excused are the
\* ways the code itself lets the row drift until the next reconcile: a purge
\* whose rebuild failed, an erasure that keeps the row or that an ingest
\* overlapped, and a reconcile that another commit overlapped.
CountsExact == (\A w \in Writers : tx[w] = Idle) /\ ~drift => row = Counted(stored)

\* The row is the number of events: what the reconcile brings about.
Healed == row = Counted(stored)

\* What the writers of the count keep between them.
CountsSound == CountTypeOK /\ CountsExact
=============================================================================
