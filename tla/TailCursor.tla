----------------------------- MODULE TailCursor -----------------------------
(***************************************************************************)
(* From Game.log to the outbox: the live tail (gamelog.rs), the one-shot   *)
(* backfill of rotated logs (backfill.rs) and the cursors and rows they    *)
(* keep in SQLite (storage.rs).                                            *)
(*                                                                         *)
(* A physical log file is a number; rotation renames it, so it keeps its   *)
(* number, its creation time and its head.  A file is a list of complete   *)
(* lines, of which some match the member pattern of a burst rule, and      *)
(* possibly a line still being written.  Offsets count lines: every line   *)
(* is taken to be equally long.  A stored row is a set of lines of one     *)
(* file: one line for an ordinary event, the members for a BurstSummary.   *)
(***************************************************************************)
EXTENDS Integers, FiniteSets, FiniteSetsExt, Functions

CONSTANTS
    MaxFiles,     \* bound: physical log files
    MaxLines,     \* bound: lines written, in all files together
    SigLines,     \* lines in FILE_SIG_HEAD_BYTES
    BurstMin,     \* BurstRule::min_burst_size
    MaxGap,       \* BurstRule::max_member_gap
    ChunkLines,   \* BACKFILL_CHUNK_LINES
    CarryLines,   \* BURST_CARRY_LINES
    Faults,       \* the faults that may happen
    MaxFaults,    \* bound: faults
    MaxStarts     \* bound: starts of the tray

\* The carried tail of a chunk is long enough to hold a run that is not yet a
\* burst: 256 lines against runs of at most 4 members, one gap each.
ASSUME CarryAssumption ==
    /\ BurstMin \in Nat \ {0, 1} /\ MaxGap \in Nat
    /\ ChunkLines \in Nat \ {0} /\ CarryLines \in Nat
    /\ CarryLines >= (BurstMin - 1) * (MaxGap + 1)

ASSUME BoundAssumption == MaxFiles \in Nat /\ MaxLines \in Nat /\ SigLines \in Nat

VARIABLES
    size,      \* complete lines of each file
    member,    \* the lines of each file that match the burst rule
    part,      \* files that end in a partial line
    made,      \* files created so far
    live,      \* the file at the path of Game.log, 0 if there is none
    kick,      \* a notification waits in the watcher's channel
    tail,      \* the tail task
    fill,      \* the backfill task
    cursor,    \* tail_cursor row of Game.log: offset and file_sig
    filed,     \* tail_cursor rows of the archives: offset by file
    events,    \* rows of the events table
    failed,    \* history: lines whose insert failed
    dropped,   \* history: a read error hit the tail
    unsigned,  \* history: the tail read lines of a file it could not sign
    faults, starts

disk == <<size, member, part, made, live>>
stored == <<cursor, filed, events>>
history == <<failed, dropped, unsigned>>
vars == <<disk, kick, tail, fill, stored, history, faults, starts>>

Files == 1 .. MaxFiles
Lines == 1 .. MaxLines
None == 0

-----------------------------------------------------------------------------
(* Signatures and the resume rule.                                         *)

\* No signature until the head is complete; then it identifies the file.
Sig(f) == IF size[f] >= SigLines THEN f ELSE None

\* Mutant: the length alone decides, as before signatures.
ResumeByLength(off, was, now, len) == IF len < off THEN 0 ELSE off
\* resolve_resume_offset(stored_offset, stored_sig, current_sig, current_len)
Resume(off, was, now, len) ==
    IF was # None /\ now # None /\ was # now THEN 0
    ELSE IF len < off THEN 0 ELSE off

\* A burst: members of f within lo .. hi, no more than MaxGap other lines
\* between two of them, as many as there can be, at least BurstMin.
Chained(f, lo, hi) ==
    \A x \in lo .. hi - MaxGap : \E y \in x .. x + MaxGap : y \in member[f]
Run(f, hi, s) ==
    LET ends == {e \in member[f] \cap (s .. hi) : Chained(f, s, e)}
    IN  member[f] \cap (s .. Max(ends))
Anchors(f, lo, hi) ==
    {s \in member[f] \cap (lo .. hi) :
        \A y \in s - MaxGap - 1 .. s - 1 : ~(y >= lo /\ y \in member[f])}
Bursts(f, lo, hi) ==
    {b \in {Run(f, hi, s) : s \in Anchors(f, lo, hi)} : Cardinality(b) >= BurstMin}

\* Mutant: the cut does not move back to the start of an open burst.
CutFixed(f, lo, hi) ==
    IF hi - lo + 1 <= CarryLines THEN lo ELSE hi + 1 - CarryLines
\* carry_boundary: the first line that is held back for the next chunk.  What
\* is committed are the lines before the carried tail and before every burst
\* that reaches into it.
Cut(f, lo, hi) ==
    IF hi - lo + 1 <= CarryLines THEN lo
    ELSE LET last == hi - CarryLines
             open == {b \in Bursts(f, lo, hi) : Max(b) > last}
         IN  lo + Cardinality({x \in lo .. last : \A b \in open : \A y \in b : x < y})

-----------------------------------------------------------------------------
\* The tail between drains; off and sig are `offset` and `last_sig`.
Resting(off, sig) ==
    [pc |-> "idle", f |-> None, off |-> off, sig |-> sig, bursts |-> {}, todo |-> {}]

\* A backfill with files still to visit; lo is the first line not yet flushed.
Scanning(pc, queue) ==
    [pc |-> pc, queue |-> queue, f |-> None, off |-> 0, lo |-> 1,
     bursts |-> {}, todo |-> {}]

Down == "down"
NoTail(pc) == [Resting(0, None) EXCEPT !.pc = pc]

Init ==
    /\ size = [f \in Files |-> 0]
    /\ member = [f \in Files |-> {}]
    /\ part = {} /\ made = 0 /\ live = 0 /\ kick = FALSE
    /\ tail = NoTail(Down) /\ fill = Scanning(Down, {})
    /\ cursor = [off |-> 0, sig |-> None]
    /\ filed = [f \in Files |-> 0]
    /\ events = {} /\ failed = {} /\ dropped = FALSE /\ unsigned = FALSE
    /\ faults = 0 /\ starts = 0

Running == tail.pc # Down
Tailing == tail.pc \notin {Down, "none"}

Fault(kind) ==
    /\ kind \in Faults /\ faults < MaxFaults
    /\ faults' = faults + 1

-----------------------------------------------------------------------------
(* The game and its launcher.  Every change of the file at the watched     *)
(* path leaves a notification in the channel.                              *)

Notify == kick' = Tailing

\* The game starts with a fresh Game.log.
CreateLog ==
    /\ live = 0 /\ made < MaxFiles
    /\ made' = made + 1 /\ live' = made + 1
    /\ Notify
    /\ UNCHANGED <<size, member, part, tail, fill, stored, history, faults, starts>>

\* The beginning of a line reaches the file.
WritePart ==
    /\ live # 0 /\ live \notin part /\ SumFunction(size) < MaxLines
    /\ part' = part \cup {live}
    /\ Notify
    /\ UNCHANGED <<size, member, made, live, tail, fill, stored, history, faults, starts>>

\* The rest of it does.
WriteLine ==
    /\ live \in part
    /\ part' = part \ {live}
    /\ size' = [size EXCEPT ![live] = @ + 1]
    /\ \E m \in {{}, {size[live] + 1}} : member' = [member EXCEPT ![live] = @ \cup m]
    /\ Notify
    /\ UNCHANGED <<made, live, tail, fill, stored, history, faults, starts>>

\* The launcher moves Game.log to logbackups.
Rotate ==
    /\ live # 0
    /\ live' = 0
    /\ UNCHANGED <<size, member, part, made, kick, tail, fill, stored, history, faults, starts>>

-----------------------------------------------------------------------------
(* Starting and losing the tray.                                           *)

\* start_tail loads the cursor and drains once without a notification.  With
\* no Game.log in place the tray runs without a tail until its next start.
Start ==
    /\ ~Running /\ starts < MaxStarts
    /\ starts' = starts + 1
    /\ tail' = IF live = 0 THEN NoTail("none") ELSE Resting(cursor.off, cursor.sig)
    /\ fill' = Scanning("start", {})
    /\ kick' = (live # 0)
    /\ UNCHANGED <<disk, stored, history, faults>>

\* The process ends, wherever its two tasks are.
Stop ==
    /\ Running
    /\ tail' = NoTail(Down) /\ fill' = Scanning(Down, {}) /\ kick' = FALSE
    /\ UNCHANGED <<disk, stored, history, faults, starts>>

-----------------------------------------------------------------------------
(* process_buffer, for both readers: the summaries first, then every line  *)
(* no stored summary stands for.                                           *)

Row(f, s, src) == [f |-> f, lines |-> s, src |-> src]

\* Mutant: only the idempotency key is unique.
InsertByKey(row) == events' = events \cup {row}
\* The two guards of insert_event: the key names a position in a file as one
\* reader sees it, the content is the same whoever reads it.
Insert(row) ==
    events' = IF \E r \in events : r.f = row.f /\ r.lines = row.lines
              THEN events ELSE events \cup {row}

First(sets) == CHOOSE s \in sets : \A t \in sets : Min(s) <= Min(t)

\* The summary is in the table: its members are collapsed.
Collapse(t, b) == [t EXCEPT !.bursts = @ \ {b}, !.todo = @ \ b]
\* It could not be written: its members go in line by line.
KeepMembers(t, b) == [t EXCEPT !.bursts = @ \ {b}]

Flushed(t) == t.bursts = {} /\ t.todo = {}

InsertSummary(t, src) ==
    /\ t.bursts # {}
    /\ Insert(Row(t.f, First(t.bursts), src))
    /\ UNCHANGED <<failed, faults>>

InsertLine(t, src) ==
    /\ t.bursts = {} /\ t.todo # {}
    /\ Insert(Row(t.f, {Min(t.todo)}, src))
    /\ UNCHANGED <<failed, faults>>

SummaryFails(t) ==
    /\ t.bursts # {}
    /\ Fault("insert")
    /\ UNCHANGED <<events, failed>>

LineFails(t) ==
    /\ t.bursts = {} /\ t.todo # {}
    /\ Fault("insert")
    /\ failed' = failed \cup {<<t.f, Min(t.todo)>>}
    /\ UNCHANGED events

NextLine(t) == [t EXCEPT !.todo = @ \ {Min(t.todo)}]

-----------------------------------------------------------------------------
(* The live tail: drain.                                                   *)

\* Take every waiting notification, open the file, find where to resume.
DrainOpen ==
    /\ tail.pc = "idle" /\ kick
    /\ kick' = FALSE
    /\ tail' =
        IF live = 0 THEN tail
        ELSE LET off == Resume(tail.off, tail.sig, Sig(live), size[live])
             IN  IF size[live] = off /\ live \notin part THEN Resting(off, Sig(live))
                 ELSE [Resting(off, Sig(live)) EXCEPT !.pc = "read", !.f = live]
    /\ UNCHANGED <<disk, fill, stored, history, faults, starts>>

\* Buffer the complete lines, advancing the offset in memory.
DrainRead ==
    /\ tail.pc = "read"
    /\ tail' = [tail EXCEPT !.pc = "process", !.off = size[tail.f],
                            !.bursts = Bursts(tail.f, tail.off + 1, size[tail.f]),
                            !.todo = tail.off + 1 .. size[tail.f]]
    /\ unsigned' = (unsigned \/ (tail.sig = None /\ size[tail.f] > 0))
    /\ UNCHANGED <<disk, kick, fill, stored, failed, dropped, faults, starts>>

\* A read fails after some lines: the buffer is dropped, the offset is kept.
DrainReadFails ==
    /\ tail.pc = "read"
    /\ Fault("read")
    /\ \E off \in tail.off .. size[tail.f] : tail' = Resting(off, tail.sig)
    /\ dropped' = TRUE
    /\ UNCHANGED <<disk, kick, fill, stored, failed, unsigned, starts>>

DrainProcess ==
    /\ tail.pc = "process"
    /\ \/ InsertSummary(tail, "tail") /\ tail' = Collapse(tail, First(tail.bursts))
       \/ InsertLine(tail, "tail") /\ tail' = NextLine(tail)
       \/ SummaryFails(tail) /\ tail' = KeepMembers(tail, First(tail.bursts))
       \/ LineFails(tail) /\ tail' = NextLine(tail)
    /\ UNCHANGED <<disk, kick, fill, cursor, filed, dropped, unsigned, starts>>

\* Mutant: the channel is emptied after the drain, not before it.
DrainCommitCoalesces ==
    /\ tail.pc = "process" /\ Flushed(tail)
    /\ cursor' = [off |-> tail.off, sig |-> tail.sig]
    /\ tail' = Resting(tail.off, tail.sig)
    /\ kick' = FALSE
    /\ UNCHANGED <<disk, fill, filed, events, history, faults, starts>>
\* The cursor of Game.log moves once everything is processed.
DrainCommit ==
    /\ tail.pc = "process" /\ Flushed(tail)
    /\ cursor' = [off |-> tail.off, sig |-> tail.sig]
    /\ tail' = Resting(tail.off, tail.sig)
    /\ UNCHANGED <<disk, kick, fill, filed, events, history, faults, starts>>

DrainCommitFails ==
    /\ tail.pc = "process" /\ Flushed(tail)
    /\ Fault("cursor")
    /\ tail' = Resting(tail.off, tail.sig)
    /\ UNCHANGED <<disk, kick, fill, stored, history, starts>>

-----------------------------------------------------------------------------
(* Backfill of the archives, once per start of the tray.                   *)

\* Mutant: the live log is scanned as well.
DiscoverAll ==
    /\ fill.pc = "start"
    /\ fill' = Scanning("scan", 1 .. made)
    /\ UNCHANGED <<disk, kick, tail, stored, history, faults, starts>>
\* The archives in place when the scan begins.
Discover ==
    /\ fill.pc = "start"
    /\ fill' = Scanning("scan", {f \in 1 .. made : f # live})
    /\ UNCHANGED <<disk, kick, tail, stored, history, faults, starts>>

\* Mutant: archives the tail has a cursor for count as done.
BackfillOpenTrustsTail(f) ==
    /\ fill.pc = "scan" /\ f \in fill.queue
    /\ LET rest == Scanning("scan", fill.queue \ {f})
       IN  fill' = IF cursor.sig = f THEN rest
                   ELSE [rest EXCEPT !.pc = "read", !.f = f,
                                     !.off = filed[f], !.lo = filed[f] + 1]
    /\ UNCHANGED <<disk, kick, tail, stored, history, faults, starts>>
\* Skip a file whose cursor is at its end, else start reading at the cursor.
BackfillOpen(f) ==
    /\ fill.pc = "scan" /\ f \in fill.queue
    /\ LET rest == Scanning("scan", fill.queue \ {f})
       IN  fill' = IF filed[f] >= size[f] /\ f \notin part THEN rest
                   ELSE [rest EXCEPT !.pc = "read", !.f = f,
                                     !.off = filed[f], !.lo = filed[f] + 1]
    /\ UNCHANGED <<disk, kick, tail, stored, history, faults, starts>>

\* What is flushed: from the carried lines up to `last`.
Flush(t, pc, off, last) ==
    [t EXCEPT !.pc = pc, !.off = off, !.lo = last + 1,
              !.bursts = Bursts(t.f, t.lo, last), !.todo = t.lo .. last]

\* Mutant: the last flush forgets the carried lines.
BackfillReadNoCarry ==
    /\ fill.pc = "read" /\ Flushed(fill)
    /\ LET hi == fill.off + ChunkLines
       IN  fill' = IF hi <= size[fill.f]
                   THEN Flush(fill, "read", hi, Cut(fill.f, fill.lo, hi) - 1)
                   ELSE Flush([fill EXCEPT !.lo = fill.off + 1], "last", size[fill.f],
                              size[fill.f])
    /\ UNCHANGED <<disk, kick, tail, stored, history, faults, starts>>
\* The next chunk.  A full one keeps its tail for the one after it.
BackfillRead ==
    /\ fill.pc = "read" /\ Flushed(fill)
    /\ LET hi == fill.off + ChunkLines
       IN  fill' = IF hi <= size[fill.f]
                   THEN Flush(fill, "read", hi, Cut(fill.f, fill.lo, hi) - 1)
                   ELSE Flush(fill, "last", size[fill.f], size[fill.f])
    /\ UNCHANGED <<disk, kick, tail, stored, history, faults, starts>>

\* A read error gives the file up until the next start.
BackfillReadFails ==
    /\ fill.pc = "read" /\ Flushed(fill)
    /\ Fault("archive")
    /\ fill' = Scanning("scan", fill.queue)
    /\ UNCHANGED <<disk, kick, tail, stored, history, starts>>

BackfillProcess ==
    /\ fill.pc \in {"read", "last"}
    /\ \/ InsertSummary(fill, "fill") /\ fill' = Collapse(fill, First(fill.bursts))
       \/ InsertLine(fill, "fill") /\ fill' = NextLine(fill)
       \/ SummaryFails(fill) /\ fill' = KeepMembers(fill, First(fill.bursts))
       \/ LineFails(fill) /\ fill' = NextLine(fill)
    /\ UNCHANGED <<disk, kick, tail, cursor, filed, dropped, unsigned, starts>>

\* Only now does the archive's cursor move.
BackfillCommit ==
    /\ fill.pc = "last" /\ Flushed(fill)
    /\ filed' = [filed EXCEPT ![fill.f] = fill.off]
    /\ fill' = Scanning("scan", fill.queue)
    /\ UNCHANGED <<disk, kick, tail, cursor, events, history, faults, starts>>

BackfillCommitFails ==
    /\ fill.pc = "last" /\ Flushed(fill)
    /\ Fault("cursor")
    /\ fill' = Scanning("scan", fill.queue)
    /\ UNCHANGED <<disk, kick, tail, stored, history, starts>>

-----------------------------------------------------------------------------
Game == CreateLog \/ WritePart \/ WriteLine \/ Rotate
Drain == DrainOpen \/ DrainRead \/ DrainProcess \/ DrainCommit
Backfill ==
    \/ Discover
    \/ \E f \in Files : BackfillOpen(f)
    \/ BackfillRead \/ BackfillProcess \/ BackfillCommit
Failure == DrainReadFails \/ DrainCommitFails \/ BackfillReadFails \/ BackfillCommitFails

Next == Game \/ Start \/ Stop \/ Drain \/ Backfill \/ Failure
Spec == Init /\ [][Next]_vars

\* The two tasks run while the tray does; the game, the launcher, faults and
\* starts owe nothing.
FairSpec == Spec /\ WF_vars(Drain) /\ WF_vars(Backfill)

-----------------------------------------------------------------------------
\* A task holds lines of the file it has open, and offsets within it.
TaskOK(t) ==
    /\ t.f \in 0 .. MaxFiles /\ t.off \in Nat /\ t.bursts \subseteq SUBSET t.todo
    /\ t.f = None => t.todo = {}
    /\ t.f # None => t.off <= size[t.f] /\ t.todo \subseteq 1 .. size[t.f]

\* The types, and what ties the tasks to the files: offsets stay within the
\* open file, what is left to insert are lines of it, the members of a burst
\* are inserted only with it, and the backfill never has Game.log open.
TypeOK ==
    /\ TaskOK(tail) /\ tail.sig \in 0 .. MaxFiles
    /\ tail.pc \in {Down, "none", "idle", "read", "process"}
    /\ TaskOK(fill) /\ fill.pc \in {Down, "start", "scan", "read", "last"}
    /\ fill.f # None => fill.lo \in 1 .. fill.off + 1 /\ fill.f \in Files \ {live}
    /\ live \in 0 .. made /\ part \subseteq 1 .. made /\ made <= MaxFiles
    /\ \A f \in Files :
        size[f] \in Nat /\ member[f] \subseteq 1 .. size[f] /\ filed[f] \in 0 .. size[f]

Held(f, i) == \E r \in events : r.f = f /\ i \in r.lines

\* A line, or the same burst of lines, is one row however often it is read:
\* by the tail, after a crash, and again from the archive (insert_event).
StoredOnce ==
    \A r, q \in events : r.f = q.f /\ r.lines = q.lines => r = q

\* What the saved cursor of Game.log has passed is in the table, one way or
\* the other, unless its insert failed.  The claim leaves out a tray that has
\* met a read error in mid-file or has read a file too short to sign.
TailCursorCovers ==
    \A f \in Files : cursor.sig = f /\ ~dropped /\ ~unsigned =>
        \A i \in 1 .. cursor.off : Held(f, i) \/ <<f, i>> \in failed

\* What an archive's cursor has passed is in the table, whatever the tail made
\* of that file before: nothing is excepted but a failed insert.
BackfillCovers ==
    \A f \in Files : \A i \in 1 .. filed[f] : Held(f, i) \/ <<f, i>> \in failed

\* Chunking does not split bursts: a summary from the backfill is a burst of
\* the whole file (backfill.rs, "keep a burst that straddles a chunk boundary
\* from splitting into two bogus partial summaries").
BurstsWhole ==
    \A r \in events : r.src = "fill" /\ Cardinality(r.lines) > 1 =>
        r.lines \in Bursts(r.f, 1, size[r.f])

\* A complete line of Game.log reaches the table while the tail runs, with no
\* further write to the file needed to wake the tail.
LiveLineStored ==
    \A f \in Files, i \in Lines :
        (Tailing /\ live = f /\ i <= size[f]) ~>
            \/ Held(f, i) \/ <<f, i>> \in failed
            \/ ~Tailing \/ live # f \/ dropped \/ unsigned

\* Every complete line of an archive reaches the table after the next start of
\* the tray if the archive can be read, also a line that the tail has skipped.
ArchiveRecovered ==
    \A f \in Files, i \in Lines :
        (fill.pc = "start" /\ f <= made /\ f # live /\ i <= size[f]) ~>
            Held(f, i) \/ <<f, i>> \in failed \/ ~Running
=============================================================================
