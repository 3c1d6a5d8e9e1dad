-------------------------- MODULE TailCursorProofs --------------------------
(***************************************************************************)
(* Proofs about TailCursor, for every number of files and lines, every     *)
(* chunk and carry size, every length of the signed head and every number  *)
(* of faults and restarts: rows are stored once, neither kind of cursor    *)
(* passes a line that is not in the table, reading an archive in chunks    *)
(* splits no burst, and neither reader leaves the file it has open.        *)
(*                                                                         *)
(* The two cursor properties are not inductive.  An archive's cursor is    *)
(* moved from what the backfill task holds in memory, so FillInv says that *)
(* every line up to the flushed one is stored or still on the task's list. *)
(* The cursor of Game.log moves with the tail's offset, which belongs to   *)
(* whatever file the tail's signature names: SigInv ties the two together, *)
(* and rules out that an offset survives into an unsigned file.            *)
(*                                                                         *)
(* BurstsWhole needs an argument about one file first.  A boundary between *)
(* two lines is clean if no run of members over it is long enough for a    *)
(* burst.  Between two clean boundaries the bursts are those of the file   *)
(* (BurstsBetween), and the cut of a clean chunk is clean (CutClean): a    *)
(* run that leaves the chunk passes through all of the carried tail, which *)
(* is long enough to make a burst of it, so the cut lies before it.        *)
(* ReadInv carries this from chunk to chunk; PlaceInv says that what the   *)
(* backfill reads does not change and that it starts at a clean boundary.  *)
(***************************************************************************)
EXTENDS TailCursor, TLAPS

\* Zenon proves a leaf unless the leaf cites SMT, which the arithmetic needs.
USE Zenon

Covered(f, i) == Held(f, i) \/ <<f, i>> \in failed

\* The shape of the variables the proofs compute with.
DiskShape ==
    /\ size \in [Files -> Nat] /\ member \in [Files -> SUBSET Nat]
    /\ made \in 0 .. MaxFiles /\ live \in 0 .. MaxFiles /\ part \subseteq Files
StoreShape ==
    filed \in [Files -> Nat] /\ cursor \in [off : Nat, sig : 0 .. MaxFiles]
TailType ==
    [pc : {Down, "none", "idle", "read", "process"}, f : 0 .. MaxFiles, off : Nat,
     sig : 0 .. MaxFiles, bursts : SUBSET (SUBSET Nat), todo : SUBSET Nat]
TailShape ==
    tail \in TailType /\ (tail.pc \in {"read", "process"} => tail.f \in Files)
FillType ==
    [pc : {Down, "start", "scan", "read", "last"}, queue : SUBSET Files,
     f : 0 .. MaxFiles, off : Nat, lo : Nat \ {0}, bursts : SUBSET (SUBSET Nat),
     todo : SUBSET Nat]
FillShape ==
    fill \in FillType /\ (fill.pc \in {"read", "last"} => fill.f \in Files)
Shape == DiskShape /\ StoreShape /\ TailShape /\ FillShape

\* What the backfill has flushed is stored, or on its list.
FillInv ==
    /\ fill.pc \in {"read", "last"} =>
         \A i \in 1 .. fill.lo - 1 : i \in fill.todo \/ Covered(fill.f, i)
    /\ fill.pc = "last" => fill.lo = fill.off + 1

\* A signature names a file that has its head; an offset kept without one is 0;
\* only a drain that has read its lines has some on its list.
SigInv ==
    /\ tail.pc # "process" => tail.todo = {}
    /\ tail.sig # None => size[tail.sig] >= SigLines
    /\ tail.pc \in {"read", "process"} /\ tail.sig # None => tail.f = tail.sig
    /\ cursor.sig # None => size[cursor.sig] >= SigLines
    /\ ~dropped =>
        /\ tail.sig # None /\ tail.pc # "read" => tail.off >= SigLines
        /\ cursor.sig # None => cursor.off >= SigLines
        /\ ~unsigned /\ tail.sig = None => tail.off = 0
        /\ ~unsigned /\ cursor.sig = None => cursor.off = 0

\* What the tail has read of the file it signed is stored, or on its list.
TailInv ==
    tail.sig # None /\ ~dropped /\ ~unsigned =>
        \A i \in 1 .. tail.off : i \in tail.todo \/ Covered(tail.sig, i)

-----------------------------------------------------------------------------
USE CarryAssumption, BoundAssumption DEF Files, Lines, None, disk, stored, history

\* What the steps below need of a cut; proved with the theorems, where those about
\* finite sets come in.
CutCounts ==
    \A f : \A lo, hi \in Nat : Cut(f, lo, hi) \in Nat /\ Cut(f, lo, hi) >= lo

-----------------------------------------------------------------------------
(* Rows are stored once.                                                   *)

LEMMA InsertOnce ==
  ASSUME StoredOnce, NEW row, Insert(row)
  PROVE  StoredOnce'
BY DEF StoredOnce, Insert

LEMMA EventsSame ==
  ASSUME StoredOnce, UNCHANGED events
  PROVE  StoredOnce'
BY DEF StoredOnce

\* THEOREM: whatever the two readers, the crashes and the rotations do, no line
\* and no burst has two rows (the guards of insert_event).
THEOREM RowsStoredOnce == Spec => []StoredOnce
<1>1. Init => StoredOnce
  BY DEF Init, StoredOnce
<1>2. ASSUME StoredOnce, [Next]_vars PROVE StoredOnce'
  <2>1. CASE DrainProcess
    BY <1>2, <2>1, InsertOnce, EventsSame
       DEF DrainProcess, InsertSummary, InsertLine, SummaryFails, LineFails
  <2>2. CASE BackfillProcess
    BY <1>2, <2>2, InsertOnce, EventsSame
       DEF BackfillProcess, InsertSummary, InsertLine, SummaryFails, LineFails
  <2>3. CASE Game \/ Start \/ Stop
    BY <1>2, <2>3, EventsSame
       DEF Game, CreateLog, WritePart, WriteLine, Rotate, Start, Stop
  <2>4. CASE DrainOpen \/ DrainRead \/ DrainCommit
    BY <1>2, <2>4, EventsSame DEF DrainOpen, DrainRead, DrainCommit
  <2>5. CASE Discover \/ (\E f \in Files : BackfillOpen(f)) \/ BackfillRead \/ BackfillCommit
    BY <1>2, <2>5, EventsSame DEF Discover, BackfillOpen, BackfillRead, BackfillCommit
  <2>6. CASE Failure
    BY <1>2, <2>6, EventsSame
       DEF Failure, DrainReadFails, DrainCommitFails, BackfillReadFails, BackfillCommitFails
  <2>7. CASE UNCHANGED vars
    BY <1>2, <2>7, EventsSame DEF vars
  <2> QED
    BY <1>2, <2>1, <2>2, <2>3, <2>4, <2>5, <2>6, <2>7 DEF Next, Drain, Backfill
<1> QED
  BY <1>1, <1>2, PTL DEF Spec

-----------------------------------------------------------------------------
(* Shapes, and what only grows.                                            *)

LEMMA InsertGrows ==
  ASSUME NEW row, Insert(row)
  PROVE  /\ events \subseteq events'
         /\ \E r \in events' : r.f = row.f /\ r.lines = row.lines
BY DEF Insert

LEMMA StepGrows ==
  ASSUME [Next]_vars
  PROVE  events \subseteq events' /\ failed \subseteq failed'
<1>1. CASE DrainProcess
  BY <1>1, InsertGrows
     DEF DrainProcess, InsertSummary, InsertLine, SummaryFails, LineFails
<1>2. CASE BackfillProcess
  BY <1>2, InsertGrows
     DEF BackfillProcess, InsertSummary, InsertLine, SummaryFails, LineFails
<1>3. CASE Game \/ Start \/ Stop
  BY <1>3 DEF Game, CreateLog, WritePart, WriteLine, Rotate, Start, Stop
<1>4. CASE DrainOpen \/ DrainRead \/ DrainCommit
  BY <1>4 DEF DrainOpen, DrainRead, DrainCommit
<1>5. CASE Discover \/ (\E f \in Files : BackfillOpen(f)) \/ BackfillRead \/ BackfillCommit
  BY <1>5 DEF Discover, BackfillOpen, BackfillRead, BackfillCommit
<1>6. CASE Failure
  BY <1>6 DEF Failure, DrainReadFails, DrainCommitFails, BackfillReadFails,
              BackfillCommitFails
<1>7. CASE UNCHANGED vars
  BY <1>7 DEF vars
<1> QED
  BY <1>1, <1>2, <1>3, <1>4, <1>5, <1>6, <1>7 DEF Next, Drain, Backfill

LEMMA CoveredStays ==
  ASSUME [Next]_vars, NEW f, NEW i, Covered(f, i)
  PROVE  Covered(f, i)'
BY StepGrows DEF Covered, Held

LEMMA SummaryCovers ==
  ASSUME NEW t, NEW src, InsertSummary(t, src)
  PROVE  \A i \in First(t.bursts) : \E r \in events' : r.f = t.f /\ i \in r.lines
BY InsertGrows, SMT DEF InsertSummary, Row

LEMMA LineCovers ==
  ASSUME NEW t, NEW src, InsertLine(t, src)
  PROVE  \E r \in events' : r.f = t.f /\ Min(t.todo) \in r.lines
BY InsertGrows, SMT DEF InsertLine, Row

LEMMA BurstsType ==
  ASSUME NEW f, member[f] \subseteq Nat, NEW lo, NEW hi
  PROVE  Bursts(f, lo, hi) \in SUBSET (SUBSET Nat)
BY DEF Bursts, Run

LEMMA RestingType ==
  ASSUME NEW off \in Nat, NEW sig \in 0 .. MaxFiles
  PROVE  Resting(off, sig) \in TailType
BY SMT DEF TailType, Resting

LEMMA NoTailType == NoTail(Down) \in TailType /\ NoTail("none") \in TailType
<1>1. Resting(0, None) \in TailType
  BY RestingType, SMT
<1> QED
  BY <1>1 DEF TailType, NoTail

LEMMA ScanningType ==
  ASSUME NEW pc \in {Down, "start", "scan"}, NEW queue \in SUBSET Files
  PROVE  Scanning(pc, queue) \in FillType
BY SMT DEF FillType, Scanning

LEMMA FlushType ==
  ASSUME NEW t \in FillType, member[t.f] \subseteq Nat, NEW pc \in {"read", "last"},
         NEW off \in Nat, NEW last \in Nat
  PROVE  Flush(t, pc, off, last) \in FillType
<1>1. Bursts(t.f, t.lo, last) \in SUBSET (SUBSET Nat)
  BY BurstsType
<1>2. t.lo .. last \in SUBSET Nat
  BY SMT DEF FillType
<1>3. last + 1 \in Nat \ {0}
  BY SMT
<1> HIDE DEF Files
<1> QED
  BY <1>1, <1>2, <1>3 DEF FillType, Flush

LEMMA TailShrinks ==
  ASSUME NEW t \in TailType, NEW b,
         NEW u \in {Collapse(t, b), KeepMembers(t, b), NextLine(t)}
  PROVE  /\ u \in TailType /\ u.pc = t.pc /\ u.f = t.f
         /\ u.off = t.off /\ u.sig = t.sig
<1>1. /\ t.bursts \ {b} \in SUBSET (SUBSET Nat) /\ t.todo \ b \in SUBSET Nat
      /\ t.todo \ {Min(t.todo)} \in SUBSET Nat
  BY DEF TailType
<1>2. CASE u = Collapse(t, b)
  BY <1>1, <1>2 DEF TailType, Collapse
<1>3. CASE u = KeepMembers(t, b)
  BY <1>1, <1>3 DEF TailType, KeepMembers
<1>4. CASE u = NextLine(t)
  BY <1>1, <1>4 DEF TailType, NextLine
<1> QED
  BY <1>2, <1>3, <1>4

LEMMA FillShrinks ==
  ASSUME NEW t \in FillType, NEW b,
         NEW u \in {Collapse(t, b), KeepMembers(t, b), NextLine(t)}
  PROVE  /\ u \in FillType /\ u.pc = t.pc /\ u.f = t.f
         /\ u.off = t.off /\ u.lo = t.lo
<1>1. /\ t.bursts \ {b} \in SUBSET (SUBSET Nat) /\ t.todo \ b \in SUBSET Nat
      /\ t.todo \ {Min(t.todo)} \in SUBSET Nat
  BY DEF FillType
<1> HIDE DEF Files
<1>2. CASE u = Collapse(t, b)
  BY <1>1, <1>2 DEF FillType, Collapse
<1>3. CASE u = KeepMembers(t, b)
  BY <1>1, <1>3 DEF FillType, KeepMembers
<1>4. CASE u = NextLine(t)
  BY <1>1, <1>4 DEF FillType, NextLine
<1> QED
  BY <1>2, <1>3, <1>4

LEMMA ShapeInit == Init => Shape
<1> SUFFICES ASSUME Init PROVE Shape
  OBVIOUS
<1>1. DiskShape /\ StoreShape
  BY SMT DEF Init, DiskShape, StoreShape
<1>2. TailShape
  BY NoTailType DEF Init, TailShape, NoTail, Resting, Down
<1>3. FillShape
  BY ScanningType DEF Init, FillShape, Scanning, Down
<1> QED
  BY <1>1, <1>2, <1>3 DEF Shape

LEMMA DiskSame == ASSUME DiskShape, UNCHANGED disk PROVE DiskShape'
BY DEF DiskShape
LEMMA StoreSame == ASSUME StoreShape, UNCHANGED <<cursor, filed>> PROVE StoreShape'
BY DEF StoreShape
LEMMA TailSame == ASSUME TailShape, UNCHANGED tail PROVE TailShape'
BY DEF TailShape
LEMMA FillSame == ASSUME FillShape, UNCHANGED fill PROVE FillShape'
BY DEF FillShape

LEMMA ShapeStep ==
  ASSUME CutCounts, Shape, [Next]_vars
  PROVE  Shape'
<1> USE DEF Shape
<1>1. CASE CreateLog
  <2>1. DiskShape'
    BY <1>1, SMT DEF DiskShape, CreateLog
  <2> QED
    BY <1>1, <2>1, DiskSame, StoreSame, TailSame, FillSame DEF CreateLog
<1>2. CASE WritePart
  <2>1. DiskShape'
    BY <1>2, SMT DEF DiskShape, WritePart
  <2> QED
    BY <1>2, <2>1, DiskSame, StoreSame, TailSame, FillSame DEF WritePart
<1>3. CASE WriteLine
  <2>1. live \in Files /\ size[live] \in Nat /\ member[live] \subseteq Nat
    BY <1>3 DEF DiskShape, WriteLine
  <2>2. size' \in [Files -> Nat]
    BY <1>3, <2>1, SMT DEF DiskShape, WriteLine
  <2>3. member' \in [Files -> SUBSET Nat]
    <3>1. PICK m \in {{}, {size[live] + 1}} : member' = [member EXCEPT ![live] = @ \cup m]
      BY <1>3 DEF WriteLine
    <3>2. m \subseteq Nat
      BY <2>1, SMT
    <3> QED
      BY <2>1, <3>1, <3>2 DEF DiskShape
  <2>4. DiskShape'
    BY <1>3, <2>2, <2>3 DEF DiskShape, WriteLine
  <2> QED
    BY <1>3, <2>4, DiskSame, StoreSame, TailSame, FillSame DEF WriteLine
<1>4. CASE Rotate
  <2>1. DiskShape'
    BY <1>4, SMT DEF DiskShape, Rotate
  <2> QED
    BY <1>4, <2>1, DiskSame, StoreSame, TailSame, FillSame DEF Rotate
<1>5. CASE Start
  <2>1. TailShape'
    <3>1. CASE live = 0
      BY <1>5, <3>1, NoTailType DEF Start, TailShape, NoTail, Resting
    <3>2. CASE live # 0
      BY <1>5, <3>2, RestingType DEF Start, StoreShape, TailShape, Resting
    <3> QED
      BY <3>1, <3>2
  <2>2. FillShape'
    BY <1>5, ScanningType DEF Start, FillShape, Scanning
  <2> QED
    BY <1>5, <2>1, <2>2, DiskSame, StoreSame, TailSame, FillSame DEF Start
<1>6. CASE Stop
  <2>1. TailShape'
    BY <1>6, NoTailType DEF Stop, TailShape, NoTail, Resting, Down
  <2>2. FillShape'
    BY <1>6, ScanningType DEF Stop, FillShape, Scanning, Down
  <2> QED
    BY <1>6, <2>1, <2>2, DiskSame, StoreSame, TailSame, FillSame DEF Stop
<1>7. CASE DrainOpen
  <2>1. CASE live = 0
    BY <1>7, <2>1, DiskSame, StoreSame, TailSame, FillSame DEF DrainOpen
  <2>2. CASE live # 0
    <3> DEFINE off == Resume(tail.off, tail.sig, Sig(live), size[live])
    <3>1. live \in Files /\ Sig(live) \in 0 .. MaxFiles
      BY <2>2, SMT DEF DiskShape, Sig
    <3>2. off \in Nat
      BY DEF TailShape, TailType, Resume
    <3> HIDE DEF off
    <3>3. Resting(off, Sig(live)) \in TailType
      BY <3>1, <3>2, RestingType
    <3>4. Resting(off, Sig(live)).pc = "idle"
      BY DEF Resting
    <3>5. \/ tail' = Resting(off, Sig(live))
          \/ tail' = [Resting(off, Sig(live)) EXCEPT !.pc = "read", !.f = live]
      BY <1>7, <2>2 DEF DrainOpen, off
    <3> DEFINE r == Resting(off, Sig(live))
    <3>a. r \in TailType /\ r.pc = "idle"
      BY <3>3, <3>4
    <3>b. tail' = r \/ tail' = [r EXCEPT !.pc = "read", !.f = live]
      BY <3>5
    <3> HIDE DEF r
    <3>6. TailShape'
      <4>1. CASE tail' = r
        BY <3>a, <4>1 DEF TailShape
      <4>2. CASE tail' = [r EXCEPT !.pc = "read", !.f = live]
        <5>1. live \in 0 .. MaxFiles
          BY <3>1, SMT
        <5>2. tail' \in TailType
          BY <3>a, <4>2, <5>1 DEF TailType
        <5>3. tail'.f = live
          BY <3>a, <4>2 DEF TailType
        <5> QED
          BY <3>1, <5>2, <5>3 DEF TailShape
      <4> QED
        BY <3>b, <4>1, <4>2
    <3> QED
      BY <1>7, <3>6, DiskSame, StoreSame, TailSame, FillSame DEF DrainOpen
  <2> QED
    BY <2>1, <2>2
<1>8. CASE DrainRead
  <2>1. tail.f \in Files /\ size[tail.f] \in Nat /\ tail.off \in Nat
    BY <1>8, SMT DEF DrainRead, DiskShape, TailShape, TailType
  <2>2. Bursts(tail.f, tail.off + 1, size[tail.f]) \in SUBSET (SUBSET Nat)
    BY <2>1, BurstsType, SMT DEF DiskShape
  <2>3. tail.off + 1 .. size[tail.f] \in SUBSET Nat
    BY <2>1, SMT
  <2>4. TailShape'
    BY <1>8, <2>1, <2>2, <2>3 DEF DrainRead, TailShape, TailType
  <2> QED
    BY <1>8, <2>4, DiskSame, StoreSame, TailSame, FillSame DEF DrainRead
<1>9. CASE DrainProcess
  <2>1. PICK b : tail' \in {Collapse(tail, b), KeepMembers(tail, b), NextLine(tail)}
    BY <1>9 DEF DrainProcess
  <2>2. tail' \in TailType /\ tail'.pc = tail.pc /\ tail'.f = tail.f
    BY <2>1, TailShrinks, SMT DEF TailShape
  <2>3. TailShape'
    BY <2>2 DEF TailShape
  <2> QED
    BY <1>9, <2>3, DiskSame, StoreSame, TailSame, FillSame DEF DrainProcess
<1>10. CASE DrainCommit
  <2>1. tail.off \in Nat /\ tail.sig \in 0 .. MaxFiles
    BY DEF TailShape, TailType
  <2>2. TailShape'
    BY <1>10, <2>1, RestingType DEF DrainCommit, TailShape, Resting
  <2>3. StoreShape'
    BY <1>10, <2>1 DEF DrainCommit, StoreShape
  <2> QED
    BY <1>10, <2>2, <2>3, DiskSame, StoreSame, TailSame, FillSame DEF DrainCommit
<1>11. CASE Discover
  <2>1. {f \in 1 .. made : f # live} \in SUBSET Files
    BY SMT DEF DiskShape
  <2>2. FillShape'
    BY <1>11, <2>1, ScanningType DEF Discover, FillShape, Scanning
  <2> QED
    BY <1>11, <2>2, DiskSame, StoreSame, TailSame, FillSame DEF Discover
<1>12. ASSUME NEW f \in Files, BackfillOpen(f) PROVE Shape'
  <2> DEFINE rest == Scanning("scan", fill.queue \ {f})
  <2>1. filed[f] \in Nat
    BY DEF StoreShape
  <2>2. rest \in FillType /\ rest.pc = "scan"
    BY ScanningType DEF FillShape, FillType, Scanning
  <2>3. \/ fill' = rest
        \/ fill' = [rest EXCEPT !.pc = "read", !.f = f, !.off = filed[f], !.lo = filed[f] + 1]
    BY <1>12 DEF BackfillOpen
  <2> HIDE DEF rest
  <2>4. filed[f] + 1 \in Nat \ {0} /\ f \in 0 .. MaxFiles
    BY <2>1, SMT
  <2>5. FillShape'
    <3>1. CASE fill' = rest
      BY <2>2, <3>1 DEF FillShape
    <3>2. CASE fill' = [rest EXCEPT !.pc = "read", !.f = f, !.off = filed[f],
                                    !.lo = filed[f] + 1]
      BY <2>1, <2>2, <2>4, <3>2 DEF FillShape, FillType
    <3> QED
      BY <2>3, <3>1, <3>2
  <2> QED
    BY <1>12, <2>5, DiskSame, StoreSame, TailSame, FillSame DEF BackfillOpen
<1>13. CASE BackfillRead
  <2> DEFINE hi == fill.off + ChunkLines
             cut == Cut(fill.f, fill.lo, hi)
  <2>1. /\ fill \in FillType /\ fill.f \in Files /\ fill.lo \in Nat \ {0}
        /\ size[fill.f] \in Nat /\ hi \in Nat /\ member[fill.f] \subseteq Nat
    BY <1>13, SMT DEF DiskShape, FillShape, FillType, BackfillRead
  <2>2. cut - 1 \in Nat
    BY <2>1, SMT DEF CutCounts
  <2>3. \/ fill' = Flush(fill, "read", hi, cut - 1)
        \/ fill' = Flush(fill, "last", size[fill.f], size[fill.f])
    BY <1>13 DEF BackfillRead
  <2> HIDE DEF hi, cut
  <2>4. fill' \in FillType
    BY <2>1, <2>2, <2>3, FlushType
  <2>5. fill'.f = fill.f
    BY <2>1, <2>3 DEF FillType, Flush
  <2> QED
    BY <1>13, <2>1, <2>4, <2>5, DiskSame, StoreSame, TailSame, FillSame DEF BackfillRead, FillShape
<1>14. CASE BackfillProcess
  <2>1. PICK b : fill' \in {Collapse(fill, b), KeepMembers(fill, b), NextLine(fill)}
    BY <1>14 DEF BackfillProcess
  <2>2. fill' \in FillType /\ fill'.pc = fill.pc /\ fill'.f = fill.f
    BY <2>1, FillShrinks, SMT DEF FillShape
  <2>3. FillShape'
    BY <2>2 DEF FillShape
  <2> QED
    BY <1>14, <2>3, DiskSame, StoreSame, TailSame, FillSame DEF BackfillProcess
<1>15. CASE BackfillCommit
  <2>1. fill.queue \in SUBSET Files /\ fill.off \in Nat
    BY DEF FillShape, FillType
  <2>2. FillShape'
    BY <1>15, <2>1, ScanningType DEF BackfillCommit, FillShape, Scanning
  <2>3. StoreShape'
    BY <1>15, <2>1 DEF BackfillCommit, StoreShape
  <2> QED
    BY <1>15, <2>2, <2>3, DiskSame, StoreSame, TailSame, FillSame DEF BackfillCommit
<1>16. CASE DrainReadFails
  <2>1. PICK off \in tail.off .. size[tail.f] : tail' = Resting(off, tail.sig)
    BY <1>16 DEF DrainReadFails
  <2>2. off \in Nat /\ tail.sig \in 0 .. MaxFiles
    BY <1>16, SMT DEF DrainReadFails, DiskShape, TailShape, TailType
  <2>3. TailShape'
    BY <2>1, <2>2, RestingType DEF TailShape, Resting
  <2> QED
    BY <1>16, <2>3, DiskSame, StoreSame, TailSame, FillSame DEF DrainReadFails
<1>17. CASE DrainCommitFails
  <2>1. tail.off \in Nat /\ tail.sig \in 0 .. MaxFiles
    BY DEF TailShape, TailType
  <2>2. TailShape'
    BY <1>17, <2>1, RestingType DEF DrainCommitFails, TailShape, Resting
  <2> QED
    BY <1>17, <2>2, DiskSame, StoreSame, TailSame, FillSame DEF DrainCommitFails
<1>18. CASE BackfillReadFails \/ BackfillCommitFails
  <2>1. fill.queue \in SUBSET Files
    BY DEF FillShape, FillType
  <2>2. FillShape'
    BY <1>18, <2>1, ScanningType, SMT
       DEF BackfillReadFails, BackfillCommitFails, FillShape, Scanning
  <2> QED
    BY <1>18, <2>2, DiskSame, StoreSame, TailSame, FillSame DEF BackfillReadFails, BackfillCommitFails
<1>19. CASE UNCHANGED vars
  BY <1>19, DiskSame, StoreSame, TailSame, FillSame DEF vars
<1> QED
  BY <1>1, <1>2, <1>3, <1>4, <1>5, <1>6, <1>7, <1>8, <1>9, <1>10, <1>11, <1>12,
     <1>13, <1>14, <1>15, <1>16, <1>17, <1>18, <1>19
     DEF Next, Game, Drain, Backfill, Failure

-----------------------------------------------------------------------------
(* The archives' cursors.                                                  *)

LEMMA ArchiveCoverStays ==
  ASSUME Shape, [Next]_vars, BackfillCovers, UNCHANGED filed
  PROVE  BackfillCovers'
BY CoveredStays DEF BackfillCovers, Covered

LEMMA FillKept ==
  ASSUME [Next]_vars, FillInv, UNCHANGED fill
  PROVE  FillInv'
<1>1. ASSUME fill.pc \in {"read", "last"}, NEW i \in 1 .. fill.lo - 1, i \notin fill.todo
      PROVE  Covered(fill.f, i)'
  BY <1>1, CoveredStays DEF FillInv
<1> QED
  BY <1>1 DEF FillInv

LEMMA FillIdle ==
  ASSUME NEW pc \in {Down, "start", "scan"}, NEW queue, fill' = Scanning(pc, queue)
  PROVE  FillInv'
BY DEF FillInv, Scanning, Down

LEMMA FillStep ==
  ASSUME CutCounts, Shape, [Next]_vars, FillInv, BackfillCovers
  PROVE  FillInv' /\ BackfillCovers'
<1>1. CASE Game \/ Drain \/ DrainReadFails \/ DrainCommitFails \/ UNCHANGED vars
  <2>1. UNCHANGED <<fill, filed>>
    BY <1>1 DEF Game, CreateLog, WritePart, WriteLine, Rotate, Drain, DrainOpen, DrainRead,
                DrainProcess, DrainCommit, DrainReadFails, DrainCommitFails, vars
  <2> QED
    BY <2>1, FillKept, ArchiveCoverStays
<1>2. CASE Start \/ Stop \/ Discover \/ BackfillReadFails \/ BackfillCommitFails
  <2>1. \E pc \in {Down, "start", "scan"} : \E queue : fill' = Scanning(pc, queue)
    BY <1>2 DEF Start, Stop, Discover, BackfillReadFails, BackfillCommitFails
  <2>2. UNCHANGED filed
    BY <1>2 DEF Start, Stop, Discover, BackfillReadFails, BackfillCommitFails
  <2> QED
    BY <2>1, <2>2, FillIdle, ArchiveCoverStays
<1>3. ASSUME NEW f \in Files, BackfillOpen(f) PROVE FillInv' /\ BackfillCovers'
  <2> DEFINE rest == Scanning("scan", fill.queue \ {f})
  <2>1. UNCHANGED filed
    BY <1>3 DEF BackfillOpen
  <2>2. CASE fill' = rest
    BY <2>1, <2>2, FillIdle, ArchiveCoverStays
  <2>3. CASE fill' = [rest EXCEPT !.pc = "read", !.f = f, !.off = filed[f],
                                  !.lo = filed[f] + 1]
    <3>1. fill'.pc = "read" /\ fill'.f = f /\ fill'.lo = filed[f] + 1
      BY <2>3 DEF Scanning
    <3>2. filed[f] \in Nat
      BY DEF Shape, StoreShape
    <3>3. ASSUME NEW i \in 1 .. filed[f] PROVE Covered(f, i)'
      BY <3>3, CoveredStays DEF BackfillCovers, Covered
    <3> QED
      BY <2>1, <3>1, <3>2, <3>3, ArchiveCoverStays, SMT DEF FillInv
  <2> QED
    BY <1>3, <2>2, <2>3 DEF BackfillOpen
<1>4. CASE BackfillRead
  <2> DEFINE hi == fill.off + ChunkLines
             cut == Cut(fill.f, fill.lo, hi)
  <2>1. /\ fill \in FillType /\ fill.f \in Files /\ fill.lo \in Nat /\ size[fill.f] \in Nat
        /\ hi \in Nat /\ fill.todo = {} /\ fill.pc = "read"
    BY <1>4, SMT DEF Shape, DiskShape, FillShape, FillType, BackfillRead, Flushed
  <2>0. PICK g \in Files : g = fill.f
    BY <2>1
  <2>2. cut \in Nat
    BY <2>1 DEF CutCounts
  <2>3. \/ fill' = Flush(fill, "read", hi, cut - 1)
        \/ fill' = Flush(fill, "last", size[fill.f], size[fill.f])
    BY <1>4 DEF BackfillRead
  <2>4. PICK pc \in {"read", "last"}, off \in Nat, last \in Int :
          fill' = Flush(fill, pc, off, last) /\ (pc = "last" => off = last)
    <3>1. CASE fill' = Flush(fill, "read", hi, cut - 1)
      <4>1. hi \in Nat /\ cut - 1 \in Int
        BY <2>1, <2>2, SMT
      <4> HIDE DEF hi, cut
      <4> QED
        BY <3>1, <4>1
    <3>2. CASE fill' = Flush(fill, "last", size[fill.f], size[fill.f])
      <4>1. size[fill.f] \in Nat /\ size[fill.f] \in Int
        BY <2>1, SMT
      <4> QED
        BY <3>2, <4>1
    <3> QED
      BY <2>3, <3>1, <3>2
  <2>5. FillInv'
    <3>1. /\ fill'.pc = pc /\ fill'.f = fill.f /\ fill'.lo = last + 1 /\ fill'.off = off
          /\ fill'.todo = fill.lo .. last
      BY <2>1, <2>4 DEF FillType, Flush
    <3>2. ASSUME NEW i \in 1 .. last, i \notin fill.lo .. last PROVE Covered(g, i)'
      <4>1. i \in 1 .. fill.lo - 1
        BY <2>1, <3>2, SMT
      <4> QED
        BY <2>0, <2>1, <4>1, CoveredStays DEF FillInv
    <3> QED
      BY <2>0, <2>4, <3>1, <3>2, SMT DEF FillInv
  <2>6. UNCHANGED filed
    BY <1>4 DEF BackfillRead
  <2> QED
    BY <2>5, <2>6, ArchiveCoverStays
<1>5. CASE BackfillProcess
  <2>1. fill \in FillType /\ fill.pc \in {"read", "last"} /\ UNCHANGED filed
    BY <1>5 DEF Shape, FillShape, BackfillProcess
  <2>0. PICK g \in Files : g = fill.f
    BY <2>1 DEF Shape, FillShape
  <2>2. PICK b : fill' \in {Collapse(fill, b), KeepMembers(fill, b), NextLine(fill)}
    BY <1>5 DEF BackfillProcess
  <2>3. fill'.pc = fill.pc /\ fill'.f = fill.f /\ fill'.off = fill.off /\ fill'.lo = fill.lo
    BY <2>1, <2>2, FillShrinks, SMT
  <2>4. ASSUME NEW i \in fill.todo, i \notin fill'.todo PROVE Covered(g, i)'
    <3>1. CASE InsertSummary(fill, "fill") /\ fill' = Collapse(fill, First(fill.bursts))
      <4>1. i \in First(fill.bursts)
        BY <2>1, <2>4, <3>1 DEF Collapse, FillType
      <4> QED
        BY <2>0, <3>1, <4>1, SummaryCovers DEF Covered, Held
    <3>2. CASE InsertLine(fill, "fill") /\ fill' = NextLine(fill)
      <4>1. i = Min(fill.todo)
        BY <2>1, <2>4, <3>2 DEF NextLine, FillType
      <4> QED
        BY <2>0, <3>2, <4>1, LineCovers DEF Covered, Held
    <3>3. CASE SummaryFails(fill) /\ fill' = KeepMembers(fill, First(fill.bursts))
      BY <2>1, <2>4, <3>3 DEF KeepMembers, FillType
    <3>4. CASE LineFails(fill) /\ fill' = NextLine(fill)
      <4>1. i = Min(fill.todo)
        BY <2>1, <2>4, <3>4 DEF NextLine, FillType
      <4> QED
        BY <2>0, <3>4, <4>1 DEF Covered, LineFails
    <3> QED
      BY <1>5, <3>1, <3>2, <3>3, <3>4 DEF BackfillProcess
  <2>5. ASSUME NEW i \in 1 .. fill.lo - 1, i \notin fill'.todo PROVE Covered(g, i)'
    BY <2>0, <2>1, <2>4, <2>5, CoveredStays DEF FillInv
  <2>6. FillInv'
    BY <2>0, <2>3, <2>5 DEF FillInv
  <2> QED
    BY <2>1, <2>6, ArchiveCoverStays
<1>6. CASE BackfillCommit
  <2>1. FillInv'
    BY <1>6, FillIdle DEF BackfillCommit
  <2>2. /\ fill.f \in Files /\ fill.off \in Nat /\ fill.lo = fill.off + 1 /\ fill.todo = {}
        /\ fill.pc = "last" /\ filed \in [Files -> Nat]
        /\ filed' = [filed EXCEPT ![fill.f] = fill.off]
    BY <1>6 DEF Shape, StoreShape, FillShape, FillType, FillInv, BackfillCommit, Flushed
  <2>3. ASSUME NEW f \in Files, NEW i \in 1 .. filed'[f] PROVE Covered(f, i)'
    <3>1. CASE f = fill.f
      <4>1. i \in 1 .. fill.lo - 1
        BY <2>2, <2>3, <3>1, SMT
      <4> QED
        BY <2>2, <3>1, <4>1, CoveredStays DEF FillInv
    <3>2. CASE f # fill.f
      <4>1. i \in 1 .. filed[f]
        BY <2>2, <2>3, <3>2
      <4> QED
        BY <4>1, CoveredStays DEF BackfillCovers, Covered
    <3> QED
      BY <3>1, <3>2
  <2>4. BackfillCovers'
    BY <2>3 DEF BackfillCovers, Covered
  <2> QED
    BY <2>1, <2>4
<1> QED
  BY <1>1, <1>2, <1>3, <1>4, <1>5, <1>6 DEF Next, Backfill, Failure

-----------------------------------------------------------------------------
(* The cursor of Game.log.                                                 *)

LEMMA SizeGrows ==
  ASSUME Shape, [Next]_vars, NEW f \in Files
  PROVE  size'[f] \in Nat /\ size'[f] >= size[f]
<1>1. CASE WriteLine
  BY <1>1, SMT DEF WriteLine, Shape, DiskShape
<1>2. CASE UNCHANGED size
  BY <1>2, SMT DEF Shape, DiskShape
<1>3. WriteLine \/ UNCHANGED size
  BY DEF Next, Game, Drain, Backfill, Failure, CreateLog, WritePart, Rotate, Start, Stop,
         DrainOpen, DrainRead, DrainReadFails, DrainProcess, DrainCommit,
         DrainCommitFails, Discover, BackfillOpen, BackfillRead, BackfillReadFails,
         BackfillProcess, BackfillCommit, BackfillCommitFails, vars
<1> QED
  BY <1>1, <1>2, <1>3

LEMMA CursorCoverStays ==
  ASSUME [Next]_vars, TailCursorCovers, UNCHANGED cursor,
         ~dropped' => ~dropped, ~unsigned' => ~unsigned
  PROVE  TailCursorCovers'
BY CoveredStays DEF TailCursorCovers, Covered

LEMMA TailKept ==
  ASSUME Shape, [Next]_vars, SigInv, TailInv, TailCursorCovers,
         UNCHANGED <<tail, cursor, dropped, unsigned>>
  PROVE  SigInv' /\ TailInv' /\ TailCursorCovers'
<1>1. tail.sig \in 0 .. MaxFiles /\ cursor.sig \in 0 .. MaxFiles
  BY DEF Shape, TailShape, TailType, StoreShape
<1>2. SigInv'
  <2>1. tail.sig # None => size'[tail.sig] >= SigLines
    BY <1>1, SizeGrows, SMT DEF SigInv, Shape, DiskShape
  <2>2. cursor.sig # None => size'[cursor.sig] >= SigLines
    BY <1>1, SizeGrows, SMT DEF SigInv, Shape, DiskShape
  <2> QED
    BY <2>1, <2>2 DEF SigInv
<1>3. TailInv'
  <2>1. PICK g : g = tail.sig
    OBVIOUS
  <2>2. ASSUME tail.sig # None, ~dropped, ~unsigned, NEW i \in 1 .. tail.off,
               i \notin tail.todo
        PROVE  Covered(g, i)'
    BY <2>1, <2>2, CoveredStays DEF TailInv
  <2> QED
    BY <2>1, <2>2 DEF TailInv
<1> QED
  BY <1>2, <1>3, CursorCoverStays

\* The tail at rest with the offset and signature of the saved cursor.
LEMMA RestsAtCursor ==
  ASSUME Shape, SigInv, TailCursorCovers, [Next]_vars,
         tail' = Resting(cursor.off, cursor.sig), UNCHANGED <<cursor, size, dropped, unsigned>>
  PROVE  SigInv' /\ TailInv' /\ TailCursorCovers'
<1>1. /\ tail'.pc = "idle" /\ tail'.off = cursor.off /\ tail'.sig = cursor.sig
      /\ tail'.todo = {}
  BY DEF Resting
<1>2. SigInv'
  BY <1>1 DEF SigInv
<1>3. TailCursorCovers'
  BY CursorCoverStays
<1>4. TailInv'
  <2>1. cursor.sig # None => cursor.sig \in Files
    BY SMT DEF Shape, StoreShape
  <2> QED
    BY <1>1, <1>3, <2>1 DEF TailInv, TailCursorCovers, Covered
<1> QED
  BY <1>2, <1>3, <1>4

LEMMA NoTailRests ==
  ASSUME SigInv, TailCursorCovers, [Next]_vars, NEW pc \in {Down, "none"},
         tail' = NoTail(pc), UNCHANGED <<cursor, size, dropped, unsigned>>
  PROVE  SigInv' /\ TailInv' /\ TailCursorCovers'
<1>1. tail'.pc = pc /\ tail'.off = 0 /\ tail'.sig = None /\ tail'.todo = {}
  BY DEF NoTail, Resting
<1>2. pc \notin {"read", "process"}
  BY DEF Down
<1> QED
  BY <1>1, <1>2, CursorCoverStays DEF SigInv, TailInv

LEMMA TailOpens ==
  ASSUME Shape, SigInv, TailInv, TailCursorCovers, [Next]_vars, DrainOpen, live # 0
  PROVE  SigInv' /\ TailInv' /\ TailCursorCovers'
<1> DEFINE off == Resume(tail.off, tail.sig, Sig(live), size[live])
<1>1. /\ live \in Files /\ size[live] \in Nat /\ tail.off \in Nat
      /\ tail.sig \in 0 .. MaxFiles
  BY SMT DEF Shape, DiskShape, TailShape, TailType
<1>2. tail'.off = off /\ tail'.sig = Sig(live) /\ tail'.todo = {}
  BY DEF DrainOpen, Resting
<1>3. \/ tail'.pc = "read" /\ tail'.f = live
      \/ tail'.pc = "idle" /\ off = size[live]
  <2>1. CASE tail' = Resting(off, Sig(live)) /\ off = size[live]
    BY <2>1 DEF Resting
  <2>2. CASE tail' = [Resting(off, Sig(live)) EXCEPT !.pc = "read", !.f = live]
    BY <2>2 DEF Resting
  <2> QED
    BY <2>1, <2>2 DEF DrainOpen
<1>4. UNCHANGED <<size, cursor, dropped, unsigned>>
  BY DEF DrainOpen
<1>5. Sig(live) # None => Sig(live) = live /\ size[live] >= SigLines
  BY DEF Sig
<1>6. Sig(live) = None => size[live] < SigLines
  BY <1>1, SMT DEF Sig
<1>7. ASSUME Sig(live) = None, ~dropped, ~unsigned PROVE off = 0
  <2>1. tail.pc = "idle"
    BY DEF DrainOpen
  <2>2. CASE tail.sig = None
    <3>1. tail.off = 0
      BY <1>7, <2>2 DEF SigInv
    <3> QED
      BY <1>1, <3>1 DEF Resume
  <2>3. CASE tail.sig # None
    <3>1. tail.off >= SigLines
      BY <1>7, <2>1, <2>3 DEF SigInv
    <3> QED
      BY <1>1, <1>6, <1>7, <3>1, SMT DEF Resume
  <2> QED
    BY <2>2, <2>3
<1>8. ASSUME Sig(live) # None, ~dropped, ~unsigned
      PROVE  off = 0 \/ (off = tail.off /\ tail.sig = live)
  <2>1. CASE tail.sig = None
    <3>1. tail.off = 0
      BY <1>8, <2>1 DEF SigInv
    <3> QED
      BY <1>1, <3>1 DEF Resume
  <2>2. CASE tail.sig # None
    BY <1>1, <1>5, <1>8, <2>2 DEF Resume
  <2> QED
    BY <2>1, <2>2
<1> HIDE DEF off
<1>9. SigInv'
  BY <1>1, <1>2, <1>3, <1>4, <1>5, <1>7 DEF SigInv
<1>10. TailInv'
  <2>1. PICK g \in Files : g = live
    BY <1>1
  <2>3. ASSUME tail'.sig # None, ~dropped, ~unsigned, NEW i \in 1 .. off
        PROVE  Covered(g, i)'
    <3>1. off = tail.off /\ tail.sig = live
      BY <1>2, <1>8, <2>3, SMT
    <3>2. tail.todo = {}
      BY DEF DrainOpen, SigInv
    <3> QED
      BY <2>1, <2>3, <3>1, <3>2, CoveredStays DEF TailInv
  <2> QED
    BY <1>2, <1>4, <1>5, <2>1, <2>3 DEF TailInv
<1> QED
  BY <1>4, <1>9, <1>10, CursorCoverStays

LEMMA TailStep ==
  ASSUME Shape, SigInv, TailInv, TailCursorCovers, [Next]_vars
  PROVE  SigInv' /\ TailInv' /\ TailCursorCovers'
<1>0. tail \in TailType /\ size \in [Files -> Nat]
  BY DEF Shape, TailShape, DiskShape
<1>1. CASE \/ Game \/ Backfill \/ BackfillReadFails \/ BackfillCommitFails
           \/ UNCHANGED vars
  <2>1. UNCHANGED <<tail, cursor, dropped, unsigned>>
    BY <1>1 DEF Game, CreateLog, WritePart, WriteLine, Rotate, Backfill, Discover,
                BackfillOpen, BackfillRead, BackfillProcess, BackfillCommit,
                BackfillReadFails, BackfillCommitFails, vars
  <2> QED
    BY <2>1, TailKept
<1>2. CASE Start
  <2>1. UNCHANGED <<cursor, size, dropped, unsigned>>
    BY <1>2 DEF Start
  <2>2. CASE tail' = NoTail("none")
    BY <2>1, <2>2, NoTailRests
  <2>3. CASE tail' = Resting(cursor.off, cursor.sig)
    BY <2>1, <2>3, RestsAtCursor
  <2> QED
    BY <1>2, <2>2, <2>3 DEF Start
<1>3. CASE Stop
  <2>1. tail' = NoTail(Down) /\ UNCHANGED <<cursor, size, dropped, unsigned>>
    BY <1>3 DEF Stop
  <2> QED
    BY <2>1, NoTailRests
<1>4. CASE DrainOpen
  <2>1. CASE live = 0
    <3>1. UNCHANGED <<tail, cursor, dropped, unsigned>>
      BY <1>4, <2>1 DEF DrainOpen
    <3> QED
      BY <3>1, TailKept
  <2> QED
    BY <1>4, <2>1, TailOpens
<1>5. CASE DrainRead
  <2>1. /\ tail.pc = "read" /\ tail.f \in Files /\ size[tail.f] \in Nat
        /\ tail.off \in Nat /\ tail.sig \in 0 .. MaxFiles /\ tail.todo = {}
    BY <1>5, SMT DEF DrainRead, Shape, DiskShape, TailShape, TailType, SigInv
  <2>2. /\ tail'.pc = "process" /\ tail'.f = tail.f /\ tail'.off = size[tail.f]
        /\ tail'.sig = tail.sig /\ tail'.todo = tail.off + 1 .. size[tail.f]
    BY <1>0, <1>5 DEF DrainRead, TailType
  <2>3. UNCHANGED <<size, cursor, dropped>>
    BY <1>5 DEF DrainRead
  <2>4. ~unsigned' => ~unsigned /\ (tail.sig = None => size[tail.f] = 0)
    <3>1. ~unsigned' => ~unsigned /\ ~(tail.sig = None /\ size[tail.f] > 0)
      BY <1>5 DEF DrainRead
    <3> QED
      BY <2>1, <3>1, SMT
  <2>5. SigInv'
    BY <2>1, <2>2, <2>3, <2>4 DEF SigInv
  <2>6. TailInv'
    <3>1. PICK g : g = tail.sig
      OBVIOUS
    <3>2. ASSUME tail.sig # None, ~dropped, ~unsigned', NEW i \in 1 .. size[tail.f],
                 i \notin tail.off + 1 .. size[tail.f]
          PROVE  Covered(g, i)'
      <4>1. i \in 1 .. tail.off
        BY <2>1, <3>2, SMT
      <4> QED
        BY <2>1, <2>4, <3>1, <3>2, <4>1, CoveredStays DEF TailInv
    <3> QED
      BY <2>2, <2>3, <3>1, <3>2 DEF TailInv
  <2> QED
    BY <2>3, <2>4, <2>5, <2>6, CursorCoverStays
<1>6. CASE DrainReadFails
  <2>0. PICK off : tail' = Resting(off, tail.sig)
    BY <1>6 DEF DrainReadFails
  <2>1. tail'.pc = "idle" /\ tail'.sig = tail.sig /\ tail'.todo = {}
    BY <2>0 DEF Resting
  <2>2. dropped' /\ UNCHANGED <<size, cursor>>
    BY <1>6 DEF DrainReadFails
  <2>3. SigInv'
    BY <2>1, <2>2 DEF SigInv
  <2>4. TailInv' /\ TailCursorCovers'
    BY <2>2 DEF TailInv, TailCursorCovers
  <2> QED
    BY <2>3, <2>4
<1>7. CASE DrainProcess
  <2>0. tail \in TailType
    BY <1>0
  <2>1. tail.pc = "process" /\ tail.f \in Files /\ UNCHANGED <<size, cursor, dropped, unsigned>>
    BY <1>7 DEF DrainProcess, Shape, TailShape
  <2>2. PICK b : tail' \in {Collapse(tail, b), KeepMembers(tail, b), NextLine(tail)}
    BY <1>7 DEF DrainProcess
  <2>3. tail'.pc = tail.pc /\ tail'.f = tail.f /\ tail'.off = tail.off /\ tail'.sig = tail.sig
    BY <2>0, <2>2, TailShrinks, SMT
  <2>4. PICK g \in Files : g = tail.f
    BY <2>1
  <2>5. ASSUME NEW i \in tail.todo, i \notin tail'.todo PROVE Covered(g, i)'
    <3>1. CASE InsertSummary(tail, "tail") /\ tail' = Collapse(tail, First(tail.bursts))
      <4>1. i \in First(tail.bursts)
        BY <1>0, <2>5, <3>1 DEF Collapse, TailType
      <4> QED
        BY <2>4, <3>1, <4>1, SummaryCovers DEF Covered, Held
    <3>2. CASE InsertLine(tail, "tail") /\ tail' = NextLine(tail)
      <4>1. i = Min(tail.todo)
        BY <1>0, <2>5, <3>2 DEF NextLine, TailType
      <4> QED
        BY <2>4, <3>2, <4>1, LineCovers DEF Covered, Held
    <3>3. CASE SummaryFails(tail) /\ tail' = KeepMembers(tail, First(tail.bursts))
      BY <1>0, <2>5, <3>3 DEF KeepMembers, TailType
    <3>4. CASE LineFails(tail) /\ tail' = NextLine(tail)
      <4>1. i = Min(tail.todo)
        BY <1>0, <2>5, <3>4 DEF NextLine, TailType
      <4> QED
        BY <2>4, <3>4, <4>1 DEF Covered, LineFails
    <3> QED
      BY <1>7, <3>1, <3>2, <3>3, <3>4 DEF DrainProcess
  <2>6. SigInv'
    BY <2>1, <2>3 DEF SigInv
  <2>7. ASSUME tail.sig # None, ~dropped, ~unsigned, NEW i \in 1 .. tail.off,
               i \notin tail'.todo
        PROVE  Covered(g, i)'
    <3>1. g = tail.sig
      BY <2>1, <2>4, <2>7 DEF SigInv
    <3> QED
      BY <2>5, <2>7, <3>1, CoveredStays DEF TailInv
  <2>8. TailInv'
    BY <2>1, <2>3, <2>4, <2>7 DEF TailInv, SigInv
  <2> QED
    BY <2>1, <2>6, <2>8, CursorCoverStays
<1>8. CASE DrainCommit
  <2>1. tail.pc = "process" /\ tail.todo = {}
    BY <1>8 DEF DrainCommit, Flushed
  <2>2. /\ tail'.pc = "idle" /\ tail'.off = tail.off /\ tail'.sig = tail.sig
        /\ tail'.todo = {} /\ cursor'.off = tail.off /\ cursor'.sig = tail.sig
        /\ UNCHANGED <<size, dropped, unsigned, events, failed>>
    BY <1>8 DEF DrainCommit, Resting
  <2>3. SigInv'
    BY <2>1, <2>2 DEF SigInv
  <2>4. TailInv'
    BY <2>1, <2>2 DEF TailInv, Covered, Held
  <2>5. TailCursorCovers'
    BY <2>1, <2>2, SMT DEF TailInv, TailCursorCovers, Covered, Held
  <2> QED
    BY <2>3, <2>4, <2>5
<1>9. CASE DrainCommitFails
  <2>1. tail.pc = "process" /\ tail.todo = {}
    BY <1>9 DEF DrainCommitFails, Flushed
  <2>2. /\ tail'.pc = "idle" /\ tail'.off = tail.off /\ tail'.sig = tail.sig
        /\ tail'.todo = {} /\ UNCHANGED <<size, cursor, dropped, unsigned, events, failed>>
    BY <1>9 DEF DrainCommitFails, Resting
  <2>3. SigInv'
    BY <2>1, <2>2 DEF SigInv
  <2>4. TailInv'
    BY <2>1, <2>2 DEF TailInv, Covered, Held
  <2> QED
    BY <2>2, <2>3, <2>4, CursorCoverStays
<1> QED
  BY <1>1, <1>2, <1>3, <1>4, <1>5, <1>6, <1>7, <1>8, <1>9 DEF Next, Drain, Failure

-----------------------------------------------------------------------------
(* The theorems about the cursors.                                         *)

INSTANCE FiniteSetTheorems

LEMMA CutNat ==
  ASSUME NEW f, NEW lo \in Nat, NEW hi \in Nat
  PROVE  Cut(f, lo, hi) \in Nat /\ Cut(f, lo, hi) >= lo
<1> DEFINE last == hi - CarryLines
           open == {b \in Bursts(f, lo, hi) : Max(b) > last}
           S == {x \in lo .. last : \A b \in open : \A y \in b : x < y}
<1>1. last \in Int
  BY SMT
<1>2. IsFiniteSet(lo .. last)
  BY <1>1, FS_Interval, SMT
<1>3. IsFiniteSet(S)
  BY <1>2, FS_Subset
<1>4. Cardinality(S) \in Nat
  BY <1>3, FS_CardinalityType
<1> QED
  BY <1>4, SMT DEF Cut

LEMMA CutsCount == CutCounts
BY CutNat DEF CutCounts

\* THEOREM: a line an archive's cursor has passed is in the table unless its
\* insert failed (backfill_file writes the cursor after the last flush).
THEOREM ArchivesCovered == Spec => []BackfillCovers
<1>1. Init => FillInv /\ BackfillCovers
  BY SMT DEF Init, FillInv, BackfillCovers, Scanning, Down
<1>2. Shape /\ FillInv /\ BackfillCovers /\ [Next]_vars
        => Shape' /\ FillInv' /\ BackfillCovers'
  BY CutsCount, ShapeStep, FillStep
<1> QED
  BY <1>1, <1>2, ShapeInit, PTL DEF Spec

\* THEOREM: a line the saved cursor of Game.log has passed is in the table
\* unless its insert failed, as long as the tail has met no read error and has
\* read no file too short to sign (drain, resolve_resume_offset).
THEOREM GameLogCovered == Spec => []TailCursorCovers
<1>1. Init => SigInv /\ TailInv /\ TailCursorCovers
  BY SMT DEF Init, SigInv, TailInv, TailCursorCovers, NoTail, Resting, Down
<1>2. Shape /\ SigInv /\ TailInv /\ TailCursorCovers /\ [Next]_vars
        => Shape' /\ SigInv' /\ TailInv' /\ TailCursorCovers'
  BY CutsCount, ShapeStep, TailStep
<1> QED
  BY <1>1, <1>2, ShapeInit, PTL DEF Spec

-----------------------------------------------------------------------------
(* Bursts and the cut.                                                     *)

LEMMA LeastNat ==
  ASSUME NEW S \in SUBSET Nat, S # {}
  PROVE  \E m \in S : \A y \in S : m <= y
<1>1. PICK m \in S : \A y \in S : ~(<<y, m>> \in OpToRel(<, Nat))
  BY NatLessThanWellFounded, WFMin
<1>2. ASSUME NEW y \in S PROVE m <= y
  <2>1. m \in Nat /\ y \in Nat
    OBVIOUS
  <2>2. ~(y < m)
    BY <1>1, <2>1 DEF OpToRel
  <2> QED
    BY <2>1, <2>2, SMT
<1> QED
  BY <1>2

LEMMA GreatestNat ==
  ASSUME NEW S \in SUBSET Nat, S # {}, NEW n \in Int, \A y \in S : y <= n
  PROVE  Max(S) \in S /\ \A y \in S : y <= Max(S)
<1> DEFINE U == {k \in Nat : \A y \in S : y <= k}
<1>1. n \in U
  <2>1. PICK y \in S : TRUE
    OBVIOUS
  <2> QED
    BY <2>1, SMT
<1>2. PICK m \in U : \A k \in U : m <= k
  BY <1>1, LeastNat
<1>3. m \in S
  <2>1. SUFFICES ASSUME m \notin S PROVE FALSE
    OBVIOUS
  <2>2. PICK y \in S : TRUE
    OBVIOUS
  <2>3. m - 1 \in U
    BY <2>1, <2>2, SMT
  <2> QED
    BY <1>2, <2>3, SMT
<1>4. \E x \in S : \A y \in S : x >= y
  BY <1>2, <1>3
<1>5. Max(S) \in S /\ \A y \in S : Max(S) >= y
  BY <1>4 DEF Max
<1> QED
  BY <1>5

LEMMA LeastIs ==
  ASSUME NEW S \in SUBSET Nat, S # {}
  PROVE  Min(S) \in S /\ \A y \in S : Min(S) <= y
BY LeastNat DEF Min

-----------------------------------------------------------------------------
LEMMA ChainPart ==
  ASSUME NEW f, NEW x \in Int, NEW y \in Int, NEW a \in Int, NEW b \in Int,
         Chained(f, x, y), x <= a, b <= y
  PROVE  Chained(f, a, b)
BY SMT DEF Chained

LEMMA ChainJoin ==
  ASSUME NEW f, NEW x \in Int, NEW y \in Int, NEW z \in Int, y \in member[f],
         Chained(f, x, y), Chained(f, y, z)
  PROVE  Chained(f, x, z)
<1> SUFFICES ASSUME NEW w \in x .. z - MaxGap PROVE \E v \in w .. w + MaxGap : v \in member[f]
  BY DEF Chained
<1>1. CASE w <= y - MaxGap
  <2>1. w \in x .. y - MaxGap
    BY <1>1, SMT
  <2> QED
    BY <2>1 DEF Chained
<1>2. CASE w >= y
  <2>1. w \in y .. z - MaxGap
    BY <1>2, SMT
  <2> QED
    BY <2>1 DEF Chained
<1>3. CASE w > y - MaxGap /\ w < y
  BY <1>3, SMT
<1> QED
  BY <1>1, <1>2, <1>3, SMT

LEMMA ChainStep ==
  ASSUME NEW f, NEW x \in Int, NEW y \in Int, x \in member[f], y \in member[f],
         x < y, y <= x + MaxGap + 1
  PROVE  Chained(f, x, y)
<1> SUFFICES ASSUME NEW w \in x .. y - MaxGap PROVE \E v \in w .. w + MaxGap : v \in member[f]
  BY DEF Chained
<1>1. CASE w = x
  BY <1>1, SMT
<1>2. CASE w > x
  BY <1>2, SMT
<1> QED
  BY <1>1, <1>2, SMT

LEMMA ChainSelf ==
  ASSUME NEW f, NEW x \in Int, x \in member[f]
  PROVE  Chained(f, x, x)
BY SMT DEF Chained

\* A run of the lines lo .. hi: it begins at s and ends at e.
Stretch(f, lo, hi, s, e) ==
    /\ s \in Anchors(f, lo, hi) /\ e \in member[f] \cap (s .. hi) /\ Chained(f, s, e)
    /\ \A z \in member[f] \cap (s .. hi) : Chained(f, s, z) => z <= e

LEMMA RunIs ==
  ASSUME NEW f, NEW lo \in Int, NEW hi \in Int, member[f] \subseteq Nat,
         NEW s \in Anchors(f, lo, hi)
  PROVE  \E e : Stretch(f, lo, hi, s, e) /\ Run(f, hi, s) = member[f] \cap (s .. e)
<1> DEFINE ends == {e \in member[f] \cap (s .. hi) : Chained(f, s, e)}
<1>1. s \in member[f] /\ s \in Nat /\ s <= hi
  BY SMT DEF Anchors
<1>2. s \in ends
  BY <1>1, ChainSelf, SMT
<1>3. ends \in SUBSET Nat /\ \A y \in ends : y <= hi
  BY <1>1, SMT
<1>4. Max(ends) \in ends /\ \A y \in ends : y <= Max(ends)
  BY <1>2, <1>3, GreatestNat
<1>5. Run(f, hi, s) = member[f] \cap (s .. Max(ends))
  BY DEF Run
<1> DEFINE e == Max(ends)
<1>6. e \in ends /\ (\A y \in ends : y <= e) /\ Run(f, hi, s) = member[f] \cap (s .. e)
  BY <1>4, <1>5
<1> HIDE DEF e
<1>7. Stretch(f, lo, hi, s, e)
  BY <1>6 DEF Stretch
<1> QED
  BY <1>6, <1>7

LEMMA RunOf ==
  ASSUME NEW f, NEW lo \in Int, NEW hi \in Int, member[f] \subseteq Nat,
         NEW s, NEW e, Stretch(f, lo, hi, s, e)
  PROVE  Run(f, hi, s) = member[f] \cap (s .. e)
<1>1. PICK d : Stretch(f, lo, hi, s, d) /\ Run(f, hi, s) = member[f] \cap (s .. d)
  BY RunIs, SMT DEF Stretch
<1>2. d <= e /\ e <= d /\ d \in Nat /\ e \in Nat
  BY <1>1 DEF Stretch
<1>3. d = e
  BY <1>2, SMT
<1> QED
  BY <1>1, <1>3

LEMMA BurstIs ==
  ASSUME NEW f, NEW lo \in Int, NEW hi \in Int, member[f] \subseteq Nat,
         NEW b \in Bursts(f, lo, hi)
  PROVE  \E s, e : /\ Stretch(f, lo, hi, s, e) /\ b = member[f] \cap (s .. e)
                   /\ Cardinality(b) >= BurstMin
<1>1. PICK s \in Anchors(f, lo, hi) : b = Run(f, hi, s) /\ Cardinality(b) >= BurstMin
  BY DEF Bursts
<1> QED
  BY <1>1, RunIs

LEMMA BurstOf ==
  ASSUME NEW f, NEW lo \in Int, NEW hi \in Int, member[f] \subseteq Nat,
         NEW s, NEW e, Stretch(f, lo, hi, s, e),
         Cardinality(member[f] \cap (s .. e)) >= BurstMin
  PROVE  member[f] \cap (s .. e) \in Bursts(f, lo, hi)
<1>1. s \in Anchors(f, lo, hi) /\ Run(f, hi, s) = member[f] \cap (s .. e)
  BY RunOf, SMT DEF Stretch
<1> QED
  BY <1>1 DEF Bursts

-----------------------------------------------------------------------------
\* No burst of the file reaches over the boundary before line c.
Clean(f, c) ==
    \A x, y \in member[f] :
        x < c /\ c <= y /\ Chained(f, x, y) => Cardinality(member[f] \cap (x .. y)) < BurstMin

LEMMA PartCard ==
  ASSUME NEW M \in SUBSET Nat, NEW s \in Nat, NEW e \in Nat, NEW x \in Nat, NEW y \in Nat,
         x <= s, e <= y, Cardinality(M \cap (s .. e)) >= BurstMin
  PROVE  /\ Cardinality(M \cap (x .. y)) \in Nat
         /\ Cardinality(M \cap (x .. y)) >= BurstMin
<1> DEFINE A == M \cap (s .. e)
           B == M \cap (x .. y)
<1>1. IsFiniteSet(x .. y)
  BY FS_Interval, SMT
<1>2. IsFiniteSet(B)
  BY <1>1, FS_Subset
<1>3. A \in SUBSET B
  BY SMT
<1>4. Cardinality(A) <= Cardinality(B) /\ IsFiniteSet(A)
  BY <1>2, <1>3, FS_Subset
<1>5. Cardinality(A) \in Nat /\ Cardinality(B) \in Nat
  BY <1>2, <1>4, FS_CardinalityType
<1> QED
  BY <1>4, <1>5, SMT

\* The bursts found between two clean boundaries are bursts of the whole file.
LEMMA BurstsBetween ==
  ASSUME NEW f, NEW lo \in Nat \ {0}, NEW last \in Nat, NEW n \in Nat, last <= n,
         member[f] \subseteq 1 .. n, Clean(f, lo), Clean(f, last + 1),
         NEW b \in Bursts(f, lo, last)
  PROVE  b \in Bursts(f, 1, n)
<1>0. member[f] \subseteq Nat /\ member[f] \in SUBSET Nat
  BY SMT
<1>1. PICK s, e : /\ Stretch(f, lo, last, s, e) /\ b = member[f] \cap (s .. e)
                  /\ Cardinality(b) >= BurstMin
  BY <1>0, BurstIs, SMT
<1>2. /\ s \in member[f] /\ e \in member[f] /\ s \in Nat /\ e \in Nat /\ lo <= s /\ s <= e
      /\ e <= last /\ Chained(f, s, e)
      /\ \A y \in s - MaxGap - 1 .. s - 1 : ~(y >= lo /\ y \in member[f])
      /\ \A z \in member[f] \cap (s .. last) : Chained(f, s, z) => z <= e
  BY <1>0, <1>1, SMT DEF Stretch, Anchors
<1>a. Cardinality(member[f] \cap (s .. e)) >= BurstMin
  BY <1>1
<1>3. ASSUME NEW y \in s - MaxGap - 1 .. s - 1, y \in member[f] PROVE FALSE
  <2>1. y < lo /\ y \in Nat /\ y < s /\ s <= y + MaxGap + 1
    BY <1>0, <1>2, <1>3, SMT
  <2>2. Chained(f, y, s)
    BY <1>2, <1>3, <2>1, ChainStep, SMT
  <2>3. Chained(f, y, e)
    BY <1>2, <2>1, <2>2, ChainJoin, SMT
  <2>4. Cardinality(member[f] \cap (y .. e)) < BurstMin
    BY <1>2, <1>3, <2>1, <2>3, SMT DEF Clean
  <2>5. /\ Cardinality(member[f] \cap (y .. e)) \in Nat
        /\ Cardinality(member[f] \cap (y .. e)) >= BurstMin
    <3>1. e <= e /\ y <= s
      BY <1>2, <2>1, SMT
    <3> QED
      BY <1>0, <1>a, <1>2, <2>1, <3>1, PartCard
  <2> QED
    BY <2>4, <2>5, SMT
<1>4. ASSUME NEW z \in member[f] \cap (s .. n), Chained(f, s, z), ~(z <= e) PROVE FALSE
  <2>1. z \in Nat /\ e < z /\ z >= last + 1
    BY <1>0, <1>2, <1>4, SMT
  <2>2. Cardinality(member[f] \cap (s .. z)) < BurstMin
    BY <1>2, <1>4, <2>1, SMT DEF Clean
  <2>3. /\ Cardinality(member[f] \cap (s .. z)) \in Nat
        /\ Cardinality(member[f] \cap (s .. z)) >= BurstMin
    <3>1. s <= s /\ e <= z
      BY <1>2, <2>1, SMT
    <3> QED
      BY <1>0, <1>a, <1>2, <2>1, <3>1, PartCard
  <2> QED
    BY <2>2, <2>3, SMT
<1>5. s \in Anchors(f, 1, n)
  BY <1>2, <1>3 DEF Anchors
<1>6. Stretch(f, 1, n, s, e)
  BY <1>2, <1>4, <1>5, SMT DEF Stretch
<1> QED
  BY <1>0, <1>1, <1>6, BurstOf, SMT

-----------------------------------------------------------------------------
\* The lines before every burst of lo .. hi that reaches beyond `last`.
Before(f, lo, hi, last) ==
    {x \in lo .. last : \A b \in {b \in Bursts(f, lo, hi) : Max(b) > last} : \A y \in b : x < y}

LEMMA CutIs ==
  ASSUME NEW f, member[f] \subseteq Nat, NEW lo \in Nat \ {0}, NEW hi \in Nat,
         ~(hi - lo + 1 <= CarryLines), NEW last \in Int, last = hi - CarryLines
  PROVE  /\ Cut(f, lo, hi) \in lo .. last + 1
         /\ Before(f, lo, hi, last) = lo .. Cut(f, lo, hi) - 1
<1> DEFINE cut == Cut(f, lo, hi)
           T == Before(f, lo, hi, last)
<1>1. cut = lo + Cardinality(T)
  BY DEF Cut, Before
<1>2. lo <= last
  BY SMT
<1>3. \A x \in T, w \in lo .. last : w <= x => w \in T
  <2> SUFFICES ASSUME NEW x \in T, NEW w \in lo .. last, w <= x,
                      NEW b \in Bursts(f, lo, hi), Max(b) > last, NEW y \in b
               PROVE  w < y
    BY DEF Before
  <2>1. y \in Nat
    BY BurstsType
  <2>2. x < y /\ x \in lo .. last
    BY DEF Before
  <2> QED
    BY <2>1, <2>2, SMT
<1>4. T \subseteq lo .. last
  BY DEF Before
<1> SUFFICES cut \in lo .. last + 1 /\ T = lo .. cut - 1
  OBVIOUS
<1> HIDE DEF cut, T
<1>5. CASE T = {}
  BY <1>1, <1>2, <1>5, FS_EmptySet, SMT
<1>6. CASE T # {}
  <2>1. T \in SUBSET Nat /\ \A y \in T : y <= last
    BY <1>4, SMT
  <2>2. PICK m \in T : \A y \in T : y <= m
    BY <1>6, <2>1, GreatestNat
  <2>3. T = lo .. m /\ m \in Nat /\ lo <= m /\ m <= last
    <3>1. m \in lo .. last /\ m \in Nat
      BY <1>4, <2>1, <2>2
    <3>2. ASSUME NEW w \in lo .. m PROVE w \in T
      BY <1>3, <2>2, <3>1, SMT
    <3>3. ASSUME NEW w \in T PROVE w \in lo .. m
      BY <1>4, <2>2, <3>1, SMT
    <3>4. T = lo .. m
      BY <3>2, <3>3
    <3> QED
      BY <3>1, <3>4, SMT
  <2>4. Cardinality(T) = m - lo + 1
    BY <2>3, FS_Interval, SMT
  <2> QED
    BY <1>1, <2>3, <2>4, SMT
<1> QED
  BY <1>5, <1>6

LEMMA NoAnchorInside ==
  ASSUME NEW f, NEW lo \in Int, NEW hi \in Int, NEW x \in Int, NEW y \in Int, NEW s \in Int,
         x \in member[f], lo <= x, Chained(f, x, y), x < s, s <= y, s \in Anchors(f, lo, hi)
  PROVE  FALSE
<1>1. \A v \in s - MaxGap - 1 .. s - 1 : ~(v >= lo /\ v \in member[f])
  BY DEF Anchors
<1>2. CASE s - MaxGap - 1 <= x
  BY <1>1, <1>2, SMT
<1>3. CASE x < s - MaxGap - 1
  <2>1. s - MaxGap - 1 \in x .. y - MaxGap
    BY <1>3, SMT
  <2>2. PICK v \in s - MaxGap - 1 .. s - MaxGap - 1 + MaxGap : v \in member[f]
    BY <2>1 DEF Chained
  <2> QED
    BY <1>1, <1>3, <2>2, SMT
<1> QED
  BY <1>2, <1>3, SMT

LEMMA RunThrough ==
  ASSUME NEW f, NEW lo \in Nat, NEW hi \in Nat, member[f] \subseteq Nat,
         NEW x \in member[f], lo <= x, x <= hi
  PROVE  \E s, e : /\ Stretch(f, lo, hi, s, e) /\ s \in lo .. x /\ Chained(f, s, x)
<1> DEFINE Z == {z \in member[f] \cap (lo .. x) : Chained(f, z, x)}
<1>0. x \in Nat
  OBVIOUS
<1>1. x \in Z
  BY <1>0, ChainSelf, SMT
<1>2. Z \in SUBSET Nat
  OBVIOUS
<1>3. PICK s \in Z : \A z \in Z : s <= z
  BY <1>1, <1>2, LeastNat
<1>4. s \in Nat /\ s \in lo .. x /\ s \in member[f] /\ Chained(f, s, x)
  BY <1>2, <1>3
<1>5. ASSUME NEW y \in s - MaxGap - 1 .. s - 1, y >= lo, y \in member[f] PROVE FALSE
  <2>1. Chained(f, y, s)
    BY <1>4, <1>5, ChainStep, SMT
  <2>2. Chained(f, y, x)
    BY <1>0, <1>4, <2>1, ChainJoin, SMT
  <2>3. y \in Z
    BY <1>0, <1>4, <1>5, <2>2, SMT
  <2> QED
    BY <1>3, <1>4, <1>5, <2>3, SMT
<1>6. s \in Anchors(f, lo, hi)
  BY <1>0, <1>4, <1>5, SMT DEF Anchors
<1> QED
  BY <1>4, <1>6, RunIs, SMT

LEMMA TimesMono ==
  ASSUME NEW j \in Nat, NEW k \in Nat, NEW g \in Nat, j <= k
  PROVE  j * g \in Nat /\ k * g \in Nat /\ j * g <= k * g
BY SMT

\* A chain through the whole carried tail has enough members there, with the
\* line it starts from, for a burst.
LEMMA CarryHoldsBurst ==
  ASSUME NEW f, NEW hi \in Nat, NEW x \in Nat, NEW y \in Nat, member[f] \subseteq Nat,
         x \in member[f], Chained(f, x, y), hi < y, x <= hi - CarryLines
  PROVE  /\ Cardinality(member[f] \cap (x .. hi)) >= BurstMin
         /\ \E z \in member[f] : hi - CarryLines < z /\ z <= hi
<1> DEFINE g == MaxGap + 1
           at(k) == hi - CarryLines + 1 + (k - 1) * g
           K == 1 .. BurstMin - 1
           v == [k \in K |-> CHOOSE z \in at(k) .. at(k) + MaxGap : z \in member[f]]
           D == member[f] \cap (x .. hi)
<1>0. g \in Nat /\ BurstMin - 1 \in Nat /\ BurstMin - 1 >= 1
      /\ CarryLines >= (BurstMin - 1) * g
  BY SMT DEF CarryAssumption
<1>1. ASSUME NEW k \in K PROVE /\ (k - 1) * g \in Nat /\ at(k) \in Int
                               /\ hi - CarryLines < at(k) /\ at(k) + MaxGap <= hi
  <2>1. k \in Nat /\ k - 1 \in Nat /\ k <= BurstMin - 1
    BY <1>0, SMT
  <2>2. (k - 1) * g \in Nat /\ k * g <= (BurstMin - 1) * g /\ (BurstMin - 1) * g \in Nat
    BY <1>0, <2>1, TimesMono, SMT
  <2>3. k * g = (k - 1) * g + g
    BY <1>0, <2>1, SMT
  <2> HIDE DEF g
  <2>4. g = MaxGap + 1
    BY DEF g
  <2> QED
    BY <1>0, <2>2, <2>3, <2>4, SMT
<1>2. ASSUME NEW k \in K
      PROVE  /\ v[k] \in at(k) .. at(k) + MaxGap /\ v[k] \in member[f]
  <2>1. at(k) \in x .. y - MaxGap
    BY <1>1, SMT
  <2>2. \E z \in at(k) .. at(k) + MaxGap : z \in member[f]
    BY <2>1 DEF Chained
  <2> HIDE DEF at
  <2> QED
    BY <2>2
<1>3. ASSUME NEW j \in K, NEW k \in K, j < k PROVE v[j] < v[k]
  <2>1. j \in Nat /\ j - 1 \in Nat /\ k - 1 \in Nat /\ j <= k - 1
    BY <1>3, SMT
  <2>2. j * g \in Nat /\ j * g <= (k - 1) * g
    BY <1>0, <2>1, TimesMono
  <2>3. j * g = (j - 1) * g + g
    BY <1>0, <2>1, SMT
  <2> HIDE DEF g, v, K
  <2>4. g = MaxGap + 1
    BY DEF g
  <2>5. at(j) + MaxGap < at(k)
    BY <1>1, <2>2, <2>3, <2>4, SMT
  <2>6. at(j) \in Int /\ at(k) \in Int
    BY <1>1
  <2> HIDE DEF at
  <2> QED
    BY <1>2, <2>5, <2>6, SMT
<1>4. ASSUME NEW k \in K PROVE v[k] \in Nat /\ hi - CarryLines < v[k] /\ v[k] <= hi
  <2>1. at(k) \in Int /\ hi - CarryLines < at(k) /\ at(k) + MaxGap <= hi
    BY <1>1
  <2> HIDE DEF at, v
  <2> QED
    BY <1>2, <2>1, SMT
<1> DEFINE h == [k \in 1 .. BurstMin |-> IF k = BurstMin THEN x ELSE v[k]]
<1> HIDE DEF v
<1>5. \A k \in 1 .. BurstMin : k = BurstMin \/ k \in K
  BY SMT
<1>6. h \in [1 .. BurstMin -> D]
  <2> SUFFICES ASSUME NEW k \in 1 .. BurstMin PROVE (IF k = BurstMin THEN x ELSE v[k]) \in D
    OBVIOUS
  <2> HIDE DEF K
  <2> QED
    BY <1>2, <1>4, <1>5, SMT
<1>7. \A j, k \in 1 .. BurstMin : h[j] = h[k] => j = k
  <2> SUFFICES ASSUME NEW j \in 1 .. BurstMin, NEW k \in 1 .. BurstMin, j < k PROVE h[j] # h[k]
    BY SMT
  <2>1. j \in K /\ h[j] = v[j] /\ v[j] \in Nat /\ hi - CarryLines < v[j]
    BY <1>4, SMT
  <2>2. CASE k = BurstMin
    BY <2>1, <2>2, SMT
  <2>3. CASE k # BurstMin
    BY <1>3, <1>4, <2>1, <2>3, SMT
  <2> QED
    BY <2>2, <2>3
<1>8. IsFiniteSet(x .. hi)
  BY FS_Interval, SMT
<1>9. IsFiniteSet(D)
  BY <1>8, FS_Subset
<1>10. h \in Injection(1 .. BurstMin, D)
  BY <1>6, <1>7 DEF Injection, IsInjective
<1>11. Cardinality(1 .. BurstMin) = BurstMin
  BY FS_Interval, SMT
<1>12. Cardinality(1 .. BurstMin) <= Cardinality(D)
  BY <1>9, <1>10, FS_Injection, SMT
<1>13. Cardinality(D) >= BurstMin
  BY <1>9, <1>11, <1>12, FS_CardinalityType
<1>14. 1 \in K
  BY <1>0, SMT
<1> HIDE DEF K, h
<1> QED
  BY <1>2, <1>4, <1>13, <1>14

\* The cut keeps the boundary clean: carry_boundary splits no burst.
LEMMA CutClean ==
  ASSUME NEW f, NEW lo \in Nat \ {0}, NEW hi \in Nat, member[f] \subseteq Nat, Clean(f, lo)
  PROVE  Clean(f, Cut(f, lo, hi))
<1> DEFINE last == hi - CarryLines
           cut == Cut(f, lo, hi)
           M == member[f]
<1>1. CASE hi - lo + 1 <= CarryLines
  BY <1>1 DEF Cut
<1>2. CASE ~(hi - lo + 1 <= CarryLines)
  <2>1. last \in Int /\ lo <= last
    BY <1>2, SMT
  <2>2. cut \in lo .. last + 1 /\ Before(f, lo, hi, last) = lo .. cut - 1
    BY <1>2, <2>1, CutIs
  <2> SUFFICES ASSUME NEW x \in M, NEW y \in M, x < cut, cut <= y, Chained(f, x, y),
                      ~(Cardinality(M \cap (x .. y)) < BurstMin)
               PROVE  FALSE
    BY DEF Clean
  <2>3. x \in Nat /\ y \in Nat /\ cut \in Nat /\ x <= last
    BY <2>1, <2>2, SMT
  <2>4. Cardinality(M \cap (x .. y)) >= BurstMin
    <3>1. IsFiniteSet(x .. y)
      BY <2>3, FS_Interval, SMT
    <3>2. Cardinality(M \cap (x .. y)) \in Nat
      BY <3>1, FS_Subset, FS_CardinalityType
    <3> QED
      BY <3>2, SMT
  <2>5. lo <= x
    <3> SUFFICES ASSUME x < lo PROVE FALSE
      BY <2>3, SMT
    <3>1. lo <= y
      BY <2>2, <2>3, SMT
    <3>2. Cardinality(M \cap (x .. y)) < BurstMin
      BY <3>1 DEF Clean
    <3> QED
      BY <3>2
  <2> HIDE DEF cut, last
  <2>6. \A b \in Bursts(f, lo, hi) : Max(b) > last => \A z \in b : x < z
    <3>1. x \in Before(f, lo, hi, last)
      BY <2>2, <2>3, <2>5, SMT
    <3> QED
      BY <3>1 DEF Before
  <2>7. x <= hi
    BY <2>3, SMT DEF last
  <2>8. PICK s, e : Stretch(f, lo, hi, s, e) /\ s \in lo .. x /\ Chained(f, s, x)
    BY <2>3, <2>5, <2>7, RunThrough
  <2>9. /\ s \in Nat /\ e \in M /\ e \in Nat /\ s <= x /\ e <= hi
        /\ \A z \in M \cap (s .. hi) : Chained(f, s, z) => z <= e
    BY <2>8, SMT DEF Stretch
  <2>10. ASSUME NEW z \in M, x <= z, z <= y, z <= hi PROVE z <= e /\ z \in Nat
    <3>1. z \in Nat
      OBVIOUS
    <3>2. Chained(f, x, z)
      BY <2>3, <2>10, <3>1, ChainPart, SMT
    <3>3. Chained(f, s, z)
      BY <2>3, <2>8, <2>9, <3>1, <3>2, ChainJoin, SMT
    <3> QED
      BY <2>3, <2>9, <2>10, <3>1, <3>3, SMT
  <2>11. ASSUME Cardinality(M \cap (s .. e)) >= BurstMin, e > last PROVE FALSE
    <3> DEFINE b == M \cap (s .. e)
    <3>1. b \in Bursts(f, lo, hi)
      BY <2>8, <2>11, BurstOf, SMT
    <3>2. x <= e
      BY <2>3, <2>7, <2>10, SMT
    <3>3. x \in b /\ e \in b /\ b \in SUBSET Nat /\ \A z \in b : z <= e
      BY <2>3, <2>9, <3>2, SMT
    <3> HIDE DEF b
    <3>4. Max(b) \in b /\ e <= Max(b)
      <4>1. b # {} /\ e \in Int
        BY <2>9, <3>3, SMT
      <4> QED
        BY <3>3, <4>1, GreatestNat
    <3>a. Max(b) \in Nat /\ last \in Int /\ e \in Nat
      BY <2>1, <2>9, <3>3, <3>4
    <3>5. Max(b) > last
      BY <2>11, <3>4, <3>a, SMT
    <3>6. x < x
      BY <2>6, <3>1, <3>3, <3>5
    <3> QED
      BY <2>3, <3>6, SMT
  <2>12. CASE y <= hi
    <3>1. y <= e
      BY <2>3, <2>10, <2>12, SMT
    <3>2. Cardinality(M \cap (s .. e)) >= BurstMin
      BY <2>3, <2>4, <2>9, <3>1, PartCard
    <3>3. e <= last
      BY <2>1, <2>9, <2>11, <3>2, SMT
    <3>4. y \notin Before(f, lo, hi, last)
      BY <2>2, <2>3, SMT
    <3>5. y \in lo .. last
      BY <2>1, <2>3, <2>9, <2>5, <3>1, <3>3, SMT
    <3>6. PICK b \in Bursts(f, lo, hi) : Max(b) > last /\ \E z \in b : ~(y < z)
      BY <3>4, <3>5 DEF Before
    <3>7. PICK t, d : Stretch(f, lo, hi, t, d) /\ b = M \cap (t .. d)
      BY BurstIs, SMT
    <3>a. PICK z \in b : ~(y < z)
      BY <3>6
    <3>8. /\ t \in Anchors(f, lo, hi) /\ t \in b /\ t \in Nat /\ z \in Nat /\ t <= z
      BY <3>6, <3>7, SMT DEF Stretch, Anchors
    <3>9. x < t /\ t <= y
      BY <2>3, <2>6, <3>6, <3>a, <3>8, SMT
    <3> QED
      BY <2>3, <2>5, <3>8, <3>9, NoAnchorInside, SMT
  <2>13. CASE hi < y
    <3>1. /\ Cardinality(M \cap (x .. hi)) >= BurstMin
          /\ \E z \in M : last < z /\ z <= hi
      BY <2>3, <2>13, CarryHoldsBurst DEF last
    <3>2. PICK z \in M : last < z /\ z <= hi
      BY <3>1
    <3>3. z \in Nat /\ x <= z /\ z <= y
      BY <2>1, <2>3, <2>13, <3>2, SMT
    <3>4. e > last
      BY <2>1, <2>9, <2>10, <3>2, <3>3, SMT
    <3>5. M \cap (x .. hi) = M \cap (x .. e)
      <4>1. ASSUME NEW w \in M, w \in x .. hi PROVE w \in x .. e
        BY <2>3, <2>9, <2>10, <2>13, <4>1, SMT
      <4>2. ASSUME NEW w \in M, w \in x .. e PROVE w \in x .. hi
        BY <2>3, <2>9, <4>2, SMT
      <4> QED
        BY <4>1, <4>2
    <3>6. Cardinality(M \cap (s .. e)) >= BurstMin
      <4>1. Cardinality(M \cap (x .. e)) >= BurstMin
        BY <3>1, <3>5
      <4>2. M \in SUBSET Nat /\ e <= e
        BY <2>9, SMT
      <4> HIDE DEF M
      <4> QED
        BY <2>3, <2>9, <4>1, <4>2, PartCard
    <3> QED
      BY <2>11, <3>4, <3>6
  <2> QED
    BY <2>3, <2>12, <2>13, SMT
<1> QED
  BY <1>1, <1>2

-----------------------------------------------------------------------------
(* Chunking splits no burst.                                               *)

\* A file of logbackups: nobody writes it any more.
Archived(f) == f \in 1 .. made /\ f # live

\* Where files are: an archive's cursor is at its start or at its end, and the
\* backfill visits archives only.
PlaceInv ==
    /\ live <= made /\ part \subseteq 1 .. made
    /\ \A f \in Files : member[f] \subseteq 1 .. size[f]
    /\ \A f \in Files : filed[f] = 0 \/ (Archived(f) /\ filed[f] = size[f])
    /\ \A f \in fill.queue : Archived(f)

\* What is flushed ends at a clean boundary, and its bursts are the file's.
ReadInv ==
    fill.pc \in {"read", "last"} =>
        /\ Archived(fill.f) /\ fill.lo <= fill.off + 1 /\ fill.off <= size[fill.f]
        /\ fill.pc = "last" => fill.off = size[fill.f]
        /\ Clean(fill.f, fill.lo)
        /\ fill.bursts \subseteq Bursts(fill.f, 1, size[fill.f])

LEMMA ArchivedStays ==
  ASSUME Shape, PlaceInv, [Next]_vars, NEW f, Archived(f)
  PROVE  f \in Files /\ Archived(f)' /\ size'[f] = size[f] /\ member'[f] = member[f]
<1>0. f \in Files /\ size \in [Files -> Nat] /\ member \in [Files -> SUBSET Nat]
  BY SMT DEF Shape, DiskShape, Archived
<1>1. CASE CreateLog
  BY <1>0, <1>1, SMT DEF CreateLog, Archived, Shape, DiskShape
<1>2. CASE WriteLine
  BY <1>0, <1>2 DEF WriteLine, Archived
<1>3. CASE Rotate
  BY <1>0, <1>3, SMT DEF Rotate, Archived
<1>4. CASE UNCHANGED <<size, member, made, live>>
  BY <1>0, <1>4 DEF Archived
<1>5. CreateLog \/ WriteLine \/ Rotate \/ UNCHANGED <<size, member, made, live>>
  BY DEF Next, Game, Drain, Backfill, Failure, WritePart, Start, Stop,
         DrainOpen, DrainRead, DrainReadFails, DrainProcess, DrainCommit,
         DrainCommitFails, Discover, BackfillOpen, BackfillRead, BackfillReadFails,
         BackfillProcess, BackfillCommit, BackfillCommitFails, vars
<1> QED
  BY <1>1, <1>2, <1>3, <1>4, <1>5

LEMMA BurstsStay ==
  ASSUME NEW f, member'[f] = member[f], NEW lo, NEW hi
  PROVE  Bursts(f, lo, hi)' = Bursts(f, lo, hi) /\ (Clean(f, lo) => Clean(f, lo)')
<1>1. \A a, b : Chained(f, a, b)' <=> Chained(f, a, b)
  BY DEF Chained
<1>2. \A s : Run(f, hi, s)' = Run(f, hi, s)
  BY <1>1 DEF Run
<1>3. Anchors(f, lo, hi)' = Anchors(f, lo, hi)
  BY DEF Anchors
<1>4. Bursts(f, lo, hi)' = Bursts(f, lo, hi)
  BY <1>2, <1>3 DEF Bursts
<1> QED
  BY <1>1, <1>4 DEF Clean

\* A row as the backfill may have written it.
WholeRow(r) ==
    r.src = "fill" =>
        Archived(r.f) /\ (Cardinality(r.lines) > 1 => r.lines \in Bursts(r.f, 1, size[r.f]))

LEMMA RowStays ==
  ASSUME Shape, PlaceInv, [Next]_vars, NEW r, WholeRow(r)
  PROVE  WholeRow(r)'
<1>1. CASE r.src # "fill"
  BY <1>1 DEF WholeRow
<1>2. CASE r.src = "fill"
  <2>0. PICK f : f = r.f
    OBVIOUS
  <2>1. Archived(f) /\ (Cardinality(r.lines) > 1 => r.lines \in Bursts(f, 1, size[f]))
    BY <1>2, <2>0 DEF WholeRow
  <2>2. Archived(f)' /\ size'[f] = size[f] /\ member'[f] = member[f]
    BY <2>1, ArchivedStays
  <2>3. PICK n : n = size[f]
    OBVIOUS
  <2>4. Bursts(f, 1, n)' = Bursts(f, 1, n)
    BY <2>2, BurstsStay
  <2> QED
    BY <1>2, <2>0, <2>1, <2>2, <2>3, <2>4 DEF WholeRow
<1> QED
  BY <1>1, <1>2

LEMMA RowsStay ==
  ASSUME Shape, PlaceInv, [Next]_vars, \A r \in events : WholeRow(r),
         \A r \in events' \ events : WholeRow(r)
  PROVE  \A r \in events' : WholeRow(r)'
BY RowStays

LEMMA PlaceStep ==
  ASSUME Shape, PlaceInv, ReadInv, [Next]_vars
  PROVE  PlaceInv'
<1>0. /\ size \in [Files -> Nat] /\ member \in [Files -> SUBSET Nat] /\ made \in 0 .. MaxFiles
      /\ live \in 0 .. MaxFiles /\ filed \in [Files -> Nat] /\ fill \in FillType
      /\ fill.queue \subseteq Files
  BY DEF Shape, DiskShape, StoreShape, FillShape, FillType
<1>1. /\ live' <= made' /\ part' \subseteq 1 .. made'
  <2>1. CASE CreateLog
    BY <1>0, <2>1, SMT DEF CreateLog, PlaceInv
  <2>2. CASE WritePart \/ WriteLine
    <3>1. /\ part' = part \cup {live} \/ part' = part \ {live}
          /\ UNCHANGED <<live, made>> /\ (part' = part \cup {live} => live # 0)
      BY <1>0, <2>2 DEF WritePart, WriteLine, PlaceInv
    <3>2. live <= made /\ part \subseteq 1 .. made
      BY DEF PlaceInv
    <3>3. CASE part' = part \ {live}
      BY <3>1, <3>2, <3>3
    <3>4. CASE part' = part \cup {live} /\ live # 0
      <4>1. live \in 1 .. made
        BY <1>0, <3>2, <3>4, SMT
      <4> QED
        BY <3>1, <3>2, <3>4, <4>1
    <3> QED
      BY <3>1, <3>3, <3>4
  <2>3. CASE Rotate
    BY <1>0, <2>3, SMT DEF Rotate, PlaceInv
  <2>4. CASE UNCHANGED <<part, made, live>>
    BY <2>4 DEF PlaceInv
  <2>5. CreateLog \/ WritePart \/ WriteLine \/ Rotate \/ UNCHANGED <<part, made, live>>
    BY DEF Next, Game, Drain, Backfill, Failure, Start, Stop,
         DrainOpen, DrainRead, DrainReadFails, DrainProcess, DrainCommit,
         DrainCommitFails, Discover, BackfillOpen, BackfillRead, BackfillReadFails,
         BackfillProcess, BackfillCommit, BackfillCommitFails, vars
  <2> QED
    BY <2>1, <2>2, <2>3, <2>4, <2>5
<1>2. \A f \in Files : member'[f] \subseteq 1 .. size'[f]
  <2>1. CASE WriteLine
    <3>1. live \in Files /\ size[live] \in Nat /\ member[live] \subseteq 1 .. size[live]
      BY <1>0, <2>1, SMT DEF WriteLine, PlaceInv
    <3>2. /\ size' = [size EXCEPT ![live] = size[live] + 1]
          /\ \E m \in {{}, {size[live] + 1}} : member' = [member EXCEPT ![live] = member[live] \cup m]
      BY <2>1 DEF WriteLine
    <3>3. PICK m \in {{}, {size[live] + 1}} : member' = [member EXCEPT ![live] = member[live] \cup m]
      BY <3>2
    <3> SUFFICES ASSUME NEW f \in Files PROVE member'[f] \subseteq 1 .. size'[f]
      OBVIOUS
    <3>4. CASE f = live
      <4>1. size'[f] = size[live] + 1 /\ member'[f] = member[live] \cup m
        BY <1>0, <3>2, <3>3, <3>4
      <4> QED
        BY <3>1, <4>1, SMT
    <3>5. CASE f # live
      BY <1>0, <3>2, <3>3, <3>5 DEF PlaceInv
    <3> QED
      BY <3>4, <3>5
  <2>2. CASE UNCHANGED <<size, member>>
    BY <2>2 DEF PlaceInv
  <2>3. WriteLine \/ UNCHANGED <<size, member>>
    BY DEF Next, Game, Drain, Backfill, Failure, CreateLog, WritePart, Rotate, Start, Stop,
         DrainOpen, DrainRead, DrainReadFails, DrainProcess, DrainCommit,
         DrainCommitFails, Discover, BackfillOpen, BackfillRead, BackfillReadFails,
         BackfillProcess, BackfillCommit, BackfillCommitFails, vars
  <2> QED
    BY <2>1, <2>2, <2>3
<1>3. ASSUME NEW f \in Files PROVE filed'[f] = 0 \/ (Archived(f)' /\ filed'[f] = size'[f])
  <2>1. CASE BackfillCommit
    <3>1. /\ fill.pc = "last" /\ filed' = [filed EXCEPT ![fill.f] = fill.off]
          /\ Archived(fill.f) /\ fill.off = size[fill.f]
      BY <2>1 DEF BackfillCommit, ReadInv
    <3>2. CASE f = fill.f
      BY <1>0, <3>1, <3>2, ArchivedStays
    <3>3. CASE f # fill.f
      BY <1>0, <3>1, <3>3, ArchivedStays DEF PlaceInv
    <3> QED
      BY <3>2, <3>3
  <2>2. CASE UNCHANGED filed
    BY <2>2, ArchivedStays DEF PlaceInv
  <2>3. BackfillCommit \/ UNCHANGED filed
    BY DEF Next, Game, Drain, Backfill, Failure, CreateLog, WritePart, WriteLine, Rotate,
         Start, Stop, DrainOpen, DrainRead, DrainReadFails, DrainProcess, DrainCommit,
         DrainCommitFails, Discover, BackfillOpen, BackfillRead, BackfillReadFails,
         BackfillProcess, BackfillCommitFails, vars, stored
  <2> QED
    BY <2>1, <2>2, <2>3
<1>4. ASSUME NEW f \in fill'.queue PROVE Archived(f)'
  <2>1. CASE Discover
    BY <1>0, <2>1 DEF Discover, Scanning, Archived
  <2>2. CASE fill'.queue \subseteq fill.queue
    BY <2>2, ArchivedStays DEF PlaceInv
  <2>3. Discover \/ fill'.queue \subseteq fill.queue
    <3>1. CASE Game \/ Drain \/ DrainReadFails \/ DrainCommitFails \/ UNCHANGED vars
      BY <3>1 DEF Game, CreateLog, WritePart, WriteLine, Rotate, Drain, DrainOpen, DrainRead,
                  DrainProcess, DrainCommit, DrainReadFails, DrainCommitFails, vars
    <3>2. CASE Start \/ Stop \/ BackfillReadFails \/ BackfillCommitFails \/ BackfillCommit
      BY <3>2, SMTT(25) DEF Start, Stop, BackfillReadFails, BackfillCommitFails, BackfillCommit, Scanning
    <3>3. ASSUME NEW g \in Files, BackfillOpen(g) PROVE fill'.queue \subseteq fill.queue
      BY <3>3 DEF BackfillOpen, Scanning
    <3>4. CASE BackfillRead
      BY <1>0, <3>4 DEF BackfillRead, Flush, FillType
    <3>5. CASE BackfillProcess
      BY <1>0, <3>5 DEF BackfillProcess, Collapse, KeepMembers, NextLine, FillType
    <3> QED
      BY <3>1, <3>2, <3>3, <3>4, <3>5 DEF Next, Backfill, Failure
  <2> QED
    BY <2>1, <2>2, <2>3
<1> QED
  BY <1>1, <1>2, <1>3, <1>4 DEF PlaceInv

LEMMA FirstIs ==
  ASSUME NEW sets, sets # {}, \A b \in sets : b \subseteq Nat /\ b # {}
  PROVE  First(sets) \in sets
<1> DEFINE K == {Min(b) : b \in sets}
<1>1. \A b \in sets : Min(b) \in Nat
  BY LeastIs
<1>2. K \in SUBSET Nat /\ K # {}
  BY <1>1
<1>3. PICK m \in K : \A k \in K : m <= k
  BY <1>2, LeastNat
<1>4. \E s \in sets : \A t \in sets : Min(s) <= Min(t)
  BY <1>3
<1> QED
  BY <1>4 DEF First

LEMMA FirstBurst ==
  ASSUME NEW f, member[f] \subseteq Nat, NEW lo \in Int, NEW hi \in Int,
         NEW sets \in SUBSET Bursts(f, lo, hi), sets # {}
  PROVE  First(sets) \in sets
<1>1. ASSUME NEW b \in sets PROVE b \subseteq Nat /\ b # {}
  <2>1. b \in Bursts(f, lo, hi)
    OBVIOUS
  <2>2. PICK s, e : Stretch(f, lo, hi, s, e) /\ b = member[f] \cap (s .. e)
    BY <2>1, BurstIs, SMT
  <2> QED
    BY <2>2, SMT DEF Stretch, Anchors
<1> QED
  BY <1>1, FirstIs

LEMMA ReadKept ==
  ASSUME Shape, PlaceInv, ReadInv, [Next]_vars,
         fill.pc \in {"read", "last"}, fill'.pc = fill.pc, fill'.f = fill.f,
         fill'.off = fill.off, fill'.lo = fill.lo, fill'.bursts \subseteq fill.bursts
  PROVE  ReadInv'
<1>0. PICK f, lo, n : f = fill.f /\ lo = fill.lo /\ n = size[f]
  OBVIOUS
<1>1. /\ Archived(f) /\ Clean(f, lo) /\ fill.bursts \subseteq Bursts(f, 1, n)
      /\ fill.lo <= fill.off + 1 /\ fill.off <= n /\ (fill.pc = "last" => fill.off = n)
  BY <1>0 DEF ReadInv
<1>2. Archived(f)' /\ size'[f] = n /\ member'[f] = member[f]
  BY <1>0, <1>1, ArchivedStays
<1>3. Bursts(f, 1, n)' = Bursts(f, 1, n) /\ Clean(f, lo)'
  BY <1>1, <1>2, BurstsStay
<1> QED
  BY <1>0, <1>1, <1>2, <1>3 DEF ReadInv

LEMMA ReadIdle ==
  ASSUME NEW pc \in {Down, "start", "scan"}, NEW queue, fill' = Scanning(pc, queue)
  PROVE  ReadInv'
BY DEF ReadInv, Scanning, Down

LEMMA CleanEnds ==
  ASSUME NEW f, NEW n \in Nat, member[f] \subseteq 1 .. n
  PROVE  Clean(f, 1) /\ Clean(f, n + 1)
BY SMT DEF Clean

LEMMA FlushRead ==
  ASSUME Shape, PlaceInv, ReadInv, [Next]_vars, fill.pc = "read",
         NEW pc \in {"read", "last"}, NEW off \in Nat, NEW last \in Nat,
         fill' = Flush(fill, pc, off, last), last <= off, off <= size[fill.f],
         pc = "last" => off = size[fill.f], Clean(fill.f, last + 1)
  PROVE  ReadInv'
<1>0. PICK f, n : f = fill.f /\ n = size[f]
  OBVIOUS
<1>1. /\ Archived(f) /\ Clean(f, fill.lo) /\ f \in Files /\ n \in Nat
      /\ member[f] \subseteq 1 .. n /\ fill \in FillType /\ fill.lo \in Nat \ {0}
  BY <1>0, SMT DEF ReadInv, Shape, DiskShape, FillShape, FillType, Archived, PlaceInv
<1>2. Archived(f)' /\ size'[f] = n /\ member'[f] = member[f]
  BY <1>0, <1>1, ArchivedStays
<1>3. Bursts(f, 1, n)' = Bursts(f, 1, n) /\ Clean(f, last + 1)'
  BY <1>0, <1>2, BurstsStay
<1>4. Bursts(f, fill.lo, last) \subseteq Bursts(f, 1, n)
  BY <1>0, <1>1, BurstsBetween, SMT
<1>5. /\ fill'.pc = pc /\ fill'.f = f /\ fill'.off = off /\ fill'.lo = last + 1
      /\ fill'.bursts = Bursts(f, fill.lo, last)
  BY <1>0, <1>1 DEF Flush, FillType
<1> QED
  BY <1>0, <1>2, <1>3, <1>4, <1>5, SMTT(25) DEF ReadInv

LEMMA ReadStep ==
  ASSUME Shape, PlaceInv, ReadInv, [Next]_vars
  PROVE  ReadInv'
<1>1. CASE Game \/ Drain \/ DrainReadFails \/ DrainCommitFails \/ UNCHANGED vars
  <2>1. UNCHANGED fill
    BY <1>1 DEF Game, CreateLog, WritePart, WriteLine, Rotate, Drain, DrainOpen, DrainRead,
                DrainProcess, DrainCommit, DrainReadFails, DrainCommitFails, vars
  <2>2. CASE fill.pc \in {"read", "last"}
    BY <2>1, <2>2, ReadKept
  <2> QED
    BY <2>1, <2>2 DEF ReadInv
<1>2. CASE Start \/ Stop \/ Discover \/ BackfillReadFails \/ BackfillCommitFails \/ BackfillCommit
  <2>1. \E pc \in {Down, "start", "scan"} : \E queue : fill' = Scanning(pc, queue)
    BY <1>2 DEF Start, Stop, Discover, BackfillReadFails, BackfillCommitFails, BackfillCommit
  <2> QED
    BY <2>1, ReadIdle
<1>3. ASSUME NEW f \in Files, BackfillOpen(f) PROVE ReadInv'
  <2> DEFINE rest == Scanning("scan", fill.queue \ {f})
  <2>1. CASE fill' = rest
    BY <2>1, ReadIdle
  <2>2. CASE fill' = [rest EXCEPT !.pc = "read", !.f = f, !.off = filed[f],
                                  !.lo = filed[f] + 1]
    <3>1. /\ fill'.pc = "read" /\ fill'.f = f /\ fill'.off = filed[f]
          /\ fill'.lo = filed[f] + 1 /\ fill'.bursts = {}
      BY <2>2 DEF Scanning
    <3>2. PICK n, c : n = size[f] /\ c = filed[f]
      OBVIOUS
    <3>3. /\ Archived(f) /\ n \in Nat /\ c \in {0, n} /\ member[f] \subseteq 1 .. n
      BY <1>3, <3>2 DEF BackfillOpen, PlaceInv, Shape, DiskShape
    <3>4. Archived(f)' /\ size'[f] = n /\ member'[f] = member[f]
      BY <3>2, <3>3, ArchivedStays
    <3>5. Clean(f, c + 1)
      <4>1. CASE c = 0
        <5>1. c + 1 = 1
          BY <4>1, SMT
        <5> QED
          BY <3>3, <5>1, CleanEnds
      <4>2. CASE c = n
        BY <3>3, <4>2, CleanEnds
      <4> QED
        BY <3>3, <4>1, <4>2
    <3>6. Clean(f, c + 1)'
      BY <3>4, <3>5, BurstsStay
    <3> QED
      BY <3>1, <3>2, <3>3, <3>4, <3>6, SMTT(25) DEF ReadInv
  <2> QED
    BY <1>3, <2>1, <2>2 DEF BackfillOpen
<1>4. CASE BackfillRead
  <2> DEFINE hi == fill.off + ChunkLines
             cut == Cut(fill.f, fill.lo, hi)
  <2>0. fill.pc = "read"
    BY <1>4 DEF BackfillRead
  <2>1. /\ fill.f \in Files /\ fill.lo \in Nat \ {0} /\ size[fill.f] \in Nat /\ hi \in Nat
        /\ member[fill.f] \subseteq 1 .. size[fill.f] /\ member[fill.f] \subseteq Nat
        /\ fill.off \in Nat /\ fill.lo <= fill.off + 1 /\ Clean(fill.f, fill.lo)
    BY <2>0, SMT DEF Shape, DiskShape, FillShape, FillType, PlaceInv, ReadInv
  <2>2. CASE hi <= size[fill.f] /\ fill' = Flush(fill, "read", hi, cut - 1)
    <3>1. cut \in Nat /\ cut >= fill.lo /\ cut <= hi + 1
      <4>1. CASE hi - fill.lo + 1 <= CarryLines
        BY <2>1, <4>1, SMT DEF Cut
      <4>2. CASE ~(hi - fill.lo + 1 <= CarryLines)
        <5>0. PICK last \in Int : last = hi - CarryLines
          BY <2>1, SMT
        <5>1. cut \in fill.lo .. last + 1
          <6> HIDE DEF hi
          <6> QED
            BY <2>1, <4>2, <5>0, CutIs
        <5> QED
          BY <2>1, <5>0, <5>1, SMT
      <4> QED
        BY <4>1, <4>2
    <3>2. Clean(fill.f, cut)
      BY <2>1, CutClean
    <3> HIDE DEF cut, hi
    <3>3. cut - 1 \in Nat /\ cut - 1 <= hi /\ (cut - 1) + 1 = cut
      BY <2>1, <3>1, SMT
    <3> QED
      BY <2>0, <2>1, <2>2, <3>2, <3>3, FlushRead
  <2>3. CASE fill' = Flush(fill, "last", size[fill.f], size[fill.f])
    <3>1. Clean(fill.f, size[fill.f] + 1)
      BY <2>1, CleanEnds
    <3>2. size[fill.f] <= size[fill.f]
      BY <2>1, SMT
    <3> QED
      BY <2>0, <2>1, <2>3, <3>1, <3>2, FlushRead
  <2> QED
    BY <1>4, <2>2, <2>3 DEF BackfillRead
<1>5. CASE BackfillProcess
  <2>1. fill \in FillType /\ fill.pc \in {"read", "last"}
    BY <1>5 DEF Shape, FillShape, BackfillProcess
  <2>2. PICK b : fill' \in {Collapse(fill, b), KeepMembers(fill, b), NextLine(fill)}
    BY <1>5 DEF BackfillProcess
  <2>3. fill'.pc = fill.pc /\ fill'.f = fill.f /\ fill'.off = fill.off /\ fill'.lo = fill.lo
    BY <2>1, <2>2 DEF Collapse, KeepMembers, NextLine, FillType
  <2>4. fill'.bursts \subseteq fill.bursts
    BY <2>1, <2>2 DEF Collapse, KeepMembers, NextLine, FillType
  <2> QED
    BY <2>1, <2>3, <2>4, ReadKept
<1> QED
  BY <1>1, <1>2, <1>3, <1>4, <1>5 DEF Next, Backfill, Failure

RowsInv == \A r \in events : WholeRow(r)

LEMMA InsertKeepsRows ==
  ASSUME Shape, PlaceInv, [Next]_vars, RowsInv, NEW row, Insert(row), WholeRow(row)
  PROVE  RowsInv'
<1>1. \A r \in events' : WholeRow(r)
  BY DEF Insert, RowsInv
<1> QED
  BY <1>1, RowStays DEF RowsInv

LEMMA EventsKeepRows ==
  ASSUME Shape, PlaceInv, [Next]_vars, RowsInv, UNCHANGED events
  PROVE  RowsInv'
BY RowStays DEF RowsInv

LEMMA RowsStep ==
  ASSUME Shape, PlaceInv, ReadInv, RowsInv, [Next]_vars
  PROVE  RowsInv'
<1>1. CASE DrainProcess
  <2>1. \A f, s : WholeRow(Row(f, s, "tail"))
    BY DEF WholeRow, Row
  <2> QED
    BY <1>1, <2>1, InsertKeepsRows, EventsKeepRows
       DEF DrainProcess, InsertSummary, InsertLine, SummaryFails, LineFails
<1>2. CASE BackfillProcess
  <2>1. /\ Archived(fill.f) /\ fill.bursts \subseteq Bursts(fill.f, 1, size[fill.f])
        /\ fill.f \in Files
    BY <1>2 DEF BackfillProcess, ReadInv, Shape, FillShape
  <2>2. size[fill.f] \in Int /\ member[fill.f] \subseteq Nat
    BY <2>1, SMT DEF Shape, DiskShape
  <2>3. ASSUME InsertSummary(fill, "fill") PROVE RowsInv'
    <3>1. First(fill.bursts) \in fill.bursts
      BY <2>1, <2>2, <2>3, FirstBurst, SMT DEF InsertSummary
    <3>2. WholeRow(Row(fill.f, First(fill.bursts), "fill"))
      BY <2>1, <3>1 DEF WholeRow, Row
    <3> QED
      BY <2>3, <3>2, InsertKeepsRows DEF InsertSummary
  <2>4. ASSUME InsertLine(fill, "fill") PROVE RowsInv'
    <3>1. Cardinality({Min(fill.todo)}) = 1
      BY FS_Singleton
    <3>2. WholeRow(Row(fill.f, {Min(fill.todo)}, "fill"))
      BY <2>1, <3>1, SMTT(25) DEF WholeRow, Row
    <3> QED
      BY <2>4, <3>2, InsertKeepsRows DEF InsertLine
  <2> QED
    BY <1>2, <2>3, <2>4, EventsKeepRows DEF BackfillProcess, SummaryFails, LineFails
<1>3. DrainProcess \/ BackfillProcess \/ UNCHANGED events
  BY DEF Next, Game, Drain, Backfill, Failure, CreateLog, WritePart, WriteLine, Rotate,
         Start, Stop, DrainOpen, DrainRead, DrainReadFails, DrainCommit,
         DrainCommitFails, Discover, BackfillOpen, BackfillRead, BackfillReadFails,
         BackfillCommit, BackfillCommitFails, vars, stored
<1> QED
  BY <1>1, <1>2, <1>3, EventsKeepRows

\* THEOREM: a summary the backfill stores is a burst of the whole file, for
\* every chunk length and every carry that can hold a run too short for a
\* burst (carry_boundary, backfill_carry_split).
THEOREM BurstsAreWhole == Spec => []BurstsWhole
<1>1. Init => PlaceInv /\ ReadInv /\ RowsInv
  BY SMT DEF Init, PlaceInv, ReadInv, RowsInv, Scanning, Down
<1>2. Shape /\ PlaceInv /\ ReadInv /\ RowsInv /\ [Next]_vars
        => Shape' /\ PlaceInv' /\ ReadInv' /\ RowsInv'
  BY CutsCount, ShapeStep, PlaceStep, ReadStep, RowsStep
<1>3. RowsInv => BurstsWhole
  BY DEF RowsInv, WholeRow, BurstsWhole
<1> QED
  BY <1>1, <1>2, <1>3, ShapeInit, PTL DEF Spec

-----------------------------------------------------------------------------
(* The tasks and the files they have open.                                 *)

\* TaskOK, and what it rests on: two bursts of one buffer share no line.
Work(t) ==
    /\ TaskOK(t)
    /\ \A b \in t.bursts : b # {}
    /\ \A a, b \in t.bursts : a # b => a \cap b = {}
WorkInv ==
    /\ Work(tail) /\ (tail.pc \notin {"read", "process"} => tail.f = None)
    /\ Work(fill) /\ (fill.pc \notin {"read", "last"} => fill.f = None)

LEMMA BurstsApart ==
  ASSUME NEW f, member[f] \subseteq Nat, NEW lo \in Int, NEW hi \in Int
  PROVE  LET B == Bursts(f, lo, hi) IN
         /\ B \subseteq SUBSET (lo .. hi) /\ (\A b \in B : b # {})
         /\ \A a, b \in B : a # b => a \cap b = {}
<1> DEFINE M == member[f]
<1>1. ASSUME NEW b \in Bursts(f, lo, hi)
      PROVE  \E s \in Anchors(f, lo, hi), e \in M : Stretch(f, lo, hi, s, e) /\ b = M \cap (s .. e)
  BY BurstIs, SMT DEF Stretch
<1>2. ASSUME NEW b \in Bursts(f, lo, hi) PROVE b \subseteq lo .. hi /\ b # {}
  <2>1. PICK s \in Anchors(f, lo, hi), e \in M : Stretch(f, lo, hi, s, e) /\ b = M \cap (s .. e)
    BY <1>1
  <2>2. s \in M /\ s \in Nat /\ e \in Nat /\ lo <= s /\ s <= e /\ e <= hi
    BY <2>1, SMT DEF Stretch, Anchors
  <2> QED
    BY <2>1, <2>2, SMT
<1>3. ASSUME NEW s \in Anchors(f, lo, hi), NEW e, Stretch(f, lo, hi, s, e),
             NEW t \in Anchors(f, lo, hi), NEW d, Stretch(f, lo, hi, t, d),
             NEW z \in M, z \in s .. e, z \in t .. d, s < t
      PROVE  FALSE
  <2>1. /\ s \in M /\ s \in Nat /\ e \in Nat /\ lo <= s /\ t \in Nat /\ Chained(f, s, e)
    BY <1>3, SMTT(25) DEF Stretch, Anchors
  <2>2. t <= e /\ s \in Int /\ e \in Int /\ t \in Int /\ s \in member[f]
    BY <1>3, <2>1, SMTT(25)
  <2> QED
    BY <1>3, <2>1, <2>2, NoAnchorInside
<1>4. ASSUME NEW a \in Bursts(f, lo, hi), NEW b \in Bursts(f, lo, hi), NEW z \in a, z \in b
      PROVE  a = b
  <2>1. PICK s \in Anchors(f, lo, hi), e \in M : Stretch(f, lo, hi, s, e) /\ a = M \cap (s .. e)
    BY <1>1
  <2>2. PICK t \in Anchors(f, lo, hi), d \in M : Stretch(f, lo, hi, t, d) /\ b = M \cap (t .. d)
    BY <1>1
  <2>3. z \in M /\ z \in s .. e /\ z \in t .. d /\ s \in Nat /\ t \in Nat
    BY <1>4, <2>1, <2>2 DEF Anchors
  <2>4. ~(s < t) /\ ~(t < s)
    BY <1>3, <2>1, <2>2, <2>3
  <2>5. s = t
    BY <2>3, <2>4, SMT
  <2>6. e = d
    <3>1. e \in Nat /\ d \in Nat
      BY <2>1, <2>2
    <3>2. e <= d /\ d <= e
      BY <2>1, <2>2, <2>5 DEF Stretch
    <3> QED
      BY <3>1, <3>2, SMT
  <2> QED
    BY <2>1, <2>2, <2>5, <2>6
<1> QED
  BY <1>2, <1>4

LEMMA WorkKept ==
  ASSUME Shape, [Next]_vars, NEW t, Work(t)
  PROVE  Work(t)'
<1>1. CASE t.f = None
  BY <1>1 DEF Work, TaskOK
<1>2. CASE t.f # None
  <2>1. t.f \in Files /\ size[t.f] \in Nat
    BY <1>2, SMT DEF Work, TaskOK, Shape, DiskShape
  <2>2. size'[t.f] \in Nat /\ size'[t.f] >= size[t.f]
    BY <2>1, SizeGrows
  <2>3. t.off <= size'[t.f] /\ t.todo \subseteq 1 .. size'[t.f]
    BY <1>2, <2>1, <2>2, SMT DEF Work, TaskOK
  <2> QED
    BY <1>2, <2>3 DEF Work, TaskOK
<1> QED
  BY <1>1, <1>2

\* A task with an empty buffer.
LEMMA WorkEmpty ==
  ASSUME NEW t, t.f \in 0 .. MaxFiles, t.off \in Nat, t.bursts = {}, t.todo = {},
         t.f # None => t.off <= size[t.f]
  PROVE  Work(t)
BY DEF Work, TaskOK

\* A task whose buffer is filled.
LEMMA WorkFilled ==
  ASSUME Shape, NEW t, t.f \in Files, NEW lo \in Nat \ {0}, NEW hi \in Nat,
         t.off \in Nat, t.off <= size[t.f], hi <= size[t.f],
         t.bursts = Bursts(t.f, lo, hi), t.todo = lo .. hi
  PROVE  Work(t)
<1>1. size[t.f] \in Nat /\ member[t.f] \subseteq Nat
  BY DEF Shape, DiskShape
<1>2. /\ t.bursts \subseteq SUBSET t.todo /\ (\A b \in t.bursts : b # {})
      /\ \A a, b \in t.bursts : a # b => a \cap b = {}
  BY <1>1, BurstsApart, SMT
<1>3. t.todo \subseteq 1 .. size[t.f] /\ t.f # None /\ t.f \in 0 .. MaxFiles
  BY <1>1, SMT
<1> QED
  BY <1>2, <1>3 DEF Work, TaskOK

\* One row of the buffer is dealt with.
LEMMA WorkShrinks ==
  ASSUME Shape, NEW t, Work(t), NEW u, u.f = t.f, u.off = t.off,
         \/ /\ t.bursts # {} /\ u.bursts = t.bursts \ {First(t.bursts)}
            /\ u.todo \in {t.todo, t.todo \ First(t.bursts)}
         \/ t.bursts = {} /\ u.bursts = {} /\ u.todo \subseteq t.todo
  PROVE  Work(u)
<1>1. u.todo \subseteq t.todo
  OBVIOUS
<1>2. TaskOK(t) /\ t.todo \subseteq Nat
  <2>1. CASE t.f = None
    BY <2>1 DEF Work, TaskOK
  <2>2. CASE t.f # None
    <3>1. t.f \in Files /\ size[t.f] \in Nat
      BY <2>2, SMT DEF Work, TaskOK, Shape, DiskShape
    <3> QED
      BY <2>2, <3>1, SMT DEF Work, TaskOK
  <2> QED
    BY <2>1, <2>2
<1>3. CASE /\ t.bursts # {} /\ u.bursts = t.bursts \ {First(t.bursts)}
           /\ u.todo \in {t.todo, t.todo \ First(t.bursts)}
  <2>1. \A b \in t.bursts : b \subseteq Nat /\ b # {} /\ b \subseteq t.todo
    BY <1>2 DEF Work, TaskOK
  <2>2. First(t.bursts) \in t.bursts
    BY <1>3, <2>1, FirstIs
  <2>3. ASSUME NEW b \in u.bursts PROVE b \subseteq u.todo
    <3>1. b \in t.bursts /\ b # First(t.bursts)
      BY <1>3, <2>3
    <3>2. b \cap First(t.bursts) = {}
      BY <2>2, <3>1 DEF Work
    <3> QED
      BY <1>3, <2>1, <3>1, <3>2
  <2>4. u.bursts \subseteq t.bursts
    BY <1>3
  <2> QED
    BY <1>1, <1>2, <2>3, <2>4 DEF Work, TaskOK
<1>4. CASE t.bursts = {} /\ u.bursts = {} /\ u.todo \subseteq t.todo
  BY <1>2, <1>4 DEF Work, TaskOK
<1> QED
  BY <1>3, <1>4

LEMMA TailWorkStep ==
  ASSUME Shape, PlaceInv, WorkInv, [Next]_vars
  PROVE  Work(tail)' /\ (tail'.pc \notin {"read", "process"} => tail'.f = None)
<1>0. /\ tail \in TailType /\ Work(tail) /\ tail.off \in Nat /\ size \in [Files -> Nat]
      /\ (tail.pc \notin {"read", "process"} => tail.f = None)
  BY DEF Shape, TailShape, TailType, WorkInv, DiskShape
<1>a. PICK t : t = tail'
  OBVIOUS
<1> SUFFICES Work(t) /\ (t.pc \notin {"read", "process"} => t.f = None)
  <2>1. Work(t) => Work(t)'
    BY WorkKept
  <2> QED
    BY <1>a, <2>1
<1>1. CASE UNCHANGED tail
  BY <1>0, <1>1, <1>a
<1>2. ASSUME NEW off \in Nat, NEW sig, tail' = Resting(off, sig) PROVE Work(t) /\ t.f = None
  BY <1>2, <1>a, WorkEmpty, SMT DEF Resting
<1>3. ASSUME NEW pc, tail' = NoTail(pc) PROVE Work(t) /\ t.f = None
  BY <1>3, <1>a, WorkEmpty, SMT DEF NoTail, Resting
<1>4. CASE Start \/ Stop \/ DrainCommit \/ DrainCommitFails
  <2>1. \/ \E off \in Nat : \E sig : tail' = Resting(off, sig)
        \/ \E pc : tail' = NoTail(pc)
    BY <1>0, <1>4 DEF Start, Stop, DrainCommit, DrainCommitFails, Shape, StoreShape
  <2> QED
    BY <1>2, <1>3, <2>1
<1>b. CASE DrainReadFails
  <2>1. PICK off \in tail.off .. size[tail.f] : tail' = Resting(off, tail.sig)
    BY <1>b DEF DrainReadFails
  <2>2. off \in Nat
    BY <1>0, <1>b, SMT DEF DrainReadFails, Shape, TailShape
  <2> QED
    BY <1>2, <2>1, <2>2
<1>5. ASSUME DrainOpen, live # 0
      PROVE  Work(t) /\ (t.pc \notin {"read", "process"} => t.f = None)
  <2> DEFINE off == Resume(tail.off, tail.sig, Sig(live), size[live])
  <2>1. live \in Files /\ size[live] \in Nat
    BY <1>0, <1>5, SMT DEF Shape, DiskShape
  <2>2. off \in Nat /\ off <= size[live]
    BY <1>0, <2>1, SMT DEF Resume
  <2>3. \/ tail' = Resting(off, Sig(live))
        \/ tail' = [Resting(off, Sig(live)) EXCEPT !.pc = "read", !.f = live]
    BY <1>5 DEF DrainOpen
  <2> HIDE DEF off
  <2>4. CASE tail' = Resting(off, Sig(live))
    BY <1>2, <2>2, <2>4
  <2>5. CASE tail' = [Resting(off, Sig(live)) EXCEPT !.pc = "read", !.f = live]
    <3>1. t.pc = "read" /\ t.f = live /\ t.off = off /\ t.bursts = {} /\ t.todo = {}
      BY <1>a, <2>5 DEF Resting
    <3> QED
      BY <2>1, <2>2, <3>1, WorkEmpty, SMT
  <2> QED
    BY <2>3, <2>4, <2>5
<1>6. CASE DrainRead
  <2>1. tail.pc = "read" /\ tail.f \in Files /\ size[tail.f] \in Nat
    BY <1>0, <1>6 DEF DrainRead, Shape, TailShape
  <2>2. /\ t.pc = "process" /\ t.f = tail.f /\ t.off = size[tail.f]
        /\ t.bursts = Bursts(tail.f, tail.off + 1, size[tail.f])
        /\ t.todo = tail.off + 1 .. size[tail.f]
    BY <1>0, <1>6, <1>a DEF DrainRead, TailType
  <2>3. tail.off + 1 \in Nat \ {0} /\ size[tail.f] <= size[tail.f]
    BY <1>0, <2>1, SMT
  <2> QED
    BY <2>1, <2>2, <2>3, WorkFilled
<1>7. CASE DrainProcess
  <2>1. /\ t.pc = "process" /\ t.f = tail.f /\ t.off = tail.off
        /\ \/ /\ tail.bursts # {} /\ t.bursts = tail.bursts \ {First(tail.bursts)}
              /\ t.todo \in {tail.todo, tail.todo \ First(tail.bursts)}
           \/ tail.bursts = {} /\ t.bursts = {} /\ t.todo \subseteq tail.todo
    BY <1>0, <1>7, <1>a DEF DrainProcess, TailType, InsertSummary, InsertLine, SummaryFails,
                            LineFails, Collapse, KeepMembers, NextLine
  <2> QED
    BY <1>0, <2>1, WorkShrinks
<1>8. \/ UNCHANGED tail \/ Start \/ Stop \/ DrainCommit \/ DrainCommitFails \/ DrainReadFails
      \/ DrainOpen \/ DrainRead \/ DrainProcess
  BY DEF Next, Game, Drain, Backfill, Failure, CreateLog, WritePart, WriteLine, Rotate,
       Discover, BackfillOpen, BackfillRead, BackfillReadFails, BackfillProcess,
       BackfillCommit, BackfillCommitFails, vars
<1>9. DrainOpen => live # 0 \/ UNCHANGED tail
  BY DEF DrainOpen
<1> QED
  BY <1>1, <1>4, <1>b, <1>5, <1>6, <1>7, <1>8, <1>9

LEMMA FillWorkStep ==
  ASSUME Shape, PlaceInv, ReadInv, ReadInv', WorkInv, [Next]_vars
  PROVE  Work(fill)' /\ (fill'.pc \notin {"read", "last"} => fill'.f = None)
<1>0. /\ fill \in FillType /\ Work(fill) /\ fill.off \in Nat /\ size \in [Files -> Nat]
      /\ fill.lo \in Nat \ {0} /\ (fill.pc \notin {"read", "last"} => fill.f = None)
  BY DEF Shape, FillShape, FillType, WorkInv, DiskShape
<1>a. PICK t : t = fill'
  OBVIOUS
<1> SUFFICES Work(t) /\ (t.pc \notin {"read", "last"} => t.f = None)
  <2>1. Work(t) => Work(t)'
    BY WorkKept
  <2> QED
    BY <1>a, <2>1
<1>1. CASE UNCHANGED fill
  BY <1>0, <1>1, <1>a
<1>2. ASSUME NEW pc, NEW queue, fill' = Scanning(pc, queue) PROVE Work(t) /\ t.f = None
  BY <1>2, <1>a, WorkEmpty, SMT DEF Scanning
<1>3. CASE Start \/ Stop \/ Discover \/ BackfillReadFails \/ BackfillCommitFails \/ BackfillCommit
  <2>1. \E pc, queue : fill' = Scanning(pc, queue)
    BY <1>3 DEF Start, Stop, Discover, BackfillReadFails, BackfillCommitFails, BackfillCommit
  <2> QED
    BY <1>2, <2>1
<1>4. ASSUME NEW f \in Files, BackfillOpen(f)
      PROVE  Work(t) /\ (t.pc \notin {"read", "last"} => t.f = None)
  <2> DEFINE rest == Scanning("scan", fill.queue \ {f})
  <2>1. CASE fill' = rest
    BY <1>2, <2>1
  <2>2. CASE fill' = [rest EXCEPT !.pc = "read", !.f = f, !.off = filed[f],
                                  !.lo = filed[f] + 1]
    <3>1. t.pc = "read" /\ t.f = f /\ t.off = filed[f] /\ t.bursts = {} /\ t.todo = {}
      BY <1>a, <2>2 DEF Scanning
    <3>a. size[f] \in Nat /\ filed[f] \in Nat /\ (filed[f] = 0 \/ filed[f] = size[f])
      BY <1>0 DEF PlaceInv, Shape, StoreShape
    <3>2. filed[f] \in Nat /\ filed[f] <= size[f]
      BY <3>a, SMT
    <3> QED
      BY <3>1, <3>2, WorkEmpty, SMT
  <2> QED
    BY <1>4, <2>1, <2>2 DEF BackfillOpen
<1>5. CASE BackfillRead
  <2>0. fill.f \in Files /\ size[fill.f] \in Nat /\ UNCHANGED size /\ fill.pc = "read"
    BY <1>0, <1>5 DEF BackfillRead, Shape, FillShape
  <2> DEFINE hi == fill.off + ChunkLines
             cut == Cut(fill.f, fill.lo, hi)
  <2>a. hi \in Nat /\ cut - 1 \in Nat
    BY <1>0, CutNat, SMT
  <2>b. \/ fill' = Flush(fill, "read", hi, cut - 1)
        \/ fill' = Flush(fill, "last", size[fill.f], size[fill.f])
    BY <1>5 DEF BackfillRead
  <2> HIDE DEF hi, cut
  <2>1. PICK pc \in {"read", "last"}, off \in Nat, last \in Nat :
          fill' = Flush(fill, pc, off, last)
    BY <2>0, <2>a, <2>b
  <2>2. /\ t.pc = pc /\ t.f = fill.f /\ t.off = off /\ t.lo = last + 1
        /\ t.bursts = Bursts(fill.f, fill.lo, last) /\ t.todo = fill.lo .. last
    BY <1>0, <1>a, <2>1 DEF Flush, FillType
  <2>3. last <= size[fill.f] /\ off <= size[fill.f]
    BY <1>a, <2>0, <2>2, SMTT(25) DEF ReadInv
  <2> QED
    BY <1>0, <2>0, <2>2, <2>3, WorkFilled
<1>6. CASE BackfillProcess
  <2>1. /\ t.pc = fill.pc /\ t.f = fill.f /\ t.off = fill.off
        /\ \/ /\ fill.bursts # {} /\ t.bursts = fill.bursts \ {First(fill.bursts)}
              /\ t.todo \in {fill.todo, fill.todo \ First(fill.bursts)}
           \/ fill.bursts = {} /\ t.bursts = {} /\ t.todo \subseteq fill.todo
    BY <1>0, <1>6, <1>a DEF BackfillProcess, FillType, InsertSummary, InsertLine, SummaryFails,
                            LineFails, Collapse, KeepMembers, NextLine
  <2> QED
    BY <1>0, <2>1, WorkShrinks
<1>7. UNCHANGED fill \/ Start \/ Stop \/ Backfill \/ BackfillReadFails \/ BackfillCommitFails
  BY DEF Next, Game, Drain, Failure, CreateLog, WritePart, WriteLine, Rotate,
       DrainOpen, DrainRead, DrainProcess, DrainCommit, DrainReadFails, DrainCommitFails, vars
<1> QED
  BY <1>1, <1>3, <1>4, <1>5, <1>6, <1>7 DEF Backfill

\* THEOREM: the tasks hold only lines of the file they have open, offsets and
\* cursors stay within their files, and the backfill never has Game.log open.
THEOREM TasksKeepToTheirFiles == Spec => []TypeOK
<1> DEFINE Inv == Shape /\ PlaceInv /\ ReadInv /\ WorkInv
<1>1. Init => Inv
  <2> SUFFICES ASSUME Init PROVE Inv
    OBVIOUS
  <2>1. PlaceInv /\ ReadInv
    BY SMT DEF Init, PlaceInv, ReadInv, Scanning, Down
  <2>2. WorkInv
    BY SMT DEF Init, WorkInv, Work, TaskOK, NoTail, Resting, Scanning, Down
  <2> QED
    BY <2>1, <2>2, ShapeInit
<1>2. Inv /\ [Next]_vars => Inv'
  <2> SUFFICES ASSUME Inv, [Next]_vars PROVE Inv'
    OBVIOUS
  <2>1. Shape' /\ PlaceInv' /\ ReadInv'
    BY CutsCount, ShapeStep, PlaceStep, ReadStep
  <2>2. WorkInv'
    BY <2>1, TailWorkStep, FillWorkStep DEF WorkInv
  <2> QED
    BY <2>1, <2>2
<1>3. Inv => TypeOK
  <2> SUFFICES ASSUME Inv PROVE TypeOK
    OBVIOUS
  <2>1. /\ TaskOK(tail) /\ tail.sig \in 0 .. MaxFiles
        /\ tail.pc \in {Down, "none", "idle", "read", "process"}
        /\ TaskOK(fill) /\ fill.pc \in {Down, "start", "scan", "read", "last"}
    BY DEF Shape, TailShape, TailType, FillShape, FillType, WorkInv, Work
  <2>2. fill.f # None => fill.lo \in 1 .. fill.off + 1 /\ fill.f \in Files \ {live}
    BY SMT DEF WorkInv, ReadInv, Shape, FillShape, FillType, Archived
  <2>3. live \in 0 .. made /\ part \subseteq 1 .. made /\ made <= MaxFiles
    BY SMT DEF PlaceInv, Shape, DiskShape
  <2>4. ASSUME NEW f \in Files
        PROVE  size[f] \in Nat /\ member[f] \subseteq 1 .. size[f] /\ filed[f] \in 0 .. size[f]
    <3>1. size[f] \in Nat /\ member[f] \subseteq 1 .. size[f]
      BY DEF PlaceInv, Shape, DiskShape, StoreShape
    <3>2. filed[f] = 0 \/ filed[f] = size[f]
      BY DEF PlaceInv
    <3> QED
      BY <3>1, <3>2, SMT
  <2> QED
    BY <2>1, <2>2, <2>3, <2>4 DEF TypeOK
<1> QED
  BY <1>1, <1>2, <1>3, PTL DEF Spec
=============================================================================
