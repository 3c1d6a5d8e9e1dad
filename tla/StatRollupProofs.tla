-------------------------- MODULE StatRollupProofs --------------------------
(***************************************************************************)
(* Proofs about StatRollup: type correctness, contract runs whose flag is  *)
(* clear are those of the stored events, a rebuild from the watermark      *)
(* alone gives what a full one would, and sessions whose flag is clear     *)
(* are those of the stored events, for every set of times and readers,     *)
(* every batch size and idle gap, and every number of faults and           *)
(* deletions.                                                              *)
(*                                                                         *)
(* ContractsFresh is not inductive: it rests on what a rebuild knows       *)
(* before it commits.  One that read while updated_at stood still has seen *)
(* every event (SeenInv), no flag comes off behind a running rebuild       *)
(* (FlagInv), and a rebuild that finds no row, having captured one, is one *)
(* an account deletion caught (GoneInv).                                   *)
(*                                                                         *)
(* Nor is SessionsFresh.  While a watermark is pending, the stored         *)
(* sessions are those of some of the events, and the others are not before *)
(* it (GroundInv).  A rebuild knows the watermark it captured to be no     *)
(* earlier than the row's (MarkInv), and its new sessions to be those of   *)
(* events it has read, the others again not before the row's watermark     *)
(* (ReadInv).                                                              *)
(***************************************************************************)
EXTENDS StatRollup, WellFoundedInduction, TLAPS

\* Zenon proves a leaf unless the leaf cites SMT, which the arithmetic needs.
USE Zenon

\* An undisturbed contract rebuild has seen every event that is stored.
SeenInv ==
  \A r \in Readers :
    /\ rd[r].pc = "clear" /\ rd[r].kind = Contracts
    /\ r \notin moved /\ r \notin tainted
    /\ batches = 0
    => rd[r].seen = Timed(events)

\* A rollup stays flagged while a rebuild of it runs.
FlagInv == \A r \in InTx : Dirty(rd[r].kind)

\* Without a row, a rebuild whose capture is out of date met a deletion.
GoneInv == row = "none" => moved \subseteq tainted

\* A session that is about to be inserted has events.
NewInv == \A r \in Readers : {} \notin rd[r].new

TInv == RollupTypeOK /\ NewInv
CInv == TInv /\ SeenInv /\ FlagInv /\ GoneInv /\ ContractsFresh

-----------------------------------------------------------------------------
(* Least elements and sessions.                                            *)

\* Every nonempty set of naturals has a least element.
LEMMA LeastNatural ==
  ASSUME NEW T \in SUBSET Nat, T # {}
  PROVE  \E x \in T : \A y \in T : x <= y
<1> DEFINE R == OpToRel(<, Nat)
<1>1. IsWellFoundedOn(R, Nat)
  BY NatLessThanWellFounded
<1>2. PICK x \in T : \A y \in T : ~(<<y, x>> \in R)
  BY <1>1, WFMin
<1>3. \A y \in T : ~(y < x)
  BY <1>2 DEF OpToRel
<1>4. \A y \in T : x <= y
  BY <1>3, SMT
<1> QED
  BY <1>4

\* Min of a nonempty set of naturals is its least element.
LEMMA MinElement ==
  ASSUME NEW T \in SUBSET Nat, T # {}
  PROVE  Min(T) \in T /\ \A y \in T : Min(T) <= y
<1>1. \E x \in T : \A y \in T : x <= y
  BY LeastNatural
<1> QED
  BY <1>1 DEF Min

\* Sessions are nonempty sets of the events they are made of.
LEMMA SessionsOfEvents ==
  ASSUME NEW E \in SUBSET Nat
  PROVE  Sessionise(E) \subseteq SUBSET E /\ {} \notin Sessionise(E)
<1>1. \A s \in Starts(E) :
        s \in {y \in E : y >= s /\ \A z \in Starts(E) : z <= y => z <= s}
  BY SMT DEF Starts
<1> QED
  BY <1>1 DEF Sessionise

LEMMA InsertedType ==
  ASSUME RollupTypeOK, NEW d
  PROVE  Inserted(d) \subseteq SUBSET Times /\ {} \notin Inserted(d)
<1> DEFINE E == IF d = 0 THEN Play(events)
                ELSE {x \in Play(events) : x >= RebuildFrom(d)}
<1>1. E \subseteq Times /\ E \in SUBSET Nat
  BY TimeAssumption DEF RollupTypeOK, Play, Timed, Events
<1>2. Inserted(d) = Sessionise(E)
  BY DEF Inserted
<1> HIDE DEF E
<1>3. Sessionise(E) \subseteq SUBSET E /\ {} \notin Sessionise(E)
  BY <1>1, SessionsOfEvents
<1>4. SUBSET E \subseteq SUBSET Times
  BY <1>1
<1> QED
  BY <1>2, <1>3, <1>4

LEMMA KeptType ==
  ASSUME NEW d
  PROVE  Kept(d) \subseteq sessions
BY DEF Kept

LEMMA WatermarkType ==
  ASSUME RollupTypeOK, NEW B \in SUBSET Events
  PROVE  Watermark(B) \in Times \cup {0}
<1> DEFINE T == Timed(B) \cup (IF from = 0 THEN {} ELSE {from})
<1>1. T \subseteq Times
  BY TimeAssumption DEF RollupTypeOK, Timed, Events
<1>2. Timed(B) # {} => Min(T) \in Times
  BY <1>1, MinElement, TimeAssumption
<1> QED
  BY <1>2 DEF Watermark, RollupTypeOK
-----------------------------------------------------------------------------
(* Type correctness.                                                       *)

USE DEF table, state, rollupBounds, history, Sessions, Contracts, Kinds

LEMMA IdleType == Idle \in ReaderType /\ Idle.new = {}
BY DEF Idle, ReaderType

LEMMA TypeInit == RollupInit => TInv
<1> SUFFICES ASSUME RollupInit PROVE TInv
  OBVIOUS
<1>1. rd \in [Readers -> ReaderType] /\ NewInv
  BY IdleType DEF RollupInit, NewInv
<1>2. InTx = {}
  BY DEF RollupInit, InTx, Idle
<1>3. batches \in 0 .. BatchCap
  BY BatchAssumption, SMT DEF RollupInit
<1>4. {sOff, cOff} \subseteq BOOLEAN
  BY DEF RollupInit
<1> QED
  BY <1>1, <1>2, <1>3, <1>4 DEF RollupInit, TInv, RollupTypeOK

\* A step that leaves the rebuilds where they are leaves their locks.
LEMMA TypeStatic ==
  ASSUME TInv, UNCHANGED rd
  PROVE  /\ NewInv' /\ rd' \in [Readers -> ReaderType] /\ InTx' = InTx
         /\ \A r, q \in InTx' : rd'[r].kind = rd'[q].kind => r = q
BY DEF TInv, RollupTypeOK, NewInv, InTx

LEMMA TypeInsert ==
  ASSUME TInv, NEW B \in SUBSET (Events \ events), InsertBatch(B)
  PROVE  TInv'
<1>1. from' \in Times \cup {0}
  BY WatermarkType DEF InsertBatch, TInv
<1>2. /\ events' \subseteq Events /\ old' \subseteq events'
      /\ sessions' \subseteq SUBSET Times /\ {} \notin sessions' /\ runs' \subseteq Times
      /\ batches' \in 0 .. BatchCap
  BY DEF TInv, RollupTypeOK, InsertBatch
<1>3. /\ row' \in {"none", "never", "recent", "past"} /\ row' # "none"
      /\ dirty' = Kinds /\ moved' = InTx
  BY DEF TInv, RollupTypeOK, InsertBatch, Flags, Touch
<1>4. {sOff, cOff}' \subseteq BOOLEAN /\ tainted' \subseteq InTx
  BY DEF TInv, RollupTypeOK, InsertBatch
<1>5. UNCHANGED rd
  BY DEF InsertBatch
<1> QED
  BY <1>1, <1>2, <1>3, <1>4, TypeStatic, <1>5 DEF TInv, RollupTypeOK

\* A step of one rebuild keeps the others and, if it holds a lock afterwards,
\* nobody else holds it.
LEMMA TypeMoves ==
  ASSUME TInv, NEW r \in Readers, NEW v \in ReaderType, {} \notin v.new,
         rd' = [rd EXCEPT ![r] = v],
         v.pc \in {"read", "clear"} => \A q \in InTx \ {r} : rd[q].kind # v.kind
  PROVE  /\ NewInv' /\ rd' \in [Readers -> ReaderType]
         /\ InTx' = IF v.pc \in {"read", "clear"} THEN InTx \cup {r} ELSE InTx \ {r}
         /\ \A p, q \in InTx' : rd'[p].kind = rd'[q].kind => p = q
<1>1. rd' \in [Readers -> ReaderType]
  BY DEF TInv, RollupTypeOK
<1>2. \A q \in Readers : rd'[q] = IF q = r THEN v ELSE rd[q]
  BY DEF TInv, RollupTypeOK
<1>3. NewInv'
  BY <1>2 DEF NewInv, TInv
<1>4. InTx' = IF v.pc \in {"read", "clear"} THEN InTx \cup {r} ELSE InTx \ {r}
  BY <1>2 DEF InTx
<1>5. ASSUME NEW p \in InTx', NEW q \in InTx', rd'[p].kind = rd'[q].kind
      PROVE  p = q
  <2>1. p \in Readers /\ q \in Readers
    BY DEF InTx
  <2>2. CASE p # r /\ q # r
    BY <1>2, <1>4, <1>5, <2>1, <2>2 DEF TInv, RollupTypeOK
  <2>3. CASE p = r /\ q # r
    BY <1>2, <1>4, <1>5, <2>1, <2>3
  <2>4. CASE p # r /\ q = r
    BY <1>2, <1>4, <1>5, <2>1, <2>4
  <2> QED
    BY <2>2, <2>3, <2>4
<1> QED
  BY <1>1, <1>3, <1>4, <1>5

LEMMA TypeEnsureFresh ==
  ASSUME TInv, NEW r \in Readers, NEW k \in Kinds, EnsureFresh(r, k)
  PROVE  TInv'
<1> DEFINE v == [Idle EXCEPT !.pc = "lock", !.kind = k]
<1>1. v \in ReaderType /\ v.new = {} /\ v.pc = "lock"
  BY DEF Idle, ReaderType
<1>2. rd' = [rd EXCEPT ![r] = v] /\ r \notin InTx
  BY DEF EnsureFresh, InTx
<1> HIDE DEF v
<1>3. /\ NewInv' /\ rd' \in [Readers -> ReaderType] /\ InTx' = InTx \ {r}
      /\ \A p, q \in InTx' : rd'[p].kind = rd'[q].kind => p = q
  BY <1>1, <1>2, TypeMoves
<1> QED
  BY <1>2, <1>3, SMT DEF EnsureFresh, TInv, RollupTypeOK

LEMMA TypeCapture ==
  ASSUME TInv, NEW r \in Readers, Capture(r)
  PROVE  TInv'
<1> DEFINE v == IF Dirty(rd[r].kind)
                THEN [Idle EXCEPT !.pc = "read", !.kind = rd[r].kind, !.from = from]
                ELSE Idle
<1>1. /\ v \in ReaderType /\ v.new = {}
      /\ v.pc = "idle" \/ (v.pc = "read" /\ v.kind = rd[r].kind)
  BY DEF TInv, RollupTypeOK, Idle, ReaderType
<1>2. rd' = [rd EXCEPT ![r] = v] /\ r \notin InTx
  BY DEF Capture, InTx
<1>3. \A q \in InTx : rd[q].kind # rd[r].kind
  BY DEF Capture
<1> HIDE DEF v
<1>4. /\ NewInv' /\ rd' \in [Readers -> ReaderType]
      /\ InTx' = IF v.pc \in {"read", "clear"} THEN InTx \cup {r} ELSE InTx \ {r}
      /\ \A p, q \in InTx' : rd'[p].kind = rd'[q].kind => p = q
  BY <1>1, <1>2, <1>3, TypeMoves
<1>5. InTx \subseteq InTx'
  BY <1>2, <1>4
<1> QED
  BY <1>4, <1>5 DEF Capture, TInv, RollupTypeOK

LEMMA TypeRead ==
  ASSUME TInv, NEW r \in Readers, Read(r)
  PROVE  TInv'
<1> DEFINE v == IF rd[r].kind = Sessions
                THEN [rd[r] EXCEPT !.pc = "clear", !.new = Inserted(rd[r].from)]
                ELSE [rd[r] EXCEPT !.pc = "clear", !.seen = Timed(events)]
<1>1. /\ Inserted(rd[r].from) \subseteq SUBSET Times
      /\ {} \notin Inserted(rd[r].from)
  BY InsertedType DEF TInv
<1>2. Timed(events) \subseteq Times
  BY TimeAssumption DEF TInv, RollupTypeOK, Timed, Events
<1>3. rd[r] \in ReaderType /\ {} \notin rd[r].new
  BY DEF TInv, RollupTypeOK, NewInv
<1>4. /\ v \in ReaderType /\ {} \notin v.new
      /\ v.pc = "clear" /\ v.kind = rd[r].kind
  BY <1>1, <1>2, <1>3 DEF ReaderType
<1>5. rd' = [rd EXCEPT ![r] = v] /\ r \in InTx
  BY DEF Read, InTx
<1> HIDE DEF v
<1>6. \A q \in InTx \ {r} : rd[q].kind # rd[r].kind
  BY <1>5 DEF TInv, RollupTypeOK
<1>7. /\ NewInv' /\ rd' \in [Readers -> ReaderType] /\ InTx' = InTx \cup {r}
      /\ \A p, q \in InTx' : rd'[p].kind = rd'[q].kind => p = q
  BY <1>4, <1>5, <1>6, TypeMoves
<1>8. InTx' = InTx
  BY <1>5, <1>7
<1> QED
  BY <1>7, <1>8 DEF Read, TInv, RollupTypeOK

\* The end of a rebuild.
LEMMA TypeEnds ==
  ASSUME TInv, NEW r \in Readers, rd' = [rd EXCEPT ![r] = Idle]
  PROVE  /\ NewInv' /\ rd' \in [Readers -> ReaderType] /\ InTx' = InTx \ {r}
         /\ \A p, q \in InTx' : rd'[p].kind = rd'[q].kind => p = q
<1>1. Idle \in ReaderType /\ {} \notin Idle.new /\ Idle.pc = "idle"
  BY IdleType DEF Idle
<1> QED
  BY <1>1, TypeMoves

LEMMA TypeCommitSessions ==
  ASSUME TInv, NEW r \in Readers, CommitSessions(r)
  PROVE  TInv'
<1>1. /\ NewInv' /\ rd' \in [Readers -> ReaderType] /\ InTx' = InTx \ {r}
      /\ \A p, q \in InTx' : rd'[p].kind = rd'[q].kind => p = q
  BY TypeEnds DEF CommitSessions
<1>2. rd[r].new \subseteq SUBSET Times /\ {} \notin rd[r].new
  BY DEF TInv, RollupTypeOK, NewInv, ReaderType
<1>3. sessions' \subseteq SUBSET Times /\ {} \notin sessions'
  BY <1>2, KeptType, SMT DEF CommitSessions, TInv, RollupTypeOK
<1>4. moved' \subseteq InTx' /\ tainted' \subseteq InTx'
  BY <1>1 DEF CommitSessions, ClearFlag, Touched, TInv, RollupTypeOK
<1>5. /\ dirty' \subseteq Kinds /\ from' \in Times \cup {0}
      /\ row' \in {"none", "never", "recent", "past"} /\ row' # "none"
      /\ from' # 0 => Sessions \in dirty'
  BY DEF CommitSessions, ClearFlag, Clears, TInv, RollupTypeOK
<1>6. {sOff', cOff'} \subseteq BOOLEAN
  BY DEF CommitSessions, TInv, RollupTypeOK
<1> QED
  BY <1>1, <1>3, <1>4, <1>5, <1>6 DEF CommitSessions, TInv, RollupTypeOK

LEMMA TypeCommitContracts ==
  ASSUME TInv, NEW r \in Readers, CommitContracts(r)
  PROVE  TInv'
<1>1. /\ NewInv' /\ rd' \in [Readers -> ReaderType] /\ InTx' = InTx \ {r}
      /\ \A p, q \in InTx' : rd'[p].kind = rd'[q].kind => p = q
  BY TypeEnds DEF CommitContracts
<1>2. runs' \subseteq Times
  BY DEF CommitContracts, TInv, RollupTypeOK, ReaderType
<1>3. moved' \subseteq InTx' /\ tainted' \subseteq InTx'
  BY <1>1 DEF CommitContracts, ClearFlag, Touched, TInv, RollupTypeOK
<1>4. /\ dirty' \subseteq Kinds /\ row' # "none"
      /\ row' \in {"none", "never", "recent", "past"}
      /\ from' # 0 => Sessions \in dirty'
  BY DEF CommitContracts, ClearFlag, Clears, TInv, RollupTypeOK
<1>5. {sOff', cOff'} \subseteq BOOLEAN
  BY DEF CommitContracts, TInv, RollupTypeOK
<1> QED
  BY <1>1, <1>2, <1>3, <1>4, <1>5 DEF CommitContracts, TInv, RollupTypeOK

LEMMA TypeRebuildFails ==
  ASSUME TInv, NEW r \in Readers, RebuildFails(r)
  PROVE  TInv'
<1>1. /\ NewInv' /\ rd' \in [Readers -> ReaderType] /\ InTx' = InTx \ {r}
      /\ \A p, q \in InTx' : rd'[p].kind = rd'[q].kind => p = q
  BY TypeEnds DEF RebuildFails
<1> QED
  BY <1>1 DEF RebuildFails, TInv, RollupTypeOK

\* Steps of the clock, the sweep and account deletion.
LEMMA TypeOthers ==
  ASSUME TInv,
         \/ IntervalPasses \/ TimePasses \/ PurgeBatch \/ PurgeFlag
         \/ PurgeFails \/ DeleteUser \/ PurgeUser
  PROVE  TInv'
<1>1. CASE IntervalPasses
  BY <1>1, TypeStatic DEF IntervalPasses, TInv, RollupTypeOK
<1>2. CASE TimePasses
  BY <1>2, TypeStatic DEF TimePasses, TInv, RollupTypeOK
<1>3. CASE PurgeBatch
  <2>1. events' \subseteq events /\ old' \subseteq events' /\ batches' \in 0 .. BatchCap
    BY <1>3, BatchAssumption, SMT DEF PurgeBatch, TInv, RollupTypeOK
  <2> QED
    BY <1>3, <2>1, TypeStatic DEF PurgeBatch, TInv, RollupTypeOK
<1>4. CASE PurgeFlag
  <2>1. {sOff', cOff'} \subseteq BOOLEAN
    BY <1>4 DEF PurgeFlag, TInv, RollupTypeOK
  <2>2. batches' \in 0 .. BatchCap /\ row' # "none" /\ dirty' = Kinds /\ moved' = InTx
    BY <1>4, BatchAssumption, SMT DEF PurgeFlag, PurgeFlags, Touch, TInv, RollupTypeOK
  <2>3. row' \in {"none", "never", "recent", "past"}
    BY <1>4 DEF PurgeFlag, TInv, RollupTypeOK
  <2> QED
    BY <1>4, <2>1, <2>2, <2>3, TypeStatic DEF PurgeFlag, TInv, RollupTypeOK
<1>5. CASE PurgeFails
  <2>1. batches' \in 0 .. BatchCap
    BY <1>5, BatchAssumption, SMT DEF PurgeFails
  <2> QED
    BY <1>5, <2>1, TypeStatic DEF PurgeFails, TInv, RollupTypeOK
<1>6. CASE DeleteUser
  <2>1. {sOff', cOff'} \subseteq BOOLEAN
    BY <1>6 DEF DeleteUser, Forget
  <2> QED
    BY <1>6, <2>1, TypeStatic DEF DeleteUser, Forget, RowGone, TInv, RollupTypeOK
<1>7. CASE PurgeUser
  BY <1>7, TypeStatic DEF PurgeUser, Forget, RowGone, TInv, RollupTypeOK
<1> QED
  BY <1>1, <1>2, <1>3, <1>4, <1>5, <1>6, <1>7

LEMMA TypeNext == TInv /\ [RollupNext]_rollupVars => TInv'
<1> SUFFICES ASSUME TInv, [RollupNext]_rollupVars PROVE TInv'
  OBVIOUS
<1>1. ASSUME NEW B \in SUBSET (Events \ events), InsertBatch(B) PROVE TInv'
  BY <1>1, TypeInsert
<1>2. ASSUME NEW r \in Readers, NEW k \in Kinds, EnsureFresh(r, k) PROVE TInv'
  BY <1>2, TypeEnsureFresh
<1>3. ASSUME NEW r \in Readers, Rebuild(r) PROVE TInv'
  BY <1>3, TypeCapture, TypeRead, TypeCommitSessions, TypeCommitContracts DEF Rebuild
<1>4. ASSUME NEW r \in Readers, RebuildFails(r) PROVE TInv'
  BY <1>4, TypeRebuildFails
<1>5. CASE UNCHANGED rollupVars
  BY <1>5, TypeStatic DEF rollupVars, TInv, RollupTypeOK
<1> QED
  BY <1>1, <1>2, <1>3, <1>4, <1>5, TypeOthers DEF RollupNext

\* The variables keep their types; without a row nothing of it is left over,
\* a watermark is only kept while sessions are flagged, and two rebuilds of one
\* kind are never in their transactions together (stat_rollup_state, the
\* advisory locks of repo.rs).
THEOREM RollupTypeCorrect == RollupSpec => []RollupTypeOK
<1>1. TInv => RollupTypeOK
  BY DEF TInv
<1> QED
  BY TypeInit, TypeNext, <1>1, PTL DEF RollupSpec

-----------------------------------------------------------------------------
(* Contract runs.                                                          *)

LEMMA FreshInit == RollupInit => CInv
<1> SUFFICES ASSUME RollupInit PROVE CInv
  OBVIOUS
<1>1. TInv
  BY TypeInit
<1>2. InTx = {} /\ \A r \in Readers : rd[r].pc = "idle"
  BY DEF RollupInit, InTx, Idle
<1> QED
  BY <1>1, <1>2 DEF RollupInit, CInv, SeenInv, FlagInv, GoneInv, ContractsFresh, Dirty

\* A commit of a rebuild leaves the others as they were, or out of date.
LEMMA OthersAfterCommit ==
  ASSUME CInv, NEW r \in Readers, rd' = [rd EXCEPT ![r] = Idle],
         UNCHANGED <<events, batches>>, tainted' = tainted \ {r}, moved' = Touched(r)
  PROVE  SeenInv'
<1>1. \A q \in Readers : rd'[q] = IF q = r THEN Idle ELSE rd[q]
  BY DEF CInv, TInv, RollupTypeOK
<1>2. SUFFICES ASSUME NEW q \in Readers, rd'[q].pc = "clear", rd'[q].kind = Contracts,
                      q \notin moved', q \notin tainted', batches' = 0
               PROVE  rd'[q].seen = Timed(events')
  BY DEF SeenInv
<1>3. q # r /\ rd'[q] = rd[q]
  BY <1>1, <1>2, SMT DEF Idle
<1>4. q \in InTx
  BY <1>2, <1>3 DEF InTx
<1>5. q \notin moved /\ q \notin tainted
  BY <1>2, <1>3, <1>4 DEF Touched
<1> QED
  BY <1>2, <1>3, <1>5 DEF CInv, SeenInv, Timed

LEMMA FreshCommitContracts ==
  ASSUME CInv, NEW r \in Readers, CommitContracts(r)
  PROVE  CInv'
<1>1. TInv'
  BY TypeCommitContracts DEF CInv
<1>2. SeenInv'
  BY OthersAfterCommit DEF CommitContracts, ClearFlag
<1>3. r \in InTx /\ InTx' = InTx \ {r} /\ \A q \in InTx' : rd'[q] = rd[q]
  BY TypeEnds DEF CommitContracts, InTx, CInv, TInv, RollupTypeOK
<1>4. row' # "none"
  BY DEF CommitContracts
<1>5. FlagInv'
  <2>1. SUFFICES ASSUME NEW q \in InTx' PROVE rd'[q].kind \in dirty'
    BY DEF FlagInv, Dirty
  <2>2. rd[q].kind = Sessions /\ Dirty(Sessions)
    BY <1>3, SMT DEF CInv, TInv, RollupTypeOK, FlagInv, CommitContracts, ReaderType, InTx
  <2>3. Sessions \in dirty'
    BY <2>2 DEF Dirty, CommitContracts, ClearFlag, Clears
  <2> QED
    BY <1>3, <2>2, <2>3 DEF Dirty
<1>6. ContractsFresh'
  <2>1. SUFFICES ASSUME Contracts \notin dirty', ~cOff', batches' = 0
                 PROVE  runs' = Timed(events')
    BY DEF ContractsFresh, Dirty
  <2>2. Dirty(Contracts)
    BY <1>3 DEF CInv, FlagInv, CommitContracts
  <2>3. Clears(r)
    BY <2>1, <2>2 DEF Dirty, CommitContracts, ClearFlag, Clears
  <2>4. r \notin tainted
    BY <2>1 DEF CommitContracts
  <2>5. r \notin moved
    BY <2>3, <2>4 DEF Clears, CInv, GoneInv
  <2> QED
    BY <2>1, <2>4, <2>5 DEF CommitContracts, CInv, SeenInv, Timed
<1> QED
  BY <1>1, <1>2, <1>4, <1>5, <1>6 DEF CInv, GoneInv

LEMMA FreshCommitSessions ==
  ASSUME CInv, NEW r \in Readers, CommitSessions(r)
  PROVE  CInv'
<1>1. TInv'
  BY TypeCommitSessions DEF CInv
<1>2. SeenInv'
  BY OthersAfterCommit DEF CommitSessions, ClearFlag
<1>3. r \in InTx /\ InTx' = InTx \ {r} /\ \A q \in InTx' : rd'[q] = rd[q]
  BY TypeEnds DEF CommitSessions, InTx, CInv, TInv, RollupTypeOK
<1>4. row' # "none"
  BY DEF CommitSessions, Clears
<1>5. Dirty(Contracts) <=> Contracts \in dirty'
  BY DEF CommitSessions, ClearFlag, Dirty, CInv, TInv, RollupTypeOK, Clears
<1>6. FlagInv'
  <2>1. SUFFICES ASSUME NEW q \in InTx' PROVE rd'[q].kind \in dirty'
    BY DEF FlagInv, Dirty
  <2>2. rd[q].kind = Contracts /\ Dirty(Contracts)
    BY <1>3, SMT DEF CInv, TInv, RollupTypeOK, FlagInv, CommitSessions, ReaderType, InTx
  <2> QED
    BY <1>3, <1>5, <2>2 DEF Dirty
<1>7. ContractsFresh'
  BY <1>4, <1>5 DEF ContractsFresh, CInv, CommitSessions, Dirty, Timed
<1> QED
  BY <1>1, <1>2, <1>4, <1>6, <1>7 DEF CInv, GoneInv

LEMMA FreshInsert ==
  ASSUME CInv, NEW B \in SUBSET (Events \ events), InsertBatch(B)
  PROVE  CInv'
<1>1. TInv'
  BY TypeInsert DEF CInv
<1>2. /\ row' # "none" /\ dirty' = Kinds /\ moved' = InTx
      /\ UNCHANGED rd /\ InTx' = InTx
  BY DEF InsertBatch, Flags, Touch, InTx
<1>3. SeenInv'
  BY <1>2 DEF SeenInv, InTx
<1>4. FlagInv'
  BY <1>1, <1>2 DEF FlagInv, Dirty, TInv, RollupTypeOK, ReaderType, InTx
<1> QED
  BY <1>1, <1>2, <1>3, <1>4 DEF CInv, GoneInv, ContractsFresh, Dirty

LEMMA FreshEnsureFresh ==
  ASSUME CInv, NEW r \in Readers, NEW k \in Kinds, EnsureFresh(r, k)
  PROVE  CInv'
<1>1. TInv'
  BY TypeEnsureFresh DEF CInv
<1>2. /\ \A q \in Readers \ {r} : rd'[q] = rd[q]
      /\ rd'[r].pc = "lock"
  BY DEF EnsureFresh, CInv, TInv, RollupTypeOK, Idle
<1>3. InTx' \subseteq InTx \ {r}
  BY <1>2 DEF InTx
<1>4. SeenInv'
  BY <1>2 DEF SeenInv, CInv, EnsureFresh, Timed
<1>5. FlagInv'
  BY <1>2, <1>3, SMT DEF FlagInv, CInv, EnsureFresh, Dirty, InTx
<1> QED
  BY <1>1, <1>4, <1>5 DEF CInv, GoneInv, ContractsFresh, Dirty, EnsureFresh, Timed

LEMMA FreshCapture ==
  ASSUME CInv, NEW r \in Readers, Capture(r)
  PROVE  CInv'
<1>1. TInv'
  BY TypeCapture DEF CInv
<1>2. \A q \in Readers \ {r} : rd'[q] = rd[q]
  BY DEF Capture, CInv, TInv, RollupTypeOK
<1>3. \/ rd'[r].pc = "idle"
      \/ rd'[r].pc = "read" /\ rd'[r].kind = rd[r].kind /\ Dirty(rd[r].kind)
  BY DEF Capture, CInv, TInv, RollupTypeOK, Idle
<1>4. SeenInv'
  BY <1>2, <1>3 DEF SeenInv, CInv, Capture, Timed
<1>5. FlagInv'
  BY <1>2, <1>3, SMT DEF FlagInv, CInv, Capture, Dirty, InTx
<1> QED
  BY <1>1, <1>4, <1>5 DEF CInv, GoneInv, ContractsFresh, Dirty, Capture, Timed

LEMMA FreshRead ==
  ASSUME CInv, NEW r \in Readers, Read(r)
  PROVE  CInv'
<1>1. TInv'
  BY TypeRead DEF CInv
<1>2. /\ \A q \in Readers \ {r} : rd'[q] = rd[q]
      /\ rd'[r].kind = rd[r].kind /\ rd[r].pc = "read"
      /\ rd[r].kind = Contracts => rd'[r].seen = Timed(events)
  BY SMT DEF Read, CInv, TInv, RollupTypeOK, ReaderType
<1>3. SeenInv'
  BY <1>2 DEF SeenInv, CInv, Read, Timed
<1>4. FlagInv'
  BY <1>2, SMT DEF FlagInv, CInv, Read, Dirty, InTx
<1> QED
  BY <1>1, <1>3, <1>4 DEF CInv, GoneInv, ContractsFresh, Dirty, Read, Timed

LEMMA FreshRebuildFails ==
  ASSUME CInv, NEW r \in Readers, RebuildFails(r)
  PROVE  CInv'
<1>1. TInv'
  BY TypeRebuildFails DEF CInv
<1>2. /\ \A q \in Readers \ {r} : rd'[q] = rd[q]
      /\ rd'[r].pc = "idle"
  BY DEF RebuildFails, CInv, TInv, RollupTypeOK, Idle
<1>3. SeenInv'
  BY <1>2 DEF SeenInv, CInv, RebuildFails, Timed
<1>4. FlagInv'
  BY <1>2, SMT DEF FlagInv, CInv, RebuildFails, Dirty, InTx
<1>5. GoneInv'
  BY DEF GoneInv, CInv, RebuildFails
<1> QED
  BY <1>1, <1>3, <1>4, <1>5 DEF CInv, ContractsFresh, Dirty, RebuildFails, Timed

LEMMA FreshSweep ==
  ASSUME CInv,
         \/ IntervalPasses \/ TimePasses \/ PurgeBatch \/ PurgeFlag \/ PurgeFails
  PROVE  CInv'
<1>1. TInv'
  BY TypeOthers DEF CInv
<1>2. UNCHANGED rd /\ InTx' = InTx
  BY DEF IntervalPasses, TimePasses, PurgeBatch, PurgeFlag, PurgeFails, InTx
<1>3. CASE IntervalPasses
  BY <1>1, <1>2, <1>3
    DEF IntervalPasses, CInv, SeenInv, FlagInv, GoneInv, ContractsFresh, Dirty, Timed
<1>4. CASE TimePasses
  BY <1>1, <1>2, <1>4
    DEF TimePasses, CInv, SeenInv, FlagInv, GoneInv, ContractsFresh, Dirty, Timed
<1>5. CASE PurgeBatch
  <2>1. batches' # 0
    BY <1>5, SMT DEF PurgeBatch, CInv, TInv, RollupTypeOK
  <2> QED
    BY <1>1, <1>2, <1>5, <2>1
      DEF PurgeBatch, CInv, SeenInv, FlagInv, GoneInv, ContractsFresh, Dirty
<1>6. CASE PurgeFlag
  <2>1. row' # "none" /\ dirty' = Kinds /\ moved' = InTx
    BY <1>6 DEF PurgeFlag, PurgeFlags, Touch
  <2>2. SeenInv'
    BY <1>2, <2>1 DEF SeenInv, InTx
  <2>3. FlagInv'
    BY <1>1, <1>2, <2>1 DEF FlagInv, Dirty, TInv, RollupTypeOK, ReaderType, InTx
  <2> QED
    BY <1>1, <2>1, <2>2, <2>3 DEF CInv, GoneInv, ContractsFresh, Dirty
<1>7. CASE PurgeFails
  <2>1. SeenInv'
    BY <1>2, <1>7 DEF SeenInv, PurgeFails, InTx
  <2>2. FlagInv' /\ GoneInv'
    BY <1>2, <1>7 DEF FlagInv, GoneInv, PurgeFails, Dirty, CInv, TInv, RollupTypeOK
  <2>3. ContractsFresh'
    BY <1>7 DEF ContractsFresh, PurgeFails
  <2> QED
    BY <1>1, <2>1, <2>2, <2>3 DEF CInv
<1> QED
  BY <1>3, <1>4, <1>5, <1>6, <1>7

LEMMA FreshDeletion ==
  ASSUME CInv, DeleteUser \/ PurgeUser
  PROVE  CInv'
<1>1. TInv'
  BY TypeOthers DEF CInv
<1>2. UNCHANGED <<rd, moved>> /\ InTx' = InTx /\ tainted' = InTx /\ row' = "none"
  BY DEF DeleteUser, PurgeUser, Forget, RowGone, InTx
<1>3. SeenInv'
  BY <1>2 DEF SeenInv, InTx
<1>4. GoneInv'
  BY <1>2 DEF GoneInv, CInv, TInv, RollupTypeOK
<1> QED
  BY <1>1, <1>2, <1>3, <1>4 DEF CInv, FlagInv, ContractsFresh, Dirty

LEMMA FreshNext == CInv /\ [RollupNext]_rollupVars => CInv'
<1> SUFFICES ASSUME CInv, [RollupNext]_rollupVars PROVE CInv'
  OBVIOUS
<1>1. ASSUME NEW B \in SUBSET (Events \ events), InsertBatch(B) PROVE CInv'
  BY <1>1, FreshInsert
<1>2. ASSUME NEW r \in Readers, NEW k \in Kinds, EnsureFresh(r, k) PROVE CInv'
  BY <1>2, FreshEnsureFresh
<1>3. ASSUME NEW r \in Readers, Rebuild(r) PROVE CInv'
  BY <1>3, FreshCapture, FreshRead, FreshCommitSessions, FreshCommitContracts DEF Rebuild
<1>4. ASSUME NEW r \in Readers, RebuildFails(r) PROVE CInv'
  BY <1>4, FreshRebuildFails
<1>5. CASE UNCHANGED rollupVars
  <2>1. TInv'
    BY <1>5, TypeNext DEF CInv
  <2> QED
    BY <1>5, <2>1
      DEF rollupVars, CInv, SeenInv, FlagInv, GoneInv, ContractsFresh, Dirty, InTx, Timed
<1> QED
  BY <1>1, <1>2, <1>3, <1>4, <1>5, FreshSweep, FreshDeletion DEF RollupNext

\* Contract runs whose flag is clear are derived from exactly the stored events
\* of the handle, whatever ingests, rebuilds, sweeps and account deletions ran
\* in between (rebuild_contract_runs_for_handle and its conditional clear).
THEOREM ContractRunsFresh == RollupSpec => []ContractsFresh
<1>1. CInv => ContractsFresh
  BY DEF CInv
<1> QED
  BY FreshInit, FreshNext, <1>1, PTL DEF RollupSpec

-----------------------------------------------------------------------------
(* Sessions.                                                               *)

Grounded(P) ==
  /\ P \subseteq Play(events) /\ sessions = Sessionise(P)
  /\ \A x \in Play(events) \ P : x >= from

\* Behind a watermark nothing is missing from the sessions.
GroundInv ==
  ~sOff /\ batches = 0 /\ from # 0 => \E P \in SUBSET Times : Grounded(P)

\* The row's watermark follows the one a rebuild has captured, downwards.
MarkInv ==
  \A r \in InTx :
    rd[r].kind = Sessions /\ r \notin tainted =>
      /\ rd[r].from # 0 => from # 0 /\ from <= rd[r].from
      /\ r \notin moved => rd[r].from = from

\* A rebuild's new sessions are those of the events E.
NewFrom(r, E) ==
  rd[r].new = Sessionise(IF rd[r].from = 0 THEN E
                         ELSE {x \in E : x >= RebuildFrom(rd[r].from)})

\* E is what an undisturbed rebuild has read.
HasRead(r, E) ==
  /\ E \subseteq Play(events) /\ NewFrom(r, E)
  /\ r \notin moved => E = Play(events)
  /\ from # 0 => \A x \in Play(events) \ E : x >= from

ReadInv ==
  \A r \in Readers :
    /\ rd[r].pc = "clear" /\ rd[r].kind = Sessions
    /\ r \notin tainted /\ batches = 0
    /\ (from # 0 /\ ~sOff) \/ r \notin moved
    => \E E \in SUBSET Times : HasRead(r, E)

\* Without a row the handle has no events, and no sessions but inherited ones.
EmptyInv == row = "none" => events = {} /\ (~sOff => sessions = {})

SInv == CInv /\ GroundInv /\ MarkInv /\ ReadInv /\ EmptyInv /\ SessionsFresh

-----------------------------------------------------------------------------
(* Sessions of a set of events.                                            *)

\* The session that starts at s.
Session(E, s) == {y \in E : y >= s /\ \A z \in Starts(E) : z <= y => z <= s}

LEMMA SessioniseIs ==
  ASSUME NEW E
  PROVE  Sessionise(E) = {Session(E, s) : s \in Starts(E)}
BY DEF Sessionise, Session

\* The least event starts a session.
LEMMA SomeStart ==
  ASSUME NEW E \in SUBSET Nat, NEW y \in E
  PROVE  \E s \in Starts(E) : s <= y
<1>1. PICK s \in E : \A z \in E : s <= z
  BY LeastNatural
<1>2. s \in Starts(E)
  BY <1>1, SMT DEF Starts
<1> QED
  BY <1>1, <1>2

\* Every event is in the session of the last start before it.
LEMMA InSomeSession ==
  ASSUME NEW E \in SUBSET Nat, NEW y \in E
  PROVE  \E s \in Starts(E) : y \in Session(E, s)
<1> DEFINE D == {n \in Nat : \E s \in Starts(E) : s <= y /\ n = y - s}
<1>1. Starts(E) \subseteq E
  BY DEF Starts
<1>2. D # {}
  <2>1. PICK s \in Starts(E) : s <= y
    BY SomeStart
  <2>2. s \in Nat /\ y \in Nat
    BY <1>1
  <2>3. y - s \in D
    BY <2>1, <2>2, SMT
  <2> QED
    BY <2>3
<1>3. PICK n \in D : \A m \in D : n <= m
  BY <1>2, LeastNatural
<1>4. PICK s \in Starts(E) : s <= y /\ n = y - s
  BY <1>3
<1>5. \A z \in Starts(E) : z <= y => z <= s
  <2>1. SUFFICES ASSUME NEW z \in Starts(E), z <= y PROVE z <= s
    OBVIOUS
  <2>2. z \in Nat /\ s \in Nat /\ y \in Nat
    BY <1>1
  <2>3. y - z \in D
    BY <2>1, <2>2, SMT
  <2>4. y - s <= y - z
    BY <1>3, <1>4, <2>3
  <2> QED
    BY <2>2, <2>4, SMT
<1> QED
  BY <1>1, <1>4, <1>5 DEF Session

\* The start of a session is its least event.
LEMMA StartOfSession ==
  ASSUME NEW E \in SUBSET Nat, NEW s \in Starts(E)
  PROVE  s \in Session(E, s) /\ \A y \in Session(E, s) : y \in E /\ s <= y
BY SMT DEF Session, Starts

\* Events further apart than the gap are sessionised apart.
LEMMA SessionsSplit ==
  ASSUME NEW A \in SUBSET Nat, NEW B \in SUBSET Nat, NEW c \in Nat,
         \A x \in A : x < c, \A y \in B : y >= c,
         \A x \in A, y \in B : y - x > Gap
  PROVE  Sessionise(A \cup B) = Sessionise(A) \cup Sessionise(B)
<1> DEFINE E == A \cup B
<1>1. E \in SUBSET Nat /\ Gap \in Nat
  BY TimeAssumption
<1>2. Starts(E) = Starts(A) \cup Starts(B)
  <2>1. ASSUME NEW x \in A PROVE x \in Starts(E) <=> x \in Starts(A)
    <3>1. \A y \in B : ~(y < x)
      BY SMT
    <3> QED
      BY <3>1, <1>1 DEF Starts
  <2>2. ASSUME NEW x \in B PROVE x \in Starts(E) <=> x \in Starts(B)
    BY <1>1 DEF Starts
  <2>3. Starts(E) \subseteq E /\ Starts(A) \subseteq A /\ Starts(B) \subseteq B
    BY DEF Starts
  <2>4. A \cap B = {}
    BY SMT
  <2> QED
    BY <2>1, <2>2, <2>3, <2>4
<1>3. ASSUME NEW s \in Starts(A) PROVE Session(E, s) = Session(A, s)
  <2>1. s \in A
    BY DEF Starts
  <2>2. \A z \in Starts(B) : z \in B /\ z >= c
    BY DEF Starts
  <2>3. ASSUME NEW y \in B PROVE y \notin Session(E, s)
    <3>1. PICK z \in Starts(B) : z <= y
      BY SomeStart
    <3>2. s < c /\ z >= c /\ {s, z, c} \subseteq Nat
      BY <2>1, <2>2
    <3>3. ~(z <= s) /\ z \in Starts(E)
      BY <1>2, <3>2, SMT
    <3> QED
      BY <3>1, <3>3 DEF Session
  <2>4. ASSUME NEW y \in A PROVE y \in Session(E, s) <=> y \in Session(A, s)
    <3>0. y < c /\ y \in Nat
      OBVIOUS
    <3>1. ASSUME NEW z \in Starts(B) PROVE ~(z <= y)
      <4>1. z \in Nat /\ z >= c
        BY <2>2
      <4> QED
        BY <3>0, <4>1, SMT
    <3>2. (\A z \in Starts(E) : z <= y => z <= s)
             <=> (\A z \in Starts(A) : z <= y => z <= s)
      BY <1>2, <3>1
    <3> QED
      BY <3>2 DEF Session
  <2>5. Session(E, s) \subseteq E /\ Session(A, s) \subseteq A
    BY DEF Session
  <2> QED
    BY <2>3, <2>4, <2>5
<1>4. ASSUME NEW s \in Starts(B) PROVE Session(E, s) = Session(B, s)
  <2>1. s \in B /\ \A z \in Starts(A) : z \in A /\ z <= s
    BY SMT DEF Starts
  <2>2. ASSUME NEW y \in A PROVE y \notin Session(E, s)
    BY <2>1, SMT DEF Session
  <2>3. ASSUME NEW y \in B PROVE y \in Session(E, s) <=> y \in Session(B, s)
    BY <1>2, <2>1 DEF Session
  <2>4. Session(E, s) \subseteq E /\ Session(B, s) \subseteq B
    BY DEF Session
  <2> QED
    BY <2>2, <2>3, <2>4
<1>5. Sessionise(E) = {Session(E, s) : s \in Starts(A)} \cup {Session(E, s) : s \in Starts(B)}
  BY <1>2, SessioniseIs
<1>6. {Session(E, s) : s \in Starts(A)} = Sessionise(A)
  BY <1>3, SessioniseIs
<1>7. {Session(E, s) : s \in Starts(B)} = Sessionise(B)
  BY <1>4, SessioniseIs
<1> QED
  BY <1>5, <1>6, <1>7

-----------------------------------------------------------------------------
(* The window of a rebuild.                                                *)

\* Max of a nonempty bounded set of naturals is its greatest element.
LEMMA MaxElement ==
  ASSUME NEW T \in SUBSET Nat, T # {}, NEW n \in Nat, \A x \in T : x <= n
  PROVE  Max(T) \in T /\ \A x \in T : x <= Max(T)
<1> DEFINE D == {m \in Nat : \E x \in T : m = n - x}
<1>1. \A x \in T : n - x \in D
  BY SMT
<1>2. PICK m \in D : \A k \in D : m <= k
  BY <1>1, LeastNatural
<1>3. PICK x \in T : m = n - x
  BY <1>2
<1>4. ASSUME NEW y \in T PROVE x >= y
  <2>1. n - x <= n - y
    BY <1>1, <1>2, <1>3
  <2> QED
    BY <2>1, SMT
<1>5. \E z \in T : \A y \in T : z >= y
  BY <1>4
<1>6. Max(T) \in T /\ \A y \in T : Max(T) >= y
  BY <1>5 DEF Max
<1> QED
  BY <1>6

\* The least event of a session is its start, the last one is in it.
LEMMA SessionBounds ==
  ASSUME NEW P \in SUBSET Times, NEW a \in Starts(P)
  PROVE  /\ Min(Session(P, a)) = a /\ a \in P
         /\ Max(Session(P, a)) \in Session(P, a) /\ Session(P, a) \subseteq P
         /\ \A x \in Session(P, a) : x <= Max(Session(P, a))
<1> DEFINE S == Session(P, a)
<1>1. P \in SUBSET Nat
  BY TimeAssumption
<1>2. a \in S /\ S \subseteq P /\ \A y \in S : a <= y
  BY <1>1, StartOfSession
<1>3. PICK last \in Times : \A t \in Times : t <= last
  BY TimeAssumption
<1>4. last \in Nat /\ \A x \in S : x <= last
  BY <1>2, <1>3, TimeAssumption
<1> HIDE DEF S
<1>5. S \in SUBSET Nat /\ S # {}
  BY <1>1, <1>2
<1>6. Max(S) \in S /\ \A x \in S : x <= Max(S)
  BY <1>4, <1>5, MaxElement
<1>7. Min(S) \in S /\ \A y \in S : Min(S) <= y
  BY <1>2 DEF Min
<1>8. Min(S) = a
  <2>1. PICK m \in Nat : m = Min(S)
    BY <1>5, <1>7
  <2>2. a <= m /\ m <= a /\ a \in Nat
    BY <1>2, <1>5, <1>7, <2>1
  <2> QED
    BY <2>1, <2>2, SMT
<1> QED
  BY <1>2, <1>6, <1>8 DEF S

\* session_rebuild_window: a rebuild from the watermark d starts at d or at the
\* start of the first suspect session, and no suspect session starts before.
LEMMA WindowStart ==
  ASSUME NEW P \in SUBSET Times, sessions = Sessionise(P), NEW d \in Times
  PROVE  /\ RebuildFrom(d) \in Nat /\ RebuildFrom(d) <= d
         /\ \/ RebuildFrom(d) = d
            \/ \E b \in Starts(P) : /\ RebuildFrom(d) = b
                                   /\ Max(Session(P, b)) >= d - Gap
         /\ \A a \in Starts(P) : Max(Session(P, a)) >= d - Gap => RebuildFrom(d) <= a
<1> DEFINE Suspect == {s \in sessions : Max(s) >= DiscardFrom(d)}
           T == {Min(s) : s \in Suspect} \cup {d}
<1>1. RebuildFrom(d) = Min(T)
  BY DEF RebuildFrom
<1>2. \A a \in Starts(P) : Min(Session(P, a)) = a /\ a \in Nat
  BY SessionBounds, TimeAssumption
<1>3. \A s \in Suspect : \E b \in Starts(P) :
         /\ s = Session(P, b) /\ Min(s) = b /\ Max(Session(P, b)) >= d - Gap
  BY <1>2, SessioniseIs DEF DiscardFrom
<1>4. T \in SUBSET Nat /\ T # {} /\ d \in T
  BY <1>2, <1>3, TimeAssumption, SMT
<1>5. ASSUME NEW a \in Starts(P), Max(Session(P, a)) >= d - Gap PROVE a \in T
  <2>1. Session(P, a) \in Suspect
    BY <1>5, SessioniseIs DEF DiscardFrom
  <2>2. Min(Session(P, a)) \in T
    BY <2>1
  <2> QED
    BY <1>2, <2>2
<1>6. \A t \in T : t = d \/ \E b \in Starts(P) : t = b /\ Max(Session(P, b)) >= d - Gap
  BY <1>3
<1> HIDE DEF T
<1>7. Min(T) \in T /\ \A t \in T : Min(T) <= t
  BY <1>4, MinElement
<1> QED
  BY <1>1, <1>4, <1>5, <1>6, <1>7

\* What a rebuild from d keeps are the sessions of the events before its start,
\* and these are further than the gap from anything it reads.
LEMMA WindowCut ==
  ASSUME NEW P \in SUBSET Times, sessions = Sessionise(P), NEW d \in Times
  PROVE  /\ \A x \in P, y \in Nat : x < RebuildFrom(d) /\ y >= RebuildFrom(d) => y - x > Gap
         /\ Kept(d) = Sessionise({x \in P : x < RebuildFrom(d)})
<1>1. PICK c \in Nat : c = RebuildFrom(d)
  BY WindowStart
<1> DEFINE A == {x \in P : x < c}
           B == {x \in P : x >= c}
<1>2. /\ c <= d
      /\ \/ c = d
         \/ \E b \in Starts(P) : c = b /\ Max(Session(P, b)) >= d - Gap
      /\ \A a \in Starts(P) : Max(Session(P, a)) >= d - Gap => c <= a
  BY <1>1, WindowStart
<1>3. P \in SUBSET Nat /\ d \in Nat \ {0} /\ Gap \in Nat
  BY TimeAssumption
<1>4. \A a \in Starts(P) :
         /\ a \in P /\ Session(P, a) \subseteq P
         /\ Max(Session(P, a)) \in Session(P, a) /\ Max(Session(P, a)) \in Nat
         /\ \A x \in Session(P, a) : x <= Max(Session(P, a)) /\ a <= x
  BY <1>3, SessionBounds, StartOfSession
<1>5. ASSUME NEW a \in Starts(P), NEW x \in Session(P, a), x < c
      PROVE  Max(Session(P, a)) < d - Gap /\ x < d - Gap
  <2>1. PICK m \in Nat : m = Max(Session(P, a))
    BY <1>4
  <2>2. a <= x /\ x <= m /\ a \in Nat /\ x \in Nat
    BY <1>3, <1>4, <2>1
  <2>3. ~(m >= d - Gap)
    BY <1>2, <1>5, <2>1, <2>2, SMT
  <2> QED
    BY <1>3, <2>1, <2>2, <2>3, SMT
<1>6. ASSUME NEW x \in P, NEW y \in Nat, x < c, y >= c PROVE y - x > Gap
  <2>1. CASE c = d
    <3>1. PICK a \in Starts(P) : x \in Session(P, a)
      BY <1>3, InSomeSession
    <3>2. x < d - Gap
      BY <1>5, <1>6, <3>1
    <3> QED
      BY <1>3, <1>6, <2>1, <3>2, SMT
  <2>2. CASE c \in Starts(P)
    <3>1. c - x > Gap
      BY <1>6, <2>2 DEF Starts
    <3> QED
      BY <1>3, <1>6, <3>1, SMT
  <2> QED
    BY <1>2, <2>1, <2>2
<1>7. Sessionise(P) = Sessionise(A) \cup Sessionise(B)
  <2>0. \A x \in P : x < c \/ x >= c
    BY <1>3, SMT
  <2>1. A \in SUBSET Nat /\ B \in SUBSET Nat /\ A \cup B = P
    BY <1>3, <2>0
  <2>2. (\A x \in A : x < c) /\ (\A y \in B : y >= c)
    OBVIOUS
  <2>3. \A x \in A, y \in B : y - x > Gap
    BY <1>3, <1>6
  <2> QED
    BY <2>1, <2>2, <2>3, SessionsSplit
<1>8. Kept(d) = {s \in Sessionise(P) : Max(s) < d - Gap}
  BY <1>3 DEF Kept, DiscardFrom
<1>9. ASSUME NEW s \in Sessionise(A) PROVE s \in Kept(d)
  <2>1. s \in Sessionise(P)
    BY <1>7
  <2>2. PICK a \in Starts(P) : s = Session(P, a)
    BY <2>1, SessioniseIs
  <2>3. A \in SUBSET Nat
    BY <1>3
  <2>4. Sessionise(A) \subseteq SUBSET A /\ {} \notin Sessionise(A)
    BY <2>3, SessionsOfEvents
  <2>5. PICK x \in s : x < c
    BY <2>4, SMT
  <2> QED
    BY <1>5, <1>8, <2>1, <2>2, <2>5
<1>10. ASSUME NEW s \in Kept(d) PROVE s \notin Sessionise(B)
  <2>1. PICK a \in Starts(P) : s = Session(P, a)
    BY <1>8, SessioniseIs
  <2>2. PICK m \in Nat : m = Max(s) /\ m < d - Gap /\ a <= m /\ a \in Nat /\ a \in s
    BY <1>3, <1>4, <1>8, <2>1, StartOfSession
  <2>3. SUFFICES ASSUME s \in Sessionise(B) PROVE FALSE
    OBVIOUS
  <2>4. a >= c
    BY <1>3, <2>2, <2>3, SessionsOfEvents, SMT
  <2>5. PICK b \in Starts(P) : c = b /\ Max(Session(P, b)) >= d - Gap
    BY <1>2, <1>3, <2>2, <2>4, SMT
  <2>6. PICK n \in Nat : n = Max(Session(P, b)) /\ n \in Session(P, b) /\ a <= n
    BY <1>3, <1>4, <2>2, <2>5, SMT
  <2>7. a <= c
    BY <2>5, <2>6 DEF Session
  <2>8. a = b
    BY <2>2, <2>4, <2>5, <2>7, SMT
  <2> QED
    BY <1>3, <2>1, <2>2, <2>5, <2>6, <2>8, SMT
<1>11. Kept(d) = Sessionise(A)
  BY <1>7, <1>8, <1>9, <1>10
<1> QED
  BY <1>1, <1>6, <1>11

\* What a rebuild from d leaves are the sessions of the events before its start
\* that were known, and of those after it that it has read.
LEMMA WindowRebuild ==
  ASSUME NEW P \in SUBSET Times, sessions = Sessionise(P), NEW d \in Times,
         NEW E \in SUBSET Times
  PROVE  Kept(d) \cup Sessionise({x \in E : x >= RebuildFrom(d)})
           = Sessionise({x \in P : x < RebuildFrom(d)} \cup {x \in E : x >= RebuildFrom(d)})
<1>1. PICK c \in Nat : c = RebuildFrom(d)
  BY WindowStart
<1> DEFINE A == {x \in P : x < c}
           B == {x \in E : x >= c}
<1>2. A \in SUBSET Nat /\ B \in SUBSET Nat
  BY TimeAssumption
<1>3. (\A x \in A : x < c) /\ (\A y \in B : y >= c)
  OBVIOUS
<1>4. \A x \in A, y \in B : y - x > Gap
  BY <1>1, <1>2, WindowCut
<1>5. Sessionise(A \cup B) = Sessionise(A) \cup Sessionise(B)
  BY <1>2, <1>3, <1>4, SessionsSplit
<1>6. Kept(d) = Sessionise(A)
  BY <1>1, WindowCut
<1> QED
  BY <1>1, <1>5, <1>6

\* If all that is missing is from d on, they are those of all events.
LEMMA WindowComplete ==
  ASSUME NEW P \in SUBSET Times, sessions = Sessionise(P), NEW d \in Times,
         NEW E \in SUBSET Times, P \subseteq E, \A x \in E \ P : x >= d
  PROVE  Kept(d) \cup Sessionise({x \in E : x >= RebuildFrom(d)}) = Sessionise(E)
<1>1. PICK c \in Nat : c = RebuildFrom(d) /\ c <= d
  BY WindowStart
<1>2. E \in SUBSET Nat /\ d \in Nat
  BY TimeAssumption
<1>3. \A x \in E : x >= c \/ (x \in P /\ x < c)
  BY <1>1, <1>2, SMT
<1>4. {x \in P : x < c} \cup {x \in E : x >= c} = E
  BY <1>3
<1>5. Kept(d) \cup Sessionise({x \in E : x >= c})
        = Sessionise({x \in P : x < c} \cup {x \in E : x >= c})
  BY <1>1, WindowRebuild, SMT
<1> QED
  BY <1>1, <1>4, <1>5

LEMMA PlayTimes ==
  ASSUME RollupTypeOK
  PROVE  Play(events) \in SUBSET Times
BY TimeAssumption DEF RollupTypeOK, Play, Timed, Events

LEMMA TimesNat == Times \subseteq Nat /\ Times \cup {0} \subseteq Nat
<1>1. Times \subseteq Nat
  BY TimeAssumption
<1> QED
  BY <1>1, SMT

LEMMA EmptySessions == Sessionise({}) = {}
BY DEF Sessionise, Starts

\* LEAST: the watermark only moves down, to the earliest new event.
LEMMA WatermarkBound ==
  ASSUME RollupTypeOK, NEW B \in SUBSET Events
  PROVE  /\ from # 0 => Watermark(B) # 0 /\ Watermark(B) <= from
         /\ Watermark(B) # 0 => \A x \in Timed(B) : x >= Watermark(B)
         /\ Watermark(B) # 0 => from # 0 \/ Sessions \notin dirty
<1> DEFINE T == Timed(B) \cup (IF from = 0 THEN {} ELSE {from})
<1>1. T \in SUBSET Nat /\ 0 \notin T
  BY TimeAssumption DEF RollupTypeOK, Timed, Events
<1>2. Timed(B) # {} => Min(T) \in T /\ \A y \in T : Min(T) <= y
  BY <1>1, MinElement
<1>3. from \in Nat
  BY TimeAssumption, SMT DEF RollupTypeOK
<1>4. Watermark(B) = IF Sessions \in dirty /\ from = 0 THEN 0
                     ELSE IF Timed(B) = {} THEN from ELSE Min(T)
  BY DEF Watermark
<1>5. Timed(B) \subseteq T /\ (from # 0 => from \in T)
  OBVIOUS
<1> HIDE DEF T
<1>6. CASE Timed(B) = {}
  BY <1>3, <1>4, <1>6, SMT
<1>7. CASE Timed(B) # {}
  <2>1. PICK m \in Nat : m = Min(T) /\ m # 0 /\ \A y \in T : m <= y
    BY <1>1, <1>2, <1>7
  <2>2. \A x \in Timed(B) : x \in Nat /\ m <= x
    BY <1>1, <1>5, <2>1
  <2>3. from # 0 => m <= from
    BY <1>5, <2>1
  <2> QED
    BY <1>3, <1>4, <1>7, <2>1, <2>2, <2>3
<1> QED
  BY <1>6, <1>7

-----------------------------------------------------------------------------
(* The invariant.                                                          *)


LEMMA SessionsInit == RollupInit => SInv
<1> SUFFICES ASSUME RollupInit PROVE SInv
  OBVIOUS
<1>1. CInv
  BY FreshInit
<1>2. InTx = {} /\ \A r \in Readers : rd[r].pc = "idle"
  BY DEF RollupInit, InTx, Idle
<1>3. GroundInv /\ EmptyInv /\ SessionsFresh
  BY DEF RollupInit, GroundInv, EmptyInv, SessionsFresh, Dirty
<1> QED
  BY <1>1, <1>2, <1>3 DEF SInv, MarkInv, ReadInv

\* A pending or clear handle is grounded when a batch gives it a watermark.
LEMMA GroundBeforeInsert ==
  ASSUME SInv, NEW B \in SUBSET (Events \ events), InsertBatch(B),
         ~sOff, batches = 0, from' # 0
  PROVE  \E P \in SUBSET Times :
           /\ P \subseteq Play(events) /\ sessions = Sessionise(P)
           /\ from # 0 => \A x \in Play(events) \ P : x >= from
           /\ from = 0 => P = Play(events)
<1>1. RollupTypeOK
  BY DEF SInv, CInv, TInv
<1>2. CASE from # 0
  BY <1>2 DEF SInv, GroundInv, Grounded
<1>3. CASE from = 0
  <2>1. Sessions \notin dirty
    BY <1>1, <1>3, WatermarkBound DEF InsertBatch
  <2>2. sessions = Sessionise(Play(events))
    <3>1. CASE row = "none"
      <4>1. events = {} /\ sessions = {}
        BY <3>1 DEF SInv, EmptyInv
      <4>2. Play(events) = {}
        BY <4>1 DEF Play, Timed
      <4> QED
        BY <4>1, <4>2, EmptySessions
    <3>2. CASE row # "none"
      BY <2>1, <3>2 DEF SInv, SessionsFresh, Dirty
    <3> QED
      BY <3>1, <3>2
  <2> QED
    BY <1>1, <1>3, <2>2, PlayTimes
<1> QED
  BY <1>2, <1>3

LEMMA SessionsInsert ==
  ASSUME SInv, NEW B \in SUBSET (Events \ events), InsertBatch(B)
  PROVE  SInv'
<1>1. CInv' /\ RollupTypeOK /\ RollupTypeOK'
  BY FreshInsert DEF SInv, CInv, TInv
<1>2. /\ UNCHANGED <<rd, sessions, batches, sOff, tainted>> /\ InTx' = InTx
      /\ events' = events \cup B /\ from' = Watermark(B)
      /\ row' # "none" /\ dirty' = Kinds /\ moved' = InTx
  BY DEF InsertBatch, InTx, Flags, Touch
<1>3. /\ from # 0 => from' # 0 /\ from' <= from
      /\ from' # 0 => \A x \in Timed(B) : x >= from'
      /\ from' # 0 => from # 0 \/ Sessions \notin dirty
  BY <1>1, <1>2, WatermarkBound
<1>4. Play(events') \subseteq Play(events) \cup Timed(B) /\ Play(events) \subseteq Play(events')
  BY <1>2 DEF Play, Timed
<1>5. from \in Nat /\ from' \in Nat /\ Play(events) \in SUBSET Nat
  <2>1. Play(events) \in SUBSET Times
    BY <1>1, PlayTimes
  <2>2. from \in Times \cup {0} /\ from' \in Times \cup {0}
    BY <1>1 DEF RollupTypeOK
  <2> QED
    BY <2>1, <2>2, TimesNat
<1>6. ASSUME NEW Q, from' # 0, from # 0 => \A x \in Play(events) \ Q : x >= from,
             from = 0 => Play(events) \subseteq Q
      PROVE  \A x \in Play(events') \ Q : x >= from'
  <2>1. SUFFICES ASSUME NEW x \in Play(events') \ Q PROVE x >= from'
    OBVIOUS
  <2>2. CASE x \in Timed(B)
    BY <1>3, <1>6, <2>2
  <2>3. CASE x \in Play(events)
    <3>1. from # 0 /\ x >= from /\ from' <= from
      BY <1>3, <1>6, <2>1, <2>3
    <3> QED
      BY <1>5, <2>3, <3>1, SMT
  <2> QED
    BY <1>4, <2>1, <2>2, <2>3
<1>7. GroundInv'
  <2>1. SUFFICES ASSUME ~sOff, batches = 0, from' # 0
                 PROVE  \E P \in SUBSET Times : Grounded(P)'
    BY <1>2 DEF GroundInv
  <2>2. PICK P \in SUBSET Times :
           /\ P \subseteq Play(events) /\ sessions = Sessionise(P)
           /\ from # 0 => \A x \in Play(events) \ P : x >= from
           /\ from = 0 => P = Play(events)
    BY <2>1, GroundBeforeInsert
  <2>3. \A x \in Play(events') \ P : x >= from'
    BY <1>6, <2>1, <2>2
  <2> QED
    BY <1>2, <1>4, <2>2, <2>3 DEF Grounded
<1>8. MarkInv'
  <2>1. SUFFICES ASSUME NEW r \in InTx, rd[r].kind = Sessions, r \notin tainted,
                        rd[r].from # 0
                 PROVE  from' # 0 /\ from' <= rd[r].from
    BY <1>2 DEF MarkInv
  <2>2. from # 0 /\ from <= rd[r].from
    BY <2>1 DEF SInv, MarkInv
  <2>3. rd[r].from \in Nat
    <3>1. r \in Readers /\ rd[r] \in ReaderType
      BY <1>1 DEF RollupTypeOK, InTx
    <3>2. rd[r].from \in Times \cup {0}
      BY <3>1 DEF ReaderType
    <3> QED
      BY <3>2, TimesNat
  <2> QED
    BY <1>3, <1>5, <2>2, <2>3, SMT
<1>9. ReadInv'
  <2>1. SUFFICES ASSUME NEW r \in Readers, rd[r].pc = "clear", rd[r].kind = Sessions,
                        r \notin tainted, batches = 0, from' # 0, ~sOff
                 PROVE  \E E \in SUBSET Times : HasRead(r, E)'
    BY <1>2 DEF ReadInv, InTx
  <2>2. r \in InTx
    BY <2>1 DEF InTx
  <2>3. from = 0 => row = "none"
    BY <1>3, <2>1, <2>2 DEF SInv, CInv, FlagInv, Dirty
  <2>4. from = 0 => r \notin moved
    BY <2>1, <2>3 DEF SInv, CInv, GoneInv
  <2>5. PICK E \in SUBSET Times : HasRead(r, E)
    BY <2>1, <2>4 DEF SInv, ReadInv
  <2>6. \A x \in Play(events') \ E : x >= from'
    BY <1>6, <2>1, <2>4, <2>5 DEF HasRead
  <2>7. NewFrom(r, E)'
    BY <1>2, <2>5 DEF HasRead, NewFrom, RebuildFrom, DiscardFrom
  <2> QED
    BY <1>2, <1>4, <2>2, <2>5, <2>6, <2>7 DEF HasRead
<1> QED
  BY <1>1, <1>2, <1>7, <1>8, <1>9 DEF SInv, EmptyInv, SessionsFresh, Dirty

\* A step of another kind keeps what a session rebuild has read.
LEMMA ReadKept ==
  ASSUME NEW r \in Readers, NEW E \in SUBSET Times, HasRead(r, E),
         rd'[r] = rd[r], UNCHANGED <<events, sessions, from>>, r \notin moved' => r \notin moved
  PROVE  HasRead(r, E)'
BY DEF HasRead, NewFrom, RebuildFrom, DiscardFrom, Play, Timed

\* Steps that change no table and no watermark, and leave session rebuilds with
\* a lock as they are.
LEMMA SessionsQuiet ==
  ASSUME SInv, CInv', UNCHANGED <<events, sessions, from, batches, sOff>>,
         \A r \in InTx' : rd'[r].kind = Sessions =>
            /\ r \in InTx /\ rd'[r] = rd[r]
            /\ r \notin moved' => r \notin moved
            /\ r \notin tainted' => r \notin tainted,
         row' = "none" => row = "none", ~Dirty(Sessions)' => ~Dirty(Sessions)
  PROVE  SInv'
<1>1. GroundInv'
  BY DEF SInv, GroundInv, Grounded, Play, Timed
<1>2. MarkInv'
  <2>1. SUFFICES ASSUME NEW r \in InTx', rd'[r].kind = Sessions, r \notin tainted'
                 PROVE  /\ rd'[r].from # 0 => from' # 0 /\ from' <= rd'[r].from
                        /\ r \notin moved' => rd'[r].from = from'
    BY DEF MarkInv
  <2> QED
    BY <2>1 DEF SInv, MarkInv
<1>3. ReadInv'
  <2>1. SUFFICES ASSUME NEW r \in Readers, rd'[r].pc = "clear", rd'[r].kind = Sessions,
                        r \notin tainted', batches' = 0,
                        (from' # 0 /\ ~sOff') \/ r \notin moved'
                 PROVE  \E E \in SUBSET Times : HasRead(r, E)'
    BY DEF ReadInv
  <2>2. r \in InTx'
    BY <2>1 DEF InTx
  <2>3. PICK E \in SUBSET Times : HasRead(r, E)
    BY <2>1, <2>2 DEF SInv, ReadInv
  <2> QED
    BY <2>1, <2>2, <2>3, ReadKept
<1>4. EmptyInv' /\ SessionsFresh'
  BY DEF SInv, EmptyInv, SessionsFresh, Play, Timed
<1> QED
  BY <1>1, <1>2, <1>3, <1>4 DEF SInv

LEMMA SessionsEnsureFresh ==
  ASSUME SInv, NEW r \in Readers, NEW k \in Kinds, EnsureFresh(r, k)
  PROVE  SInv'
<1>1. CInv'
  BY FreshEnsureFresh DEF SInv
<1>2. /\ \A q \in Readers \ {r} : rd'[q] = rd[q]
      /\ rd'[r].pc = "lock"
  BY DEF EnsureFresh, SInv, CInv, TInv, RollupTypeOK, Idle
<1>3. \A q \in InTx' : q \in InTx /\ rd'[q] = rd[q]
  BY <1>2 DEF InTx
<1>4. UNCHANGED <<events, sessions, from, batches, sOff, moved, tainted, row, dirty>>
  BY DEF EnsureFresh
<1> QED
  BY <1>1, <1>3, <1>4, SessionsQuiet DEF Dirty

LEMMA SessionsRebuildFails ==
  ASSUME SInv, NEW r \in Readers, RebuildFails(r)
  PROVE  SInv'
<1>1. CInv'
  BY FreshRebuildFails DEF SInv
<1>2. /\ \A q \in Readers \ {r} : rd'[q] = rd[q]
      /\ rd'[r].pc = "idle"
  BY DEF RebuildFails, SInv, CInv, TInv, RollupTypeOK, Idle
<1>3. \A q \in InTx' : q # r /\ q \in InTx /\ rd'[q] = rd[q]
  BY <1>2 DEF InTx
<1>4. /\ UNCHANGED <<events, sessions, from, batches, sOff, row, dirty>>
      /\ moved' = moved \ {r} /\ tainted' = tainted \ {r}
  BY DEF RebuildFails
<1> QED
  BY <1>1, <1>3, <1>4, SessionsQuiet DEF Dirty

LEMMA SessionsCommitContracts ==
  ASSUME SInv, NEW r \in Readers, CommitContracts(r)
  PROVE  SInv'
<1>1. CInv'
  BY FreshCommitContracts DEF SInv
<1>2. \A q \in InTx' : q # r /\ q \in InTx /\ rd'[q] = rd[q]
  BY DEF CommitContracts, SInv, CInv, TInv, RollupTypeOK, Idle, InTx
<1>3. /\ UNCHANGED <<events, sessions, from, batches, sOff>> /\ row' # "none"
      /\ moved' = Touched(r) /\ tainted' = tainted \ {r}
  BY DEF CommitContracts, ClearFlag
<1>4. \A q \in InTx' : q \notin moved' => q \notin moved
  BY <1>2, <1>3 DEF Touched
<1>5. ~Dirty(Sessions)' => ~Dirty(Sessions)
  BY DEF CommitContracts, ClearFlag, Clears, Dirty
<1> QED
  BY <1>1, <1>2, <1>3, <1>4, <1>5, SessionsQuiet

LEMMA SessionsCapture ==
  ASSUME SInv, NEW r \in Readers, Capture(r)
  PROVE  SInv'
<1>1. CInv'
  BY FreshCapture DEF SInv
<1>2. \A q \in Readers \ {r} : rd'[q] = rd[q]
  BY DEF Capture, SInv, CInv, TInv, RollupTypeOK
<1>3. \/ rd'[r].pc = "idle"
      \/ rd'[r].pc = "read" /\ rd'[r].from = from
  BY DEF Capture, SInv, CInv, TInv, RollupTypeOK, Idle
<1>4. UNCHANGED <<events, sessions, from, batches, sOff, moved, tainted, row, dirty>>
  BY DEF Capture
<1>5. MarkInv'
  <2>1. SUFFICES ASSUME NEW q \in InTx', rd'[q].kind = Sessions, q \notin tainted'
                 PROVE  /\ rd'[q].from # 0 => from' # 0 /\ from' <= rd'[q].from
                        /\ q \notin moved' => rd'[q].from = from'
    BY DEF MarkInv
  <2>2. CASE q = r
    <3>1. rd'[q].from = from /\ from \in Nat
      BY <1>3, <2>1, <2>2, TimesNat DEF InTx, SInv, CInv, TInv, RollupTypeOK
    <3> QED
      BY <1>4, <3>1, SMT
  <2>3. CASE q # r
    BY <1>2, <1>4, <2>1, <2>3 DEF SInv, MarkInv, InTx
  <2> QED
    BY <2>2, <2>3
<1>6. ReadInv'
  <2>1. SUFFICES ASSUME NEW q \in Readers, rd'[q].pc = "clear", rd'[q].kind = Sessions,
                        q \notin tainted', batches' = 0,
                        (from' # 0 /\ ~sOff') \/ q \notin moved'
                 PROVE  \E E \in SUBSET Times : HasRead(q, E)'
    BY DEF ReadInv
  <2>2. q # r /\ rd'[q] = rd[q]
    BY <1>2, <1>3, <2>1
  <2>3. PICK E \in SUBSET Times : HasRead(q, E)
    BY <1>4, <2>1, <2>2 DEF SInv, ReadInv
  <2> QED
    BY <1>4, <2>2, <2>3, ReadKept
<1>7. GroundInv' /\ EmptyInv' /\ SessionsFresh'
  BY <1>4 DEF SInv, GroundInv, Grounded, EmptyInv, SessionsFresh, Dirty, Play, Timed
<1> QED
  BY <1>1, <1>5, <1>6, <1>7 DEF SInv

LEMMA SessionsRead ==
  ASSUME SInv, NEW r \in Readers, Read(r)
  PROVE  SInv'
<1>1. CInv' /\ RollupTypeOK
  BY FreshRead DEF SInv, CInv, TInv
<1>2. UNCHANGED <<events, sessions, from, batches, sOff, moved, tainted, row, dirty>>
  BY DEF Read
<1>3. \A q \in Readers \ {r} : rd'[q] = rd[q]
  BY <1>1 DEF Read, RollupTypeOK
<1>4. /\ rd'[r].kind = rd[r].kind /\ rd'[r].from = rd[r].from /\ r \in InTx
      /\ rd[r].kind = Sessions => rd'[r].new = Inserted(rd[r].from)
  BY <1>1, SMT DEF Read, RollupTypeOK, ReaderType, InTx
<1>5. MarkInv'
  <2>1. SUFFICES ASSUME NEW q \in InTx', rd'[q].kind = Sessions, q \notin tainted'
                 PROVE  /\ rd'[q].from # 0 => from' # 0 /\ from' <= rd'[q].from
                        /\ q \notin moved' => rd'[q].from = from'
    BY DEF MarkInv
  <2>2. q \in InTx /\ rd'[q].kind = rd[q].kind /\ rd'[q].from = rd[q].from
    BY <1>3, <1>4 DEF InTx
  <2> QED
    BY <1>2, <2>1, <2>2 DEF SInv, MarkInv
<1>6. ReadInv'
  <2>1. SUFFICES ASSUME NEW q \in Readers, rd'[q].pc = "clear", rd'[q].kind = Sessions,
                        q \notin tainted', batches' = 0,
                        (from' # 0 /\ ~sOff') \/ q \notin moved'
                 PROVE  \E E \in SUBSET Times : HasRead(q, E)'
    BY DEF ReadInv
  <2>2. CASE q = r
    <3>1. Play(events) \in SUBSET Times
      BY <1>1, PlayTimes
    <3>2. rd'[r].new = Inserted(rd'[r].from)
      BY <1>4, <2>1, <2>2
    <3>3. NewFrom(r, Play(events))'
      BY <1>2, <3>2 DEF NewFrom, Inserted, RebuildFrom, DiscardFrom, Play, Timed
    <3>4. HasRead(r, Play(events))'
      BY <3>3 DEF HasRead
    <3>5. Play(events)' = Play(events)
      BY <1>2 DEF Play, Timed
    <3> QED
      BY <2>2, <3>1, <3>4, <3>5
  <2>3. CASE q # r
    <3>1. PICK E \in SUBSET Times : HasRead(q, E)
      BY <1>2, <1>3, <2>1, <2>3 DEF SInv, ReadInv
    <3> QED
      BY <1>2, <1>3, <2>3, <3>1, ReadKept
  <2> QED
    BY <2>2, <2>3
<1>7. GroundInv' /\ EmptyInv' /\ SessionsFresh'
  BY <1>2 DEF SInv, GroundInv, Grounded, EmptyInv, SessionsFresh, Dirty, Play, Timed
<1> QED
  BY <1>1, <1>5, <1>6, <1>7 DEF SInv

\* What an undisturbed rebuild leaves is the sessions of stored events, and
\* those it misses are not before the row's watermark.
LEMMA CommitGrounds ==
  ASSUME SInv, NEW r \in Readers, CommitSessions(r), r \notin tainted, batches = 0,
         ~sOff, from # 0
  PROVE  \E Q \in SUBSET Times :
           /\ Q \subseteq Play(events) /\ sessions' = Sessionise(Q)
           /\ \A x \in Play(events) \ Q : x >= from
<1>1. RollupTypeOK
  BY DEF SInv, CInv, TInv
<1>2. rd[r].pc = "clear" /\ rd[r].kind = Sessions /\ sessions' = Kept(rd[r].from) \cup rd[r].new
  BY DEF CommitSessions
<1>3. PICK E \in SUBSET Times : HasRead(r, E)
  BY <1>2 DEF SInv, ReadInv
<1>4. CASE rd[r].from = 0
  BY <1>2, <1>3, <1>4 DEF HasRead, NewFrom, Kept
<1>5. CASE rd[r].from # 0
  <2>1. PICK d \in Times : d = rd[r].from
    BY <1>1, <1>5 DEF RollupTypeOK, ReaderType
  <2>2. PICK P \in SUBSET Times : Grounded(P)
    BY DEF SInv, GroundInv
  <2>3. PICK c \in Nat : c = RebuildFrom(d)
    BY <2>2, WindowStart DEF Grounded
  <2> DEFINE Q == {x \in P : x < c} \cup {x \in E : x >= c}
  <2>4. sessions' = Sessionise(Q)
    <3>1. sessions = Sessionise(P)
      BY <2>2 DEF Grounded
    <3>2. Kept(d) \cup Sessionise({x \in E : x >= RebuildFrom(d)})
            = Sessionise({x \in P : x < RebuildFrom(d)} \cup {x \in E : x >= RebuildFrom(d)})
      BY <3>1, WindowRebuild
    <3>3. rd[r].new = Sessionise({x \in E : x >= RebuildFrom(rd[r].from)})
      BY <1>3, <1>5 DEF HasRead, NewFrom
    <3>4. sessions' = Kept(d) \cup Sessionise({x \in E : x >= RebuildFrom(d)})
      BY <1>2, <2>1, <3>3
    <3> QED
      BY <2>3, <3>2, <3>4
  <2>5. Q \subseteq Play(events) /\ Q \in SUBSET Times
    BY <1>3, <2>2 DEF Grounded, HasRead
  <2>6. ASSUME NEW x \in Play(events) \ Q PROVE x >= from
    <3>1. x \in Nat
      BY <1>1, PlayTimes, TimesNat
    <3>2. CASE x \notin P
      BY <2>2, <3>2 DEF Grounded
    <3>3. CASE x \in P
      <4>1. x \notin E
        BY <2>3, <2>6, <3>1, <3>3, SMT
      <4> QED
        BY <1>3, <4>1 DEF HasRead
    <3> QED
      BY <3>2, <3>3
  <2> QED
    BY <2>4, <2>5, <2>6
<1> QED
  BY <1>4, <1>5

\* One that may clear the flag leaves the sessions of all stored events.
LEMMA CommitCompletes ==
  ASSUME SInv, NEW r \in Readers, CommitSessions(r), r \notin tainted, batches = 0,
         Clears(r), ~sOff \/ rd[r].from = 0
  PROVE  sessions' = Sessionise(Play(events))
<1>1. RollupTypeOK
  BY DEF SInv, CInv, TInv
<1>2. rd[r].pc = "clear" /\ rd[r].kind = Sessions /\ sessions' = Kept(rd[r].from) \cup rd[r].new
  BY DEF CommitSessions
<1>3. r \notin moved
  BY DEF Clears, SInv, CInv, GoneInv
<1>4. PICK E \in SUBSET Times : HasRead(r, E)
  BY <1>2, <1>3 DEF SInv, ReadInv
<1>5. E = Play(events) /\ NewFrom(r, E)
  BY <1>3, <1>4 DEF HasRead
<1>6. CASE rd[r].from = 0
  BY <1>2, <1>5, <1>6 DEF NewFrom, Kept
<1>7. CASE rd[r].from # 0
  <2>1. PICK d \in Times : d = rd[r].from
    BY <1>1, <1>7 DEF RollupTypeOK, ReaderType
  <2>2. r \in InTx
    BY <1>2 DEF InTx
  <2>3. from = d
    BY <1>2, <1>3, <2>1, <2>2 DEF SInv, MarkInv
  <2>4. from # 0 /\ ~sOff
    BY <1>7, <2>1, <2>3
  <2>5. PICK P \in SUBSET Times : Grounded(P)
    BY <2>4 DEF SInv, GroundInv
  <2>6. Kept(d) \cup Sessionise({x \in E : x >= RebuildFrom(d)}) = Sessionise(E)
    BY <1>5, <2>3, <2>5, WindowComplete, SMT DEF Grounded
  <2> QED
    BY <1>2, <1>5, <1>7, <2>1, <2>6 DEF NewFrom
<1> QED
  BY <1>6, <1>7

LEMMA SessionsCommitSessions ==
  ASSUME SInv, NEW r \in Readers, CommitSessions(r)
  PROVE  SInv'
<1>1. CInv' /\ RollupTypeOK
  BY FreshCommitSessions DEF SInv, CInv, TInv
<1>2. r \in InTx /\ rd[r].kind = Sessions /\ UNCHANGED <<events, batches>>
  BY DEF CommitSessions, InTx
<1>3. \A q \in InTx' : q # r /\ q \in InTx /\ rd'[q] = rd[q]
  BY <1>1 DEF CommitSessions, RollupTypeOK, Idle, InTx
<1>4. \A q \in InTx' : rd'[q].kind # Sessions
  BY <1>1, <1>2, <1>3 DEF RollupTypeOK
<1>5. MarkInv' /\ ReadInv'
  BY <1>4 DEF MarkInv, ReadInv, InTx
<1>6. row' # "none"
  BY DEF CommitSessions, Clears
<1>7. ~sOff' => r \notin tainted /\ (~sOff \/ (rd[r].from = 0 /\ Clears(r)))
  BY DEF CommitSessions
<1>8. CASE Clears(r)
  <2>1. from' = 0
    BY <1>8 DEF CommitSessions
  <2>2. SessionsFresh'
    BY <1>2, <1>7, <1>8, CommitCompletes DEF SessionsFresh, Play, Timed
  <2> QED
    BY <1>1, <1>5, <1>6, <2>1, <2>2 DEF SInv, GroundInv, EmptyInv
<1>9. CASE ~Clears(r)
  <2>1. from' = from /\ dirty' = dirty /\ row' = row
    BY <1>9 DEF CommitSessions, ClearFlag
  <2>2. Sessions \in dirty'
    BY <1>2, <1>6, <2>1 DEF SInv, CInv, FlagInv, Dirty
  <2>3. GroundInv'
    BY <1>2, <1>7, <1>9, <2>1, CommitGrounds DEF GroundInv, Grounded, Play, Timed
  <2> QED
    BY <1>1, <1>5, <1>6, <2>2, <2>3 DEF SInv, EmptyInv, SessionsFresh, Dirty
<1> QED
  BY <1>8, <1>9

LEMMA SessionsSweep ==
  ASSUME SInv,
         \/ IntervalPasses \/ TimePasses \/ PurgeBatch \/ PurgeFlag \/ PurgeFails
  PROVE  SInv'
<1>1. CInv' /\ RollupTypeOK
  BY FreshSweep DEF SInv, CInv, TInv
<1>2. UNCHANGED <<rd, sessions, from>> /\ InTx' = InTx
  BY DEF IntervalPasses, TimePasses, PurgeBatch, PurgeFlag, PurgeFails, InTx
<1>3. CASE IntervalPasses \/ TimePasses
  <2>1. /\ UNCHANGED <<events, batches, sOff, moved, tainted, dirty>>
        /\ row' = "none" <=> row = "none"
    BY <1>3 DEF IntervalPasses, TimePasses
  <2> QED
    BY <1>1, <1>2, <2>1, SessionsQuiet DEF Dirty
<1>4. CASE PurgeBatch
  <2>1. batches' # 0
    BY <1>1, <1>4, SMT DEF PurgeBatch, RollupTypeOK
  <2>2. UNCHANGED <<moved, tainted, row, sOff>> /\ events' \subseteq events
    BY <1>4 DEF PurgeBatch
  <2>3. MarkInv' /\ EmptyInv'
    BY <1>2, <2>2 DEF SInv, MarkInv, EmptyInv
  <2> QED
    BY <1>1, <2>1, <2>3 DEF SInv, GroundInv, ReadInv, SessionsFresh
<1>5. CASE PurgeFlag
  <2>1. /\ row' # "none" /\ dirty' = Kinds /\ moved' = InTx
        /\ from # 0 => sOff'
        /\ UNCHANGED tainted
    BY <1>5 DEF PurgeFlag, PurgeFlags, Touch
  <2>2. MarkInv'
    BY <1>2, <2>1 DEF SInv, MarkInv
  <2>3. ReadInv'
    BY <1>2, <2>1 DEF ReadInv, InTx
  <2> QED
    BY <1>1, <1>2, <2>1, <2>2, <2>3 DEF SInv, GroundInv, EmptyInv, SessionsFresh, Dirty
<1>6. CASE PurgeFails
  <2>1. sOff' /\ tainted' = InTx /\ UNCHANGED <<events, row>>
    BY <1>6 DEF PurgeFails
  <2>2. MarkInv' /\ ReadInv'
    BY <1>2, <2>1 DEF MarkInv, ReadInv, InTx
  <2> QED
    BY <1>1, <2>1, <2>2 DEF SInv, GroundInv, EmptyInv, SessionsFresh
<1> QED
  BY <1>3, <1>4, <1>5, <1>6

LEMMA SessionsDeletion ==
  ASSUME SInv, DeleteUser \/ PurgeUser
  PROVE  SInv'
<1>1. CInv'
  BY FreshDeletion DEF SInv
<1>2. UNCHANGED rd /\ InTx' = InTx /\ tainted' = InTx /\ row' = "none" /\ from' = 0 /\ events' = {}
  BY DEF DeleteUser, PurgeUser, Forget, RowGone, InTx
<1>3. ~sOff' => sessions' = {}
  BY DEF DeleteUser, PurgeUser
<1>4. MarkInv' /\ ReadInv'
  BY <1>2 DEF MarkInv, ReadInv, InTx
<1> QED
  BY <1>1, <1>2, <1>3, <1>4 DEF SInv, GroundInv, EmptyInv, SessionsFresh, Dirty

LEMMA SessionsNext == SInv /\ [RollupNext]_rollupVars => SInv'
<1> SUFFICES ASSUME SInv, [RollupNext]_rollupVars PROVE SInv'
  OBVIOUS
<1>1. ASSUME NEW B \in SUBSET (Events \ events), InsertBatch(B) PROVE SInv'
  BY <1>1, SessionsInsert
<1>2. ASSUME NEW r \in Readers, NEW k \in Kinds, EnsureFresh(r, k) PROVE SInv'
  BY <1>2, SessionsEnsureFresh
<1>3. ASSUME NEW r \in Readers, Rebuild(r) PROVE SInv'
  BY <1>3, SessionsCapture, SessionsRead, SessionsCommitSessions, SessionsCommitContracts
    DEF Rebuild
<1>4. ASSUME NEW r \in Readers, RebuildFails(r) PROVE SInv'
  BY <1>4, SessionsRebuildFails
<1>5. CASE UNCHANGED rollupVars
  <2>1. CInv'
    BY <1>5, FreshNext DEF SInv
  <2>2. UNCHANGED <<events, sessions, from, batches, sOff, rd, moved, tainted, row, dirty>>
    BY <1>5 DEF rollupVars
  <2>3. InTx' = InTx
    BY <2>2 DEF InTx
  <2> QED
    BY <2>1, <2>2, <2>3, SessionsQuiet DEF Dirty
<1> QED
  BY <1>1, <1>2, <1>3, <1>4, <1>5, SessionsSweep, SessionsDeletion DEF RollupNext

\* Sessions whose flag is clear are those of the stored events, whatever
\* ingests, incremental rebuilds and deletions ran in between and in which
\* order events arrived (rebuild_handle_session_stats); apart from what sOff
\* records.
THEOREM SessionSummaryFresh == RollupSpec => []SessionsFresh
<1>1. SInv => SessionsFresh
  BY DEF SInv
<1> QED
  BY SessionsInit, SessionsNext, <1>1, PTL DEF RollupSpec

\* A rebuild from the pending watermark gives the sessions a full rebuild would
\* give: a late event extends, bridges or precedes any session, and none of
\* those it reaches is kept (session_rebuild_window, the LEAST of insert_batch).
THEOREM IncrementalIsFull == RollupSpec => []WatermarkSound
<1>1. SInv => WatermarkSound
  <2>1. SUFFICES ASSUME SInv, from # 0, ~sOff, batches = 0
                 PROVE  Kept(from) \cup Inserted(from) = Sessionise(Play(events))
    BY DEF WatermarkSound
  <2>2. RollupTypeOK
    BY <2>1 DEF SInv, CInv, TInv
  <2>3. from \in Times /\ Play(events) \in SUBSET Times
    BY <2>1, <2>2, PlayTimes DEF RollupTypeOK
  <2>4. PICK P \in SUBSET Times : Grounded(P)
    BY <2>1 DEF SInv, GroundInv
  <2>5. Kept(from) \cup Sessionise({x \in Play(events) : x >= RebuildFrom(from)})
          = Sessionise(Play(events))
    BY <2>3, <2>4, WindowComplete, SMT DEF Grounded
  <2> QED
    BY <2>1, <2>5 DEF Inserted
<1> QED
  BY SessionsInit, SessionsNext, <1>1, PTL DEF RollupSpec

\* All a reader of the rollups relies on, for every idle gap, number of readers
\* and order of ingests, sweeps, rebuilds and deletions.
THEOREM RollupsAreSound == RollupSpec => []RollupsSound
<1>1. RollupTypeOK /\ SessionsFresh /\ ContractsFresh /\ WatermarkSound => RollupsSound
  BY DEF RollupsSound
<1> QED
  BY <1>1, RollupTypeCorrect, SessionSummaryFresh, ContractRunsFresh, IncrementalIsFull, PTL
=============================================================================
