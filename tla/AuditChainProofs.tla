-------------------------- MODULE AuditChainProofs --------------------------
(***************************************************************************)
(* Proofs about AuditChain: type correctness, that the chain never forks,  *)
(* that no committed row changes and what becomes of an accepted entry,    *)
(* for every set of replicas and entries, every channel capacity and every *)
(* number of faults.                                                       *)
(*                                                                         *)
(* ChainLinked speaks of the order of seq and is not inductive: a writer   *)
(* between its tail read and its commit relies on no other writer being    *)
(* there (LockInv), on the tail it read still being the tail (TailInv) and *)
(* on the seq it drew being larger than every committed one (SeqInv).      *)
(*                                                                         *)
(* EntriesKept needs the place of every entry (PlaceInv): on one channel   *)
(* once, among its waiting senders, in one writer's hand, in the table or  *)
(* given up, and never in two of these.  The bucket part needs that an     *)
(* object is a committed row under the seq that row was hashed with        *)
(* (MirrorInv), which a row's own seq may exceed after a rollback.         *)
(***************************************************************************)
EXTENDS AuditChain, TLAPS

\* Zenon proves a leaf unless the leaf cites SMT, which the arithmetic needs.
USE Zenon

InTransaction == {"locked", "hashed", "inserted"}

\* The advisory lock is held by exactly the writer that is between its Lock
\* and the end of its transaction.
LockInv == \A r \in Replica : pc[r] \in InTransaction <=> lock = r

LastHash == IF log = <<>> THEN ZeroHash ELSE log[Len(log)].hash

\* The tail a writer has read stays the tail until the writer commits.
TailInv ==
  \A r \in Replica : pc[r] \in {"hashed", "inserted"} => tail[r].prev = LastHash

\* Commit order is seq order, and a drawn seq is larger than any committed one.
SeqInv ==
  /\ \A i, j \in DOMAIN log : i < j => log[i].seq < log[j].seq
  /\ \A i \in DOMAIN log : log[i].seq < nextval
  /\ \A r \in Replica : pc[r] = "inserted" =>
       /\ rowseq[r] < nextval
       /\ \A i \in DOMAIN log : log[i].seq < rowseq[r]

\* Each row is linked to the row committed before it.
LinkInv ==
  \A i \in DOMAIN log :
    log[i].prev = IF i = 1 THEN ZeroHash ELSE log[i - 1].hash

IInv == TypeOK /\ LockInv /\ TailInv /\ SeqInv /\ LinkInv

-----------------------------------------------------------------------------
USE DEF writerVars, dbVars

LEMMA RangeType ==
  ASSUME NEW S, NEW s \in Seq(S)
  PROVE  Elems(s) \subseteq S
BY SMT DEF Elems

LEMMA AppendInOwnRange ==
  ASSUME NEW s, s \in Seq(Elems(s)), NEW x
  PROVE  /\ Append(s, x) \in Seq(Elems(Append(s, x)))
         /\ Len(Append(s, x)) = Len(s) + 1
         /\ DOMAIN Append(s, x) = 1 .. (Len(s) + 1)
         /\ \A i \in 1 .. Len(s) : Append(s, x)[i] = s[i]
         /\ Append(s, x)[Len(s) + 1] = x
<1>1. s \in Seq(Elems(s) \cup {x})
  BY SMT
<1>2. Append(s, x) \in Seq(Elems(s) \cup {x})
  BY <1>1, SMT
<1>3. /\ Len(Append(s, x)) = Len(s) + 1
      /\ DOMAIN Append(s, x) = 1 .. (Len(s) + 1)
      /\ \A i \in 1 .. Len(s) : Append(s, x)[i] = s[i]
      /\ Append(s, x)[Len(s) + 1] = x
  BY <1>1, <1>2, SMT
<1>4. \A i \in 1 .. Len(Append(s, x)) : Append(s, x)[i] \in Elems(Append(s, x))
  BY <1>2, <1>3 DEF Elems
<1>5. Append(s, x) \in Seq(Elems(Append(s, x)))
  BY <1>2, <1>4, SMT
<1> QED
  BY <1>3, <1>5

\* TypeOK in four parts, for the actions that change little of it.
LogType ==
  /\ log \in Seq(Elems(log))
  /\ \A i \in DOMAIN log : log[i].seq \in Nat /\ log[i].entry \in Entry

ChannelType ==
  /\ queue \in [Replica -> Seq(Entry)]
  /\ blocked \in [Replica -> Seq(Entry)]

WriterType ==
  /\ pc \in [Replica -> {"idle", "begin", "locked", "hashed", "inserted", "committed"}]
  /\ cur \in [Replica -> Entry \cup {None}]
  /\ \A r \in Replica : pc[r] # "idle" => cur[r] \in Entry
  /\ tail = [r \in Replica |-> [seq |-> tail[r].seq, prev |-> tail[r].prev]]
  /\ \A r \in Replica : tail[r].seq \in Nat
  /\ rowseq \in [Replica -> Nat]

ScalarType ==
  /\ nextval \in Nat \ {0}
  /\ lock \in Replica \cup {None}
  /\ phase \in [Replica -> {"serving", "signalled", "draining", "stopped"}]
  /\ lost \subseteq Entry
  /\ faults \in Nat

LEMMA TypeParts ==
  /\ TypeOK <=> LogType /\ ChannelType /\ WriterType /\ ScalarType
  /\ TypeOK' <=> LogType' /\ ChannelType' /\ WriterType' /\ ScalarType'
<1>1. TypeOK <=> LogType /\ ChannelType /\ WriterType /\ ScalarType
  BY DEF TypeOK, LogType, ChannelType, WriterType, ScalarType
<1>2. TypeOK' <=> LogType' /\ ChannelType' /\ WriterType' /\ ScalarType'
  BY DEF TypeOK, LogType, ChannelType, WriterType, ScalarType
<1> QED
  BY <1>1, <1>2

LEMMA SameLog == LogType /\ UNCHANGED log => LogType'
BY DEF LogType, Elems

LEMMA InitType == Init => TypeOK
BY AuditAssumption, SMT DEF Init, TypeOK, NoTail, ZeroHash, Elems, Entry

\* In seq order the tail is the row committed last.
LEMMA TailIsLast ==
  ASSUME TypeOK, SeqInv
  PROVE  /\ TailSeq \in Nat
         /\ TailHash = LastHash
         /\ log # <<>> => /\ Len(log) \in DOMAIN log
                          /\ TailIndex = Len(log)
<1>1. CASE log = <<>>
  BY <1>1 DEF TailSeq, TailHash, LastHash
<1>2. CASE log # <<>>
  <2>1. /\ Len(log) \in DOMAIN log
        /\ \A j \in DOMAIN log : j = Len(log) \/ j < Len(log)
        /\ \A j \in DOMAIN log : log[j].seq \in Nat
    BY <1>2, SMT DEF TypeOK
  <2>2. \A j \in DOMAIN log : log[j].seq <= log[Len(log)].seq
    BY <2>1, SMT DEF SeqInv
  <2>3. \A i \in DOMAIN log :
          (\A j \in DOMAIN log : log[j].seq <= log[i].seq) => i = Len(log)
    BY <2>1, SMT DEF SeqInv
  <2>4. TailIndex = Len(log)
    BY <2>1, <2>2, <2>3 DEF TailIndex
  <2> QED
    BY <1>2, <2>1, <2>4 DEF TailSeq, TailHash, LastHash
<1> QED
  BY <1>1, <1>2

LEMMA NextType == TypeOK /\ SeqInv /\ [Next]_vars => TypeOK'
<1> SUFFICES ASSUME TypeOK, SeqInv, [Next]_vars PROVE TypeOK'
  OBVIOUS
<1> USE AuditAssumption
<1>1. CASE UNCHANGED vars
  BY <1>1, SMT DEF TypeOK, vars, Elems
<1>2. ASSUME NEW r \in Replica, NEW e \in Entry, AppendQueued(r, e) PROVE TypeOK'
  BY <1>2, SMT DEF TypeOK, AppendQueued, Elems
<1>3. ASSUME NEW r \in Replica, NEW e \in Entry, AppendWaits(r, e) PROVE TypeOK'
  BY <1>3, SMT DEF TypeOK, AppendWaits, Elems
<1>4. ASSUME NEW r \in Replica, NEW e \in Entry, AppendDropped(r, e) PROVE TypeOK'
  BY <1>4, SMT DEF TypeOK, AppendDropped, Elems
<1>5. ASSUME NEW r \in Replica, NEW i \in DOMAIN blocked[r], AppendCancelled(r, i)
      PROVE TypeOK'
  <2>1. blocked[r] \in Seq(Entry) /\ i \in 1 .. Len(blocked[r])
    BY SMT DEF TypeOK
  <2>2. SubSeq(blocked[r], 1, i - 1) \o SubSeq(blocked[r], i + 1, Len(blocked[r]))
          \in Seq(Entry)
    BY <2>1, SMT
  <2>3. blocked' \in [Replica -> Seq(Entry)]
    BY <1>5, <2>2 DEF TypeOK, AppendCancelled
  <2>4. lost' \subseteq Entry
    BY <1>5 DEF TypeOK, AppendCancelled, Entry
  <2>5. UNCHANGED <<log, nextval, lock, phase, queue, pc, cur, tail, rowseq>>
    BY <1>5 DEF AppendCancelled
  <2>6. faults' \in Nat
    <3>1. faults \in Nat
      BY DEF TypeOK
    <3>2. faults' = faults + 1
      BY <1>5 DEF AppendCancelled
    <3> QED
      BY <3>1, <3>2, SMT
  <2> QED
    <3>1. LogType'
      BY <2>5, TypeParts, SameLog
    <3>2. ChannelType'
      BY <2>3, <2>5, TypeParts DEF ChannelType
    <3>3. WriterType'
      BY <2>5, TypeParts DEF WriterType
    <3>4. ScalarType'
      BY <2>4, <2>5, <2>6, TypeParts DEF ScalarType
    <3> QED
      BY <3>1, <3>2, <3>3, <3>4, TypeParts
<1>6. ASSUME NEW r \in Replica, SendUnblocks(r) PROVE TypeOK'
  <2>1. UNCHANGED <<log, nextval, lock, phase, lost, faults, pc, cur, tail, rowseq>>
    BY <1>6 DEF SendUnblocks
  <2>2. LogType' /\ WriterType' /\ ScalarType'
    BY <2>1, TypeParts, SameLog DEF WriterType, ScalarType
  <2>3. queue[r] \in Seq(Entry) /\ blocked[r] \in Seq(Entry) /\ blocked[r] # <<>>
    BY <1>6, TypeParts DEF ChannelType, SendUnblocks
  <2>4. Append(queue[r], Head(blocked[r])) \in Seq(Entry) /\ Tail(blocked[r]) \in Seq(Entry)
    BY <2>3, SMT
  <2>5. ChannelType'
    BY <1>6, <2>4, TypeParts DEF ChannelType, SendUnblocks
  <2> QED
    BY <2>2, <2>5, TypeParts
<1>7. ASSUME NEW r \in Replica, Recv(r) PROVE TypeOK'
  <2>1. UNCHANGED <<log, nextval, lock, phase, lost, faults>>
    BY <1>7 DEF Recv
  <2>2. LogType' /\ ScalarType'
    BY <2>1, TypeParts, SameLog DEF ScalarType
  <2>3. queue[r] \in Seq(Entry) /\ queue[r] # <<>>
    BY <1>7, TypeParts DEF ChannelType, Recv
  <2>4. Head(queue[r]) \in Entry /\ Tail(queue[r]) \in Seq(Entry)
    BY <2>3, SMT
  <2>5. ChannelType'
    BY <1>7, <2>4, TypeParts DEF ChannelType, Recv
  <2>6. WriterType'
    BY <1>7, <2>4, TypeParts DEF WriterType, Recv
  <2> QED
    BY <2>2, <2>5, <2>6, TypeParts
<1>8. ASSUME NEW r \in Replica, Lock(r) PROVE TypeOK'
  BY <1>8, SMT DEF TypeOK, Lock, Elems
<1>9. ASSUME NEW r \in Replica, ReadTail(r) PROVE TypeOK'
  <2>1. /\ tail' = [tail EXCEPT ![r] = [seq |-> TailSeq + 1, prev |-> TailHash]]
        /\ TailSeq + 1 \in Nat
    BY <1>9, TailIsLast, SMT DEF ReadTail
  <2>2. /\ tail' = [q \in Replica |-> [seq |-> tail'[q].seq, prev |-> tail'[q].prev]]
        /\ \A q \in Replica : tail'[q].seq \in Nat
    BY <2>1 DEF TypeOK
  <2>3. /\ pc' \in [Replica -> {"idle", "begin", "locked", "hashed", "inserted", "committed"}]
        /\ \A q \in Replica : pc'[q] # "idle" => cur'[q] \in Entry
    BY <1>9 DEF TypeOK, ReadTail
  <2> QED
    BY <1>9, <2>2, <2>3, SMT DEF TypeOK, ReadTail, Elems
<1>10. ASSUME NEW r \in Replica, Insert(r) PROVE TypeOK'
  <2>1. CASE tail[r].prev = TailHash
    <3>1. /\ rowseq' = [rowseq EXCEPT ![r] = nextval]
          /\ pc' = [pc EXCEPT ![r] = "inserted"]
          /\ nextval' = nextval + 1
          /\ pc[r] = "hashed"
          /\ UNCHANGED <<log, lock, phase, queue, blocked, cur, tail, mirror, lost, faults>>
      BY <1>10, <2>1 DEF Insert
    <3>2. LogType' /\ ChannelType'
      BY <3>1, TypeParts, SameLog DEF ChannelType
    <3>3. nextval \in Nat /\ nextval + 1 \in Nat \ {0}
      BY TypeParts, SMT DEF ScalarType
    <3>4. ScalarType'
      BY <3>1, <3>3, TypeParts DEF ScalarType
    <3>5. WriterType'
      BY <3>1, <3>3, TypeParts DEF WriterType
    <3> QED
      BY <3>2, <3>4, <3>5, TypeParts
  <2>2. CASE tail[r].prev # TailHash
    <3>1. /\ lock' = IF lock = r THEN None ELSE lock
          /\ lost' = lost \cup {cur[r]}
          /\ cur' = [cur EXCEPT ![r] = None]
          /\ pc' = [pc EXCEPT ![r] = "idle"]
          /\ nextval' = nextval + 1
          /\ pc[r] = "hashed"
          /\ UNCHANGED <<log, phase, queue, blocked, tail, rowseq, mirror, faults>>
      BY <1>10, <2>2 DEF Insert, Rollback
    <3>2. LogType' /\ ChannelType'
      BY <3>1, TypeParts, SameLog DEF ChannelType
    <3>3. nextval + 1 \in Nat \ {0} /\ cur[r] \in Entry
      BY <3>1, TypeParts, SMT DEF ScalarType, WriterType
    <3>4. ScalarType'
      BY <3>1, <3>3, TypeParts DEF ScalarType
    <3>5. WriterType'
      BY <3>1, TypeParts DEF WriterType
    <3> QED
      BY <3>2, <3>4, <3>5, TypeParts
  <2> QED
    BY <2>1, <2>2
<1>11. ASSUME NEW r \in Replica, pc[r] = "inserted", log' = Append(log, NewRow(r))
       PROVE  /\ log' \in Seq(Elems(log'))
              /\ \A i \in DOMAIN log' : log'[i].seq \in Nat /\ log'[i].entry \in Entry
  <2>1. log \in Seq(Elems(log)) /\ Len(log) \in Nat
    BY SMT DEF TypeOK
  <2>2. NewRow(r).seq \in Nat /\ NewRow(r).entry \in Entry
    BY <1>11 DEF TypeOK, NewRow
  <2>3. /\ log' \in Seq(Elems(log'))
        /\ DOMAIN log' = 1 .. (Len(log) + 1)
        /\ \A i \in 1 .. Len(log) : log'[i] = log[i]
        /\ log'[Len(log) + 1] = NewRow(r)
    BY <1>11, <2>1, AppendInOwnRange, SMT
  <2>4. \A i \in 1 .. Len(log) : log[i].seq \in Nat /\ log[i].entry \in Entry
    BY <2>1, SMT DEF TypeOK
  <2>5. ASSUME NEW i \in DOMAIN log'
        PROVE  log'[i].seq \in Nat /\ log'[i].entry \in Entry
    <3>1. CASE i = Len(log) + 1
      BY <2>2, <2>3, <3>1
    <3>2. CASE i \in 1 .. Len(log)
      BY <2>3, <2>4, <3>2
    <3> QED
      BY <2>1, <2>3, <2>5, <3>1, <3>2, SMT
  <2> QED
    BY <2>3, <2>5
<1>12. ASSUME NEW r \in Replica, Commit(r) PROVE TypeOK'
  <2>1. /\ log' \in Seq(Elems(log'))
        /\ \A i \in DOMAIN log' : log'[i].seq \in Nat /\ log'[i].entry \in Entry
    BY <1>11, <1>12 DEF Commit
  <2>2. ChannelType' /\ ScalarType'
    BY <1>12, TypeParts DEF ChannelType, ScalarType, Commit
  <2>3. WriterType'
    BY <1>12, TypeParts DEF WriterType, Commit
  <2> QED
    BY <2>1, <2>2, <2>3, TypeParts DEF LogType
<1>13. ASSUME NEW r \in Replica, CommitUnacknowledged(r) PROVE TypeOK'
  <2>1. /\ log' \in Seq(Elems(log'))
        /\ \A i \in DOMAIN log' : log'[i].seq \in Nat /\ log'[i].entry \in Entry
    BY <1>11, <1>13 DEF CommitUnacknowledged
  <2>2. ChannelType' /\ ScalarType'
    BY <1>13, TypeParts, SMT DEF ChannelType, ScalarType, CommitUnacknowledged
  <2>3. WriterType'
    BY <1>13, TypeParts DEF WriterType, CommitUnacknowledged
  <2> QED
    BY <2>1, <2>2, <2>3, TypeParts DEF LogType
<1>14. ASSUME NEW r \in Replica, Mirror(r) PROVE TypeOK'
  BY <1>14, SMT DEF TypeOK, Mirror, Elems
<1>15. ASSUME NEW r \in Replica, WriteFails(r) PROVE TypeOK'
  BY <1>15, SMT DEF TypeOK, WriteFails, Rollback, Elems
<1>16. ASSUME NEW r \in Replica, ShutdownAndDrain(r) PROVE TypeOK'
  BY <1>16, SMT DEF TypeOK, ShutdownAndDrain, Elems
<1>17. ASSUME NEW r \in Replica, CloseChannel(r) PROVE TypeOK'
  BY <1>17, SMT DEF TypeOK, CloseChannel, Elems
<1>18. ASSUME NEW r \in Replica, WriterExits(r) PROVE TypeOK'
  BY <1>18, SMT DEF TypeOK, WriterExits, Elems
<1>19. ASSUME NEW r \in Replica, Die(r) PROVE TypeOK'
  <2>1. Held(r) \subseteq Entry
    BY RangeType DEF Held, TypeOK
  <2> QED
    BY <1>19, <2>1, SMT DEF TypeOK, Die, Elems
<1> QED
  BY <1>1, <1>2, <1>3, <1>4, <1>5, <1>6, <1>7, <1>8, <1>9, <1>10, <1>12, <1>13,
     <1>14, <1>15, <1>16, <1>17, <1>18, <1>19
  DEF Next, WriterStep
-----------------------------------------------------------------------------
\* A step that changes no row, no drawn seq and no writer past its Lock, other
\* than by ending a transaction or taking the free lock, keeps the invariant.
LEMMA QuietStep ==
  ASSUME IInv, TypeOK', UNCHANGED <<log, tail, rowseq>>, nextval' >= nextval,
         \A r \in Replica : pc'[r] \in {"hashed", "inserted"} => pc'[r] = pc[r],
         LockInv'
  PROVE  IInv'
<1>1. LastHash' = LastHash
  BY DEF LastHash
<1>2. TailInv'
  BY <1>1 DEF IInv, TailInv
<1>3. SeqInv'
  <2>1. \A i \in DOMAIN log : log[i].seq \in Nat
    BY DEF IInv, TypeOK
  <2>2. nextval \in Nat /\ nextval' \in Nat /\ rowseq \in [Replica -> Nat]
    BY DEF IInv, TypeOK
  <2>3. \A i \in DOMAIN log' : log'[i].seq < nextval'
    BY <2>1, <2>2, SMT DEF IInv, SeqInv
  <2>4. ASSUME NEW r \in Replica, pc'[r] = "inserted"
        PROVE  rowseq'[r] < nextval' /\ \A i \in DOMAIN log' : log'[i].seq < rowseq'[r]
    <3>1. pc[r] = "inserted" /\ rowseq[r] \in Nat
      BY <2>2, <2>4
    <3> QED
      BY <2>2, <3>1, SMT DEF IInv, SeqInv
  <2> QED
    BY <2>3, <2>4 DEF IInv, SeqInv
<1>4. LinkInv'
  BY DEF IInv, LinkInv
<1> QED
  BY <1>2, <1>3, <1>4 DEF IInv

\* The row of the writer that holds the lock extends the chain.
LEMMA CommitStep ==
  ASSUME IInv, TypeOK', NEW r \in Replica, pc[r] = "inserted",
         log' = Append(log, NewRow(r)), lock' = IF lock = r THEN None ELSE lock,
         UNCHANGED <<nextval, tail, rowseq>>,
         NEW s \in {"committed", "idle"}, pc' = [pc EXCEPT ![r] = s]
  PROVE  IInv'
<1> USE AuditAssumption
<1>1. /\ log \in Seq(Elems(log)) /\ Len(log) \in Nat
      /\ DOMAIN log = 1 .. Len(log)
      /\ Len(log') = Len(log) + 1
      /\ DOMAIN log' = 1 .. (Len(log) + 1)
      /\ \A i \in 1 .. Len(log) : log'[i] = log[i]
      /\ log'[Len(log) + 1] = NewRow(r)
  BY AppendInOwnRange, SMT DEF IInv, TypeOK
<1>2. lock = r /\ lock' = None
  BY DEF IInv, LockInv, InTransaction
<1>3. \A q \in Replica : q # r => pc[q] \notin InTransaction
  BY <1>2 DEF IInv, LockInv
<1>4. \A q \in Replica : pc'[q] \notin InTransaction
  BY <1>3 DEF IInv, TypeOK, InTransaction
<1>5. LockInv'
  <2>1. \A q \in Replica : lock' # q
    BY <1>2
  <2> QED
    BY <1>4, <2>1 DEF LockInv, InTransaction
<1>6. TailInv'
  <2>1. \A q \in Replica : pc'[q] \notin {"hashed", "inserted"}
    BY <1>4 DEF InTransaction
  <2> QED
    BY <2>1 DEF TailInv
<1>7. SeqInv'
  <2>1. /\ NewRow(r).seq = rowseq[r]
        /\ rowseq[r] \in Nat /\ nextval \in Nat
        /\ rowseq[r] < nextval
        /\ \A i \in DOMAIN log : log[i].seq < rowseq[r] /\ log[i].seq \in Nat
    BY DEF NewRow, IInv, SeqInv, TypeOK
  <2>2. \A i, j \in DOMAIN log' : i < j => log'[i].seq < log'[j].seq
    BY <1>1, <2>1, SMT DEF IInv, SeqInv
  <2>3. \A i \in DOMAIN log' : log'[i].seq < nextval'
    BY <1>1, <2>1, SMT DEF IInv, SeqInv
  <2> QED
    BY <1>4, <2>2, <2>3 DEF SeqInv, InTransaction
<1>8. LinkInv'
  <2>1. NewRow(r).prev = LastHash
    BY DEF NewRow, IInv, TailInv
  <2>2. log = <<>> <=> Len(log) = 0
    BY <1>1, SMT
  <2>3. ASSUME NEW i \in 1 .. Len(log)
        PROVE  log'[i].prev = IF i = 1 THEN ZeroHash ELSE log'[i - 1].hash
    BY <1>1, SMT DEF IInv, LinkInv
  <2>4. CASE Len(log) = 0
    <3>1. log'[1].prev = ZeroHash
      BY <1>1, <2>1, <2>2, <2>4, SMT DEF LastHash
    <3>2. DOMAIN log' = {1}
      BY <1>1, <2>4, SMT
    <3> QED
      BY <3>1, <3>2 DEF LinkInv
  <2>5. CASE Len(log) # 0
    <3> DEFINE n == Len(log)
    <3>1. n \in 1 .. Len(log) /\ n + 1 # 1 /\ (n + 1) - 1 = n
      BY <1>1, <2>5, SMT
    <3>2. NewRow(r).prev = log[n].hash
      BY <2>1, <2>2, <2>5 DEF LastHash
    <3>3. log'[n + 1].prev = log'[n].hash
      BY <1>1, <3>1, <3>2
    <3>4. \A i \in DOMAIN log' : i \in 1 .. n \/ i = n + 1
      BY <1>1, SMT
    <3> HIDE DEF n
    <3>5. \A i \in DOMAIN log' :
            log'[i].prev = IF i = 1 THEN ZeroHash ELSE log'[i - 1].hash
      BY <2>3, <3>1, <3>3, <3>4 DEF n
    <3> QED
      BY <3>5 DEF LinkInv
  <2> QED
    BY <2>4, <2>5
<1> QED
  BY <1>5, <1>6, <1>7, <1>8 DEF IInv

LEMMA InitIInv == Init => IInv
<1> SUFFICES ASSUME Init PROVE IInv
  OBVIOUS
<1>1. TypeOK
  BY InitType
<1>2. LockInv /\ TailInv
  BY AuditAssumption DEF Init, LockInv, TailInv, InTransaction
<1>3. SeqInv /\ LinkInv
  BY SMT DEF Init, SeqInv, LinkInv
<1> QED
  BY <1>1, <1>2, <1>3 DEF IInv

LEMMA NextIInv == IInv /\ [Next]_vars => IInv'
<1> SUFFICES ASSUME IInv, [Next]_vars PROVE IInv'
  OBVIOUS
<1> USE AuditAssumption
<1>0. TypeOK'
  BY NextType DEF IInv
<1>1. CASE UNCHANGED vars
  <2>1. /\ UNCHANGED <<log, tail, rowseq>> /\ nextval' >= nextval
        /\ \A q \in Replica : pc'[q] \in {"hashed", "inserted"} => pc'[q] = pc[q]
    BY <1>1, SMT DEF vars, IInv, TypeOK
  <2>2. LockInv'
    BY <1>1 DEF vars, IInv, LockInv
  <2> QED
    BY <1>0, <2>1, <2>2, QuietStep
<1>2. ASSUME NEW r \in Replica, NEW e \in Entry, AppendQueued(r, e)
      PROVE  IInv'
  <2>1. /\ UNCHANGED <<log, tail, rowseq>> /\ nextval' >= nextval
        /\ \A q \in Replica : pc'[q] \in {"hashed", "inserted"} => pc'[q] = pc[q]
    BY <1>2, SMT DEF AppendQueued, IInv, TypeOK
  <2>2. LockInv'
    BY <1>2 DEF AppendQueued, IInv, LockInv, TypeOK, InTransaction
  <2> QED
    BY <1>0, <2>1, <2>2, QuietStep
<1>3. ASSUME NEW r \in Replica, NEW e \in Entry, AppendWaits(r, e)
      PROVE  IInv'
  <2>1. /\ UNCHANGED <<log, tail, rowseq>> /\ nextval' >= nextval
        /\ \A q \in Replica : pc'[q] \in {"hashed", "inserted"} => pc'[q] = pc[q]
    BY <1>3, SMT DEF AppendWaits, IInv, TypeOK
  <2>2. LockInv'
    BY <1>3 DEF AppendWaits, IInv, LockInv, TypeOK, InTransaction
  <2> QED
    BY <1>0, <2>1, <2>2, QuietStep
<1>4. ASSUME NEW r \in Replica, NEW e \in Entry, AppendDropped(r, e)
      PROVE  IInv'
  <2>1. /\ UNCHANGED <<log, tail, rowseq>> /\ nextval' >= nextval
        /\ \A q \in Replica : pc'[q] \in {"hashed", "inserted"} => pc'[q] = pc[q]
    BY <1>4, SMT DEF AppendDropped, IInv, TypeOK
  <2>2. LockInv'
    BY <1>4 DEF AppendDropped, IInv, LockInv, TypeOK, InTransaction
  <2> QED
    BY <1>0, <2>1, <2>2, QuietStep
<1>5. ASSUME NEW r \in Replica, NEW i \in DOMAIN blocked[r], AppendCancelled(r, i)
      PROVE  IInv'
  <2>1. /\ UNCHANGED <<log, tail, rowseq>> /\ nextval' >= nextval
        /\ \A q \in Replica : pc'[q] \in {"hashed", "inserted"} => pc'[q] = pc[q]
    BY <1>5, SMT DEF AppendCancelled, IInv, TypeOK
  <2>2. LockInv'
    BY <1>5 DEF AppendCancelled, IInv, LockInv, TypeOK, InTransaction
  <2> QED
    BY <1>0, <2>1, <2>2, QuietStep
<1>6. ASSUME NEW r \in Replica, SendUnblocks(r)
      PROVE  IInv'
  <2>1. /\ UNCHANGED <<log, tail, rowseq>> /\ nextval' >= nextval
        /\ \A q \in Replica : pc'[q] \in {"hashed", "inserted"} => pc'[q] = pc[q]
    BY <1>6, SMT DEF SendUnblocks, IInv, TypeOK
  <2>2. LockInv'
    BY <1>6 DEF SendUnblocks, IInv, LockInv, TypeOK, InTransaction
  <2> QED
    BY <1>0, <2>1, <2>2, QuietStep
<1>7. ASSUME NEW r \in Replica, Recv(r)
      PROVE  IInv'
  <2>1. /\ UNCHANGED <<log, tail, rowseq>> /\ nextval' >= nextval
        /\ \A q \in Replica : pc'[q] \in {"hashed", "inserted"} => pc'[q] = pc[q]
    BY <1>7, SMT DEF Recv, IInv, TypeOK
  <2>2. LockInv'
    BY <1>7 DEF Recv, IInv, LockInv, TypeOK, InTransaction
  <2> QED
    BY <1>0, <2>1, <2>2, QuietStep
<1>8. ASSUME NEW r \in Replica, Lock(r)
      PROVE  IInv'
  <2>1. /\ UNCHANGED <<log, tail, rowseq>> /\ nextval' >= nextval
        /\ \A q \in Replica : pc'[q] \in {"hashed", "inserted"} => pc'[q] = pc[q]
    BY <1>8, SMT DEF Lock, IInv, TypeOK
  <2>2. LockInv'
    BY <1>8 DEF Lock, IInv, LockInv, TypeOK, InTransaction
  <2> QED
    BY <1>0, <2>1, <2>2, QuietStep
<1>9. ASSUME NEW r \in Replica, ReadTail(r)
      PROVE  IInv'
  <2>1. LockInv' /\ SeqInv' /\ LinkInv'
    BY <1>9 DEF ReadTail, IInv, LockInv, SeqInv, LinkInv, TypeOK, InTransaction
  <2>2. LastHash' = LastHash
    BY <1>9 DEF ReadTail, LastHash
  <2>3. tail'[r].prev = LastHash
    BY <1>9, TailIsLast DEF ReadTail, IInv, TypeOK
  <2>4. TailInv'
    BY <1>9, <2>2, <2>3 DEF ReadTail, IInv, TailInv, TypeOK
  <2> QED
    BY <1>0, <2>1, <2>4 DEF IInv
<1>10. ASSUME NEW r \in Replica, Insert(r)
       PROVE  IInv'
  <2>1. tail[r].prev = TailHash
    BY <1>10, TailIsLast DEF Insert, IInv, TailInv
  <2>2. /\ rowseq' = [rowseq EXCEPT ![r] = nextval]
        /\ pc' = [pc EXCEPT ![r] = "inserted"]
        /\ nextval' = nextval + 1
        /\ pc[r] = "hashed"
        /\ UNCHANGED <<log, lock, tail>>
    BY <1>10, <2>1 DEF Insert
  <2>3. LockInv' /\ LinkInv'
    BY <2>2 DEF IInv, LockInv, LinkInv, TypeOK, InTransaction
  <2>4. TailInv'
    <3>1. LastHash' = LastHash
      BY <2>2 DEF LastHash
    <3> QED
      BY <2>2, <3>1 DEF IInv, TailInv, TypeOK
  <2>5. SeqInv'
    <3>1. /\ nextval \in Nat
          /\ \A i \in DOMAIN log : log[i].seq \in Nat /\ log[i].seq < nextval
          /\ \A i, j \in DOMAIN log : i < j => log[i].seq < log[j].seq
      BY DEF IInv, SeqInv, TypeOK
    <3>2. ASSUME NEW q \in Replica, pc'[q] = "inserted"
          PROVE  /\ rowseq'[q] < nextval'
                 /\ \A i \in DOMAIN log : log[i].seq < rowseq'[q]
      <4>1. CASE q = r
        BY <2>2, <3>1, <4>1, SMT DEF IInv, TypeOK
      <4>2. CASE q # r
        <5>1. pc[q] = "inserted" /\ rowseq'[q] = rowseq[q] /\ rowseq[q] \in Nat
          BY <2>2, <3>2, <4>2 DEF IInv, TypeOK
        <5>2. /\ rowseq[q] < nextval
              /\ \A i \in DOMAIN log : log[i].seq < rowseq[q]
          BY <5>1 DEF IInv, SeqInv
        <5> QED
          BY <2>2, <3>1, <5>1, <5>2, SMT
      <4> QED
        BY <4>1, <4>2
    <3> QED
      BY <2>2, <3>1, <3>2, SMT DEF SeqInv
  <2> QED
    BY <1>0, <2>3, <2>4, <2>5 DEF IInv
<1>11. ASSUME NEW r \in Replica, Commit(r)
       PROVE  IInv'
  BY <1>0, <1>11, CommitStep DEF Commit
<1>12. ASSUME NEW r \in Replica, CommitUnacknowledged(r)
       PROVE  IInv'
  BY <1>0, <1>12, CommitStep DEF CommitUnacknowledged
<1>13. ASSUME NEW r \in Replica, Mirror(r)
      PROVE  IInv'
  <2>1. /\ UNCHANGED <<log, tail, rowseq>> /\ nextval' >= nextval
        /\ \A q \in Replica : pc'[q] \in {"hashed", "inserted"} => pc'[q] = pc[q]
    BY <1>13, SMT DEF Mirror, IInv, TypeOK
  <2>2. LockInv'
    BY <1>13 DEF Mirror, IInv, LockInv, TypeOK, InTransaction
  <2> QED
    BY <1>0, <2>1, <2>2, QuietStep
<1>14. ASSUME NEW r \in Replica, WriteFails(r)
      PROVE  IInv'
  <2>1. /\ UNCHANGED <<log, tail, rowseq>> /\ nextval' >= nextval
        /\ \A q \in Replica : pc'[q] \in {"hashed", "inserted"} => pc'[q] = pc[q]
    BY <1>14, SMT DEF WriteFails, Rollback, IInv, TypeOK
  <2>2. LockInv'
    BY <1>14 DEF WriteFails, Rollback, IInv, LockInv, TypeOK, InTransaction
  <2> QED
    BY <1>0, <2>1, <2>2, QuietStep
<1>15. ASSUME NEW r \in Replica, ShutdownAndDrain(r)
      PROVE  IInv'
  <2>1. /\ UNCHANGED <<log, tail, rowseq>> /\ nextval' >= nextval
        /\ \A q \in Replica : pc'[q] \in {"hashed", "inserted"} => pc'[q] = pc[q]
    BY <1>15, SMT DEF ShutdownAndDrain, IInv, TypeOK
  <2>2. LockInv'
    BY <1>15 DEF ShutdownAndDrain, IInv, LockInv, TypeOK, InTransaction
  <2> QED
    BY <1>0, <2>1, <2>2, QuietStep
<1>16. ASSUME NEW r \in Replica, CloseChannel(r)
      PROVE  IInv'
  <2>1. /\ UNCHANGED <<log, tail, rowseq>> /\ nextval' >= nextval
        /\ \A q \in Replica : pc'[q] \in {"hashed", "inserted"} => pc'[q] = pc[q]
    BY <1>16, SMT DEF CloseChannel, IInv, TypeOK
  <2>2. LockInv'
    BY <1>16 DEF CloseChannel, IInv, LockInv, TypeOK, InTransaction
  <2> QED
    BY <1>0, <2>1, <2>2, QuietStep
<1>17. ASSUME NEW r \in Replica, WriterExits(r)
      PROVE  IInv'
  <2>1. /\ UNCHANGED <<log, tail, rowseq>> /\ nextval' >= nextval
        /\ \A q \in Replica : pc'[q] \in {"hashed", "inserted"} => pc'[q] = pc[q]
    BY <1>17, SMT DEF WriterExits, IInv, TypeOK
  <2>2. LockInv'
    BY <1>17 DEF WriterExits, IInv, LockInv, TypeOK, InTransaction
  <2> QED
    BY <1>0, <2>1, <2>2, QuietStep
<1>18. ASSUME NEW r \in Replica, Die(r)
      PROVE  IInv'
  <2>1. /\ UNCHANGED <<log, tail, rowseq>> /\ nextval' >= nextval
        /\ \A q \in Replica : pc'[q] \in {"hashed", "inserted"} => pc'[q] = pc[q]
    BY <1>18, SMT DEF Die, IInv, TypeOK
  <2>2. LockInv'
    BY <1>18 DEF Die, IInv, LockInv, TypeOK, InTransaction
  <2> QED
    BY <1>0, <2>1, <2>2, QuietStep
<1> QED
  BY <1>1, <1>2, <1>3, <1>4, <1>5, <1>6, <1>7, <1>8, <1>9, <1>10, <1>11, <1>12,
     <1>13, <1>14, <1>15, <1>16, <1>17, <1>18
  DEF Next, WriterStep

LEMMA IInvImpliesChainLinked == IInv => ChainLinked
<1> SUFFICES ASSUME IInv PROVE ChainLinked
  OBVIOUS
<1>1. /\ DOMAIN log = 1 .. Len(log) /\ Len(log) \in Nat
      /\ \A i \in DOMAIN log : log[i].seq \in Nat
      /\ \A i, j \in DOMAIN log : i < j => log[i].seq < log[j].seq
  BY SMT DEF IInv, TypeOK, SeqInv
<1>2. \A i, j \in DOMAIN log : i # j => log[i].seq # log[j].seq
  BY <1>1, SMT
<1>3. ASSUME NEW i \in DOMAIN log, i = 1
      PROVE  /\ \A j \in DOMAIN log : log[i].seq <= log[j].seq
             /\ log[i].prev = ZeroHash
  BY <1>1, <1>3, SMT DEF IInv, LinkInv
<1>4. ASSUME NEW i \in DOMAIN log, i # 1
      PROVE  \E j \in DOMAIN log : Precedes(j, i) /\ log[i].prev = log[j].hash
  <2>1. i - 1 \in DOMAIN log /\ i - 1 < i
    BY <1>1, <1>4, SMT
  <2>2. \A k \in DOMAIN log : k < i - 1 \/ k = i - 1 \/ k = i \/ i < k
    BY <1>1, SMT
  <2>3. Precedes(i - 1, i)
    BY <1>1, <2>1, <2>2, SMT DEF Precedes
  <2>4. log[i].prev = log[i - 1].hash
    BY <1>4 DEF IInv, LinkInv
  <2> QED
    BY <2>1, <2>3, <2>4
<1> QED
  BY <1>2, <1>3, <1>4 DEF ChainLinked

\* Every reachable state of the audit log is well typed: in particular a
\* writer past its recv always has an entry in hand (audit.rs, writer_loop).
THEOREM AuditTypeCorrect == Spec => []TypeOK
<1>1. IInv => TypeOK
  BY DEF IInv
<1> QED
  BY InitIInv, NextIInv, <1>1, PTL DEF Spec

\* The chain never forks or breaks, for any number of replicas, entries and
\* failed or killed transactions (audit.rs, the advisory lock of write_one).
THEOREM ChainNeverForks == Spec => []ChainLinked
BY InitIInv, NextIInv, IInvImpliesChainLinked, PTL DEF Spec

\* No step changes or removes a committed row (audit.rs: INSERT is the only
\* statement on audit_log).
THEOREM TableIsAppendOnly == Spec => AppendOnly
<1>1. ASSUME TypeOK, [Next]_vars
      PROVE  [Len(log) <= Len(log') /\ SubSeq(log', 1, Len(log)) = log]_log
  <2>1. CASE UNCHANGED log
    BY <2>1
  <2>2. ASSUME NEW r \in Replica, log' = Append(log, NewRow(r))
        PROVE  Len(log) <= Len(log') /\ SubSeq(log', 1, Len(log)) = log
    <3>1. log \in Seq(Elems(log)) /\ Len(log) \in Nat
      BY <1>1, SMT DEF TypeOK
    <3>2. /\ Len(log') = Len(log) + 1 /\ log' \in Seq(Elems(log'))
          /\ \A i \in 1 .. Len(log) : log'[i] = log[i]
      BY <2>2, <3>1, AppendInOwnRange, SMT
    <3>3. /\ SubSeq(log', 1, Len(log)) \in Seq(Elems(log'))
          /\ Len(SubSeq(log', 1, Len(log))) = Len(log)
          /\ \A i \in 1 .. Len(log) : SubSeq(log', 1, Len(log))[i] = log'[i]
      BY <3>1, <3>2, SMT
    <3>4. SubSeq(log', 1, Len(log)) = log
      BY <3>1, <3>2, <3>3, SMT
    <3> QED
      BY <3>1, <3>2, <3>4, SMT
  <2>3. CASE log' # log
    <3>1. \E r \in Replica : log' = Append(log, NewRow(r))
      BY <1>1, <2>3 DEF Next, vars, AppendQueued, AppendWaits, AppendDropped, AppendCancelled,
         SendUnblocks, WriterStep, Recv, Lock, ReadTail, Insert, Rollback, Commit, Mirror,
         CloseChannel, WriterExits, WriteFails, CommitUnacknowledged, ShutdownAndDrain, Die
    <3> QED
      BY <2>2, <3>1
  <2> QED
    BY <2>1, <2>3
<1> QED
  BY <1>1, AuditTypeCorrect, PTL DEF Spec, AppendOnly

-----------------------------------------------------------------------------
(* The entries.                                                            *)

Queued(r) == Elems(queue[r])
Waiting(r) == Elems(blocked[r])
Distinct(s) == \A i, j \in DOMAIN s : s[i] = s[j] => i = j

\* An entry is in one place only: on one channel once, among the senders
\* waiting for it, in the hand of one writer, in the table or given up.
OwnPlaces(r) ==
  /\ Distinct(queue[r]) /\ Distinct(blocked[r])
  /\ Queued(r) \cap Waiting(r) = {}
  /\ cur[r] \notin Queued(r) \cup Waiting(r)
  /\ (Queued(r) \cup Waiting(r)) \cap (Logged \cup lost) = {}
  /\ pc[r] = "idle" => cur[r] = None
  /\ pc[r] = "committed" => cur[r] \in Logged \ lost
  /\ pc[r] \notin {"idle", "committed"} => cur[r] \notin Logged \cup lost

PlaceInv ==
  /\ \A r \in Replica : OwnPlaces(r)
  /\ \A r, q \in Replica : r # q => Held(r) \cap Held(q) = {}
  /\ AtMostOnce

\* Once serve has returned no handler waits for room.
CleanInv ==
  /\ CleanShutdownKeepsHandled
  /\ \A r \in Replica : phase[r] = "signalled" => Waiting(r) \cap Handler = {}

LastSeq == IF log = <<>> THEN 0 ELSE log[Len(log)].seq

\* The seq row i was hashed with, which is also its key in the bucket.
Key(i) == (IF i = 1 THEN 0 ELSE log[i - 1].seq) + 1

\* An object is a committed row under the seq that row was hashed with.
MirrorInv ==
  /\ \A m \in mirror : \E i \in DOMAIN log : m = [seq |-> Key(i), hash |-> log[i].hash]
  /\ \A i \in DOMAIN log : log[i].seq # 0
  /\ \A r \in Replica :
       /\ pc[r] = "inserted" => rowseq[r] # 0
       /\ pc[r] \in {"hashed", "inserted"} => tail[r].seq = LastSeq + 1
       /\ pc[r] = "committed" =>
            \E i \in DOMAIN log : /\ tail[r].seq = Key(i)
                                  /\ log[i].hash = Hash(tail[r].prev, cur[r], tail[r].seq)

KInv == IInv /\ PlaceInv /\ CleanInv /\ MirrorInv

-----------------------------------------------------------------------------

LEMMA AppendElems ==
  ASSUME NEW S, NEW s \in Seq(S), NEW x \in S, Distinct(s), x \notin Elems(s)
  PROVE  /\ Elems(Append(s, x)) = Elems(s) \cup {x}
         /\ Distinct(Append(s, x))
<1>1. /\ Len(s) \in Nat /\ DOMAIN s = 1 .. Len(s)
      /\ DOMAIN Append(s, x) = 1 .. (Len(s) + 1)
      /\ \A i \in 1 .. Len(s) : Append(s, x)[i] = s[i]
      /\ Append(s, x)[Len(s) + 1] = x
  BY SMT
<1>2. \A i \in 1 .. Len(s) : s[i] # x
  BY <1>1 DEF Elems
<1>3. \A i \in 1 .. (Len(s) + 1) : i \in 1 .. Len(s) \/ i = Len(s) + 1
  BY <1>1, SMT
<1>4. Elems(Append(s, x)) = Elems(s) \cup {x}
  BY <1>1, <1>3, SMT DEF Elems
<1>5. Distinct(Append(s, x))
  BY <1>1, <1>2, <1>3 DEF Distinct
<1> QED
  BY <1>4, <1>5

LEMMA TailElems ==
  ASSUME NEW S, NEW s \in Seq(S), s # <<>>, Distinct(s)
  PROVE  /\ Head(s) \in Elems(s)
         /\ Elems(Tail(s)) = Elems(s) \ {Head(s)}
         /\ Distinct(Tail(s))
<1>1. /\ Len(s) \in Nat /\ Len(s) # 0 /\ DOMAIN s = 1 .. Len(s)
      /\ Head(s) = s[1]
      /\ DOMAIN Tail(s) = 1 .. (Len(s) - 1)
      /\ \A i \in 1 .. (Len(s) - 1) : Tail(s)[i] = s[i + 1]
  BY SMT
<1>2. Head(s) \in Elems(s)
  BY <1>1, SMT DEF Elems
<1>3. \A i \in 1 .. Len(s) : i = 1 \/ (i - 1 \in 1 .. (Len(s) - 1) /\ (i - 1) + 1 = i)
  BY <1>1, SMT
<1>4. \A i \in 1 .. (Len(s) - 1) : i + 1 \in 1 .. Len(s) /\ i + 1 # 1
  BY <1>1, SMT
<1>5. Distinct(Tail(s))
  BY <1>1, <1>4, SMT DEF Distinct
<1>6. ASSUME NEW y \in Elems(s) \ {Head(s)} PROVE y \in Elems(Tail(s))
  <2>1. PICK i \in 1 .. Len(s) : y = s[i]
    BY <1>1 DEF Elems
  <2>2. i - 1 \in 1 .. (Len(s) - 1) /\ (i - 1) + 1 = i
    BY <1>1, <1>3, <1>6, <2>1
  <2>3. y = Tail(s)[i - 1]
    BY <1>1, <2>1, <2>2
  <2> QED
    BY <1>1, <2>2, <2>3 DEF Elems
<1>7. ASSUME NEW y \in Elems(Tail(s)) PROVE y \in Elems(s) \ {Head(s)}
  <2>1. PICK i \in 1 .. (Len(s) - 1) : y = s[i + 1]
    BY <1>1 DEF Elems
  <2>2. y # s[1]
    BY <1>1, <1>4, <2>1, SMT DEF Distinct
  <2> QED
    BY <1>1, <1>4, <2>1, <2>2 DEF Elems
<1> QED
  BY <1>2, <1>5, <1>6, <1>7

LEMMA ConcatElems ==
  ASSUME NEW S, NEW a \in Seq(S), NEW b \in Seq(S)
  PROVE  /\ DOMAIN (a \o b) = 1 .. (Len(a) + Len(b))
         /\ \A k \in 1 .. Len(a) : (a \o b)[k] = a[k]
         /\ \A k \in 1 .. Len(b) : (a \o b)[Len(a) + k] = b[k]
<1>1. DOMAIN (a \o b) = 1 .. (Len(a) + Len(b))
  BY SMT
<1>2. \A k \in 1 .. Len(a) : (a \o b)[k] = a[k]
  BY SMT
<1>3. \A k \in 1 .. Len(b) : (a \o b)[Len(a) + k] = b[k]
  BY SMT
<1> QED
  BY <1>1, <1>2, <1>3

Skip(k, i) == IF k < i THEN k ELSE k + 1

LEMMA SkipIndices ==
  ASSUME NEW n \in Nat, NEW i \in 1 .. n
  PROVE  /\ (i - 1) + (n - i) = n - 1
         /\ \A k \in 1 .. (n - 1) : Skip(k, i) \in 1 .. n /\ Skip(k, i) # i
         /\ \A k, m \in 1 .. (n - 1) : Skip(k, i) = Skip(m, i) => k = m
BY SMT DEF Skip

LEMMA SkipOnto ==
  ASSUME NEW n \in Nat, NEW i \in 1 .. n, NEW m \in 1 .. n, m # i
  PROVE  \E k \in 1 .. (n - 1) : Skip(k, i) = m
<1>1. CASE m < i
  BY <1>1, SMT DEF Skip
<1>2. CASE ~(m < i)
  <2>1. m - 1 \in 1 .. (n - 1) /\ Skip(m - 1, i) = m
    BY <1>2, SMT DEF Skip
  <2> QED
    BY <2>1
<1> QED
  BY <1>1, <1>2

\* A sequence without its element i.
LEMMA RemoveElems ==
  ASSUME NEW S, NEW s \in Seq(S), NEW i \in DOMAIN s, Distinct(s)
  PROVE  LET t == SubSeq(s, 1, i - 1) \o SubSeq(s, i + 1, Len(s))
         IN  Elems(t) = Elems(s) \ {s[i]} /\ Distinct(t)
<1> DEFINE n == Len(s)
           a == SubSeq(s, 1, i - 1)
           b == SubSeq(s, i + 1, n)
           t == a \o b
<1>1. n \in Nat /\ i \in 1 .. n /\ DOMAIN s = 1 .. n
  BY SMT
<1>2. a \in Seq(S) /\ Len(a) = i - 1 /\ \A k \in 1 .. (i - 1) : a[k] = s[k]
  BY <1>1, SMT
<1>3. b \in Seq(S) /\ Len(b) = n - i /\ \A k \in 1 .. (n - i) : b[k] = s[i + k]
  BY <1>1, SMT
<1> HIDE DEF a, b, n
<1>4. /\ DOMAIN t = 1 .. (n - 1)
      /\ \A k \in 1 .. (i - 1) : t[k] = s[k]
      /\ \A k \in 1 .. (n - i) : t[(i - 1) + k] = s[i + k]
  <2>0. a \in Seq(S) /\ b \in Seq(S)
    BY <1>2, <1>3
  <2>1. /\ DOMAIN t = 1 .. (Len(a) + Len(b))
        /\ \A k \in 1 .. Len(a) : t[k] = a[k]
        /\ \A k \in 1 .. Len(b) : t[Len(a) + k] = b[k]
    BY <2>0, ConcatElems, SMT
  <2>2. (i - 1) + (n - i) = n - 1
    BY <1>1, SkipIndices
  <2> HIDE DEF t
  <2> QED
    BY <1>2, <1>3, <2>1, <2>2
<1> HIDE DEF t
<1>5. ASSUME NEW k \in 1 .. (n - 1) PROVE t[k] = s[Skip(k, i)]
  <2>1. CASE k < i
    <3>1. k \in 1 .. (i - 1) /\ Skip(k, i) = k
      BY <1>1, <2>1, SMT DEF Skip
    <3> QED
      BY <1>4, <3>1
  <2>2. CASE ~(k < i)
    <3>1. /\ k - (i - 1) \in 1 .. (n - i) /\ (i - 1) + (k - (i - 1)) = k
          /\ i + (k - (i - 1)) = Skip(k, i)
      BY <1>1, <2>2, SMT DEF Skip
    <3> QED
      BY <1>4, <3>1
  <2> QED
    BY <2>1, <2>2
<1>6. Distinct(t)
  <2>1. ASSUME NEW k \in DOMAIN t, NEW m \in DOMAIN t, t[k] = t[m] PROVE k = m
    <3>1. k \in 1 .. (n - 1) /\ m \in 1 .. (n - 1)
      BY <1>4
    <3>2. /\ Skip(k, i) \in DOMAIN s /\ Skip(m, i) \in DOMAIN s
          /\ s[Skip(k, i)] = s[Skip(m, i)]
      BY <1>1, <1>5, <2>1, <3>1, SkipIndices
    <3>3. Skip(k, i) = Skip(m, i)
      BY <3>2 DEF Distinct
    <3> QED
      BY <1>1, <3>1, <3>3, SkipIndices
  <2> QED
    BY <2>1 DEF Distinct
<1>7. ASSUME NEW y \in Elems(t) PROVE y \in Elems(s) \ {s[i]}
  <2>1. PICK k \in 1 .. (n - 1) : y = s[Skip(k, i)]
    BY <1>4, <1>5 DEF Elems
  <2>2. Skip(k, i) \in DOMAIN s /\ Skip(k, i) # i
    BY <1>1, SkipIndices
  <2>3. y # s[i]
    BY <2>1, <2>2 DEF Distinct
  <2> QED
    BY <2>1, <2>2, <2>3 DEF Elems
<1>8. ASSUME NEW y \in Elems(s) \ {s[i]} PROVE y \in Elems(t)
  <2>1. PICK m \in 1 .. n : y = s[m]
    BY <1>1 DEF Elems
  <2>2. PICK k \in 1 .. (n - 1) : Skip(k, i) = m
    <3>1. m # i
      BY <1>8, <2>1
    <3> QED
      BY <1>1, <3>1, SkipOnto
  <2> QED
    BY <1>4, <1>5, <2>1, <2>2 DEF Elems
<1>9. Elems(t) = Elems(s) \ {s[i]}
  BY <1>7, <1>8
<1> QED
  BY <1>6, <1>9 DEF t, a, b, n

-----------------------------------------------------------------------------
\* The other processes do not notice what becomes of r's entries.
LEMMA OthersKeepPlaces ==
  ASSUME TypeOK, PlaceInv, NEW r \in Replica, NEW F,
         \A q \in Replica : F \cap Held(q) = {},
         \A q \in Replica \ {r} : UNCHANGED <<queue[q], blocked[q], cur[q], pc[q]>>,
         Held(r)' \subseteq Held(r) \cup F,
         Logged \subseteq Logged', Logged' \subseteq Logged \cup Held(r),
         lost' \subseteq lost \cup Held(r) \cup F,
         OwnPlaces(r)', AtMostOnce'
  PROVE  PlaceInv'
<1> USE AuditAssumption
<1>1. \A q \in Replica \ {r} : Held(q)' = Held(q) /\ Queued(q)' = Queued(q) /\ Waiting(q)' = Waiting(q)
  BY SMT DEF Held, Queued, Waiting, Elems
<1>2. ASSUME NEW q \in Replica \ {r} PROVE OwnPlaces(q)'
  <2>1. /\ OwnPlaces(q) /\ Held(q) \cap Held(r) = {} /\ F \cap Held(q) = {}
        /\ Queued(q) \subseteq Held(q) /\ Waiting(q) \subseteq Held(q)
    BY DEF PlaceInv, Held, Queued, Waiting
  <2>2. /\ Distinct(queue[q])' /\ Distinct(blocked[q])'
    BY <2>1 DEF OwnPlaces, Distinct
  <2>3. pc[q] # "idle" => cur[q] \in Held(q)
    BY SMT DEF TypeOK, Held
  <2>4. /\ (Queued(q) \cup Waiting(q))' \cap (Logged \cup lost)' = {}
    BY <1>1, <2>1, SMT DEF OwnPlaces
  <2>5. /\ (pc[q] = "committed" => cur[q] \in Logged \ lost)'
        /\ (pc[q] \notin {"idle", "committed"} => cur[q] \notin Logged \cup lost)'
    BY <2>1, <2>3 DEF OwnPlaces
  <2> QED
    BY <1>1, <2>1, <2>2, <2>4, <2>5 DEF OwnPlaces
<1>3. ASSUME NEW p \in Replica, NEW q \in Replica, p # q PROVE Held(p)' \cap Held(q)' = {}
  BY <1>1, <1>3, SMT DEF PlaceInv
<1> QED
  BY <1>2, <1>3 DEF PlaceInv

LEMMA OwnStepKeepsPlaces ==
  ASSUME TypeOK, PlaceInv, NEW r \in Replica,
         \A q \in Replica \ {r} : UNCHANGED <<queue[q], blocked[q], cur[q], pc[q]>>,
         Held(r)' \subseteq Held(r),
         Logged \subseteq Logged', Logged' \subseteq Logged \cup Held(r),
         lost' \subseteq lost \cup Held(r),
         OwnPlaces(r)', AtMostOnce'
  PROVE  PlaceInv'
<1>1. /\ \A q \in Replica : {} \cap Held(q) = {}
      /\ Held(r)' \subseteq Held(r) \cup {}
      /\ lost' \subseteq lost \cup Held(r) \cup {}
  OBVIOUS
<1> QED
  BY <1>1, OthersKeepPlaces

LEMMA LogKeptPlaces ==
  ASSUME PlaceInv, UNCHANGED log
  PROVE  /\ Logged' = Logged
         /\ Logged \cap lost' = {} => AtMostOnce'
BY DEF PlaceInv, AtMostOnce, Logged

\* The channel of r as sets of entries.
LEMMA ChannelSets ==
  ASSUME TypeOK, PlaceInv, NEW r \in Replica
  PROVE  /\ Held(r) = Queued(r) \cup Waiting(r) \cup ({cur[r]} \ {None})
         /\ Held(r)' = Queued(r)' \cup Waiting(r)' \cup ({cur[r]'} \ {None})
         /\ queue[r] \in Seq(Entry) /\ blocked[r] \in Seq(Entry)
         /\ Queued(r) \subseteq Entry /\ Waiting(r) \subseteq Entry
         /\ Distinct(queue[r]) /\ Distinct(blocked[r]) /\ OwnPlaces(r)
         /\ Logged \cap lost = {}
<1>1. queue[r] \in Seq(Entry) /\ blocked[r] \in Seq(Entry)
  BY DEF TypeOK
<1> QED
  BY <1>1, RangeType DEF Held, Queued, Waiting, PlaceInv, OwnPlaces, AtMostOnce

LEMMA AppendKeepsPlaces ==
  ASSUME TypeOK, PlaceInv, NEW r \in Replica, NEW e \in Entry,
         AppendQueued(r, e) \/ AppendWaits(r, e) \/ AppendDropped(r, e)
  PROVE  PlaceInv'
<1> USE AuditAssumption
<1>1. /\ e \notin Logged \cup lost
      /\ \A q \in Replica : {e} \cap Held(q) = {}
      /\ UNCHANGED <<log, pc, cur>>
  <2>1. Fresh(e) /\ UNCHANGED <<log, pc, cur>>
    BY DEF AppendQueued, AppendWaits, AppendDropped, MayAppend
  <2> QED
    BY <2>1 DEF Fresh
<1>2. e \notin Queued(r) /\ e \notin Waiting(r) /\ e # cur[r]
  BY <1>1, ChannelSets, SMT
<1>3. /\ \A q \in Replica \ {r} : UNCHANGED <<queue[q], blocked[q], cur[q], pc[q]>>
      /\ UNCHANGED <<cur[r], pc[r]>>
  BY <1>1 DEF AppendQueued, AppendWaits, AppendDropped, TypeOK
<1>4. CASE AppendQueued(r, e)
  <2>1. queue'[r] = Append(queue[r], e) /\ blocked'[r] = blocked[r] /\ lost' = lost
    BY <1>4 DEF AppendQueued, TypeOK
  <2>2. Queued(r)' = Queued(r) \cup {e} /\ Distinct(queue[r])'
    BY <1>2, <2>1, AppendElems, ChannelSets, SMT DEF Queued
  <2>3. Waiting(r)' = Waiting(r) /\ Distinct(blocked[r])'
    BY <2>1, ChannelSets DEF Waiting
  <2>4. OwnPlaces(r)'
    BY <1>1, <1>2, <1>3, <2>1, <2>2, <2>3, LogKeptPlaces, ChannelSets, SMT DEF OwnPlaces
  <2>5. Held(r)' \subseteq Held(r) \cup {e}
    BY <1>3, <2>2, <2>3, ChannelSets, SMT
  <2> QED
    BY <1>1, <1>3, <2>1, <2>4, <2>5, LogKeptPlaces, ChannelSets, OthersKeepPlaces
<1>5. CASE AppendWaits(r, e)
  <2>1. blocked'[r] = Append(blocked[r], e) /\ queue'[r] = queue[r] /\ lost' = lost
    BY <1>5 DEF AppendWaits, TypeOK
  <2>2. Waiting(r)' = Waiting(r) \cup {e} /\ Distinct(blocked[r])'
    BY <1>2, <2>1, AppendElems, ChannelSets, SMT DEF Waiting
  <2>3. Queued(r)' = Queued(r) /\ Distinct(queue[r])'
    BY <2>1, ChannelSets DEF Queued
  <2>4. OwnPlaces(r)'
    BY <1>1, <1>2, <1>3, <2>1, <2>2, <2>3, LogKeptPlaces, ChannelSets, SMT DEF OwnPlaces
  <2>5. Held(r)' \subseteq Held(r) \cup {e}
    BY <1>3, <2>2, <2>3, ChannelSets, SMT
  <2> QED
    BY <1>1, <1>3, <2>1, <2>4, <2>5, LogKeptPlaces, ChannelSets, OthersKeepPlaces
<1>6. CASE AppendDropped(r, e)
  <2>1. blocked'[r] = blocked[r] /\ queue'[r] = queue[r] /\ lost' = lost \cup {e}
    BY <1>6 DEF AppendDropped
  <2>2. Queued(r)' = Queued(r) /\ Waiting(r)' = Waiting(r)
    BY <2>1 DEF Queued, Waiting
  <2>3. Distinct(queue[r])' /\ Distinct(blocked[r])'
    BY <2>1, ChannelSets
  <2>4. OwnPlaces(r)'
    BY <1>1, <1>2, <1>3, <2>1, <2>2, <2>3, LogKeptPlaces, ChannelSets DEF OwnPlaces
  <2>5. Held(r)' \subseteq Held(r) \cup {e}
    BY <1>3, <2>2, ChannelSets
  <2>6. AtMostOnce'
    BY <1>1, <2>1, LogKeptPlaces, ChannelSets, SMT
  <2> QED
    BY <1>1, <1>3, <2>1, <2>4, <2>5, <2>6, LogKeptPlaces, ChannelSets, OthersKeepPlaces
<1> QED
  BY <1>4, <1>5, <1>6

LEMMA SendKeepsPlaces ==
  ASSUME TypeOK, PlaceInv, NEW r \in Replica, SendUnblocks(r)
  PROVE  PlaceInv'
<1> USE AuditAssumption
<1> DEFINE e == Head(blocked[r])
<1>1. /\ queue'[r] = Append(queue[r], e) /\ blocked'[r] = Tail(blocked[r]) /\ blocked[r] # <<>>
      /\ \A q \in Replica \ {r} : UNCHANGED <<queue[q], blocked[q], cur[q], pc[q]>>
      /\ UNCHANGED <<cur[r], pc[r], log, lost>>
  <2>1. /\ queue' = [queue EXCEPT ![r] = Append(queue[r], e)]
        /\ blocked' = [blocked EXCEPT ![r] = Tail(blocked[r])] /\ blocked[r] # <<>>
        /\ UNCHANGED <<cur, pc, log, lost>>
    BY DEF SendUnblocks
  <2>2. DOMAIN queue = Replica /\ DOMAIN blocked = Replica
    BY DEF TypeOK
  <2> QED
    BY <2>1, <2>2
<1>2. /\ e \in Waiting(r) /\ Waiting(r)' = Waiting(r) \ {e} /\ Distinct(blocked[r])'
  BY <1>1, TailElems, ChannelSets DEF Waiting
<1> HIDE DEF e
<1>3. e \notin Queued(r) /\ e \in Entry
  BY <1>2, ChannelSets DEF OwnPlaces
<1>4. Queued(r)' = Queued(r) \cup {e} /\ Distinct(queue[r])'
  BY <1>1, <1>3, AppendElems, ChannelSets, SMT DEF Queued
<1>5. OwnPlaces(r)'
  BY <1>1, <1>2, <1>3, <1>4, LogKeptPlaces, ChannelSets, SMT DEF OwnPlaces
<1>6. Held(r)' \subseteq Held(r)
  BY <1>1, <1>2, <1>4, ChannelSets, SMT
<1> QED
  BY <1>1, <1>5, <1>6, LogKeptPlaces, ChannelSets, OwnStepKeepsPlaces

LEMMA CancelKeepsPlaces ==
  ASSUME TypeOK, PlaceInv, NEW r \in Replica, NEW i \in DOMAIN blocked[r], AppendCancelled(r, i)
  PROVE  PlaceInv'
<1> USE AuditAssumption
<1> DEFINE e == blocked[r][i]
           t == SubSeq(blocked[r], 1, i - 1) \o SubSeq(blocked[r], i + 1, Len(blocked[r]))
<1>1. Elems(t) = Elems(blocked[r]) \ {e} /\ Distinct(t)
  BY RemoveElems, ChannelSets
<1>2. /\ blocked' = [blocked EXCEPT ![r] = t] /\ lost' = lost \cup {e}
      /\ UNCHANGED <<queue, cur, pc, log>>
  BY DEF AppendCancelled
<1>3. e \in Elems(blocked[r])
  BY DEF Elems
<1> HIDE DEF e, t
<1>4. /\ blocked'[r] = t /\ queue'[r] = queue[r]
      /\ \A q \in Replica \ {r} : UNCHANGED <<queue[q], blocked[q], cur[q], pc[q]>>
  <2>1. DOMAIN blocked = Replica
    BY DEF TypeOK
  <2> QED
    BY <1>2, <2>1
<1>5. /\ Waiting(r)' = Waiting(r) \ {e} /\ Distinct(blocked[r])' /\ e \in Waiting(r)
      /\ Queued(r)' = Queued(r) /\ Distinct(queue[r])'
  BY <1>1, <1>3, <1>4, ChannelSets DEF Waiting, Queued
<1>6. OwnPlaces(r)'
  BY <1>2, <1>5, LogKeptPlaces, ChannelSets, SMT DEF OwnPlaces
<1>7. Held(r)' \subseteq Held(r) /\ lost' \subseteq lost \cup Held(r)
  BY <1>2, <1>5, ChannelSets, SMT
<1>8. AtMostOnce'
  BY <1>2, <1>5, LogKeptPlaces, ChannelSets, SMT DEF OwnPlaces
<1> QED
  <2>1. Logged' = Logged
    BY <1>2, LogKeptPlaces
  <2> QED
    BY <1>4, <1>6, <1>7, <1>8, <2>1, OwnStepKeepsPlaces

LEMMA RecvKeepsPlaces ==
  ASSUME TypeOK, PlaceInv, NEW r \in Replica, Recv(r)
  PROVE  PlaceInv'
<1> USE AuditAssumption
<1> DEFINE e == Head(queue[r])
<1>1. /\ queue'[r] = Tail(queue[r]) /\ queue[r] # <<>> /\ blocked'[r] = blocked[r]
      /\ cur'[r] = e /\ pc[r] = "idle" /\ pc'[r] = "begin"
      /\ \A q \in Replica \ {r} : UNCHANGED <<queue[q], blocked[q], cur[q], pc[q]>>
      /\ UNCHANGED <<log, lost>>
  <2>1. /\ queue' = [queue EXCEPT ![r] = Tail(queue[r])] /\ queue[r] # <<>>
        /\ cur' = [cur EXCEPT ![r] = e] /\ pc' = [pc EXCEPT ![r] = "begin"] /\ pc[r] = "idle"
        /\ UNCHANGED <<blocked, log, lost>>
    BY DEF Recv
  <2>2. DOMAIN queue = Replica /\ DOMAIN cur = Replica /\ DOMAIN pc = Replica
    BY DEF TypeOK
  <2> QED
    BY <2>1, <2>2
<1>2. /\ e \in Queued(r) /\ Queued(r)' = Queued(r) \ {e} /\ Distinct(queue[r])'
      /\ Waiting(r)' = Waiting(r) /\ Distinct(blocked[r])'
  BY <1>1, TailElems, ChannelSets DEF Queued, Waiting
<1> HIDE DEF e
<1>3. OwnPlaces(r)'
  BY <1>1, <1>2, LogKeptPlaces, ChannelSets, SMT DEF OwnPlaces
<1>4. Held(r)' \subseteq Held(r)
  BY <1>1, <1>2, ChannelSets, SMT
<1> QED
  BY <1>1, <1>3, <1>4, LogKeptPlaces, ChannelSets, OwnStepKeepsPlaces

\* A writer past its recv goes on to another of its statements.
LEMMA WriterKeepsPlaces ==
  ASSUME TypeOK, PlaceInv, NEW r \in Replica, NEW p \in {"locked", "hashed", "inserted"},
         pc[r] \notin {"idle", "committed"}, pc' = [pc EXCEPT ![r] = p],
         UNCHANGED <<queue, blocked, cur, log, lost>>
  PROVE  PlaceInv'
<1>1. /\ queue'[r] = queue[r] /\ blocked'[r] = blocked[r] /\ cur'[r] = cur[r] /\ pc'[r] = p
      /\ \A q \in Replica \ {r} : UNCHANGED <<queue[q], blocked[q], cur[q], pc[q]>>
  BY DEF TypeOK
<1>2. Queued(r)' = Queued(r) /\ Waiting(r)' = Waiting(r)
  BY <1>1 DEF Queued, Waiting
<1>3. Distinct(queue[r])' /\ Distinct(blocked[r])'
  BY <1>1, ChannelSets
<1>4. OwnPlaces(r)'
  BY <1>1, <1>2, <1>3, LogKeptPlaces, ChannelSets DEF OwnPlaces
<1>5. Held(r)' \subseteq Held(r)
  BY <1>1, <1>2, ChannelSets
<1> QED
  BY <1>1, <1>4, <1>5, LogKeptPlaces, ChannelSets, OwnStepKeepsPlaces

\* The entry in hand is given up.
LEMMA RollbackKeepsPlaces ==
  ASSUME TypeOK, PlaceInv, NEW r \in Replica, pc[r] \notin {"idle", "committed"}, Rollback(r)
  PROVE  PlaceInv'
<1> USE AuditAssumption
<1>1. /\ queue'[r] = queue[r] /\ blocked'[r] = blocked[r] /\ cur'[r] = None /\ pc'[r] = "idle"
      /\ \A q \in Replica \ {r} : UNCHANGED <<queue[q], blocked[q], cur[q], pc[q]>>
      /\ lost' = lost \cup {cur[r]} /\ UNCHANGED log
  BY DEF TypeOK, Rollback
<1>2. Queued(r)' = Queued(r) /\ Waiting(r)' = Waiting(r)
  BY <1>1 DEF Queued, Waiting
<1>3. Distinct(queue[r])' /\ Distinct(blocked[r])'
  BY <1>1, ChannelSets
<1>4. cur[r] \in Entry /\ cur[r] \in Held(r)
  BY ChannelSets, SMT DEF TypeOK
<1>5. OwnPlaces(r)'
  BY <1>1, <1>2, <1>3, LogKeptPlaces, ChannelSets, SMT DEF OwnPlaces
<1>6. Held(r)' \subseteq Held(r) /\ lost' \subseteq lost \cup Held(r)
  BY <1>1, <1>2, <1>4, ChannelSets
<1>7. AtMostOnce' /\ Logged' = Logged
  BY <1>1, LogKeptPlaces, ChannelSets, SMT DEF OwnPlaces
<1> QED
  BY <1>1, <1>5, <1>6, <1>7, OwnStepKeepsPlaces

\* The entry in hand becomes a row; s is where the writer goes on.
LEMMA CommitKeepsPlaces ==
  ASSUME TypeOK, PlaceInv, NEW r \in Replica, pc[r] = "inserted",
         log' = Append(log, NewRow(r)), UNCHANGED <<queue, blocked, lost>>,
         \/ pc' = [pc EXCEPT ![r] = "committed"] /\ UNCHANGED cur
         \/ pc' = [pc EXCEPT ![r] = "idle"] /\ cur' = [cur EXCEPT ![r] = None]
  PROVE  PlaceInv'
<1> USE AuditAssumption
<1>1. /\ queue'[r] = queue[r] /\ blocked'[r] = blocked[r]
      /\ \A q \in Replica \ {r} : UNCHANGED <<queue[q], blocked[q], cur[q], pc[q]>>
      /\ \/ pc'[r] = "committed" /\ cur'[r] = cur[r]
         \/ pc'[r] = "idle" /\ cur'[r] = None
  BY DEF TypeOK
<1>2. Queued(r)' = Queued(r) /\ Waiting(r)' = Waiting(r)
  BY <1>1 DEF Queued, Waiting
<1>3. Distinct(queue[r])' /\ Distinct(blocked[r])'
  BY <1>1, ChannelSets
<1>4. cur[r] \in Entry /\ cur[r] \in Held(r) /\ cur[r] \notin Logged \cup lost
  BY ChannelSets, SMT DEF TypeOK, OwnPlaces
<1>5. /\ log \in Seq(Elems(log)) /\ Len(log) \in Nat /\ DOMAIN log = 1 .. Len(log)
      /\ DOMAIN log' = 1 .. (Len(log) + 1)
      /\ \A i \in 1 .. Len(log) : log'[i] = log[i]
      /\ log'[Len(log) + 1].entry = cur[r]
      /\ \A i \in 1 .. (Len(log) + 1) : i \in 1 .. Len(log) \/ i = Len(log) + 1
  <2>1. log \in Seq(Elems(log))
    BY DEF TypeOK
  <2>2. log'[Len(log) + 1] = NewRow(r)
    BY <2>1, AppendInOwnRange
  <2> QED
    BY <2>1, <2>2, AppendInOwnRange, SMT DEF NewRow
<1>6. Logged' = Logged \cup {cur[r]}
  BY <1>5, SMT DEF Logged
<1>7. \A i \in 1 .. Len(log) : log[i].entry # cur[r]
  BY <1>4, <1>5 DEF Logged
<1>8. \A i, j \in DOMAIN log' : i # j => log'[i].entry # log'[j].entry
  BY <1>5, <1>7, SMT DEF PlaceInv, AtMostOnce
<1>9. AtMostOnce'
  BY <1>4, <1>6, <1>8, ChannelSets, SMT DEF AtMostOnce
<1>10. OwnPlaces(r)'
  BY <1>1, <1>2, <1>3, <1>4, <1>6, ChannelSets, SMT DEF OwnPlaces
<1>11. Held(r)' \subseteq Held(r)
  BY <1>1, <1>2, ChannelSets
<1> QED
  BY <1>1, <1>4, <1>6, <1>9, <1>10, <1>11, OwnStepKeepsPlaces

LEMMA MirrorKeepsPlaces ==
  ASSUME TypeOK, PlaceInv, NEW r \in Replica, Mirror(r)
  PROVE  PlaceInv'
<1> USE AuditAssumption
<1>1. /\ queue'[r] = queue[r] /\ blocked'[r] = blocked[r] /\ cur'[r] = None /\ pc'[r] = "idle"
      /\ \A q \in Replica \ {r} : UNCHANGED <<queue[q], blocked[q], cur[q], pc[q]>>
      /\ UNCHANGED <<log, lost>>
  BY DEF TypeOK, Mirror
<1>2. Queued(r)' = Queued(r) /\ Waiting(r)' = Waiting(r)
  BY <1>1 DEF Queued, Waiting
<1>3. Distinct(queue[r])' /\ Distinct(blocked[r])'
  BY <1>1, ChannelSets
<1>4. None \notin Queued(r) \cup Waiting(r)
  BY ChannelSets
<1>5. OwnPlaces(r)'
  BY <1>1, <1>2, <1>3, <1>4, LogKeptPlaces, ChannelSets DEF OwnPlaces
<1>6. Held(r)' \subseteq Held(r)
  BY <1>1, <1>2, ChannelSets
<1>7. AtMostOnce' /\ Logged' = Logged
  BY <1>1, LogKeptPlaces, ChannelSets
<1> QED
  BY <1>1, <1>5, <1>6, <1>7, OwnStepKeepsPlaces

LEMMA EmptyElems == Elems(<<>>) = {} /\ Distinct(<<>>)
BY SMT DEF Elems, Distinct

LEMMA CloseKeepsPlaces ==
  ASSUME TypeOK, PlaceInv, NEW r \in Replica, CloseChannel(r)
  PROVE  PlaceInv'
<1>1. /\ queue'[r] = queue[r] /\ blocked'[r] = <<>> /\ UNCHANGED <<cur[r], pc[r]>>
      /\ \A q \in Replica \ {r} : UNCHANGED <<queue[q], blocked[q], cur[q], pc[q]>>
      /\ lost' = lost \cup Waiting(r) /\ UNCHANGED log /\ pc[r] = "idle"
  BY DEF TypeOK, CloseChannel, Waiting
<1>2. Queued(r)' = Queued(r) /\ Waiting(r)' = {} /\ Distinct(queue[r])' /\ Distinct(blocked[r])'
  BY <1>1, EmptyElems, ChannelSets DEF Queued, Waiting
<1>3. OwnPlaces(r)'
  BY <1>1, <1>2, LogKeptPlaces, ChannelSets, SMT DEF OwnPlaces
<1>4. Held(r)' \subseteq Held(r) /\ lost' \subseteq lost \cup Held(r)
  <2>1. /\ Held(r) = Queued(r) \cup Waiting(r) \cup ({cur[r]} \ {None})
        /\ Held(r)' = Queued(r)' \cup Waiting(r)' \cup ({cur[r]'} \ {None})
    BY ChannelSets
  <2> QED
    BY <1>1, <1>2, <2>1
<1>5. AtMostOnce' /\ Logged' = Logged
  BY <1>1, LogKeptPlaces, ChannelSets DEF OwnPlaces
<1> QED
  BY <1>1, <1>3, <1>4, <1>5, OwnStepKeepsPlaces

LEMMA DieKeepsPlaces ==
  ASSUME TypeOK, PlaceInv, NEW r \in Replica, Die(r)
  PROVE  PlaceInv'
<1>1. /\ queue'[r] = <<>> /\ blocked'[r] = <<>> /\ cur'[r] = None /\ pc'[r] = "idle"
      /\ \A q \in Replica \ {r} : UNCHANGED <<queue[q], blocked[q], cur[q], pc[q]>>
      /\ lost' = lost \cup (Held(r) \ Logged) /\ UNCHANGED log
  BY DEF TypeOK, Die
<1>2. Queued(r)' = {} /\ Waiting(r)' = {} /\ Distinct(queue[r])' /\ Distinct(blocked[r])'
  BY <1>1, EmptyElems DEF Queued, Waiting
<1>3. OwnPlaces(r)'
  BY <1>1, <1>2 DEF OwnPlaces
<1>4. Held(r)' \subseteq Held(r) /\ lost' \subseteq lost \cup Held(r)
  BY <1>1, <1>2, ChannelSets
<1>5. AtMostOnce' /\ Logged' = Logged
  BY <1>1, LogKeptPlaces, ChannelSets
<1> QED
  BY <1>1, <1>3, <1>4, <1>5, OwnStepKeepsPlaces

LEMMA PlaceStep ==
  ASSUME IInv, PlaceInv, [Next]_vars
  PROVE  PlaceInv'
<1>0. TypeOK
  BY DEF IInv
<1>1. ASSUME UNCHANGED <<queue, blocked, cur, pc, log, lost>> PROVE PlaceInv'
  <2>1. Logged' = Logged /\ \A r \in Replica : /\ Held(r)' = Held(r) /\ Queued(r)' = Queued(r)
                                               /\ Waiting(r)' = Waiting(r)
    BY <1>1 DEF Logged, Held, Queued, Waiting, Elems
  <2> QED
    BY <1>1, <2>1 DEF PlaceInv, OwnPlaces, AtMostOnce, Distinct
<1>2. CASE UNCHANGED vars
  BY <1>1, <1>2 DEF vars
<1>3. ASSUME NEW r \in Replica, ShutdownAndDrain(r) \/ WriterExits(r) PROVE PlaceInv'
  BY <1>1, <1>3 DEF ShutdownAndDrain, WriterExits
<1>4. ASSUME NEW r \in Replica, Lock(r) \/ ReadTail(r) PROVE PlaceInv'
  BY <1>0, <1>4, WriterKeepsPlaces DEF Lock, ReadTail
<1>5. ASSUME NEW r \in Replica, Insert(r) PROVE PlaceInv'
  BY <1>0, <1>5, WriterKeepsPlaces, RollbackKeepsPlaces DEF Insert
<1>6. ASSUME NEW r \in Replica, WriteFails(r) PROVE PlaceInv'
  BY <1>0, <1>6, RollbackKeepsPlaces DEF WriteFails
<1>7. ASSUME NEW r \in Replica, Commit(r) \/ CommitUnacknowledged(r) PROVE PlaceInv'
  BY <1>0, <1>7, CommitKeepsPlaces DEF Commit, CommitUnacknowledged
<1> QED
  BY <1>0, <1>2, <1>3, <1>4, <1>5, <1>6, <1>7, AppendKeepsPlaces, SendKeepsPlaces,
     CancelKeepsPlaces, RecvKeepsPlaces, MirrorKeepsPlaces, CloseKeepsPlaces, DieKeepsPlaces
  DEF Next, WriterStep

-----------------------------------------------------------------------------
\* Without a fault nothing of a handler's is given up: a transaction that finds
\* another tail than it read would be one, and there is none (TailInv).
LEMMA CleanStep ==
  ASSUME IInv, PlaceInv, CleanInv, [Next]_vars
  PROVE  CleanInv'
<1> USE AuditAssumption
<1>0. TypeOK
  BY DEF IInv
<1>1. ASSUME UNCHANGED lost, faults' \in {faults, faults + 1},
             \A q \in Replica : phase'[q] = "signalled" =>
                Waiting(q)' \cap Handler = {}
      PROVE  CleanInv'
  <2>1. faults' = 0 => faults = 0
    BY <1>0, <1>1, SMT DEF TypeOK
  <2> QED
    BY <1>1, <2>1 DEF CleanInv, CleanShutdownKeepsHandled
<1>2. ASSUME UNCHANGED <<phase, blocked>>
      PROVE  \A q \in Replica : phase'[q] = "signalled" => Waiting(q)' \cap Handler = {}
  BY <1>2 DEF CleanInv, Waiting
<1>3. CASE UNCHANGED vars
  BY <1>1, <1>2, <1>3 DEF vars
<1>4. ASSUME NEW r \in Replica, NEW e \in Entry, AppendQueued(r, e) PROVE CleanInv'
  BY <1>1, <1>2, <1>4 DEF AppendQueued
<1>5. ASSUME NEW r \in Replica, NEW e \in Entry, AppendWaits(r, e) PROVE CleanInv'
  <2>1. /\ blocked'[r] = Append(blocked[r], e) /\ UNCHANGED <<lost, faults, phase>>
        /\ \A q \in Replica \ {r} : blocked'[q] = blocked[q]
        /\ phase[r] = "signalled" => e \in Background
    BY <1>0, <1>5 DEF AppendWaits, MayAppend, TypeOK
  <2>2. e \notin Waiting(r)
    BY <1>5, ChannelSets, <1>0, SMT DEF AppendWaits, MayAppend, Fresh
  <2>3. Waiting(r)' = Waiting(r) \cup {e}
    BY <1>0, <2>1, <2>2, AppendElems, ChannelSets, SMT DEF Waiting
  <2>4. \A q \in Replica \ {r} : Waiting(q)' = Waiting(q)
    BY <2>1 DEF Waiting
  <2> QED
    BY <1>1, <2>1, <2>3, <2>4 DEF CleanInv
<1>6. ASSUME NEW r \in Replica, NEW e \in Entry, AppendDropped(r, e) PROVE CleanInv'
  <2>1. /\ e \in Background /\ lost' = lost \cup {e} /\ UNCHANGED <<faults, phase, blocked>>
    BY <1>6 DEF AppendDropped, MayAppend
  <2> QED
    BY <1>2, <2>1 DEF CleanInv, CleanShutdownKeepsHandled
<1>7. ASSUME NEW r \in Replica, SendUnblocks(r) PROVE CleanInv'
  <2>1. /\ blocked'[r] = Tail(blocked[r]) /\ blocked[r] # <<>> /\ UNCHANGED <<lost, faults, phase>>
        /\ \A q \in Replica \ {r} : blocked'[q] = blocked[q]
    BY <1>0, <1>7 DEF SendUnblocks, TypeOK
  <2>2. Waiting(r)' \subseteq Waiting(r)
    BY <1>0, <2>1, TailElems, ChannelSets DEF Waiting
  <2>3. \A q \in Replica \ {r} : Waiting(q)' = Waiting(q)
    BY <2>1 DEF Waiting
  <2> QED
    BY <1>1, <2>1, <2>2, <2>3 DEF CleanInv
<1>8. ASSUME NEW r \in Replica, NEW i \in DOMAIN blocked[r], AppendCancelled(r, i)
      PROVE  CleanInv'
  <2> DEFINE t == SubSeq(blocked[r], 1, i - 1) \o SubSeq(blocked[r], i + 1, Len(blocked[r]))
  <2>1. Elems(t) \subseteq Elems(blocked[r])
    BY <1>0, RemoveElems, ChannelSets
  <2>2. blocked' = [blocked EXCEPT ![r] = t] /\ faults' = faults + 1 /\ UNCHANGED phase
    BY <1>8 DEF AppendCancelled
  <2> HIDE DEF t
  <2>3. DOMAIN blocked = Replica /\ faults \in Nat
    BY <1>0 DEF TypeOK
  <2>4. blocked'[r] = t /\ \A q \in Replica \ {r} : blocked'[q] = blocked[q]
    BY <2>2, <2>3
  <2>5. Waiting(r)' \subseteq Waiting(r) /\ \A q \in Replica \ {r} : Waiting(q)' = Waiting(q)
    BY <2>1, <2>4 DEF Waiting
  <2>6. faults' # 0
    BY <2>2, <2>3, SMT
  <2> QED
    BY <2>2, <2>5, <2>6 DEF CleanInv, CleanShutdownKeepsHandled
<1>9. ASSUME NEW r \in Replica,
             Recv(r) \/ Lock(r) \/ ReadTail(r) \/ Commit(r) \/ Mirror(r) \/ CommitUnacknowledged(r)
      PROVE  CleanInv'
  BY <1>1, <1>2, <1>9 DEF Recv, Lock, ReadTail, Commit, Mirror, CommitUnacknowledged
<1>10. ASSUME NEW r \in Replica, Insert(r) PROVE CleanInv'
  <2>1. tail[r].prev = TailHash
    BY <1>10, TailIsLast DEF Insert, IInv, TailInv
  <2> QED
    BY <1>1, <1>2, <1>10, <2>1 DEF Insert
<1>11. ASSUME NEW r \in Replica, WriteFails(r) PROVE CleanInv'
  <2>1. faults' # 0 /\ UNCHANGED <<phase, blocked>>
    BY <1>0, <1>11, SMT DEF WriteFails, Rollback, TypeOK
  <2> QED
    BY <1>2, <2>1 DEF CleanInv, CleanShutdownKeepsHandled
<1>12. ASSUME NEW r \in Replica, ShutdownAndDrain(r) PROVE CleanInv'
  <2>1. \A q \in Replica : phase'[q] = "signalled" => Waiting(q)' \cap Handler = {}
    BY <1>0, <1>12 DEF ShutdownAndDrain, Waiting, CleanInv, TypeOK
  <2> QED
    BY <1>1, <1>12, <2>1 DEF ShutdownAndDrain
<1>13. ASSUME NEW r \in Replica, CloseChannel(r) PROVE CleanInv'
  <2>1. /\ phase[r] = "signalled" /\ lost' = lost \cup Waiting(r) /\ UNCHANGED faults
        /\ phase'[r] = "draining"
        /\ \A q \in Replica \ {r} : UNCHANGED <<phase[q], blocked[q]>>
    BY <1>0, <1>13 DEF CloseChannel, Waiting, TypeOK
  <2>2. Waiting(r) \subseteq Background
    BY <1>0, <2>1, ChannelSets DEF CleanInv, Entry
  <2>3. \A q \in Replica \ {r} : Waiting(q)' = Waiting(q)
    BY <2>1 DEF Waiting
  <2> QED
    BY <2>1, <2>2, <2>3 DEF CleanInv, CleanShutdownKeepsHandled
<1>14. ASSUME NEW r \in Replica, WriterExits(r) PROVE CleanInv'
  <2>1. \A q \in Replica : phase'[q] = "signalled" => Waiting(q)' \cap Handler = {}
    BY <1>0, <1>14 DEF WriterExits, Waiting, CleanInv, TypeOK
  <2> QED
    BY <1>1, <1>14, <2>1 DEF WriterExits
<1>15. ASSUME NEW r \in Replica, Die(r) PROVE CleanInv'
  <2>1. /\ faults' # 0 /\ phase'[r] = "stopped"
        /\ \A q \in Replica \ {r} : UNCHANGED <<phase[q], blocked[q]>>
    BY <1>0, <1>15, SMT DEF Die, TypeOK
  <2>2. \A q \in Replica \ {r} : Waiting(q)' = Waiting(q)
    BY <2>1 DEF Waiting
  <2> QED
    BY <2>1, <2>2 DEF CleanInv, CleanShutdownKeepsHandled
<1> QED
  BY <1>3, <1>4, <1>5, <1>6, <1>7, <1>8, <1>9, <1>10, <1>11, <1>12, <1>13, <1>14, <1>15
  DEF Next, WriterStep

-----------------------------------------------------------------------------
\* A writer's part of MirrorInv.
OwnMirror(r) ==
  /\ pc[r] = "inserted" => rowseq[r] # 0
  /\ pc[r] \in {"hashed", "inserted"} => tail[r].seq = LastSeq + 1
  /\ pc[r] = "committed" =>
       \E i \in DOMAIN log : /\ tail[r].seq = Key(i)
                             /\ log[i].hash = Hash(tail[r].prev, cur[r], tail[r].seq)

LEMMA MirrorParts ==
  /\ MirrorInv <=> /\ \A m \in mirror : \E i \in DOMAIN log : m = [seq |-> Key(i), hash |-> log[i].hash]
                   /\ \A i \in DOMAIN log : log[i].seq # 0
                   /\ \A r \in Replica : OwnMirror(r)
BY DEF MirrorInv, OwnMirror

LEMMA IdleMirror == ASSUME NEW r, pc[r] \notin {"hashed", "inserted", "committed"} PROVE OwnMirror(r)
BY DEF OwnMirror

\* Without a new row a writer's part can change only by its own step.
LEMMA SameOwnMirror ==
  ASSUME UNCHANGED log, NEW r, UNCHANGED <<pc[r], cur[r], tail[r], rowseq[r]>>, OwnMirror(r)
  PROVE  OwnMirror(r)'
BY DEF OwnMirror, LastSeq, Key

LEMMA SameLogMirror ==
  ASSUME MirrorInv, UNCHANGED <<log, mirror>>, \A q \in Replica : OwnMirror(q)'
  PROVE  MirrorInv'
BY MirrorParts DEF MirrorInv, Key, OwnMirror

LEMMA QuietMirror ==
  ASSUME MirrorInv, UNCHANGED <<log, mirror>>, NEW r \in Replica, OwnMirror(r)',
         \A q \in Replica \ {r} : UNCHANGED <<pc[q], cur[q], tail[q], rowseq[q]>>
  PROVE  MirrorInv'
<1>1. \A q \in Replica \ {r} : OwnMirror(q)'
  BY MirrorParts, SameOwnMirror
<1> QED
  BY <1>1, SameLogMirror

\* A new row leaves the keys of the others as they were.
LEMMA CommitMirror ==
  ASSUME IInv, MirrorInv, NEW r \in Replica, pc[r] = "inserted",
         log' = Append(log, NewRow(r)), UNCHANGED <<tail, rowseq, mirror>>,
         \/ pc' = [pc EXCEPT ![r] = "committed"] /\ UNCHANGED cur
         \/ pc' = [pc EXCEPT ![r] = "idle"] /\ cur' = [cur EXCEPT ![r] = None]
  PROVE  MirrorInv'
<1>0. PICK n \in Nat : n = Len(log) + 1
  BY SMT DEF IInv, TypeOK
<1>1. /\ log \in Seq(Elems(log)) /\ Len(log) \in Nat /\ DOMAIN log = 1 .. Len(log)
      /\ DOMAIN log' = 1 .. n
      /\ \A i \in 1 .. Len(log) : log'[i] = log[i]
      /\ log'[n] = NewRow(r)
  BY <1>0, AppendInOwnRange, SMT DEF IInv, TypeOK
<1>2. \A i \in DOMAIN log : i \in DOMAIN log' /\ Key(i)' = Key(i) /\ log'[i] = log[i]
  <2>1. \A i \in 1 .. Len(log) : i \in 1 .. n /\ (i # 1 => i - 1 \in 1 .. Len(log))
    BY <1>0, <1>1, SMT
  <2> QED
    BY <1>1, <2>1 DEF Key
<1>3. n \in DOMAIN log' /\ \A i \in DOMAIN log' : i \in DOMAIN log \/ i = n
  BY <1>0, <1>1, SMT
<1>4. tail[r].seq = LastSeq + 1 /\ rowseq[r] # 0
  BY DEF MirrorInv
<1>5. Key(n)' = LastSeq + 1
  <2>1. CASE Len(log) = 0
    <3>1. n = 1 /\ log = <<>>
      BY <1>0, <1>1, <2>1, SMT
    <3> QED
      BY <3>1 DEF Key, LastSeq
  <2>2. CASE Len(log) # 0
    <3>1. n # 1 /\ n - 1 = Len(log) /\ log # <<>> /\ Len(log) \in 1 .. Len(log)
      BY <1>0, <1>1, <2>2, SMT
    <3>2. log'[n - 1].seq = log[Len(log)].seq
      BY <1>1, <3>1
    <3> QED
      BY <3>1, <3>2 DEF Key, LastSeq
  <2> QED
    BY <2>1, <2>2
<1>6. /\ log'[n].hash = Hash(tail[r].prev, cur[r], tail[r].seq)
      /\ log'[n].seq = rowseq[r]
  BY <1>1, SMT DEF NewRow
<1>7. \A m \in mirror' : \E i \in DOMAIN log' : m = [seq |-> Key(i)', hash |-> log'[i].hash]
  <2> TAKE m \in mirror'
  <2>1. PICK i \in DOMAIN log : m = [seq |-> Key(i), hash |-> log[i].hash]
    BY DEF MirrorInv
  <2> QED
    BY <1>2, <2>1
<1>8. \A i \in DOMAIN log' : log'[i].seq # 0
  BY <1>2, <1>3, <1>4, <1>6 DEF MirrorInv
<1>9. \A q \in Replica : q # r => pc'[q] = pc[q] /\ cur'[q] = cur[q] /\ pc[q] \notin InTransaction
  <2>1. lock = r
    BY DEF IInv, LockInv, InTransaction
  <2>2. \A q \in Replica : q # r => pc[q] \notin InTransaction
    BY <2>1 DEF IInv, LockInv
  <2> QED
    BY <2>2 DEF IInv, TypeOK
<1>10. ASSUME NEW q \in Replica, q # r PROVE OwnMirror(q)'
  <2>1. pc'[q] \notin {"hashed", "inserted"}
    BY <1>9, <1>10 DEF InTransaction
  <2>2. ASSUME pc'[q] = "committed"
        PROVE \E i \in DOMAIN log' : /\ tail'[q].seq = Key(i)'
                                     /\ log'[i].hash = Hash(tail'[q].prev, cur'[q], tail'[q].seq)
    <3>1. PICK i \in DOMAIN log : /\ tail[q].seq = Key(i)
                                  /\ log[i].hash = Hash(tail[q].prev, cur[q], tail[q].seq)
      BY <1>9, <1>10, <2>2 DEF MirrorInv
    <3> QED
      BY <1>2, <1>9, <1>10, <3>1 DEF Hash
  <2> QED
    BY <2>1, <2>2 DEF OwnMirror
<1>11. OwnMirror(r)'
  <2>1. pc'[r] \in {"committed", "idle"} /\ (pc'[r] = "committed" => cur'[r] = cur[r])
    BY DEF IInv, TypeOK
  <2>2. \E i \in DOMAIN log' : /\ tail[r].seq = Key(i)'
                               /\ log'[i].hash = Hash(tail[r].prev, cur[r], tail[r].seq)
    BY <1>3, <1>4, <1>5, <1>6
  <2>3. pc'[r] = "committed" => \E i \in DOMAIN log' : /\ tail'[r].seq = Key(i)'
                               /\ log'[i].hash = Hash(tail'[r].prev, cur'[r], tail'[r].seq)
    BY <2>1, <2>2 DEF Hash
  <2> QED
    BY <2>1, <2>3 DEF OwnMirror
<1> QED
  BY <1>7, <1>8, <1>10, <1>11 DEF MirrorInv, OwnMirror

LEMMA MirrorStep ==
  ASSUME IInv, MirrorInv, [Next]_vars
  PROVE  MirrorInv'
<1>0. /\ DOMAIN pc = Replica /\ DOMAIN cur = Replica /\ DOMAIN tail = Replica
      /\ DOMAIN rowseq = Replica /\ nextval # 0
  BY DEF IInv, TypeOK
<1>1. ASSUME UNCHANGED <<log, mirror, pc, cur, tail, rowseq>> PROVE MirrorInv'
  <2>1. \A q \in Replica : OwnMirror(q)'
    BY <1>1, MirrorParts, SameOwnMirror
  <2> QED
    BY <1>1, <2>1, SameLogMirror
<1>2. CASE UNCHANGED vars
  BY <1>1, <1>2 DEF vars
<1>3. ASSUME NEW r \in Replica, NEW e \in Entry,
             AppendQueued(r, e) \/ AppendWaits(r, e) \/ AppendDropped(r, e)
      PROVE  MirrorInv'
  BY <1>1, <1>3 DEF AppendQueued, AppendWaits, AppendDropped
<1>4. ASSUME NEW r \in Replica, NEW i \in DOMAIN blocked[r], AppendCancelled(r, i)
      PROVE  MirrorInv'
  BY <1>1, <1>4 DEF AppendCancelled
<1>5. ASSUME NEW r \in Replica,
             SendUnblocks(r) \/ ShutdownAndDrain(r) \/ CloseChannel(r) \/ WriterExits(r)
      PROVE  MirrorInv'
  BY <1>1, <1>5 DEF SendUnblocks, ShutdownAndDrain, CloseChannel, WriterExits
<1>6. ASSUME NEW r \in Replica, NEW p \in {"idle", "begin", "locked"}, pc' = [pc EXCEPT ![r] = p],
             cur' = cur \/ \E c : cur' = [cur EXCEPT ![r] = c],
             UNCHANGED <<log, mirror, tail, rowseq>>
      PROVE  MirrorInv'
  <2>1. /\ pc'[r] = p
        /\ \A q \in Replica \ {r} : UNCHANGED <<pc[q], cur[q], tail[q], rowseq[q]>>
    BY <1>0, <1>6
  <2>2. OwnMirror(r)'
    BY <2>1 DEF OwnMirror
  <2> QED
    BY <1>6, <2>1, <2>2, QuietMirror
<1>7. ASSUME NEW r \in Replica, Recv(r) PROVE MirrorInv'
  <2>1. /\ pc' = [pc EXCEPT ![r] = "begin"] /\ cur' = [cur EXCEPT ![r] = Head(queue[r])]
        /\ UNCHANGED <<log, mirror, tail, rowseq>>
    BY <1>7 DEF Recv
  <2> QED
    BY <1>6, <2>1
<1>8. ASSUME NEW r \in Replica, Lock(r) PROVE MirrorInv'
  BY <1>6, <1>8 DEF Lock
<1>9. ASSUME NEW r \in Replica, WriteFails(r) \/ Die(r) PROVE MirrorInv'
  <2>1. /\ pc' = [pc EXCEPT ![r] = "idle"] /\ cur' = [cur EXCEPT ![r] = None]
        /\ UNCHANGED <<log, mirror, tail, rowseq>>
    BY <1>9 DEF WriteFails, Rollback, Die
  <2> QED
    BY <1>6, <2>1
<1>10. ASSUME NEW r \in Replica, ReadTail(r) PROVE MirrorInv'
  <2>1. /\ tail' = [tail EXCEPT ![r] = [seq |-> TailSeq + 1, prev |-> TailHash]]
        /\ pc' = [pc EXCEPT ![r] = "hashed"] /\ UNCHANGED <<log, mirror, cur, rowseq>>
    BY <1>10 DEF ReadTail
  <2>2. TailSeq = LastSeq
    BY TailIsLast DEF IInv, TailSeq, LastSeq
  <2>3. /\ pc'[r] = "hashed" /\ tail'[r].seq = LastSeq + 1
        /\ \A q \in Replica \ {r} : UNCHANGED <<pc[q], cur[q], tail[q], rowseq[q]>>
    BY <1>0, <2>1, <2>2
  <2>4. LastSeq' = LastSeq
    BY <2>1 DEF LastSeq
  <2>5. OwnMirror(r)'
    BY <2>3, <2>4 DEF OwnMirror
  <2> QED
    BY <2>1, <2>3, <2>5, QuietMirror
<1>11. ASSUME NEW r \in Replica, Insert(r) PROVE MirrorInv'
  <2>1. tail[r].prev = TailHash
    BY <1>11, TailIsLast DEF Insert, IInv, TailInv
  <2>2. /\ rowseq' = [rowseq EXCEPT ![r] = nextval] /\ pc' = [pc EXCEPT ![r] = "inserted"]
        /\ pc[r] = "hashed" /\ UNCHANGED <<log, mirror, cur, tail>>
    BY <1>11, <2>1 DEF Insert
  <2>3. /\ pc'[r] = "inserted" /\ rowseq'[r] # 0
        /\ \A q \in Replica \ {r} : UNCHANGED <<pc[q], cur[q], tail[q], rowseq[q]>>
    BY <1>0, <2>2
  <2>4. tail'[r].seq = LastSeq' + 1
    BY <2>2, MirrorParts DEF OwnMirror, LastSeq
  <2>5. OwnMirror(r)'
    BY <2>3, <2>4 DEF OwnMirror
  <2> QED
    BY <2>2, <2>3, <2>5, QuietMirror
<1>12. ASSUME NEW r \in Replica, Commit(r) \/ CommitUnacknowledged(r) PROVE MirrorInv'
  BY <1>12, CommitMirror DEF Commit, CommitUnacknowledged
<1>13. ASSUME NEW r \in Replica, Mirror(r) PROVE MirrorInv'
  <2> DEFINE o == [seq |-> tail[r].seq, hash |-> Hash(tail[r].prev, cur[r], tail[r].seq)]
  <2>1. /\ mirror' \subseteq mirror \cup {o} /\ pc[r] = "committed"
        /\ cur' = [cur EXCEPT ![r] = None] /\ pc' = [pc EXCEPT ![r] = "idle"]
        /\ UNCHANGED <<log, tail, rowseq>>
    BY <1>13 DEF Mirror
  <2>2. PICK i \in DOMAIN log : /\ tail[r].seq = Key(i)
                                /\ log[i].hash = Hash(tail[r].prev, cur[r], tail[r].seq)
    BY <2>1, MirrorParts DEF OwnMirror
  <2>3. o = [seq |-> Key(i), hash |-> log[i].hash]
    BY <2>2
  <2> HIDE DEF o
  <2>4. \A m \in mirror' : \E j \in DOMAIN log : m = [seq |-> Key(j), hash |-> log[j].hash]
    BY <2>1, <2>3 DEF MirrorInv
  <2>5. \A m \in mirror' : \E j \in DOMAIN log' : m = [seq |-> Key(j)', hash |-> log'[j].hash]
    BY <2>1, <2>4 DEF Key
  <2>6. /\ pc'[r] = "idle"
        /\ \A q \in Replica \ {r} : UNCHANGED <<pc[q], cur[q], tail[q], rowseq[q]>>
    BY <1>0, <2>1
  <2>7. \A q \in Replica : OwnMirror(q)'
    <3>1. OwnMirror(r)'
      BY <2>6 DEF OwnMirror
    <3>2. \A q \in Replica \ {r} : OwnMirror(q)'
      BY <2>1, <2>6, MirrorParts, SameOwnMirror
    <3> QED
      BY <3>1, <3>2
  <2>8. \A j \in DOMAIN log' : log'[j].seq # 0
    BY <2>1 DEF MirrorInv
  <2> QED
    BY <2>5, <2>7, <2>8 DEF MirrorInv, OwnMirror
<1> QED
  BY <1>2, <1>3, <1>4, <1>5, <1>7, <1>8, <1>9, <1>10, <1>11, <1>12, <1>13
  DEF Next, WriterStep

-----------------------------------------------------------------------------
LEMMA InitKInv == Init => KInv
<1> SUFFICES ASSUME Init PROVE KInv
  OBVIOUS
<1>1. /\ \A r \in Replica : /\ queue[r] = <<>> /\ blocked[r] = <<>> /\ cur[r] = None /\ pc[r] = "idle"
                            /\ phase[r] = "serving"
      /\ lost = {} /\ mirror = {} /\ log = <<>>
  BY DEF Init
<1>2. Logged = {} /\ \A r \in Replica : Queued(r) = {} /\ Waiting(r) = {} /\ Held(r) = {}
  <2>0. DOMAIN log = {}
    BY <1>1, SMT
  <2>1. Logged = {}
    BY <2>0 DEF Logged
  <2>2. \A r \in Replica : Queued(r) = {} /\ Waiting(r) = {}
    BY <1>1, EmptyElems DEF Queued, Waiting
  <2> QED
    BY <1>1, <2>1, <2>2 DEF Held, Queued, Waiting
<1>3. PlaceInv
  BY <1>1, <1>2, EmptyElems, SMT DEF PlaceInv, OwnPlaces, AtMostOnce
<1>4. CleanInv /\ MirrorInv
  BY <1>1, SMT DEF CleanInv, CleanShutdownKeepsHandled, MirrorInv
<1> QED
  BY <1>3, <1>4, InitIInv DEF KInv

LEMMA NextKInv == KInv /\ [Next]_vars => KInv'
BY NextIInv, PlaceStep, CleanStep, MirrorStep DEF KInv

LEMMA KInvImpliesEntriesKept == KInv => EntriesKept
<1> SUFFICES ASSUME KInv PROVE EntriesKept
  OBVIOUS
<1>1. TypeOK /\ AtMostOnce /\ CleanShutdownKeepsHandled
  BY DEF KInv, IInv, PlaceInv, CleanInv
<1>2. /\ DOMAIN log = 1 .. Len(log) /\ Len(log) \in Nat
      /\ \A i \in DOMAIN log : log[i].seq \in Nat /\ log[i].seq # 0
      /\ \A i, j \in DOMAIN log : i < j => log[i].seq < log[j].seq
  BY SMT DEF KInv, IInv, TypeOK, SeqInv, MirrorInv
<1>a. DOMAIN log = 1 .. Len(log) /\ Len(log) \in Nat
  BY <1>2
<1>3. \A i, j \in DOMAIN log : i < j => Key(i) < Key(j)
  <2> TAKE i, j \in DOMAIN log
  <2> HAVE i < j
  <2>1. j - 1 \in DOMAIN log /\ j # 1 /\ (i # 1 => i - 1 \in DOMAIN log /\ i - 1 < j - 1)
    BY <1>a, SMT
  <2>2. /\ log[j - 1].seq \in Nat /\ log[j - 1].seq # 0
        /\ i # 1 => log[i - 1].seq \in Nat /\ log[i - 1].seq < log[j - 1].seq
    BY <1>2, <2>1
  <2>3. Key(j) = log[j - 1].seq + 1 /\ Key(i) = IF i = 1 THEN 1 ELSE log[i - 1].seq + 1
    BY <2>1, SMT DEF Key
  <2> QED
    BY <2>2, <2>3, SMT
<1>4. \A i, j \in DOMAIN log : Key(i) = Key(j) => i = j
  <2>1. \A i \in DOMAIN log : i \in Nat /\ (i # 1 => i - 1 \in DOMAIN log)
    BY <1>a, SMT
  <2>2. \A i \in DOMAIN log : Key(i) \in Nat
    BY <1>2, <2>1, SMT DEF Key
  <2> QED
    BY <1>3, <2>1, <2>2, SMT
<1>5. MirrorOfCommitted
  <2>1. ASSUME NEW m \in mirror PROVE \E i \in DOMAIN log : log[i].hash = m.hash
    <3>1. PICK i \in DOMAIN log : m = [seq |-> Key(i), hash |-> log[i].hash]
      BY DEF KInv, MirrorInv
    <3> QED
      BY <3>1
  <2>2. ASSUME NEW m \in mirror, NEW k \in mirror, m.seq = k.seq PROVE m = k
    <3>1. PICK i \in DOMAIN log : m = [seq |-> Key(i), hash |-> log[i].hash]
      BY DEF KInv, MirrorInv
    <3>2. PICK j \in DOMAIN log : k = [seq |-> Key(j), hash |-> log[j].hash]
      BY DEF KInv, MirrorInv
    <3>3. Key(i) = Key(j)
      BY <2>2, <3>1, <3>2
    <3> QED
      BY <1>4, <3>1, <3>2, <3>3
  <2> QED
    BY <2>1, <2>2 DEF MirrorOfCommitted
<1> QED
  BY <1>1, <1>5 DEF EntriesKept

\* What becomes of an accepted entry, for any number of replicas, entries,
\* deploys and failures: it is recorded at most once and never both recorded
\* and given up, a clean shutdown gives up nothing of a handler's, and the
\* bucket holds one object for each key, of a committed row (audit.rs, main.rs,
\* audit_mirror.rs).
THEOREM EntriesAreKept == Spec => []EntriesKept
BY InitKInv, NextKInv, KInvImpliesEntriesKept, PTL DEF Spec
=============================================================================
