-------------------------- MODULE SyncOutboxProofs --------------------------
(***************************************************************************)
(* Proofs about SyncOutbox, for every number of rows, batches, pairings,   *)
(* respawns and faults: an acknowledged row was handled, no pairing sees a *)
(* gap in its ordinals, a bisection keeps the order of its parts, and a    *)
(* lane has one live worker.                                               *)
(*                                                                         *)
(* NoFalseGap is the hard one: the batch counter is shared by workers of   *)
(* both lanes, of workers told to stop and of devices paired earlier, and  *)
(* the server remembers the highest ordinal per device.  A worker that was *)
(* not told to stop and still has an older device's token has not been     *)
(* heard by the newest device (Unheard, LinkInv); what such workers may    *)
(* still commit is no larger than any ordinal of the newest device         *)
(* (OldInv); so the counter is at most what the newest device has seen, or *)
(* one answer ahead of it (CounterInv).                                    *)
(***************************************************************************)
EXTENDS SyncOutbox, FiniteSetTheorems, TLAPS

\* Zenon proves a leaf unless the leaf cites SMT, which the arithmetic needs.
USE Zenon

-----------------------------------------------------------------------------
(* The inductive invariant                                                 *)

\* A worker that has not been told to stop.
Current(w) == wk[w].pc # "dead" /\ ~wk[w].aborted

\* The worker waits for the answer to a request ...
Waiting(w) == wk[w].pc = "waiting" /\ wk[w].reply = "none"

\* ... or has got a 2xx whose ordinal it has not committed yet.
Won(w) == wk[w].pc = "commit" \/ (wk[w].pc = "waiting" /\ wk[w].reply = "ok")

Handled == stored \cup rejected \cup dropped

\* A worker has its own lane's rows, an ordinal taken from the counter and,
\* while it runs, the token of a device that was paired.
WorkerInv ==
  \A w \in Worker :
    /\ wk[w].pc # "dead" => wk[w].tok \in 1 .. newest
    /\ \A k \in DOMAIN wk[w].stack : wk[w].stack[k] \subseteq OfLane(w[1])
    /\ wk[w].batch \subseteq OfLane(w[1])
    /\ wk[w].seq <= counter + 1
    /\ wk[w].pc = "idle" => wk[w].stack = <<>>

\* So has a request; the server has acted on it once it is to be observed.
RequestInv ==
  \A q \in reqs :
    /\ q.tok \in 1 .. newest
    /\ q.batch \subseteq OfLane(q.w[1])
    /\ q.seq <= counter + 1
    /\ q.at = "observe" => q.batch \subseteq Handled

\* A request that is waited for is the one its worker has sent last.
LinkInv ==
  /\ \A q \in reqs : q.live =>
       /\ Current(q.w) /\ Waiting(q.w)
       /\ wk[q.w].batch = q.batch /\ wk[q.w].seq = q.seq /\ wk[q.w].tok = q.tok
  /\ \A q, r \in reqs : q.live /\ r.live /\ q.w = r.w => q = r

\* Nothing has been heard of a device whose pairing has not reached the lanes.
Unheard ==
  /\ \A w \in Worker : wk[w].pc # "dead" => wk[w].tok # newest
  /\ \A q \in reqs : q.tok # newest
  /\ hi[newest] = 0

\* The workers not told to stop are of one generation, and send for the device
\* paired last unless the lanes have still to learn of it.
LaneInv ==
  /\ token \in {0, newest}
  /\ \A d \in Device : d > newest => hi[d] = 0 /\ d \notin gaps
  /\ \A w \in Worker : Current(w) =>
       /\ w[2] = gen
       /\ pairing = "none" => wk[w].tok = newest
       /\ wk[w].tok # newest => Unheard

\* What a reply stands for.
ReplyInv ==
  \A w \in Worker :
    /\ Replied(w, "ok") => wk[w].batch \subseteq Handled
    /\ wk[w].reply = "bad" => wk[w].batch \cap Poison # {}
    /\ Won(w) /\ wk[w].tok = newest => unseen \/ wk[w].seq <= hi[newest]

\* An ordinal of a device paired before, that may still be committed, is below
\* all that the newest device has sent.
OldInv ==
  \A w \in Worker : wk[w].tok # newest /\ (Won(w) \/ (Current(w) /\ Waiting(w))) =>
    /\ hi[newest] # 0 => wk[w].seq <= hi[newest]
    /\ \A q \in reqs : q.tok = newest => wk[w].seq <= q.seq

\* While every observation was recorded, the counter is not ahead of what the
\* server has seen of the newest device, or will have seen by any of its
\* requests.
CounterInv ==
  ~unseen =>
    /\ hi[newest] # 0 => counter <= hi[newest]
    /\ \A q \in reqs : q.tok = newest => counter <= Max2(hi[newest], q.seq)

RowInv == AckedIsHandled /\ QuarantineIsolates

\* What is being sent comes before what is still on the stack.
StackInv ==
  /\ StackAscending
  /\ \A w \in Worker : wk[w].pc = "waiting" =>
       \A k \in DOMAIN wk[w].stack : \A i \in wk[w].stack[k], j \in wk[w].batch : i > j

Inv ==
  /\ TypeOK /\ WorkerInv /\ RequestInv /\ LinkInv /\ LaneInv /\ ReplyInv
  /\ OldInv /\ CounterInv /\ RowInv /\ StackInv /\ NoFalseGap

-----------------------------------------------------------------------------
(* Ranks, chunks and halves                                                *)

\* Rows are finitely many.
LEMMA RowsFinite ==
  ASSUME NEW S \in SUBSET Id
  PROVE  IsFiniteSet(S) /\ Cardinality(S) \in Nat
<1>1. IsFiniteSet(1 .. MaxId)
  BY FS_Interval, OutboxAssumption, SMT
<1>. QED
  BY <1>1, FS_Subset, FS_CardinalityType DEF Id

\* The rank of a row among rows grows with its id.
LEMMA RankGrows ==
  ASSUME NEW S \in SUBSET Id, NEW i \in Id, NEW j \in Id, i <= j
  PROVE  Rank(i, S) \in Nat /\ Rank(j, S) \in Nat /\ Rank(i, S) <= Rank(j, S)
<1>. DEFINE A == {k \in S : k < i}
            B == {k \in S : k < j}
<1>0. i \in Int /\ j \in Int /\ \A k \in S : k \in Int
  BY OutboxAssumption, SMT DEF Id
<1>1. A \in SUBSET Id /\ B \in SUBSET Id /\ A \subseteq B
  <2>1. ASSUME NEW k \in S, k < i PROVE k < j
    BY <1>0, <2>1, SMT
  <2>2. A \subseteq S /\ B \subseteq S
    OBVIOUS
  <2>3. A \subseteq B
    BY <2>1
  <2>. HIDE DEF A, B
  <2>. QED
    BY <2>2, <2>3
<1>2. IsFiniteSet(B) /\ Cardinality(A) \in Nat /\ Cardinality(B) \in Nat
  BY <1>1, RowsFinite
<1>3. Cardinality(A) <= Cardinality(B)
  BY <1>1, <1>2, FS_Subset
<1>. QED
  BY <1>2, <1>3 DEF Rank

\* Of two rows the one with the greater rank has the greater id.
LEMMA RankOrders ==
  ASSUME NEW S \in SUBSET Id, NEW i \in Id, NEW j \in Id, Rank(i, S) < Rank(j, S)
  PROVE  i < j
<1>1. CASE j <= i
  <2>1. Rank(i, S) \in Nat /\ Rank(j, S) \in Nat /\ Rank(j, S) <= Rank(i, S)
    BY <1>1, RankGrows
  <2>. QED
    BY <2>1, SMT
<1>. QED
  BY <1>1, OutboxAssumption, SMT DEF Id

\* split_off halves a batch at a row: what is left is below what is split off.
LEMMA HalvesOrdered ==
  ASSUME NEW S \in SUBSET Id
  PROVE  /\ Left(S) \subseteq S /\ Right(S) \subseteq S
         /\ \A i \in Right(S), j \in Left(S) : i > j
<1>1. Left(S) \subseteq S /\ Right(S) \subseteq S
  BY DEF Left, Right
<1>2. ASSUME NEW i \in Right(S), NEW j \in Left(S)
      PROVE  i > j
  <2>. DEFINE h == Cardinality(S) \div 2
  <2>1. i \in Id /\ j \in Id
    BY <1>1
  <2>2. Rank(i, S) \in Nat /\ Rank(j, S) \in Nat
    BY <2>1, RankGrows, SMT DEF Id
  <2>3. h \in Int
    BY RowsFinite, SMT
  <2>4. Rank(j, S) < h /\ ~(Rank(i, S) < h)
    BY <1>1 DEF Left, Right
  <2>5. Rank(j, S) < Rank(i, S)
    <3>. HIDE DEF h
    <3>. QED
      BY <2>2, <2>3, <2>4, SMT
  <2>6. j < i
    BY <2>1, <2>5, RankOrders
  <2>. QED
    BY <2>1, <2>6 DEF Id
<1>. QED
  BY <1>1, <1>2

\* Division by a positive number.
LEMMA DivisionIsNatural ==
  ASSUME NEW a \in Nat, NEW b \in Nat \ {0}
  PROVE  a \div b \in Nat
  BY Z3

LEMMA DivisionGrows ==
  ASSUME NEW a \in Nat, NEW c \in Nat, NEW b \in Nat \ {0}, a <= c
  PROVE  a \div b <= c \div b
  BY Z3

\* chunk_by_bytes cuts a page into runs of rows; the stack holds the last on
\* the bottom.
LEMMA ChunksOrdered ==
  ASSUME NEW P \in SUBSET Id
  PROVE  /\ Chunks(P) \in Seq(SUBSET Id)
         /\ \A k \in DOMAIN Chunks(P) : Chunks(P)[k] \subseteq P
         /\ \A k, l \in DOMAIN Chunks(P) : k < l =>
              \A i \in Chunks(P)[k], j \in Chunks(P)[l] : i > j
<1>. DEFINE n == (Cardinality(P) + BatchSize - 1) \div BatchSize
            C == [k \in 1 .. n |-> {i \in P : Rank(i, P) \div BatchSize = n - k}]
<1>1. Chunks(P) = C
  BY DEF Chunks
<1>2. n \in Nat
  <2>1. BatchSize \in Nat \ {0} /\ Cardinality(P) \in Nat
    BY RowsFinite, OutboxAssumption
  <2>2. Cardinality(P) + BatchSize - 1 \in Nat
    BY <2>1, SMT
  <2>. QED
    BY <2>1, <2>2, DivisionIsNatural
<1>. HIDE DEF n
<1>3. C \in Seq(SUBSET Id)
  <2>1. \A k \in 1 .. n : C[k] \in SUBSET Id
    OBVIOUS
  <2>2. C \in [1 .. n -> SUBSET Id]
    BY <2>1
  <2>. QED
    BY <1>2, <2>2, SMT
<1>4. \A k \in DOMAIN C : C[k] \subseteq P
  OBVIOUS
<1>5. ASSUME NEW k \in 1 .. n, NEW l \in 1 .. n, k < l, NEW i \in C[k], NEW j \in C[l]
      PROVE  i > j
  <2>1. i \in P /\ j \in P /\ i \in Id /\ j \in Id
    OBVIOUS
  <2>2. Rank(i, P) \in Nat /\ Rank(j, P) \in Nat
    BY <2>1, RankGrows, SMT DEF Id
  <2>3. Rank(i, P) \div BatchSize = n - k /\ Rank(j, P) \div BatchSize = n - l
    OBVIOUS
  <2>4. CASE Rank(i, P) <= Rank(j, P)
    <3>1. Rank(i, P) \div BatchSize <= Rank(j, P) \div BatchSize
      BY <2>2, <2>4, DivisionGrows, OutboxAssumption
    <3>. QED
      BY <1>2, <1>5, <2>3, <3>1, SMT
  <2>5. CASE Rank(j, P) < Rank(i, P)
    BY <2>1, <2>5, RankOrders DEF Id
  <2>. QED
    BY <2>2, <2>4, <2>5, SMT
<1>. HIDE DEF C
<1>6. DOMAIN C = 1 .. n
  BY DEF C
<1>. QED
  BY <1>1, <1>3, <1>4, <1>5, <1>6

LEMMA PageOfLane ==
  ASSUME NEW l
  PROVE  Page(l) \subseteq OfLane(l) /\ OfLane(l) \subseteq Id
  BY OutboxAssumption DEF Page, Unsent, OfLane

\* A batch of one row.
LEMMA OneRow ==
  ASSUME NEW S \in SUBSET Id, Cardinality(S) = 1
  PROVE  \E i \in Id : S = {i}
<1>1. \E i : S = {i}
  BY RowsFinite, FS_Singleton
<1>. QED
  BY <1>1

-----------------------------------------------------------------------------
(* Steps of a worker that neither sends nor hears from the server          *)

\* The worker w goes on by itself: the others stay as they are, w was not
\* waiting for an answer and does not begin to, and what it holds it held.
Quiet(w) ==
  /\ \A u \in Worker \ {w} : wk'[u] = wk[u]
  /\ ~(Current(w) /\ Waiting(w)) /\ ~Waiting(w)'
  /\ wk'[w].pc # "dead" =>
       /\ wk[w].pc # "dead"
       /\ wk'[w].tok = wk[w].tok /\ wk'[w].aborted = wk[w].aborted
  /\ wk'[w].batch \in {wk[w].batch, {}} /\ wk'[w].seq \in {wk[w].seq, 0}
  /\ Won(w)' => Won(w) /\ wk'[w].seq = wk[w].seq
  /\ Replied(w, "ok")' => Replied(w, "ok") /\ wk'[w].batch = wk[w].batch
  /\ wk'[w].reply = "bad" => wk[w].reply = "bad" /\ wk'[w].batch = wk[w].batch
  /\ \A k \in DOMAIN wk'[w].stack : wk'[w].stack[k] \subseteq OfLane(w[1])
  /\ wk'[w].pc = "idle" => wk'[w].stack = <<>>

\* What the server and the pairing are to a quiet step.
Elsewhere == UNCHANGED <<reqs, server, gen, pairing, newest>>

\* A quiet step of a worker keeps what its state has to do with the requests,
\* the server and the other workers.
LEMMA QuietKeeps ==
  ASSUME Inv, TypeOK', NEW w \in Worker, Quiet(w), Elsewhere, token' \in {0, token},
         counter <= counter'
  PROVE  /\ WorkerInv' /\ RequestInv' /\ LinkInv' /\ LaneInv' /\ ReplyInv'
         /\ OldInv' /\ NoFalseGap'
<1>0. counter \in Nat /\ counter' \in Nat
  BY DEF Inv, TypeOK
<1>1. WorkerInv'
  <2>. SUFFICES ASSUME NEW u \in Worker
                PROVE  /\ wk'[u].pc # "dead" => wk'[u].tok \in 1 .. newest
                       /\ \A k \in DOMAIN wk'[u].stack : wk'[u].stack[k] \subseteq OfLane(u[1])
                       /\ wk'[u].batch \subseteq OfLane(u[1])
                       /\ wk'[u].seq <= counter' + 1
                       /\ wk'[u].pc = "idle" => wk'[u].stack = <<>>
    BY DEF WorkerInv, Elsewhere
  <2>0. wk[u].seq \in Nat /\ wk[u].seq <= counter + 1
    BY DEF Inv, TypeOK, WorkerState, WorkerInv
  <2>1. CASE u # w
    BY <1>0, <2>0, <2>1, SMT DEF Quiet, Inv, WorkerInv
  <2>2. CASE u = w
    BY <1>0, <2>0, <2>2, SMT DEF Quiet, Inv, WorkerInv
  <2>. QED
    BY <2>1, <2>2
<1>2. RequestInv'
  <2>1. \A q \in reqs : q.seq \in Nat
    BY DEF Inv, TypeOK, Request
  <2>. QED
    BY <1>0, <2>1, SMT DEF Inv, RequestInv, Elsewhere, server, Handled
<1>3. LinkInv'
  <2>1. ASSUME NEW q \in reqs, q.live
        PROVE  /\ q.w # w /\ q.w \in Worker
               /\ Current(q.w) /\ Waiting(q.w)
               /\ wk[q.w].batch = q.batch /\ wk[q.w].seq = q.seq /\ wk[q.w].tok = q.tok
    BY <2>1 DEF Inv, LinkInv, Quiet, TypeOK, Request
  <2>2. \A q \in reqs : q.live => wk'[q.w] = wk[q.w]
    BY <2>1 DEF Quiet
  <2>. QED
    BY <2>1, <2>2, SMT DEF Inv, LinkInv, Elsewhere, Current, Waiting
<1>4. ASSUME NEW u \in Worker, wk'[u].pc # "dead"
      PROVE  wk[u].pc # "dead" /\ wk'[u].tok = wk[u].tok /\ wk'[u].aborted = wk[u].aborted
  BY <1>4 DEF Quiet
<1>5. LaneInv'
  <2>1. Unheard => Unheard'
    BY <1>4 DEF Unheard, Elsewhere, server
  <2>. QED
    BY <1>4, <2>1 DEF Inv, LaneInv, Elsewhere, server, Current
<1>6. ReplyInv'
  <2>. SUFFICES ASSUME NEW u \in Worker
                PROVE  /\ Replied(u, "ok")' => wk'[u].batch \subseteq Handled
                       /\ wk'[u].reply = "bad" => wk'[u].batch \cap Poison # {}
                       /\ Won(u)' /\ wk'[u].tok = newest => unseen \/ wk'[u].seq <= hi[newest]
    BY DEF ReplyInv, Elsewhere, server, Handled
  <2>1. CASE u # w
    BY <2>1 DEF Quiet, Inv, ReplyInv, Replied, Won
  <2>2. CASE u = w
    <3>1. Won(u)' => wk'[u].pc # "dead"
      BY DEF Won
    <3>. QED
      BY <2>2, <3>1, <1>4 DEF Quiet, Inv, ReplyInv
  <2>. QED
    BY <2>1, <2>2
<1>7. OldInv'
  <2>. SUFFICES ASSUME NEW u \in Worker, wk'[u].tok # newest,
                       Won(u)' \/ (Current(u)' /\ Waiting(u)')
                PROVE  /\ hi[newest] # 0 => wk'[u].seq <= hi[newest]
                       /\ \A q \in reqs : q.tok = newest => wk'[u].seq <= q.seq
    BY DEF OldInv, Elsewhere, server
  <2>1. CASE u # w
    BY <2>1 DEF Quiet, Inv, OldInv, Won, Current, Waiting
  <2>2. CASE u = w
    <3>1. Won(w) /\ wk'[w].seq = wk[w].seq
      BY <2>2 DEF Quiet
    <3>2. wk'[w].pc # "dead"
      BY <2>2 DEF Quiet, Won
    <3>. QED
      BY <2>2, <3>1, <3>2, <1>4 DEF Inv, OldInv
  <2>. QED
    BY <2>1, <2>2
<1>8. NoFalseGap'
  BY DEF Inv, NoFalseGap, Elsewhere, server
<1>. QED
  BY <1>1, <1>2, <1>3, <1>5, <1>6, <1>7, <1>8

\* The stacks stay ordered when the worker keeps its own or gives it up.
LEMMA StackKept ==
  ASSUME Inv, NEW w \in Worker, \A u \in Worker \ {w} : wk'[u] = wk[u],
         \/ wk'[w].stack = <<>>
         \/ wk'[w].stack = wk[w].stack /\ wk'[w].pc # "waiting"
  PROVE  StackInv'
<1>1. ASSUME NEW u \in Worker
      PROVE  \/ wk'[u].stack = <<>>
             \/ wk'[u].stack = wk[u].stack /\ wk'[u].pc # "waiting"
             \/ wk'[u] = wk[u]
  OBVIOUS
<1>2. StackAscending'
  <2>. SUFFICES ASSUME NEW u \in Worker,
                       NEW k \in DOMAIN wk'[u].stack, NEW l \in DOMAIN wk'[u].stack, k < l,
                       NEW i \in wk'[u].stack[k], NEW j \in wk'[u].stack[l]
                PROVE  i > j
    BY DEF StackAscending
  <2>1. wk'[u].stack = wk[u].stack
    BY <1>1, SMT
  <2>. QED
    BY <2>1 DEF Inv, StackInv, StackAscending
<1>3. ASSUME NEW u \in Worker, wk'[u].pc = "waiting", NEW k \in DOMAIN wk'[u].stack,
             NEW i \in wk'[u].stack[k], NEW j \in wk'[u].batch
      PROVE  i > j
  <2>1. wk'[u] = wk[u]
    BY <1>1, <1>3, SMT
  <2>. QED
    BY <1>3, <2>1 DEF Inv, StackInv
<1>. QED
  BY <1>2, <1>3 DEF StackInv

\* The worker's next state is v.
Becomes(w, v) == wk' = [wk EXCEPT ![w] = v]

LEMMA BecomesShape ==
  ASSUME TypeOK, NEW w \in Worker, NEW v \in WorkerState, Becomes(w, v)
  PROVE  /\ wk' \in [Worker -> WorkerState] /\ wk'[w] = v
         /\ \A u \in Worker \ {w} : wk'[u] = wk[u]
  BY DEF Becomes, TypeOK

LEMMA IdleTyped ==
  ASSUME NEW d \in 0 .. MaxDevice
  PROVE  Idle(d) \in WorkerState
<1>1. <<>> \in Seq(SUBSET Id)
  BY SMT
<1>. QED
  BY <1>1 DEF WorkerState, Idle

\* A worker whose drain ends.
LEMMA EndsDrain ==
  ASSUME Inv, NEW w \in Worker, EndDrain(w), wk[w].pc # "dead", wk[w].pc # "idle",
         ~(Current(w) /\ Waiting(w))
  PROVE  wk' \in [Worker -> WorkerState] /\ Quiet(w) /\ StackInv'
<1>. DEFINE v == [Idle(wk[w].tok) EXCEPT !.aborted = wk[w].aborted]
<1>1. wk[w] \in WorkerState
  BY DEF Inv, TypeOK
<1>2. v \in WorkerState
  <2>1. wk[w].tok \in 0 .. MaxDevice /\ wk[w].aborted \in BOOLEAN
    BY <1>1 DEF WorkerState
  <2>. QED
    BY <2>1, IdleTyped, SMT DEF WorkerState
<1>3. /\ v.pc = "idle" /\ v.stack = <<>> /\ v.batch = {} /\ v.seq = 0 /\ v.reply = "none"
      /\ v.tok = wk[w].tok /\ v.aborted = wk[w].aborted
  BY DEF Idle
<1>. HIDE DEF v
<1>4. /\ wk' \in [Worker -> WorkerState] /\ wk'[w] = v
      /\ \A u \in Worker \ {w} : wk'[u] = wk[u]
  BY <1>2, BecomesShape DEF Inv, EndDrain, Becomes, v
<1>5. Quiet(w)
  BY <1>3, <1>4, SMT DEF Quiet, Waiting, Won, Replied
<1>6. StackInv'
  BY <1>3, <1>4, StackKept
<1>. QED
  BY <1>4, <1>5, <1>6

\* A worker that stops.
LEMMA Dies ==
  ASSUME Inv, NEW w \in Worker, wk' = [wk EXCEPT ![w] = Dead], ~(Current(w) /\ Waiting(w))
  PROVE  wk' \in [Worker -> WorkerState] /\ Quiet(w) /\ StackInv'
<1>1. Dead \in WorkerState
  BY OutboxAssumption, IdleTyped, SMT DEF WorkerState, Dead
<1>2. /\ Dead.pc = "dead" /\ Dead.stack = <<>> /\ Dead.batch = {} /\ Dead.seq = 0
      /\ Dead.reply = "none" /\ Dead.tok = 0 /\ ~Dead.aborted
  BY DEF Dead, Idle
<1>3. /\ wk' \in [Worker -> WorkerState] /\ wk'[w] = Dead
      /\ \A u \in Worker \ {w} : wk'[u] = wk[u]
  BY <1>1, BecomesShape DEF Inv, Becomes
<1>4. Quiet(w)
  BY <1>2, <1>3, SMT DEF Quiet, Waiting, Won, Replied
<1>5. StackInv'
  BY <1>2, <1>3, StackKept
<1>. QED
  BY <1>3, <1>4, <1>5

\* A worker that only moves on in its program, having got its answer.
LEMMA MovesOn ==
  ASSUME Inv, NEW w \in Worker, NEW p \in {"stack", "commit", "cleared"}, GoTo(w, p),
         wk[w].pc \notin {"dead", "idle"}, ~Waiting(w), p = "commit" => Won(w)
  PROVE  wk' \in [Worker -> WorkerState] /\ Quiet(w) /\ StackInv'
<1>. DEFINE v == [wk[w] EXCEPT !.pc = p]
<1>1. wk[w] \in WorkerState
  BY DEF Inv, TypeOK
<1>2. v \in WorkerState
  BY <1>1 DEF WorkerState
<1>3. Becomes(w, v)
  BY DEF GoTo, Becomes
<1>4. /\ wk' \in [Worker -> WorkerState] /\ wk'[w] = v
      /\ \A u \in Worker \ {w} : wk'[u] = wk[u]
  BY <1>2, <1>3, BecomesShape DEF Inv
<1>5. Quiet(w)
  <2>1. /\ v.pc = p /\ v.stack = wk[w].stack /\ v.batch = wk[w].batch /\ v.seq = wk[w].seq
        /\ v.reply = wk[w].reply /\ v.tok = wk[w].tok /\ v.aborted = wk[w].aborted
    BY <1>1 DEF WorkerState
  <2>. HIDE DEF v
  <2>2. \A k \in DOMAIN wk[w].stack : wk[w].stack[k] \subseteq OfLane(w[1])
    BY DEF Inv, WorkerInv
  <2>. QED
    BY <1>4, <2>1, <2>2 DEF Quiet, Waiting, Won, Replied
<1>6. StackInv'
  BY <1>1, <1>4, StackKept DEF WorkerState
<1>. QED
  BY <1>4, <1>5, <1>6

LEMMA QuietDone ==
  ASSUME Inv, TypeOK', NEW w \in Worker, Quiet(w), Elsewhere, token' \in {0, token},
         counter' = counter, StackInv', RowInv'
  PROVE  Inv'
<1>1. counter <= counter'
  BY SMT DEF Inv, TypeOK
<1>2. /\ WorkerInv' /\ RequestInv' /\ LinkInv' /\ LaneInv' /\ ReplyInv'
      /\ OldInv' /\ NoFalseGap'
  BY <1>1, QuietKeeps
<1>3. CounterInv'
  BY DEF Inv, CounterInv, Elsewhere, server
<1>. QED
  BY <1>2, <1>3 DEF Inv

\* Steps that leave the rows and the server's tables alone.
LEMMA RowsKept ==
  ASSUME Inv, UNCHANGED <<row, stored, rejected, dropped>>
  PROVE  RowInv'
  BY DEF Inv, RowInv, AckedIsHandled, QuarantineIsolates

LEMMA MarkTyped ==
  ASSUME TypeOK, NEW S, NEW s \in {"sent", "quarantined"}
  PROVE  Mark(S, s) \in [Id -> {"absent", "unsent", "sent", "quarantined"}]
  BY DEF TypeOK, Mark

\* A drain ends, and nothing else happens but to auth_lost and the fault count.
LEMMA BailStep ==
  ASSUME Inv, NEW w \in Worker, EndDrain(w), wk[w].pc # "dead", wk[w].pc # "idle",
         ~(Current(w) /\ Waiting(w)), authLost' \in BOOLEAN, events' \in Nat,
         UNCHANGED <<outbox, token, pairing, check, gen, reqs, server, account>>
  PROVE  Inv'
<1>1. wk' \in [Worker -> WorkerState] /\ Quiet(w) /\ StackInv'
  BY EndsDrain
<1>2. TypeOK'
  BY <1>1 DEF Inv, TypeOK, outbox, server, account
<1>3. RowInv' /\ Elsewhere /\ counter' = counter
  BY RowsKept DEF outbox, server, account, Elsewhere
<1>. QED
  BY <1>1, <1>2, <1>3, QuietDone DEF outbox

\* The steps of a drain that end it.
LEMMA DrainEnds ==
  ASSUME Inv, NEW w \in Worker,
         FinishDrain(w) \/ HandleBail(w) \/ SetAuthLost(w)
  PROVE  Inv'
<1>0. authLost \in BOOLEAN /\ events \in Nat
  BY DEF Inv, TypeOK
<1>1. CASE FinishDrain(w)
  BY <1>0, <1>1, BailStep DEF FinishDrain, WorkerOnly, tray, Waiting
<1>2. CASE HandleBail(w)
  BY <1>0, <1>2, BailStep DEF HandleBail, WorkerOnly, tray, Waiting, Replied
<1>3. CASE SetAuthLost(w)
  BY <1>0, <1>3, BailStep DEF SetAuthLost, Waiting
<1>. QED
  BY <1>1, <1>2, <1>3

\* LaneExits and WorkerEnds.
LEMMA WorkerStops ==
  ASSUME Inv, NEW w \in Worker, LaneExits(w) \/ WorkerEnds(w)
  PROVE  Inv'
<1>1. wk' = [wk EXCEPT ![w] = Dead] /\ WorkerOnly
  BY DEF LaneExits, WorkerEnds
<1>2. ~(Current(w) /\ Waiting(w))
  BY DEF LaneExits, WorkerEnds, Idling, Current, Waiting
<1>3. wk' \in [Worker -> WorkerState] /\ Quiet(w) /\ StackInv'
  BY <1>1, <1>2, Dies
<1>4. TypeOK' /\ RowInv' /\ Elsewhere /\ counter' = counter /\ token' = token
  <2>1. TypeOK'
    BY <1>1, <1>3 DEF Inv, TypeOK, WorkerOnly, outbox, tray, server, account
  <2>2. RowInv' /\ Elsewhere /\ counter' = counter /\ token' = token
    BY <1>1, RowsKept DEF WorkerOnly, outbox, tray, server, account, Elsewhere
  <2>. QED
    BY <2>1, <2>2
<1>. QED
  BY <1>3, <1>4, QuietDone

\* ClearToken.
LEMMA TokenCleared ==
  ASSUME Inv, NEW w \in Worker, ClearToken(w)
  PROVE  Inv'
<1>1. wk' \in [Worker -> WorkerState] /\ Quiet(w) /\ StackInv'
  BY MovesOn DEF ClearToken, Replied, Waiting
<1>2. TypeOK'
  BY <1>1, OutboxAssumption, SMT DEF Inv, TypeOK, ClearToken, outbox, server, account
<1>3. RowInv' /\ Elsewhere /\ counter' = counter /\ token' = 0
  BY RowsKept DEF ClearToken, outbox, server, account, Elsewhere
<1>. QED
  BY <1>1, <1>2, <1>3, QuietDone

\* mark_sent after a 2xx.
LEMMA OkHandled ==
  ASSUME Inv, NEW w \in Worker, HandleOk(w)
  PROVE  Inv'
<1>1. wk' \in [Worker -> WorkerState] /\ Quiet(w) /\ StackInv'
  BY MovesOn DEF HandleOk, Replied, Waiting, Won
<1>2. TypeOK'
  <2>1. row' \in [Id -> {"absent", "unsent", "sent", "quarantined"}]
    BY MarkTyped DEF Inv, HandleOk
  <2>. QED
    BY <1>1, <2>1 DEF Inv, TypeOK, HandleOk, tray, server, account
<1>3. RowInv'
  <2>1. wk[w].batch \subseteq Handled
    BY DEF Inv, ReplyInv, HandleOk
  <2>. QED
    BY <2>1 DEF Inv, RowInv, AckedIsHandled, QuarantineIsolates, HandleOk, Mark, server, Handled
<1>4. Elsewhere /\ counter' = counter /\ token' = token
  BY DEF HandleOk, tray, server, account, Elsewhere
<1>. QED
  BY <1>1, <1>2, <1>3, <1>4, QuietDone

\* A page is read and cut into chunks.
LEMMA DrainStarts ==
  ASSUME Inv, NEW w \in Worker, StartDrain(w)
  PROVE  Inv'
<1>. DEFINE P == Page(w[1])
            v == [wk[w] EXCEPT !.pc = "stack", !.stack = Chunks(P)]
<1>1. wk[w] \in WorkerState
  BY DEF Inv, TypeOK
<1>2. P \in SUBSET Id /\ P \subseteq OfLane(w[1])
  BY PageOfLane
<1>3. /\ Chunks(P) \in Seq(SUBSET Id)
      /\ \A k \in DOMAIN Chunks(P) : Chunks(P)[k] \subseteq P
      /\ \A k, l \in DOMAIN Chunks(P) : k < l =>
           \A i \in Chunks(P)[k], j \in Chunks(P)[l] : i > j
  BY <1>2, ChunksOrdered
<1>. HIDE DEF P
<1>4. v \in WorkerState
  BY <1>1, <1>3 DEF WorkerState
<1>5. /\ v.pc = "stack" /\ v.stack = Chunks(P) /\ v.batch = wk[w].batch /\ v.seq = wk[w].seq
      /\ v.reply = wk[w].reply /\ v.tok = wk[w].tok /\ v.aborted = wk[w].aborted
  BY <1>1 DEF WorkerState
<1>6. Becomes(w, v)
  BY DEF StartDrain, Becomes, P
<1>. HIDE DEF v
<1>7. /\ wk' \in [Worker -> WorkerState] /\ wk'[w] = v
      /\ \A u \in Worker \ {w} : wk'[u] = wk[u]
  BY <1>4, <1>6, BecomesShape DEF Inv
<1>8. Quiet(w)
  BY <1>2, <1>3, <1>5, <1>7 DEF Quiet, StartDrain, Idling, Waiting, Won, Replied
<1>9. StackInv'
  <2>1. StackAscending'
    <3>. SUFFICES ASSUME NEW u \in Worker
                  PROVE  \A k, l \in DOMAIN wk'[u].stack : k < l =>
                           \A i \in wk'[u].stack[k], j \in wk'[u].stack[l] : i > j
      BY DEF StackAscending
    <3>1. CASE u = w
      BY <1>3, <1>5, <1>7, <3>1
    <3>2. CASE u # w
      BY <1>7, <3>2 DEF Inv, StackInv, StackAscending
    <3>. QED
      BY <3>1, <3>2
  <2>2. ASSUME NEW u \in Worker, wk'[u].pc = "waiting"
        PROVE  wk'[u] = wk[u]
    BY <1>5, <1>7, <2>2
  <2>. QED
    BY <2>1, <2>2 DEF Inv, StackInv
<1>10. TypeOK'
  BY <1>7 DEF Inv, TypeOK, StartDrain, WorkerOnly, outbox, tray, server, account
<1>11. RowInv' /\ Elsewhere /\ counter' = counter /\ token' = token
  BY RowsKept DEF StartDrain, WorkerOnly, outbox, tray, server, account, Elsewhere
<1>. QED
  BY <1>8, <1>9, <1>10, <1>11, QuietDone

\* The heartbeat of the bulk lane is refused.
LEMMA HeartbeatRefused ==
  ASSUME Inv, NEW w \in Worker, Heartbeat(w)
  PROVE  Inv'
<1>. DEFINE v == [wk[w] EXCEPT !.pc = "waiting", !.reply = "auth"]
<1>1. wk[w] \in WorkerState /\ wk[w].stack = <<>>
  BY DEF Inv, TypeOK, WorkerInv, Heartbeat, Idling
<1>2. v \in WorkerState
  BY <1>1 DEF WorkerState
<1>3. /\ v.pc = "waiting" /\ v.stack = <<>> /\ v.batch = wk[w].batch /\ v.seq = wk[w].seq
      /\ v.reply = "auth" /\ v.tok = wk[w].tok /\ v.aborted = wk[w].aborted
  BY <1>1 DEF WorkerState
<1>4. Becomes(w, v)
  BY DEF Heartbeat, Becomes
<1>. HIDE DEF v
<1>5. /\ wk' \in [Worker -> WorkerState] /\ wk'[w] = v
      /\ \A u \in Worker \ {w} : wk'[u] = wk[u]
  BY <1>2, <1>4, BecomesShape DEF Inv
<1>6. Quiet(w)
  <2>1. \A k \in DOMAIN wk'[w].stack : wk'[w].stack[k] \subseteq OfLane(w[1])
    BY <1>3, <1>5, SMT
  <2>2. wk[w].pc = "idle"
    BY DEF Heartbeat, Idling
  <2>. QED
    BY <1>3, <1>5, <2>1, <2>2 DEF Quiet, Waiting, Won, Replied
<1>7. StackInv'
  BY <1>3, <1>5, StackKept
<1>8. TypeOK'
  BY <1>5 DEF Inv, TypeOK, Heartbeat, WorkerOnly, outbox, tray, server, account
<1>9. RowInv' /\ Elsewhere /\ counter' = counter /\ token' = token
  BY RowsKept DEF Heartbeat, WorkerOnly, outbox, tray, server, account, Elsewhere
<1>. QED
  BY <1>6, <1>7, <1>8, <1>9, QuietDone

\* Both halves of a refused batch are put back in order.
LEMMA BatchBisected ==
  ASSUME Inv, NEW w \in Worker, Bisect(w)
  PROVE  Inv'
<1>. DEFINE b == wk[w].batch
            s == wk[w].stack
            t == Append(Append(s, Right(b)), Left(b))
            v == [wk[w] EXCEPT !.pc = "stack", !.stack = t]
<1>1. wk[w] \in WorkerState /\ wk[w].pc = "waiting" /\ wk[w].reply = "bad"
  BY DEF Inv, TypeOK, Bisect, Replied
<1>2. s \in Seq(SUBSET Id) /\ b \in SUBSET Id /\ Len(s) \in Nat
  BY <1>1, SMT DEF WorkerState
<1>3. /\ Left(b) \subseteq b /\ Right(b) \subseteq b
      /\ \A i \in Right(b), j \in Left(b) : i > j
  BY <1>2, HalvesOrdered
<1>. HIDE DEF s, b
<1>4. /\ t \in Seq(SUBSET Id) /\ Len(t) = Len(s) + 2
      /\ \A k \in 1 .. Len(s) : t[k] = s[k]
      /\ t[Len(s) + 1] = Right(b) /\ t[Len(s) + 2] = Left(b)
  <2>. DEFINE r == Append(s, Right(b))
  <2>1. Right(b) \in SUBSET Id /\ Left(b) \in SUBSET Id
    BY <1>2, <1>3
  <2>2. /\ r \in Seq(SUBSET Id) /\ Len(r) = Len(s) + 1
        /\ \A k \in 1 .. Len(s) : r[k] = s[k]
        /\ r[Len(s) + 1] = Right(b)
    BY <1>2, <2>1, SMT
  <2>. HIDE DEF r
  <2>3. /\ Append(r, Left(b)) \in Seq(SUBSET Id) /\ Len(Append(r, Left(b))) = Len(r) + 1
        /\ \A k \in 1 .. Len(r) : Append(r, Left(b))[k] = r[k]
        /\ Append(r, Left(b))[Len(r) + 1] = Left(b)
    BY <2>1, <2>2, SMT
  <2>4. t = Append(r, Left(b))
    BY DEF r
  <2>. HIDE DEF t
  <2>. QED
    BY <1>2, <2>2, <2>3, <2>4, SMT
<1>. HIDE DEF t
<1>5. DOMAIN t = 1 .. (Len(s) + 2) /\ DOMAIN s = 1 .. Len(s)
  BY <1>2, <1>4, SMT
<1>6. v \in WorkerState
  BY <1>1, <1>4 DEF WorkerState
<1>7. /\ v.pc = "stack" /\ v.stack = t /\ v.batch = b /\ v.seq = wk[w].seq
      /\ v.reply = wk[w].reply /\ v.tok = wk[w].tok /\ v.aborted = wk[w].aborted
  BY <1>1 DEF WorkerState, b
<1>8. Becomes(w, v) /\ WorkerOnly
  BY DEF Bisect, Becomes, t, s, b
<1>. HIDE DEF v
<1>9. /\ wk' \in [Worker -> WorkerState] /\ wk'[w] = v
      /\ \A u \in Worker \ {w} : wk'[u] = wk[u]
  BY <1>6, <1>8, BecomesShape DEF Inv
<1>10. \A k \in DOMAIN t : t[k] \subseteq OfLane(w[1])
  <2>1. b \subseteq OfLane(w[1]) /\ \A k \in DOMAIN s : s[k] \subseteq OfLane(w[1])
    BY DEF Inv, WorkerInv, s, b
  <2>2. ASSUME NEW k \in DOMAIN t
        PROVE  k \in 1 .. Len(s) \/ k = Len(s) + 1 \/ k = Len(s) + 2
    BY <1>2, <1>5, SMT
  <2>. QED
    BY <1>3, <1>4, <1>5, <2>1, <2>2
<1>11. Quiet(w)
  BY <1>1, <1>7, <1>9, <1>10 DEF Quiet, Waiting, Won, Replied, b
<1>12. \A k, l \in DOMAIN t : k < l => \A i \in t[k], j \in t[l] : i > j
  <2>1. \A k, l \in DOMAIN s : k < l => \A i \in s[k], j \in s[l] : i > j
    BY DEF Inv, StackInv, StackAscending, s
  <2>2. \A k \in DOMAIN s : \A i \in s[k], j \in b : i > j
    BY <1>1 DEF Inv, StackInv, s, b
  <2>. SUFFICES ASSUME NEW k \in DOMAIN t, NEW l \in DOMAIN t, k < l,
                       NEW i \in t[k], NEW j \in t[l]
                PROVE  i > j
    OBVIOUS
  <2>3. CASE l \in 1 .. Len(s)
    <3>1. k \in 1 .. Len(s)
      BY <1>2, <1>5, <2>3, SMT
    <3>. QED
      BY <1>4, <1>5, <2>1, <2>3, <3>1
  <2>4. CASE k \in 1 .. Len(s) /\ l \notin 1 .. Len(s)
    <3>1. t[l] \subseteq b
      <4>1. l = Len(s) + 1 \/ l = Len(s) + 2
        BY <1>2, <1>5, <2>4, SMT
      <4>. QED
        BY <1>3, <1>4, <4>1
    <3>. QED
      BY <1>4, <1>5, <2>2, <2>4, <3>1
  <2>5. CASE k \notin 1 .. Len(s)
    <3>1. k = Len(s) + 1 /\ l = Len(s) + 2
      BY <1>2, <1>5, <2>5, SMT
    <3>. QED
      BY <1>3, <1>4, <3>1
  <2>6. k \in Nat /\ l \in Nat
    BY <1>2, <1>5, SMT
  <2>. QED
    BY <1>2, <1>5, <2>3, <2>4, <2>5, <2>6
<1>13. StackInv'
  <2>1. StackAscending'
    <3>. SUFFICES ASSUME NEW u \in Worker
                  PROVE  \A k, l \in DOMAIN wk'[u].stack : k < l =>
                           \A i \in wk'[u].stack[k], j \in wk'[u].stack[l] : i > j
      BY DEF StackAscending
    <3>1. CASE u = w
      BY <1>7, <1>9, <1>12, <3>1
    <3>2. CASE u # w
      BY <1>9, <3>2 DEF Inv, StackInv, StackAscending
    <3>. QED
      BY <3>1, <3>2
  <2>2. ASSUME NEW u \in Worker, wk'[u].pc = "waiting"
        PROVE  wk'[u] = wk[u]
    BY <1>7, <1>9, <2>2
  <2>. QED
    BY <2>1, <2>2 DEF Inv, StackInv
<1>14. TypeOK'
  BY <1>8, <1>9 DEF Inv, TypeOK, WorkerOnly, outbox, tray, server, account
<1>15. RowInv' /\ Elsewhere /\ counter' = counter /\ token' = token
  BY <1>8, RowsKept DEF WorkerOnly, outbox, tray, server, account, Elsewhere
<1>. QED
  BY <1>11, <1>13, <1>14, <1>15, QuietDone

\* mark_quarantined, or the cap is reached.
LEMMA RowQuarantined ==
  ASSUME Inv, NEW w \in Worker, Quarantine(w)
  PROVE  Inv'
<1>. DEFINE v == [wk[w] EXCEPT !.pc = "stack", !.quar = wk[w].quar + 1]
<1>0. authLost \in BOOLEAN /\ events \in Nat
  BY DEF Inv, TypeOK
<1>1. wk[w] \in WorkerState /\ wk[w].pc = "waiting" /\ wk[w].reply = "bad"
  BY DEF Inv, TypeOK, Quarantine, Replied
<1>2. CASE wk[w].quar >= MaxQuarantines
  BY <1>0, <1>1, <1>2, BailStep DEF Quarantine, tray, outbox, Waiting
<1>3. CASE ~(wk[w].quar >= MaxQuarantines)
  <2>1. Becomes(w, v) /\ row' = Mark(wk[w].batch, "quarantined")
    BY <1>3 DEF Quarantine, Becomes
  <2>2. v \in WorkerState
    <3>1. wk[w].quar + 1 \in Nat
      BY <1>1, SMT DEF WorkerState
    <3>. QED
      BY <1>1, <3>1 DEF WorkerState
  <2>3. /\ v.pc = "stack" /\ v.stack = wk[w].stack /\ v.batch = wk[w].batch
        /\ v.seq = wk[w].seq /\ v.reply = wk[w].reply /\ v.tok = wk[w].tok
        /\ v.aborted = wk[w].aborted
    BY <1>1 DEF WorkerState
  <2>. HIDE DEF v
  <2>4. /\ wk' \in [Worker -> WorkerState] /\ wk'[w] = v
        /\ \A u \in Worker \ {w} : wk'[u] = wk[u]
    BY <2>1, <2>2, BecomesShape DEF Inv
  <2>5. Quiet(w)
    <3>1. \A k \in DOMAIN wk[w].stack : wk[w].stack[k] \subseteq OfLane(w[1])
      BY DEF Inv, WorkerInv
    <3>. QED
      BY <1>1, <2>3, <2>4, <3>1 DEF Quiet, Waiting, Won, Replied
  <2>6. StackInv'
    BY <2>3, <2>4, StackKept
  <2>7. TypeOK'
    <3>1. row' \in [Id -> {"absent", "unsent", "sent", "quarantined"}]
      BY <2>1, MarkTyped DEF Inv
    <3>. QED
      BY <2>4, <3>1 DEF Inv, TypeOK, Quarantine, tray, server, account
  <2>8. RowInv'
    <3>1. wk[w].batch \in SUBSET Id
      BY <1>1 DEF WorkerState
    <3>2. PICK i \in Id : wk[w].batch = {i}
      BY <3>1, OneRow DEF Quarantine
    <3>3. wk[w].batch \cap Poison # {}
      BY <1>1 DEF Inv, ReplyInv
    <3>4. wk[w].batch \subseteq Poison
      BY <3>2, <3>3
    <3>. QED
      BY <2>1, <3>4 DEF Inv, RowInv, AckedIsHandled, QuarantineIsolates, Quarantine, Mark, server
  <2>9. Elsewhere /\ counter' = counter /\ token' = token
    BY DEF Quarantine, tray, server, account, Elsewhere
  <2>. QED
    BY <2>5, <2>6, <2>7, <2>8, <2>9, QuietDone
<1>. QED
  BY <1>2, <1>3

\* A worker meets a SQLite error.
LEMMA StorageFailed ==
  ASSUME Inv, NEW w \in Worker, StorageFails(w)
  PROVE  Inv'
<1>1. authLost' \in BOOLEAN /\ events' \in Nat
  BY SMT DEF Inv, TypeOK, StorageFails, Happens, tray
<1>2. CASE EndDrain(w) /\ (Replied(w, "ok") \/ Replied(w, "bad"))
  BY <1>1, <1>2, BailStep DEF StorageFails, tray, Replied, Waiting
<1>3. CASE wk[w].pc = "commit" /\ GoTo(w, "stack")
  <2>1. wk' \in [Worker -> WorkerState] /\ Quiet(w) /\ StackInv'
    BY <1>3, MovesOn DEF Waiting
  <2>2. TypeOK'
    BY <1>1, <2>1 DEF Inv, TypeOK, StorageFails, outbox, tray, server, account
  <2>3. RowInv' /\ Elsewhere /\ counter' = counter /\ token' = token
    BY RowsKept DEF StorageFails, outbox, tray, server, account, Elsewhere
  <2>. QED
    BY <2>1, <2>2, <2>3, QuietDone
<1>. QED
  BY <1>2, <1>3 DEF StorageFails

\* The counter takes an ordinal that was answered with a 2xx: the server has
\* seen it, or it comes from before the newest device.
LEMMA SequenceCommitted ==
  ASSUME Inv, NEW w \in Worker, CommitSequence(w)
  PROVE  Inv'
<1>1. wk' \in [Worker -> WorkerState] /\ Quiet(w) /\ StackInv'
  BY MovesOn DEF CommitSequence, Waiting
<1>2. counter \in Nat /\ wk[w].seq \in Nat /\ Won(w)
  BY DEF Inv, TypeOK, WorkerState, CommitSequence, Won
<1>3. counter' \in Nat /\ counter <= counter' /\ counter' \in {counter, wk[w].seq}
  BY <1>2, SMT DEF CommitSequence, Max2
<1>4. TypeOK'
  BY <1>1, <1>3 DEF Inv, TypeOK, CommitSequence, tray, server, account
<1>5. RowInv' /\ Elsewhere /\ token' = token
  BY RowsKept DEF CommitSequence, outbox, tray, server, account, Elsewhere
<1>6. /\ WorkerInv' /\ RequestInv' /\ LinkInv' /\ LaneInv' /\ ReplyInv'
      /\ OldInv' /\ NoFalseGap'
  BY <1>1, <1>3, <1>4, <1>5, QuietKeeps
<1>7. CounterInv'
  <2>. SUFFICES ASSUME ~unseen
                PROVE  /\ hi[newest] # 0 => counter' <= hi[newest]
                       /\ \A q \in reqs : q.tok = newest => counter' <= Max2(hi[newest], q.seq)
    BY <1>5 DEF CounterInv, Elsewhere, server
  <2>1. hi[newest] \in Nat /\ \A q \in reqs : q.seq \in Nat
    BY DEF Inv, TypeOK, Request
  <2>2. /\ hi[newest] # 0 => counter <= hi[newest]
        /\ \A q \in reqs : q.tok = newest => counter <= Max2(hi[newest], q.seq)
    BY DEF Inv, CounterInv
  <2>3. /\ hi[newest] # 0 => wk[w].seq <= hi[newest]
        /\ \A q \in reqs : q.tok = newest => wk[w].seq <= Max2(hi[newest], q.seq)
    <3>1. CASE wk[w].tok = newest
      <4>1. wk[w].seq <= hi[newest]
        BY <1>2, <3>1 DEF Inv, ReplyInv
      <4>. QED
        BY <1>2, <2>1, <4>1, SMT DEF Max2
    <3>2. CASE wk[w].tok # newest
      <4>1. /\ hi[newest] # 0 => wk[w].seq <= hi[newest]
            /\ \A q \in reqs : q.tok = newest => wk[w].seq <= q.seq
        BY <1>2, <3>2 DEF Inv, OldInv
      <4>. QED
        BY <1>2, <2>1, <4>1, SMT DEF Max2
    <3>. QED
      BY <3>1, <3>2
  <2>. QED
    BY <1>3, <2>2, <2>3
<1>. QED
  BY <1>1, <1>4, <1>5, <1>6, <1>7 DEF Inv

-----------------------------------------------------------------------------
(* Sending and giving up                                                   *)

\* A batch is sent with the ordinal after the counter.
LEMMA BatchSent ==
  ASSUME Inv, NEW w \in Worker, Send(w)
  PROVE  Inv'
<1>. DEFINE s == wk[w].stack
            b == s[Len(s)]
            t == SubSeq(s, 1, Len(s) - 1)
            v == [wk[w] EXCEPT !.pc = "waiting", !.reply = "none", !.batch = b,
                               !.seq = counter + 1, !.stack = t]
            m == [w |-> w, tok |-> wk[w].tok, batch |-> b, seq |-> counter + 1,
                  at |-> "gate", live |-> ~wk[w].aborted]
<1>1. /\ wk[w] \in WorkerState /\ wk[w].pc = "stack" /\ s # <<>> /\ counter \in Nat
      /\ UNCHANGED <<outbox, tray, server, account, events>>
  BY DEF Inv, TypeOK, Send
<1>2. s \in Seq(SUBSET Id) /\ Len(s) \in Nat \ {0} /\ DOMAIN s = 1 .. Len(s)
  BY <1>1, SMT DEF WorkerState
<1>3. /\ b \in SUBSET Id /\ t \in Seq(SUBSET Id) /\ DOMAIN t = 1 .. (Len(s) - 1)
      /\ \A k \in DOMAIN t : k \in DOMAIN s /\ k < Len(s) /\ t[k] = s[k]
  <2>. HIDE DEF s
  <2>. QED
    BY <1>2, SMT
<1>4. Becomes(w, v) /\ reqs' = reqs \cup {m}
  BY DEF Send, Becomes
<1>5. b \subseteq OfLane(w[1]) /\ \A k \in DOMAIN t : t[k] \subseteq OfLane(w[1])
  BY <1>2, <1>3, SMT DEF Inv, WorkerInv
<1>6. (\A k \in DOMAIN t : \A i \in t[k], j \in b : i > j)
      /\ \A k, l \in DOMAIN t : k < l => \A i \in t[k], j \in t[l] : i > j
  <2>1. \A k, l \in DOMAIN s : k < l => \A i \in s[k], j \in s[l] : i > j
    BY DEF Inv, StackInv, StackAscending
  <2>. HIDE DEF s, t
  <2>. QED
    BY <1>2, <1>3, <2>1, SMT
<1>. HIDE DEF s, b, t
<1>7. v \in WorkerState
  <2>1. counter + 1 \in Nat
    BY <1>1, SMT
  <2>. QED
    BY <1>1, <1>3, <2>1 DEF WorkerState
<1>8. /\ v.pc = "waiting" /\ v.stack = t /\ v.batch = b /\ v.seq = counter + 1
      /\ v.reply = "none" /\ v.tok = wk[w].tok /\ v.aborted = wk[w].aborted
  BY <1>1 DEF WorkerState
<1>9. wk[w].tok \in 1 .. newest /\ wk[w].tok \in Device /\ wk[w].aborted \in BOOLEAN
  <2>1. wk[w].tok \in 1 .. newest /\ newest \in Device
    BY <1>1 DEF Inv, WorkerInv, TypeOK
  <2>2. wk[w].tok \in Device
    BY <2>1, OutboxAssumption, SMT DEF Device
  <2>3. wk[w].aborted \in BOOLEAN
    BY <1>1 DEF WorkerState
  <2>. QED
    BY <2>1, <2>2, <2>3
<1>10. /\ m \in Request /\ m.w = w /\ m.tok = wk[w].tok /\ m.batch = b
       /\ m.seq = counter + 1 /\ m.at = "gate" /\ m.live = ~wk[w].aborted
  <2>1. counter + 1 \in Nat
    BY <1>1, SMT
  <2>2. m \in Request
    BY <1>3, <1>9, <2>1 DEF Request
  <2>. QED
    BY <2>2
<1>. HIDE DEF v, m
<1>11. /\ wk' \in [Worker -> WorkerState] /\ wk'[w] = v
       /\ \A u \in Worker \ {w} : wk'[u] = wk[u]
  BY <1>4, <1>7, BecomesShape DEF Inv
<1>12. TypeOK'
  BY <1>1, <1>4, <1>10, <1>11 DEF Inv, TypeOK, outbox, tray, server, account
<1>13. ASSUME NEW q \in reqs, q.live
       PROVE  q.w # w
  BY <1>1, <1>13 DEF Inv, LinkInv, Waiting
<1>14. WorkerInv'
  <2>. SUFFICES ASSUME NEW u \in Worker
                PROVE  /\ wk'[u].pc # "dead" => wk'[u].tok \in 1 .. newest
                       /\ \A k \in DOMAIN wk'[u].stack : wk'[u].stack[k] \subseteq OfLane(u[1])
                       /\ wk'[u].batch \subseteq OfLane(u[1])
                       /\ wk'[u].seq <= counter + 1
                       /\ wk'[u].pc = "idle" => wk'[u].stack = <<>>
    BY <1>1 DEF WorkerInv, outbox, account
  <2>1. CASE u # w
    BY <1>11, <2>1 DEF Inv, WorkerInv
  <2>2. CASE u = w
    BY <1>1, <1>5, <1>8, <1>9, <1>11, <2>2, SMT
  <2>. QED
    BY <2>1, <2>2
<1>15. RequestInv'
  BY <1>1, <1>4, <1>5, <1>9, <1>10, SMT DEF Inv, RequestInv, outbox, account, server, Handled
<1>16. LinkInv'
  <2>1. ASSUME NEW q \in reqs', q.live
        PROVE  /\ Current(q.w)' /\ Waiting(q.w)'
               /\ wk'[q.w].batch = q.batch /\ wk'[q.w].seq = q.seq /\ wk'[q.w].tok = q.tok
    <3>1. CASE q \in reqs
      <4>1. q.w \in Worker /\ q.w # w
        BY <1>13, <2>1, <3>1 DEF Inv, TypeOK, Request
      <4>. QED
        BY <1>11, <2>1, <3>1, <4>1 DEF Inv, LinkInv, Current, Waiting
    <3>2. CASE q = m
      BY <1>8, <1>9, <1>10, <1>11, <2>1, <3>2 DEF Current, Waiting
    <3>. QED
      BY <1>4, <3>1, <3>2
  <2>2. ASSUME NEW q \in reqs', NEW r \in reqs', q.live, r.live, q.w = r.w
        PROVE  q = r
    <3>1. CASE q \in reqs /\ r \in reqs
      BY <2>2, <3>1 DEF Inv, LinkInv
    <3>. QED
      BY <1>4, <1>10, <1>13, <2>2, <3>1
  <2>. QED
    BY <2>1, <2>2 DEF LinkInv
<1>17. ASSUME NEW u \in Worker
       PROVE  wk'[u].tok = wk[u].tok /\ wk'[u].aborted = wk[u].aborted
              /\ (wk'[u].pc = "dead" <=> wk[u].pc = "dead")
  BY <1>1, <1>8, <1>11
<1>18. Unheard => Unheard' /\ wk[w].tok # newest
  BY <1>1, <1>4, <1>10, <1>17, SMT DEF Unheard, server, account
<1>19. LaneInv'
  BY <1>1, <1>17, <1>18 DEF Inv, LaneInv, Current, tray, server, account
<1>20. ReplyInv'
  <2>. SUFFICES ASSUME NEW u \in Worker
                PROVE  /\ Replied(u, "ok")' => wk'[u].batch \subseteq Handled
                       /\ wk'[u].reply = "bad" => wk'[u].batch \cap Poison # {}
                       /\ Won(u)' /\ wk'[u].tok = newest => unseen \/ wk'[u].seq <= hi[newest]
    BY <1>1 DEF ReplyInv, server, account, Handled
  <2>1. CASE u # w
    BY <1>11, <2>1 DEF Inv, ReplyInv, Replied, Won
  <2>2. CASE u = w
    BY <1>8, <1>11, <2>2 DEF Replied, Won
  <2>. QED
    BY <2>1, <2>2
<1>21. OldInv'
  <2>. SUFFICES ASSUME NEW u \in Worker, wk'[u].tok # newest,
                       Won(u)' \/ (Current(u)' /\ Waiting(u)')
                PROVE  /\ hi[newest] # 0 => wk'[u].seq <= hi[newest]
                       /\ \A q \in reqs' : q.tok = newest => wk'[u].seq <= q.seq
    BY <1>1 DEF OldInv, server, account
  <2>1. CASE u # w
    <3>1. /\ hi[newest] # 0 => wk[u].seq <= hi[newest]
          /\ \A q \in reqs : q.tok = newest => wk[u].seq <= q.seq
      BY <1>11, <2>1 DEF Inv, OldInv, Won, Current, Waiting
    <3>2. wk[u].seq <= m.seq
      BY <1>10 DEF Inv, WorkerInv
    <3>. QED
      BY <1>4, <1>11, <2>1, <3>1, <3>2
  <2>2. CASE u = w
    <3>1. Current(w)
      BY <1>1, <1>8, <1>11, <2>2 DEF Won, Current
    <3>2. Unheard'
      BY <1>17, <1>18, <2>2, <3>1 DEF Inv, LaneInv
    <3>. QED
      BY <1>1, <3>2 DEF Unheard, server, account
  <2>. QED
    BY <2>1, <2>2
<1>22. CounterInv'
  <2>1. counter <= Max2(hi[newest], m.seq)
    BY <1>1, <1>10, SMT DEF Inv, TypeOK, Max2
  <2>. QED
    BY <1>1, <1>4, <2>1 DEF Inv, CounterInv, outbox, server, account
<1>23. StackInv'
  <2>1. StackAscending'
    <3>. SUFFICES ASSUME NEW u \in Worker
                  PROVE  \A k, l \in DOMAIN wk'[u].stack : k < l =>
                           \A i \in wk'[u].stack[k], j \in wk'[u].stack[l] : i > j
      BY DEF StackAscending
    <3>1. CASE u = w
      BY <1>6, <1>8, <1>11, <3>1
    <3>2. CASE u # w
      BY <1>11, <3>2 DEF Inv, StackInv, StackAscending
    <3>. QED
      BY <3>1, <3>2
  <2>2. ASSUME NEW u \in Worker, wk'[u].pc = "waiting"
        PROVE  \A k \in DOMAIN wk'[u].stack : \A i \in wk'[u].stack[k], j \in wk'[u].batch : i > j
    <3>1. CASE u = w
      BY <1>6, <1>8, <1>11, <3>1
    <3>2. CASE u # w
      BY <1>11, <2>2, <3>2 DEF Inv, StackInv
    <3>. QED
      BY <3>1, <3>2
  <2>. QED
    BY <2>1, <2>2 DEF StackInv
<1>24. RowInv' /\ NoFalseGap'
  BY <1>1, RowsKept DEF Inv, NoFalseGap, outbox, server, account
<1>. QED
  BY <1>12, <1>14, <1>15, <1>16, <1>19, <1>20, <1>21, <1>22, <1>23, <1>24 DEF Inv

\* A request given up on differs from what it was in being live only.
LEMMA AbandonedShape ==
  ASSUME TypeOK, NEW W, NEW r \in Abandoned(W)
  PROVE  \E q \in reqs : /\ r = [q EXCEPT !.live = q.live /\ q.w \notin W]
                         /\ r \in Request
                         /\ r.w = q.w /\ r.tok = q.tok /\ r.batch = q.batch
                         /\ r.seq = q.seq /\ r.at = q.at
                         /\ r.live = (q.live /\ q.w \notin W)
<1>1. PICK q \in reqs : r = [q EXCEPT !.live = q.live /\ q.w \notin W]
  BY DEF Abandoned
<1>2. q \in Request
  BY DEF TypeOK
<1>3. (q.live /\ q.w \notin W) \in BOOLEAN
  OBVIOUS
<1>4. /\ r.w = q.w /\ r.tok = q.tok /\ r.batch = q.batch /\ r.seq = q.seq /\ r.at = q.at
      /\ r.live = (q.live /\ q.w \notin W)
  BY <1>1, <1>2 DEF Request
<1>5. r \in Request
  BY <1>1, <1>2, <1>3 DEF Request
<1>. QED
  BY <1>1, <1>4, <1>5

\* The invariants about requests when those of W are given up on and the
\* workers that go on had no other change than hearing of it.
LEMMA GivenUp ==
  ASSUME Inv, NEW W, reqs' = Abandoned(W),
         \A u \in Worker \ W : wk'[u] = wk[u],
         UNCHANGED <<counter, stored, rejected, dropped, newest>>
  PROVE  reqs' \subseteq Request /\ RequestInv' /\ LinkInv'
<1>0. TypeOK
  BY DEF Inv
<1>1. reqs' \subseteq Request
  BY <1>0, AbandonedShape
<1>2. RequestInv'
  <2>. SUFFICES ASSUME NEW r \in reqs'
                PROVE  /\ r.tok \in 1 .. newest /\ r.batch \subseteq OfLane(r.w[1])
                       /\ r.seq <= counter + 1
                       /\ r.at = "observe" => r.batch \subseteq Handled
    BY DEF RequestInv, Handled
  <2>1. PICK q \in reqs : /\ r.w = q.w /\ r.tok = q.tok /\ r.batch = q.batch
                          /\ r.seq = q.seq /\ r.at = q.at
    BY <1>0, AbandonedShape, SMT
  <2>. QED
    BY <2>1 DEF Inv, RequestInv
<1>3. ASSUME NEW r \in reqs', r.live
      PROVE  \E q \in reqs :
               /\ r = [q EXCEPT !.live = q.live /\ q.w \notin W]
               /\ q.live /\ q.w \notin W /\ q.w \in Worker
               /\ r.w = q.w /\ r.tok = q.tok /\ r.batch = q.batch /\ r.seq = q.seq
  <2>1. PICK q \in reqs : /\ r = [q EXCEPT !.live = q.live /\ q.w \notin W]
                          /\ r.w = q.w /\ r.tok = q.tok /\ r.batch = q.batch
                          /\ r.seq = q.seq /\ r.live = (q.live /\ q.w \notin W)
    BY <1>0, AbandonedShape
  <2>2. q.live /\ q.w \notin W /\ q.w \in Worker
    BY <1>0, <1>3, <2>1 DEF TypeOK, Request
  <2>. QED
    BY <2>1, <2>2
<1>4. ASSUME NEW r \in reqs', r.live
      PROVE  /\ Current(r.w)' /\ Waiting(r.w)'
             /\ wk'[r.w].batch = r.batch /\ wk'[r.w].seq = r.seq /\ wk'[r.w].tok = r.tok
  <2>1. PICK q \in reqs : /\ q.live /\ q.w \notin W /\ q.w \in Worker
                          /\ r.w = q.w /\ r.tok = q.tok /\ r.batch = q.batch /\ r.seq = q.seq
    BY <1>3, <1>4
  <2>2. wk'[q.w] = wk[q.w]
    BY <2>1
  <2>. QED
    BY <2>1, <2>2, SMT DEF Inv, LinkInv, Current, Waiting
<1>5. ASSUME NEW r \in reqs', NEW p \in reqs', r.live, p.live, r.w = p.w
      PROVE  r = p
  <2>1. PICK q \in reqs : /\ r = [q EXCEPT !.live = q.live /\ q.w \notin W]
                          /\ q.live /\ r.w = q.w
    BY <1>3, <1>5
  <2>2. PICK o \in reqs : /\ p = [o EXCEPT !.live = o.live /\ o.w \notin W]
                          /\ o.live /\ p.w = o.w
    BY <1>3, <1>5
  <2>3. q = o
    BY <1>5, <2>1, <2>2 DEF Inv, LinkInv
  <2>. QED
    BY <2>1, <2>2, <2>3
<1>. QED
  BY <1>1, <1>2, <1>4, <1>5 DEF LinkInv

\* The worker gives up on its request.
LEMMA TimedOut ==
  ASSUME Inv, NEW w \in Worker, Timeout(w)
  PROVE  Inv'
<1>. DEFINE v == [wk[w] EXCEPT !.reply = "transient"]
<1>1. /\ wk[w] \in WorkerState /\ wk[w].pc = "waiting" /\ wk[w].reply = "none"
      /\ UNCHANGED <<ClientSide, server, account>> /\ reqs' = Abandoned({w})
      /\ Becomes(w, v) /\ events' \in Nat
  BY SMT DEF Inv, TypeOK, Timeout, Replied, Becomes, Happens
<1>2. v \in WorkerState
  BY <1>1 DEF WorkerState
<1>3. /\ v.pc = "waiting" /\ v.stack = wk[w].stack /\ v.batch = wk[w].batch
      /\ v.seq = wk[w].seq /\ v.reply = "transient" /\ v.tok = wk[w].tok
      /\ v.aborted = wk[w].aborted
  BY <1>1 DEF WorkerState
<1>. HIDE DEF v
<1>4. /\ wk' \in [Worker -> WorkerState] /\ wk'[w] = v
      /\ \A u \in Worker \ {w} : wk'[u] = wk[u]
  BY <1>1, <1>2, BecomesShape DEF Inv
<1>5. reqs' \subseteq Request /\ RequestInv' /\ LinkInv'
  BY <1>1, <1>4, GivenUp DEF ClientSide, outbox, server, account
<1>6. TypeOK'
  BY <1>1, <1>4, <1>5 DEF Inv, TypeOK, ClientSide, outbox, tray, server, account
<1>7. ASSUME NEW u \in Worker
      PROVE  /\ wk'[u].pc = wk[u].pc /\ wk'[u].stack = wk[u].stack
             /\ wk'[u].batch = wk[u].batch /\ wk'[u].seq = wk[u].seq
             /\ wk'[u].tok = wk[u].tok /\ wk'[u].aborted = wk[u].aborted
             /\ wk'[u].reply \in {wk[u].reply, "transient"}
  BY <1>1, <1>3, <1>4
<1>8. ASSUME NEW r \in reqs'
      PROVE  \E q \in reqs : r.tok = q.tok /\ r.seq = q.seq
  BY <1>1, AbandonedShape, SMT DEF Inv
<1>9. WorkerInv'
  BY <1>1, <1>7 DEF Inv, WorkerInv, ClientSide, outbox, account
<1>10. Unheard => Unheard'
  BY <1>1, <1>7, <1>8, SMT DEF Unheard, server, account
<1>11. LaneInv'
  BY <1>1, <1>7, <1>10 DEF Inv, LaneInv, Current, ClientSide, tray, server, account
<1>12. ReplyInv'
  BY <1>1, <1>7 DEF Inv, ReplyInv, Replied, Won, server, account, Handled
<1>13. OldInv'
  <2>. SUFFICES ASSUME NEW u \in Worker, wk'[u].tok # newest,
                       Won(u)' \/ (Current(u)' /\ Waiting(u)')
                PROVE  /\ hi[newest] # 0 => wk'[u].seq <= hi[newest]
                       /\ \A r \in reqs' : r.tok = newest => wk'[u].seq <= r.seq
    BY <1>1 DEF OldInv, server, account
  <2>1. Won(u) \/ (Current(u) /\ Waiting(u))
    BY <1>7 DEF Won, Current, Waiting
  <2>2. /\ hi[newest] # 0 => wk[u].seq <= hi[newest]
        /\ \A q \in reqs : q.tok = newest => wk[u].seq <= q.seq
    BY <1>7, <2>1 DEF Inv, OldInv
  <2>. QED
    BY <1>7, <1>8, <2>2
<1>14. CounterInv'
  BY <1>1, <1>8 DEF Inv, CounterInv, ClientSide, outbox, server, account
<1>15. StackInv'
  BY <1>7 DEF Inv, StackInv, StackAscending
<1>16. RowInv' /\ NoFalseGap'
  BY <1>1, RowsKept DEF Inv, NoFalseGap, ClientSide, outbox, server, account
<1>. QED
  BY <1>5, <1>6, <1>9, <1>11, <1>12, <1>13, <1>14, <1>15, <1>16 DEF Inv

-----------------------------------------------------------------------------
(* The server's steps                                                      *)

\* A request moves to its next stage; what the server has acted on stays so.
LEMMA GoesOn ==
  ASSUME Inv, NEW q \in reqs, NEW stage \in {"insert", "observe"}, GoOn(q, stage),
         Handled \subseteq Handled', stage = "observe" => q.batch \subseteq Handled',
         UNCHANGED <<ClientSide, hi, gaps, unseen, account>>,
         stored' \subseteq Id, rejected' \subseteq Id, dropped' \subseteq Id, events' \in Nat,
         RowInv'
  PROVE  Inv'
<1>. DEFINE p == [q EXCEPT !.at = stage]
<1>1. q \in Request /\ reqs' = (reqs \ {q}) \cup {p} /\ wk' = wk
  BY DEF Inv, TypeOK, GoOn
<1>2. p \in Request
  BY <1>1 DEF Request
<1>3. /\ p.w = q.w /\ p.tok = q.tok /\ p.batch = q.batch /\ p.seq = q.seq
      /\ p.live = q.live /\ p.at = stage
  BY <1>1 DEF Request
<1>. HIDE DEF p
<1>4. TypeOK'
  BY <1>1, <1>2 DEF Inv, TypeOK, ClientSide, outbox, tray, account
<1>5. ASSUME NEW r \in reqs'
      PROVE  \E o \in reqs : /\ r.w = o.w /\ r.tok = o.tok /\ r.batch = o.batch /\ r.seq = o.seq
                             /\ r.live = o.live
                             /\ \/ r = o /\ o # q
                                \/ r = p /\ o = q
  BY <1>1, <1>3
<1>6. WorkerInv'
  BY <1>1 DEF Inv, WorkerInv, ClientSide, outbox, account
<1>7. RequestInv'
  <2>. SUFFICES ASSUME NEW r \in reqs'
                PROVE  /\ r.tok \in 1 .. newest /\ r.batch \subseteq OfLane(r.w[1])
                       /\ r.seq <= counter + 1
                       /\ r.at = "observe" => r.batch \subseteq Handled'
    BY DEF RequestInv, ClientSide, outbox, account
  <2>1. CASE r = p
    BY <1>3, <2>1 DEF Inv, RequestInv
  <2>2. CASE r # p
    BY <1>1, <2>2 DEF Inv, RequestInv
  <2>. QED
    BY <2>1, <2>2
<1>8. LinkInv'
  <2>1. ASSUME NEW r \in reqs', r.live
        PROVE  /\ Current(r.w) /\ Waiting(r.w)
               /\ wk[r.w].batch = r.batch /\ wk[r.w].seq = r.seq /\ wk[r.w].tok = r.tok
    <3>1. PICK o \in reqs : /\ r.w = o.w /\ r.tok = o.tok /\ r.batch = o.batch
                            /\ r.seq = o.seq /\ r.live = o.live
      BY <1>5
    <3>. QED
      BY <2>1, <3>1 DEF Inv, LinkInv
  <2>2. ASSUME NEW r \in reqs', NEW m \in reqs', r.live, m.live, r.w = m.w
        PROVE  r = m
    <3>1. PICK o \in reqs : r.w = o.w /\ r.live = o.live /\ ((r = o /\ o # q) \/ (r = p /\ o = q))
      BY <1>5
    <3>2. PICK l \in reqs : m.w = l.w /\ m.live = l.live /\ ((m = l /\ l # q) \/ (m = p /\ l = q))
      BY <1>5
    <3>3. o = l
      BY <2>2, <3>1, <3>2 DEF Inv, LinkInv
    <3>. QED
      BY <3>1, <3>2, <3>3, SMT
  <2>. QED
    BY <1>1, <2>1, <2>2 DEF LinkInv, Current, Waiting
<1>9. Unheard => Unheard'
  <2>. SUFFICES ASSUME Unheard, NEW r \in reqs' PROVE r.tok # newest
    BY <1>1 DEF Unheard, account
  <2>. QED
    BY <1>5 DEF Unheard
<1>10. LaneInv'
  BY <1>1, <1>9 DEF Inv, LaneInv, Current, ClientSide, tray, account
<1>11. ReplyInv'
  BY <1>1 DEF Inv, ReplyInv, Replied, Won, account
<1>12. OldInv'
  <2>. SUFFICES ASSUME NEW u \in Worker, wk[u].tok # newest,
                       Won(u) \/ (Current(u) /\ Waiting(u))
                PROVE  /\ hi[newest] # 0 => wk[u].seq <= hi[newest]
                       /\ \A r \in reqs' : r.tok = newest => wk[u].seq <= r.seq
    BY <1>1 DEF OldInv, account, Won, Current, Waiting
  <2>1. /\ hi[newest] # 0 => wk[u].seq <= hi[newest]
        /\ \A o \in reqs : o.tok = newest => wk[u].seq <= o.seq
    BY DEF Inv, OldInv
  <2>. QED
    BY <1>5, <2>1
<1>13. CounterInv'
  BY <1>5 DEF Inv, CounterInv, ClientSide, outbox, account
<1>14. StackInv' /\ NoFalseGap'
  BY <1>1 DEF Inv, StackInv, StackAscending, NoFalseGap, account
<1>. QED
  BY <1>4, <1>6, <1>7, <1>8, <1>10, <1>11, <1>12, <1>13, <1>14 DEF Inv

\* The server has answered q and the worker that waits for it has the reply r;
\* what the server observed of the device is at most this ordinal.
LEMMA Answered ==
  ASSUME Inv, NEW q \in reqs,
         NEW r \in {"ok", "auth", "sync_disabled", "bad"}, Answer(q, r),
         UNCHANGED <<ClientSide, stored, rejected, dropped, account>>,
         r = "ok" => q.batch \subseteq Handled,
         r = "bad" => q.batch \cap Poison # {},
         NEW h \in Nat, hi[q.tok] <= h, h = hi[q.tok] \/ h = Max2(hi[q.tok], q.seq),
         hi' = [hi EXCEPT ![q.tok] = h],
         unseen' \in BOOLEAN, unseen => unseen',
         r = "ok" => unseen' \/ q.seq <= h,
         gaps' \subseteq gaps \cup {q.tok}, newest \in gaps' => unseen',
         events' \in Nat
  PROVE  Inv'
<1>1. q \in Request /\ reqs' = reqs \ {q} /\ q.tok \in 1 .. newest /\ newest \in Device
  BY DEF Inv, TypeOK, Answer, RequestInv
<1>2. q.tok \in Device /\ q.seq \in Nat /\ q.w \in Worker /\ q.live \in BOOLEAN
  BY <1>1 DEF Request
<1>3. hi \in [Device -> Nat] /\ counter \in Nat /\ newest \in Nat
  BY <1>1, OutboxAssumption, SMT DEF Inv, TypeOK, Device
<1>4. /\ hi' \in [Device -> Nat] /\ hi'[q.tok] = h
      /\ \A d \in Device : d # q.tok => hi'[d] = hi[d]
      /\ \A d \in Device : hi[d] <= hi'[d]
  <2>1. hi' \in [Device -> Nat] /\ hi'[q.tok] = h
    BY <1>2, <1>3
  <2>2. ASSUME NEW d \in Device, d # q.tok PROVE hi'[d] = hi[d]
    BY <1>3, <2>2
  <2>3. ASSUME NEW d \in Device PROVE hi[d] <= hi'[d]
    <3>1. hi[d] \in Nat
      BY <1>3
    <3>. QED
      BY <2>1, <2>2, <3>1, SMT
  <2>. QED
    BY <2>1, <2>2, <2>3
<1>5. /\ wk' \in [Worker -> WorkerState]
      /\ \A u \in Worker \ {q.w} : wk'[u] = wk[u]
      /\ ~q.live => wk' = wk
      /\ q.live => wk'[q.w].reply = r
      /\ wk'[q.w].pc = wk[q.w].pc /\ wk'[q.w].stack = wk[q.w].stack
      /\ wk'[q.w].batch = wk[q.w].batch /\ wk'[q.w].seq = wk[q.w].seq
      /\ wk'[q.w].tok = wk[q.w].tok /\ wk'[q.w].aborted = wk[q.w].aborted
  <2>. DEFINE v == [wk[q.w] EXCEPT !.reply = r]
  <2>1. wk \in [Worker -> WorkerState] /\ wk[q.w] \in WorkerState
    BY <1>2 DEF Inv, TypeOK
  <2>2. CASE ~q.live
    BY <2>1, <2>2 DEF Answer
  <2>3. CASE q.live
    <3>1. Becomes(q.w, v)
      BY <2>3 DEF Answer, Becomes
    <3>2. v \in WorkerState
      BY <2>1 DEF WorkerState
    <3>3. /\ v.pc = wk[q.w].pc /\ v.stack = wk[q.w].stack /\ v.batch = wk[q.w].batch
          /\ v.seq = wk[q.w].seq /\ v.tok = wk[q.w].tok /\ v.aborted = wk[q.w].aborted
          /\ v.reply = r
      BY <2>1 DEF WorkerState
    <3>. HIDE DEF v
    <3>4. /\ wk' \in [Worker -> WorkerState] /\ wk'[q.w] = v
          /\ \A u \in Worker \ {q.w} : wk'[u] = wk[u]
      BY <1>2, <3>1, <3>2, BecomesShape DEF Inv
    <3>. QED
      BY <2>3, <3>3, <3>4
  <2>. QED
    BY <1>2, <2>2, <2>3
<1>6. ASSUME NEW u \in Worker
      PROVE  /\ wk'[u].pc = wk[u].pc /\ wk'[u].stack = wk[u].stack
             /\ wk'[u].batch = wk[u].batch /\ wk'[u].seq = wk[u].seq
             /\ wk'[u].tok = wk[u].tok /\ wk'[u].aborted = wk[u].aborted
             /\ \/ wk'[u].reply = wk[u].reply
                \/ /\ wk'[u].reply = r /\ u = q.w /\ q.live
                   /\ Current(u) /\ Waiting(u) /\ wk[u].batch = q.batch
                   /\ wk[u].seq = q.seq /\ wk[u].tok = q.tok
  <2>1. CASE u # q.w
    BY <1>5, <2>1
  <2>2. CASE u = q.w /\ ~q.live
    BY <1>5, <2>2
  <2>3. CASE u = q.w /\ q.live
    BY <1>5, <2>3 DEF Inv, LinkInv
  <2>. QED
    BY <1>2, <2>1, <2>2, <2>3
<1>7. TypeOK'
  BY <1>1, <1>2, <1>4, <1>5, SMT DEF Inv, TypeOK, ClientSide, outbox, tray, account
<1>8. WorkerInv'
  BY <1>6 DEF Inv, WorkerInv, ClientSide, outbox, account
<1>9. RequestInv'
  BY <1>1 DEF Inv, RequestInv, ClientSide, outbox, account, Handled
<1>10. LinkInv'
  <2>1. ASSUME NEW o \in reqs', o.live
        PROVE  /\ Current(o.w)' /\ Waiting(o.w)'
               /\ wk'[o.w].batch = o.batch /\ wk'[o.w].seq = o.seq /\ wk'[o.w].tok = o.tok
    <3>1. o \in reqs /\ o # q /\ o.w \in Worker
      BY <1>1 DEF Inv, TypeOK, Request
    <3>2. ~(q.live /\ o.w = q.w)
      BY <2>1, <3>1 DEF Inv, LinkInv
    <3>3. wk'[o.w] = wk[o.w]
      BY <1>2, <1>5, <3>1, <3>2
    <3>. QED
      BY <2>1, <3>1, <3>3, SMT DEF Inv, LinkInv, Current, Waiting
  <2>. QED
    BY <1>1, <2>1 DEF Inv, LinkInv
<1>11. Unheard => Unheard'
  <2>. SUFFICES ASSUME Unheard PROVE Unheard'
    OBVIOUS
  <2>1. q.tok # newest /\ newest' = newest
    BY DEF Unheard, account
  <2>2. hi'[newest] = 0
    BY <1>1, <1>4, <2>1 DEF Unheard
  <2>3. ASSUME NEW u \in Worker, wk'[u].pc # "dead" PROVE wk'[u].tok # newest
    <3>1. wk'[u].tok = wk[u].tok /\ wk'[u].pc = wk[u].pc
      BY <1>6
    <3>. QED
      BY <2>3, <3>1 DEF Unheard
  <2>4. ASSUME NEW o \in reqs' PROVE o.tok # newest
    BY <1>1 DEF Unheard
  <2>. QED
    BY <2>1, <2>2, <2>3, <2>4 DEF Unheard
<1>12. LaneInv'
  <2>1. ASSUME NEW d \in Device, d > newest PROVE hi'[d] = 0 /\ d \notin gaps'
    <3>1. d # q.tok
      BY <1>1, <1>3, <2>1, SMT
    <3>. QED
      BY <1>4, <2>1, <3>1 DEF Inv, LaneInv
  <2>. QED
    BY <1>6, <1>11, <2>1 DEF Inv, LaneInv, Current, ClientSide, tray, account
<1>13. ReplyInv'
  <2>. SUFFICES ASSUME NEW u \in Worker
                PROVE  /\ Replied(u, "ok")' => wk'[u].batch \subseteq Handled
                       /\ wk'[u].reply = "bad" => wk'[u].batch \cap Poison # {}
                       /\ Won(u)' /\ wk'[u].tok = newest => unseen' \/ wk'[u].seq <= hi'[newest]
    BY DEF ReplyInv, Handled, account
  <2>1. CASE wk'[u].reply = wk[u].reply
    <3>1. /\ Replied(u, "ok") => wk[u].batch \subseteq Handled
          /\ wk[u].reply = "bad" => wk[u].batch \cap Poison # {}
          /\ Won(u) /\ wk[u].tok = newest => unseen \/ wk[u].seq <= hi[newest]
      BY DEF Inv, ReplyInv
    <3>2. hi[newest] \in Nat /\ hi'[newest] \in Nat /\ hi[newest] <= hi'[newest]
      BY <1>1, <1>3, <1>4
    <3>3. wk[u].seq \in Nat
      BY DEF Inv, TypeOK, WorkerState
    <3>4. /\ Replied(u, "ok")' => Replied(u, "ok")
          /\ Won(u)' => Won(u)
          /\ wk'[u].batch = wk[u].batch /\ wk'[u].seq = wk[u].seq /\ wk'[u].tok = wk[u].tok
      BY <1>6, <2>1 DEF Replied, Won
    <3>5. ASSUME Won(u)', wk'[u].tok = newest PROVE unseen' \/ wk'[u].seq <= hi'[newest]
      BY <3>1, <3>2, <3>3, <3>4, <3>5, SMT
    <3>. QED
      BY <2>1, <3>1, <3>4, <3>5
  <2>2. CASE /\ wk'[u].reply = r /\ Waiting(u) /\ wk[u].batch = q.batch
             /\ wk[u].seq = q.seq /\ wk[u].tok = q.tok
    <3>1. /\ wk'[u].pc = "waiting" /\ wk'[u].batch = q.batch /\ wk'[u].seq = q.seq
          /\ wk'[u].tok = q.tok
      BY <1>6, <2>2 DEF Waiting
    <3>2. Won(u)' => r = "ok"
      BY <2>2, <3>1 DEF Won
    <3>3. Replied(u, "ok")' => r = "ok"
      BY <2>2 DEF Replied
    <3>. QED
      BY <1>4, <2>2, <3>1, <3>2, <3>3
  <2>. QED
    BY <1>6, <2>1, <2>2
<1>14. OldInv'
  <2>. SUFFICES ASSUME NEW u \in Worker, wk'[u].tok # newest,
                       Won(u)' \/ (Current(u)' /\ Waiting(u)')
                PROVE  /\ hi'[newest] # 0 => wk'[u].seq <= hi'[newest]
                       /\ \A o \in reqs' : o.tok = newest => wk'[u].seq <= o.seq
    BY DEF OldInv, account
  <2>1. Won(u) \/ (Current(u) /\ Waiting(u))
    BY <1>6 DEF Won, Current, Waiting
  <2>2. /\ hi[newest] # 0 => wk[u].seq <= hi[newest]
        /\ \A o \in reqs : o.tok = newest => wk[u].seq <= o.seq
    BY <1>6, <2>1 DEF Inv, OldInv
  <2>3. wk[u].seq \in Nat /\ hi[newest] \in Nat /\ hi'[newest] \in Nat /\ hi[newest] <= hi'[newest]
    BY <1>1, <1>3, <1>4 DEF Inv, TypeOK, WorkerState
  <2>4. hi'[newest] # 0 => wk[u].seq <= hi'[newest]
    <3>1. CASE q.tok # newest
      BY <1>1, <1>4, <2>2, <3>1
    <3>2. CASE q.tok = newest
      <4>1. wk[u].seq <= q.seq
        BY <2>2, <3>2
      <4>2. h = hi[newest] \/ h >= q.seq
        BY <1>2, <2>3, <3>2, SMT DEF Max2
      <4>. QED
        BY <1>2, <1>4, <2>2, <2>3, <3>2, <4>1, <4>2, SMT
    <3>. QED
      BY <3>1, <3>2
  <2>. QED
    BY <1>1, <1>6, <2>2, <2>4
<1>15. CounterInv'
  <2>. SUFFICES ASSUME ~unseen'
                PROVE  /\ hi'[newest] # 0 => counter <= hi'[newest]
                       /\ \A o \in reqs' : o.tok = newest => counter <= Max2(hi'[newest], o.seq)
    BY DEF CounterInv, ClientSide, outbox, account
  <2>1. /\ hi[newest] # 0 => counter <= hi[newest]
        /\ \A o \in reqs : o.tok = newest => counter <= Max2(hi[newest], o.seq)
    BY DEF Inv, CounterInv
  <2>2. hi[newest] \in Nat /\ hi'[newest] \in Nat /\ hi[newest] <= hi'[newest]
    BY <1>1, <1>3, <1>4
  <2>3. ASSUME NEW o \in reqs', o.tok = newest PROVE counter <= Max2(hi'[newest], o.seq)
    <3>1. o \in reqs /\ o.seq \in Nat
      BY <1>1 DEF Inv, TypeOK, Request
    <3>. QED
      BY <1>3, <2>1, <2>2, <2>3, <3>1, SMT DEF Max2
  <2>4. hi'[newest] # 0 => counter <= hi'[newest]
    <3>1. CASE q.tok # newest
      BY <1>1, <1>4, <2>1, <3>1
    <3>2. CASE q.tok = newest
      <4>1. counter <= Max2(hi[newest], q.seq) /\ hi'[newest] = h
        BY <1>4, <2>1, <3>2
      <4>. QED
        BY <1>2, <1>3, <2>1, <2>2, <3>2, <4>1 DEF Max2
    <3>. QED
      BY <3>1, <3>2
  <2>. QED
    BY <2>3, <2>4
<1>16. StackInv'
  BY <1>6 DEF Inv, StackInv, StackAscending
<1>17. RowInv' /\ NoFalseGap'
  BY RowsKept DEF NoFalseGap, ClientSide, outbox, account
<1>. QED
  BY <1>7, <1>8, <1>9, <1>10, <1>12, <1>13, <1>14, <1>15, <1>16, <1>17 DEF Inv

\* The same when nothing is observed.
LEMMA AnsweredUnobserved ==
  ASSUME Inv, NEW q \in reqs,
         NEW r \in {"ok", "auth", "sync_disabled", "bad"}, Answer(q, r),
         UNCHANGED <<ClientSide, stored, rejected, dropped, hi, gaps, account>>,
         r = "ok" => q.batch \subseteq Handled /\ unseen',
         r = "bad" => q.batch \cap Poison # {},
         unseen' \in BOOLEAN, unseen => unseen', events' \in Nat
  PROVE  Inv'
<1>1. q \in Request /\ hi \in [Device -> Nat]
  BY DEF Inv, TypeOK
<1>2. q.tok \in Device /\ hi[q.tok] \in Nat
  BY <1>1 DEF Request
<1>3. hi' = [hi EXCEPT ![q.tok] = hi[q.tok]] /\ hi[q.tok] <= hi[q.tok]
  BY <1>1, <1>2, SMT
<1>4. newest \in gaps' => unseen'
  BY DEF Inv, NoFalseGap
<1>. QED
  BY <1>2, <1>3, <1>4, Answered

\* Token, restriction guard, body extractor and sync gate.
LEMMA Gated ==
  ASSUME Inv, NEW q \in reqs, Gate(q)
  PROVE  Inv'
<1>1. /\ stored \subseteq Id /\ rejected \subseteq Id /\ dropped \subseteq Id /\ events \in Nat
      /\ unseen \in BOOLEAN
  BY DEF Inv, TypeOK
<1>2. CASE Verdict(q) = "pass"
  <2>1. GoOn(q, "insert") /\ UNCHANGED <<ClientSide, server, account, events>>
    BY <1>2 DEF Gate
  <2>2. RowInv' /\ Handled' = Handled
    BY <2>1, RowsKept DEF server, ClientSide, outbox, Handled
  <2>. QED
    BY <1>1, <2>1, <2>2, GoesOn DEF server
<1>3. CASE Verdict(q) # "pass"
  <2>1. /\ Answer(q, Verdict(q)) /\ UNCHANGED <<ClientSide, server, account, events>>
    BY <1>3 DEF Gate
  <2>2. /\ Verdict(q) \in {"auth", "sync_disabled", "bad"}
        /\ Verdict(q) = "bad" => q.batch \cap Poison # {}
    BY <1>3 DEF Verdict
  <2>. QED
    BY <1>1, <2>1, <2>2, AnsweredUnobserved DEF server
<1>. QED
  BY <1>2, <1>3

\* insert_batch, or its failure.
LEMMA Inserted ==
  ASSUME Inv, NEW q \in reqs, InsertBatch(q) \/ InsertFails(q)
  PROVE  Inv'
<1>1. q \in Request /\ q.batch \subseteq Id
  BY DEF Inv, TypeOK, Request
<1>2. /\ stored \subseteq Id /\ rejected \subseteq Id /\ dropped \subseteq Id /\ events \in Nat
  BY DEF Inv, TypeOK
<1>3. /\ stored' \subseteq Id /\ rejected' \subseteq Id /\ dropped' \subseteq Id
      /\ events' \in Nat /\ Handled \subseteq Handled' /\ q.batch \subseteq Handled'
  <2>1. CASE InsertBatch(q)
    BY <1>1, <1>2, <2>1 DEF InsertBatch, Handled
  <2>2. CASE InsertFails(q)
    <3>1. events' \in Nat
      BY <1>2, <2>2, SMT DEF InsertFails, Happens
    <3>. QED
      BY <1>1, <1>2, <2>2, <3>1 DEF InsertFails, Handled
  <2>. QED
    BY <2>1, <2>2
<1>4. GoOn(q, "observe") /\ UNCHANGED <<ClientSide, hi, gaps, unseen, account>>
  BY DEF InsertBatch, InsertFails
<1>5. RowInv'
  BY <1>3, <1>4 DEF Inv, RowInv, AckedIsHandled, QuarantineIsolates, Handled, ClientSide, outbox
<1>. QED
  BY <1>3, <1>4, <1>5, GoesOn

\* observe_batch_sequence: the ordinal of the newest device follows on what
\* the server has seen.
LEMMA Observed ==
  ASSUME Inv, NEW q \in reqs, Observe(q)
  PROVE  Inv'
<1>. DEFINE h == Max2(hi[q.tok], q.seq)
<1>1. q \in Request /\ hi \in [Device -> Nat] /\ unseen \in BOOLEAN /\ events \in Nat
  BY DEF Inv, TypeOK
<1>2. q.tok \in Device /\ hi[q.tok] \in Nat /\ q.seq \in Nat /\ counter \in Nat
  BY <1>1 DEF Request, Inv, TypeOK
<1>3. h \in Nat /\ hi[q.tok] <= h /\ q.seq <= h
  BY <1>2, SMT DEF Max2
<1>4. hi' = [hi EXCEPT ![q.tok] = h]
  BY DEF Observe
<1>5. q.batch \subseteq Handled
  BY DEF Inv, RequestInv, Observe
<1>6. newest \in gaps' => unseen'
  <2>. SUFFICES ASSUME newest \in gaps', ~unseen PROVE FALSE
    BY DEF Observe
  <2>1. q.tok = newest /\ Gapped(hi[newest], q.seq)
    BY DEF Observe, Inv, NoFalseGap
  <2>2. counter <= hi[newest] /\ q.seq <= counter + 1
    BY <2>1 DEF Inv, CounterInv, RequestInv, Gapped
  <2>. QED
    BY <1>2, <2>1, <2>2, SMT DEF Gapped
<1>. HIDE DEF h
<1>7. /\ Answer(q, "ok") /\ UNCHANGED <<ClientSide, stored, rejected, dropped, account>>
      /\ unseen' = unseen /\ events' = events /\ gaps' \subseteq gaps \cup {q.tok}
  BY DEF Observe
<1>8. h = Max2(hi[q.tok], q.seq)
  BY DEF h
<1>. QED
  BY <1>1, <1>3, <1>4, <1>5, <1>6, <1>7, <1>8, Answered

LEMMA ObservationFailed ==
  ASSUME Inv, NEW q \in reqs, ObserveFails(q)
  PROVE  Inv'
<1>1. q.batch \subseteq Handled /\ unseen' = TRUE
  BY DEF Inv, RequestInv, ObserveFails
<1>2. events' \in Nat
  BY SMT DEF Inv, TypeOK, ObserveFails, Happens
<1>. QED
  BY <1>1, <1>2, AnsweredUnobserved DEF ObserveFails

\* A request, or the answer to it, is lost.
LEMMA LostRequest ==
  ASSUME Inv, NEW q \in reqs, RequestLost(q)
  PROVE  Inv'
<1>1. /\ reqs' = reqs \ {q} /\ UNCHANGED <<ClientSide, wk, server, account>> /\ events' \in Nat
  BY SMT DEF Inv, TypeOK, RequestLost, Happens
<1>2. TypeOK'
  BY <1>1 DEF Inv, TypeOK, ClientSide, outbox, tray, server, account
<1>3. WorkerInv' /\ StackInv' /\ NoFalseGap'
  BY <1>1 DEF Inv, WorkerInv, StackInv, StackAscending, NoFalseGap, ClientSide, outbox, server, account
<1>4. RequestInv' /\ CounterInv'
  BY <1>1 DEF Inv, RequestInv, CounterInv, Handled, ClientSide, outbox, server, account
<1>5. LinkInv'
  BY <1>1 DEF Inv, LinkInv, Current, Waiting
<1>6. LaneInv'
  BY <1>1 DEF Inv, LaneInv, Unheard, Current, ClientSide, tray, server, account
<1>7. ReplyInv' /\ OldInv'
  BY <1>1 DEF Inv, ReplyInv, OldInv, Replied, Won, Current, Waiting, Handled, server, account
<1>8. RowInv'
  BY <1>1, RowsKept DEF ClientSide, outbox, server
<1>. QED
  BY <1>2, <1>3, <1>4, <1>5, <1>6, <1>7, <1>8 DEF Inv

-----------------------------------------------------------------------------
(* respawn, restart and pairing                                            *)

\* A worker after respawn or a restart: new, with the stored token; dead; or
\* told to stop in the middle of what it does.
Renewed(u) ==
  \/ /\ u[2] = gen + 1 /\ token # 0
     /\ wk'[u].pc = "idle" /\ wk'[u].stack = <<>> /\ wk'[u].batch = {} /\ wk'[u].seq = 0
     /\ wk'[u].reply = "none" /\ wk'[u].tok = token /\ ~wk'[u].aborted
  \/ /\ wk'[u].pc = "dead" /\ wk'[u].stack = <<>> /\ wk'[u].batch = {} /\ wk'[u].seq = 0
     /\ wk'[u].reply = "none" /\ wk'[u].tok = 0
  \/ /\ wk'[u].pc = wk[u].pc /\ wk'[u].stack = wk[u].stack /\ wk'[u].batch = wk[u].batch
     /\ wk'[u].seq = wk[u].seq /\ wk'[u].reply = wk[u].reply /\ wk'[u].tok = wk[u].tok
     /\ wk'[u].aborted

LEMMA DeadShape ==
  /\ Dead \in WorkerState
  /\ Dead.pc = "dead" /\ Dead.stack = <<>> /\ Dead.batch = {} /\ Dead.seq = 0
  /\ Dead.reply = "none" /\ Dead.tok = 0
<1>1. Dead \in WorkerState
  BY OutboxAssumption, IdleTyped, SMT DEF WorkerState, Dead
<1>. QED
  BY <1>1 DEF Dead, Idle

LEMMA AllRenewed ==
  ASSUME Inv, Respawn \/ Start([w \in Worker |-> Dead])
  PROVE  wk' \in [Worker -> WorkerState] /\ \A u \in Worker : Renewed(u)
<1>0. token \in 0 .. MaxDevice /\ wk \in [Worker -> WorkerState]
  BY DEF Inv, TypeOK
<1>1. PICK old : /\ old \in {[w \in Worker |-> Aborted(w)], [w \in Worker |-> Dead]}
                 /\ wk' = [w \in Worker |-> IF Started(w) THEN Idle(token) ELSE old[w]]
  BY DEF Respawn, Start
<1>2. ASSUME NEW u \in Worker
      PROVE  wk'[u] \in WorkerState /\ Renewed(u)
  <2>0. wk'[u] = IF Started(u) THEN Idle(token) ELSE old[u]
    BY <1>1
  <2>1. CASE Started(u)
    <3>1. wk'[u] = Idle(token)
      BY <2>0, <2>1
    <3>2. wk'[u] \in WorkerState
      BY <1>0, <3>1, IdleTyped
    <3>3. /\ wk'[u].pc = "idle" /\ wk'[u].stack = <<>> /\ wk'[u].batch = {} /\ wk'[u].seq = 0
          /\ wk'[u].reply = "none" /\ wk'[u].tok = token /\ ~wk'[u].aborted
      BY <3>1, SMT DEF Idle
    <3>. QED
      BY <2>1, <3>2, <3>3 DEF Renewed, Started
  <2>2. CASE ~Started(u) /\ old[u] = Dead
    <3>1. wk'[u] = Dead
      BY <2>0, <2>2
    <3>. QED
      BY <3>1, DeadShape DEF Renewed
  <2>3. CASE ~Started(u) /\ old[u] # Dead
    <3>1. wk'[u] = [wk[u] EXCEPT !.aborted = TRUE] /\ wk[u] \in WorkerState
      BY <1>0, <1>1, <2>0, <2>3 DEF Aborted
    <3>2. wk'[u] \in WorkerState
      BY <3>1 DEF WorkerState
    <3>3. Renewed(u)
      BY <3>1, SMT DEF Renewed, WorkerState
    <3>. QED
      BY <3>2, <3>3
  <2>. QED
    BY <2>1, <2>2, <2>3
<1>3. \E f : wk' = [w \in Worker |-> f[w]]
  <2>1. wk' = [w \in Worker |-> wk'[w]]
    BY <1>1
  <2>. QED
    BY <2>1
<1>. QED
  BY <1>2, <1>3

\* Whatever is stopped, the workers that go on are new and hold the stored token.
LEMMA Starts ==
  ASSUME Inv, Respawn \/ Start([w \in Worker |-> Dead]), pairing' = "none",
         authLost' \in BOOLEAN, check' \in {"none", "valid", "rejected"}, events' \in Nat,
         UNCHANGED <<outbox, token, server, account>>
  PROVE  Inv'
<1>1. wk' \in [Worker -> WorkerState] /\ \A u \in Worker : Renewed(u)
  BY AllRenewed
<1>2. reqs' = Abandoned(Worker) /\ gen' = gen + 1 /\ gen < MaxGen
  BY DEF Respawn, Start
<1>3. reqs' \subseteq Request /\ RequestInv' /\ LinkInv'
  BY <1>2, GivenUp DEF outbox, server, account
<1>4. gen' \in 1 .. MaxGen
  BY <1>2, OutboxAssumption, SMT DEF Inv, TypeOK
<1>5. TypeOK'
  BY <1>1, <1>3, <1>4 DEF Inv, TypeOK, outbox, server, account
<1>6. token # 0 => token = newest /\ newest \in 1 .. newest
  BY OutboxAssumption, SMT DEF Inv, LaneInv, TypeOK, Device
<1>7. ASSUME NEW r \in reqs'
      PROVE  \E q \in reqs : r.tok = q.tok /\ r.seq = q.seq
  BY <1>2, AbandonedShape, SMT DEF Inv
<1>8. WorkerInv'
  <2>. SUFFICES ASSUME NEW u \in Worker
                PROVE  /\ wk'[u].pc # "dead" => wk'[u].tok \in 1 .. newest
                       /\ \A k \in DOMAIN wk'[u].stack : wk'[u].stack[k] \subseteq OfLane(u[1])
                       /\ wk'[u].batch \subseteq OfLane(u[1])
                       /\ wk'[u].seq <= counter + 1
                       /\ wk'[u].pc = "idle" => wk'[u].stack = <<>>
    BY DEF WorkerInv, outbox, account
  <2>1. counter \in Nat /\ Renewed(u)
    BY <1>1 DEF Inv, TypeOK
  <2>2. CASE wk'[u].stack = <<>> /\ wk'[u].batch = {} /\ wk'[u].seq = 0
             /\ (wk'[u].pc # "dead" => token # 0 /\ wk'[u].tok = token)
    <3>1. 0 <= counter + 1
      BY <2>1, SMT
    <3>2. \A k \in DOMAIN <<>> : FALSE
      BY SMT
    <3>. QED
      BY <1>6, <2>2, <3>1, <3>2
  <2>3. CASE /\ wk'[u].pc = wk[u].pc /\ wk'[u].stack = wk[u].stack /\ wk'[u].batch = wk[u].batch
             /\ wk'[u].seq = wk[u].seq /\ wk'[u].tok = wk[u].tok
    BY <2>3 DEF Inv, WorkerInv
  <2>. QED
    BY <2>1, <2>2, <2>3 DEF Renewed
<1>9. LaneInv'
  <2>1. ASSUME NEW u \in Worker, Current(u)'
        PROVE  u[2] = gen + 1 /\ wk'[u].tok = newest
    BY <1>1, <1>6, <2>1 DEF Renewed, Current
  <2>. QED
    BY <1>2, <2>1 DEF Inv, LaneInv, server, account
<1>10. ReplyInv'
  <2>. SUFFICES ASSUME NEW u \in Worker
                PROVE  /\ Replied(u, "ok")' => wk'[u].batch \subseteq Handled
                       /\ wk'[u].reply = "bad" => wk'[u].batch \cap Poison # {}
                       /\ Won(u)' /\ wk'[u].tok = newest => unseen \/ wk'[u].seq <= hi[newest]
    BY DEF ReplyInv, Handled, server, account
  <2>1. Renewed(u)
    BY <1>1
  <2>. QED
    BY <2>1 DEF Renewed, Inv, ReplyInv, Replied, Won
<1>11. OldInv'
  <2>. SUFFICES ASSUME NEW u \in Worker, wk'[u].tok # newest,
                       Won(u)' \/ (Current(u)' /\ Waiting(u)')
                PROVE  /\ hi[newest] # 0 => wk'[u].seq <= hi[newest]
                       /\ \A r \in reqs' : r.tok = newest => wk'[u].seq <= r.seq
    BY DEF OldInv, server, account
  <2>1. Won(u) /\ wk'[u].seq = wk[u].seq /\ wk'[u].tok = wk[u].tok
    BY <1>1 DEF Renewed, Won, Current, Waiting
  <2>2. /\ hi[newest] # 0 => wk[u].seq <= hi[newest]
        /\ \A q \in reqs : q.tok = newest => wk[u].seq <= q.seq
    BY <2>1 DEF Inv, OldInv
  <2>. QED
    BY <1>7, <2>1, <2>2
<1>12. CounterInv'
  BY <1>7 DEF Inv, CounterInv, outbox, server, account
<1>13. StackInv'
  <2>1. ASSUME NEW u \in Worker
        PROVE  \/ wk'[u].stack = <<>>
               \/ /\ wk'[u].stack = wk[u].stack /\ wk'[u].batch = wk[u].batch
                  /\ wk'[u].pc = wk[u].pc
    BY <1>1 DEF Renewed
  <2>2. StackAscending'
    <3>. SUFFICES ASSUME NEW u \in Worker,
                         NEW k \in DOMAIN wk'[u].stack, NEW l \in DOMAIN wk'[u].stack, k < l,
                         NEW i \in wk'[u].stack[k], NEW j \in wk'[u].stack[l]
                  PROVE  i > j
      BY DEF StackAscending
    <3>1. wk'[u].stack = wk[u].stack
      BY <2>1, SMT
    <3>. QED
      BY <3>1 DEF Inv, StackInv, StackAscending
  <2>3. ASSUME NEW u \in Worker, wk'[u].pc = "waiting", NEW k \in DOMAIN wk'[u].stack,
               NEW i \in wk'[u].stack[k], NEW j \in wk'[u].batch
        PROVE  i > j
    <3>1. wk'[u].stack = wk[u].stack /\ wk'[u].batch = wk[u].batch /\ wk'[u].pc = wk[u].pc
      BY <2>1, <2>3, SMT
    <3>. QED
      BY <2>3, <3>1 DEF Inv, StackInv
  <2>. QED
    BY <2>2, <2>3 DEF StackInv
<1>14. RowInv' /\ NoFalseGap'
  BY RowsKept DEF Inv, NoFalseGap, outbox, server, account
<1>. QED
  BY <1>3, <1>5, <1>8, <1>9, <1>10, <1>11, <1>12, <1>13, <1>14 DEF Inv

LEMMA LanesRenewed ==
  ASSUME Inv, PairRespawn \/ SaveConfig \/ Restart
  PROVE  Inv'
<1>0. /\ authLost \in BOOLEAN /\ check \in {"none", "valid", "rejected"} /\ events \in Nat
  BY DEF Inv, TypeOK
<1>1. CASE PairRespawn
  BY <1>0, <1>1, Starts DEF PairRespawn
<1>2. CASE SaveConfig
  BY <1>0, <1>2, Starts, SMT DEF SaveConfig, Happens
<1>3. CASE Restart
  <2>1. /\ Start([w \in Worker |-> Dead]) /\ pairing' = "none" /\ check' = "none"
        /\ UNCHANGED <<outbox, token, server, account>>
    BY <1>3 DEF Restart
  <2>0. authLost' = FALSE /\ events' = events + 1
    BY <1>3 DEF Restart, Happens
  <2>2. authLost' \in BOOLEAN
    BY <2>0
  <2>3. events' \in Nat
    <3>1. events' = events + 1
      BY <2>0
    <3>. QED
      BY <1>0, <3>1, SMT
  <2>. QED
    BY <2>1, <2>2, <2>3, Starts
<1>. QED
  BY <1>1, <1>2, <1>3

\* A new device: nothing the lanes do, or have done, is of it.
LEMMA DevicePaired ==
  ASSUME Inv, PairSave
  PROVE  Inv'
<1>1. /\ newest \in Nat /\ newest' = newest + 1 /\ newest' \in Device /\ token' = newest'
      /\ \A d \in Device : d \in Nat
      /\ UNCHANGED <<outbox, gen, wk, reqs, server>> /\ pairing' = "saved"
  BY OutboxAssumption, SMT DEF Inv, TypeOK, PairSave, Device
<1>2. TypeOK'
  <2>1. events' \in Nat /\ token' \in 0 .. MaxDevice /\ syncOff' \subseteq Device
    BY <1>1, SMT DEF Inv, TypeOK, PairSave, Happens, Device
  <2>. QED
    BY <1>1, <2>1 DEF Inv, TypeOK, PairSave, outbox, server
<1>3. ASSUME NEW u \in Worker, wk[u].pc # "dead"
      PROVE  wk[u].tok \in 1 .. newest' /\ wk[u].tok # newest'
  BY <1>1, <1>3, SMT DEF Inv, WorkerInv
<1>4. ASSUME NEW q \in reqs
      PROVE  q.tok \in 1 .. newest' /\ q.tok # newest'
  BY <1>1, SMT DEF Inv, RequestInv
<1>5. hi[newest'] = 0 /\ newest' \notin gaps
  BY <1>1, SMT DEF Inv, LaneInv
<1>6. WorkerInv'
  BY <1>1, <1>3 DEF Inv, WorkerInv, outbox
<1>7. RequestInv'
  BY <1>1, <1>4 DEF Inv, RequestInv, Handled, outbox, server
<1>8. LinkInv' /\ StackInv'
  BY <1>1 DEF Inv, LinkInv, Current, Waiting, StackInv, StackAscending
<1>9. Unheard'
  BY <1>1, <1>3, <1>4, <1>5 DEF Unheard, server
<1>10. LaneInv'
  <2>1. ASSUME NEW d \in Device, d > newest' PROVE hi'[d] = 0 /\ d \notin gaps'
    BY <1>1, <2>1, SMT DEF Inv, LaneInv, server
  <2>2. ASSUME NEW u \in Worker, Current(u)' PROVE u[2] = gen'
    BY <1>1, <2>2 DEF Inv, LaneInv, Current
  <2>. QED
    BY <1>1, <1>9, <2>1, <2>2 DEF LaneInv
<1>11. ReplyInv'
  <2>1. ASSUME NEW u \in Worker, Won(u) PROVE wk[u].tok # newest'
    BY <1>3, <2>1 DEF Won
  <2>. QED
    BY <1>1, <2>1 DEF Inv, ReplyInv, Replied, Won, Handled, server
<1>12. OldInv' /\ CounterInv' /\ NoFalseGap'
  BY <1>1, <1>4, <1>5 DEF OldInv, CounterInv, NoFalseGap, server
<1>13. RowInv'
  BY <1>1, RowsKept DEF outbox, server
<1>. QED
  BY <1>2, <1>6, <1>7, <1>8, <1>10, <1>11, <1>12, <1>13 DEF Inv

-----------------------------------------------------------------------------
(* Steps outside the lanes                                                 *)

\* Neither the lanes, the requests nor what the server has seen change.
LEMMA Outside ==
  ASSUME Inv, TypeOK', RowInv', UNCHANGED <<counter, token, gen, wk, reqs, server, newest>>,
         pairing' = "none" => pairing = "none"
  PROVE  Inv'
<1>1. WorkerInv' /\ RequestInv' /\ LinkInv'
  BY DEF Inv, WorkerInv, RequestInv, LinkInv, Current, Waiting, Handled, server
<1>2. LaneInv'
  BY DEF Inv, LaneInv, Current, Unheard, server
<1>3. ReplyInv' /\ OldInv' /\ CounterInv'
  BY DEF Inv, ReplyInv, OldInv, CounterInv, Replied, Won, Current, Waiting, Handled, server
<1>4. StackInv' /\ NoFalseGap'
  BY DEF Inv, StackInv, StackAscending, NoFalseGap, server
<1>. QED
  BY <1>1, <1>2, <1>3, <1>4 DEF Inv

\* The account check, the reset of auth_lost, and the user's settings.
LEMMA SettingsChanged ==
  ASSUME Inv,
         \/ PairReset \/ CheckAccount \/ CheckAnswered \/ SetRestricted
         \/ \E d \in Device : RevokeDevice(d) \/ SetSyncEnabled(d)
  PROVE  Inv'
<1>1. TypeOK'
  <2>0. events \in Nat /\ events + 1 \in Nat
    BY SMT DEF Inv, TypeOK
  <2>1. CASE PairReset
    BY <2>1 DEF Inv, TypeOK, PairReset, outbox, server, account
  <2>2. CASE CheckAccount
    BY <2>0, <2>2 DEF Inv, TypeOK, CheckAccount, Happens, outbox, server, account
  <2>3. CASE CheckAnswered
    BY <2>3 DEF Inv, TypeOK, CheckAnswered, outbox, server, account
  <2>4. CASE SetRestricted
    BY <2>0, <2>4 DEF Inv, TypeOK, SetRestricted, Operator, Happens, tray, server
  <2>5. ASSUME NEW d \in Device, RevokeDevice(d) \/ SetSyncEnabled(d) PROVE TypeOK'
    BY <2>0, <2>5 DEF Inv, TypeOK, RevokeDevice, SetSyncEnabled, Operator, Happens, tray, server
  <2>. QED
    BY <2>1, <2>2, <2>3, <2>4, <2>5
<1>2. /\ UNCHANGED <<row, counter, token, gen, wk, reqs, server, newest>>
      /\ pairing' \in {pairing, "reset"}
  BY DEF PairReset, CheckAccount, CheckAnswered, SetRestricted, RevokeDevice, SetSyncEnabled,
         Operator, outbox, tray, account
<1>3. RowInv'
  BY <1>2, RowsKept DEF server
<1>. QED
  BY <1>1, <1>2, <1>3, Outside

\* A row becomes unsent: a new line, a release or a requeue.
LEMMA RowsUnsent ==
  ASSUME Inv,
         \/ \E i \in Id : InsertEvent(i)
         \/ ReleaseQuarantined
         \/ \E l \in Lane : RequeueSent(l)
  PROVE  Inv'
<1>0. events \in Nat /\ events + 1 \in Nat /\ row \in [Id -> {"absent", "unsent", "sent", "quarantined"}]
  BY SMT DEF Inv, TypeOK
<1>1. /\ row' \in [Id -> {"absent", "unsent", "sent", "quarantined"}]
      /\ \A i \in Id : row'[i] \in {row[i], "unsent"}
  <2>1. ASSUME NEW i \in Id, InsertEvent(i)
        PROVE  /\ row' \in [Id -> {"absent", "unsent", "sent", "quarantined"}]
               /\ \A j \in Id : row'[j] \in {row[j], "unsent"}
    BY <1>0, <2>1 DEF InsertEvent
  <2>2. CASE ReleaseQuarantined
    BY <1>0, <2>2 DEF ReleaseQuarantined
  <2>3. ASSUME NEW l \in Lane, RequeueSent(l)
        PROVE  /\ row' \in [Id -> {"absent", "unsent", "sent", "quarantined"}]
               /\ \A j \in Id : row'[j] \in {row[j], "unsent"}
    BY <1>0, <2>3 DEF RequeueSent
  <2>. QED
    BY <2>1, <2>2, <2>3
<1>2. /\ UNCHANGED <<counter, tray, wk, reqs, server, newest, revoked, restricted, syncOff>>
      /\ events' \in Nat
  BY <1>0 DEF InsertEvent, ReleaseQuarantined, RequeueSent, Operator, Happens, account
<1>3. TypeOK'
  BY <1>1, <1>2 DEF Inv, TypeOK, tray, server
<1>4. RowInv'
  BY <1>1, <1>2 DEF Inv, RowInv, AckedIsHandled, QuarantineIsolates, server
<1>. QED
  BY <1>2, <1>3, <1>4, Outside DEF tray

-----------------------------------------------------------------------------
(* The theorems                                                            *)

LEMMA InvInit ==
  ASSUME Init
  PROVE  Inv
<1>1. 1 \in Device /\ 1 \in 0 .. MaxDevice /\ 1 \in 1 .. MaxGen
  BY OutboxAssumption, SMT DEF Device
<1>2. Idle(1) \in WorkerState
  BY <1>1, IdleTyped
<1>3. ASSUME NEW w \in Worker
      PROVE  /\ wk[w] \in WorkerState
             /\ wk[w].stack = <<>> /\ wk[w].batch = {} /\ wk[w].seq = 0 /\ wk[w].reply = "none"
             /\ \/ wk[w].pc = "dead"
                \/ wk[w].pc = "idle" /\ wk[w].tok = 1 /\ w[2] = 1
  <2>1. CASE w[2] = 1
    <3>1. wk[w] = Idle(1)
      BY <2>1 DEF Init
    <3>. QED
      BY <1>2, <2>1, <3>1, SMT DEF Idle
  <2>2. CASE w[2] # 1
    <3>1. wk[w] = Dead
      BY <2>2 DEF Init
    <3>. QED
      BY <3>1, DeadShape
  <2>. QED
    BY <2>1, <2>2
<1>4. TypeOK
  <2>1. wk \in [Worker -> WorkerState]
    <3>1. wk = [w \in Worker |-> wk[w]]
      BY DEF Init
    <3>. QED
      BY <1>3, <3>1
  <2>. QED
    BY <1>1, <2>1 DEF Init, TypeOK
<1>5. WorkerInv
  BY <1>3, SMT DEF WorkerInv, Init
<1>6. RequestInv /\ LinkInv
  BY DEF RequestInv, LinkInv, Init
<1>7. LaneInv
  BY <1>3 DEF LaneInv, Current, Init
<1>8. ReplyInv /\ OldInv
  BY <1>3 DEF ReplyInv, OldInv, Replied, Won, Waiting
<1>9. CounterInv /\ RowInv /\ NoFalseGap
  BY <1>1 DEF CounterInv, RowInv, AckedIsHandled, QuarantineIsolates, NoFalseGap, Init
<1>10. StackInv
  BY <1>3, SMT DEF StackInv, StackAscending
<1>. QED
  BY <1>4, <1>5, <1>6, <1>7, <1>8, <1>9, <1>10 DEF Inv

LEMMA InvStep ==
  ASSUME Inv, Next
  PROVE  Inv'
<1>1. ASSUME NEW w \in Worker, WorkerStep(w) \/ Heartbeat(w) \/ WorkerEnds(w) \/ Timeout(w)
      PROVE  Inv'
  BY <1>1, DrainStarts, WorkerStops, BatchSent, DrainEnds, OkHandled, SequenceCommitted,
     TokenCleared, BatchBisected, RowQuarantined, HeartbeatRefused, TimedOut
     DEF WorkerStep
<1>2. ASSUME NEW q \in reqs, ServerStep(q)
      PROVE  Inv'
  BY <1>2, Gated, Inserted, Observed DEF ServerStep
<1>3. ASSUME PairStep PROVE Inv'
  BY <1>3, SettingsChanged, LanesRenewed DEF PairStep
<1>4. ASSUME Fault PROVE Inv'
  BY <1>4, StorageFailed, Inserted, ObservationFailed, LostRequest, LanesRenewed DEF Fault
<1>5. ASSUME User PROVE Inv'
  BY <1>5, DevicePaired, LanesRenewed, SettingsChanged, RowsUnsent DEF User
<1>6. ASSUME NEW i \in Id, InsertEvent(i) PROVE Inv'
  BY <1>6, RowsUnsent
<1>. QED
  BY <1>1, <1>2, <1>3, <1>4, <1>5, <1>6 DEF Next

LEMMA InvStutters ==
  ASSUME Inv, UNCHANGED vars
  PROVE  Inv'
<1>1. TypeOK' /\ RowInv'
  BY RowsKept DEF vars, outbox, tray, server, account, Inv, TypeOK
<1>. QED
  BY <1>1, Outside DEF vars, outbox, tray, account

LEMMA InvHolds == Spec => []Inv
<1>1. Init => Inv
  BY InvInit
<1>2. Inv /\ [Next]_vars => Inv'
  BY InvStep, InvStutters
<1>. QED
  BY <1>1, <1>2, PTL DEF Spec

\* mark_sent never runs ahead of the server: whatever the lanes, the timeouts,
\* the respawns and the faults do, a row counted as sent was stored, rejected by
\* validation or in an insert whose failure was acknowledged.
THEOREM SentRowsAreHandled == Spec => []AckedIsHandled
<1>1. Inv => AckedIsHandled
  BY DEF Inv, RowInv
<1>. QED
  BY <1>1, InvHolds, PTL

\* commit_batch_sequence on a 2xx only, shared by two lanes, aborted workers
\* and requests given up on: observe_batch_sequence sees no gap in the ordinals
\* of the paired device while its own writes succeed.
THEOREM OrdinalsHaveNoGap == Spec => []NoFalseGap
<1>1. Inv => NoFalseGap
  BY DEF Inv
<1>. QED
  BY <1>1, InvHolds, PTL

\* Bisection, whatever the page, the batch size and the refused rows: only rows
\* the server refuses are set aside, and the stack stays in order and disjoint.
THEOREM BisectionIsSound == Spec => []BisectionSound
<1>1. Inv => BisectionSound
  BY DEF Inv, RowInv, StackInv, BisectionSound
<1>. QED
  BY <1>1, InvHolds, PTL

\* respawn: no row is in two requests that are waited for, and a lane that is
\* not being stopped sends with the stored token.
THEOREM LanesAreSound == Spec => []LanesSound
<1>1. Inv => LanesSound
  <2>. SUFFICES ASSUME Inv PROVE LanesSound
    OBVIOUS
  <2>1. OneSenderPerRow
    <3>. SUFFICES ASSUME NEW q \in reqs, NEW r \in reqs, q.live, r.live, q # r
                  PROVE  q.batch \cap r.batch = {}
      BY DEF OneSenderPerRow
    <3>1. q.w \in Worker /\ r.w \in Worker
      BY DEF Inv, TypeOK, Request
    <3>2. q.w # r.w /\ q.w[2] = gen /\ r.w[2] = gen
      BY <3>1 DEF Inv, LinkInv, LaneInv
    <3>3. q.w[1] # r.w[1] /\ q.w[1] \in Lane /\ r.w[1] \in Lane
      BY <3>1, <3>2, SMT DEF Worker
    <3>4. OfLane(q.w[1]) \cap OfLane(r.w[1]) = {}
      BY <3>3, SMT DEF Lane, OfLane
    <3>. QED
      BY <3>4 DEF Inv, RequestInv
  <2>2. LanesUseStoredToken
    BY DEF Inv, LaneInv, Current, LanesUseStoredToken
  <2>. QED
    BY <2>1, <2>2 DEF Inv, LanesSound
<1>. QED
  BY <1>1, InvHolds, PTL
=============================================================================
