----------------------------- MODULE SyncOutbox -----------------------------
(***************************************************************************)
(* The tray's outbox and the server's ingest                               *)
(* (crates/starstats-client/src/sync.rs, storage.rs, commands.rs and       *)
(* crates/starstats-server/src/ingest.rs, repo.rs).                        *)
(*                                                                         *)
(* Two lanes drain the unsent rows of the SQLite table events: the         *)
(* priority lane those of the priority types, the bulk lane the others.    *)
(* respawn aborts the running workers and starts new ones; an aborted      *)
(* worker stops at its next await, so it may still finish the synchronous  *)
(* code it is in.  A worker is a lane and a generation.                    *)
(*                                                                         *)
(*   idle -StartDrain-> stack -Send-> waiting -HandleOk-> commit           *)
(*     ^                  ^----------CommitSequence--------'               *)
(*                                                                         *)
(* A page, a chunk and a batch hold rows in id order, so each is the set   *)
(* of its ids.  A request the client has given up on may still be served.  *)
(***************************************************************************)
EXTENDS Naturals, Sequences, FiniteSets

CONSTANTS
  MaxId,           \* rows of events are 1 .. MaxId, in insertion order
  Priority,        \* ids of the rows of a priority type
  Poison,          \* ids whose presence makes the server answer 4xx
  Invalid,         \* ids that fail validate_event
  PageSize,        \* rows read per drain
  BatchSize,       \* rows per request (chunk_by_bytes, rows of equal size)
  MaxQuarantines,  \* MAX_QUARANTINES_PER_DRAIN
  MaxGen,          \* bound on respawns and restarts
  MaxDevice,       \* bound on pairings
  Events,          \* the faults and user operations that may happen
  MaxEvents        \* bound on their number

Id == 1 .. MaxId
Lane == {"priority", "bulk"}
Worker == Lane \X (1 .. MaxGen)
Device == 1 .. MaxDevice

ASSUME OutboxAssumption ==
  /\ MaxId \in Nat /\ MaxGen \in Nat \ {0} /\ MaxDevice \in Nat \ {0}
  /\ PageSize \in Nat \ {0} /\ BatchSize \in Nat \ {0}
  /\ MaxQuarantines \in Nat /\ MaxEvents \in Nat
  /\ Priority \subseteq Id /\ Poison \subseteq Id /\ Invalid \subseteq Id

VARIABLES
  row,        \* row[i]: "absent", "unsent", "sent" or "quarantined" (sent_at)
  counter,    \* batch_sequence_counter
  token,      \* the stored device token (its device), 0 when cleared
  authLost,   \* AccountStatus::auth_lost
  pairing,    \* where pair_device is: "none", "saved" or "reset"
  check,      \* account check in flight: "none", "valid" or "rejected"
  gen,        \* generation of the current workers
  wk,         \* wk[w]: the worker's program counter and locals
  reqs,       \* requests the server has not finished
  stored,     \* server: the events table
  rejected,   \* server: rows quarantined by validation
  dropped,    \* rows acknowledged with 200 although their insert failed
  hi,         \* server, hi[d]: device_batch_progress, 0 when there is no row
  gaps,       \* server: devices a batch_sequence gap was reported for
  unseen,     \* server: an observation has failed
  revoked,    \* server: revoked devices
  restricted, \* server: the account is restricted
  syncOff,    \* server: devices with sync disabled
  newest,     \* server: the device paired last
  events      \* number of faults and user operations so far

outbox == <<row, counter>>
tray == <<token, authLost, pairing, check, gen>>
server == <<stored, rejected, dropped, hi, gaps, unseen>>
account == <<revoked, restricted, syncOff, newest>>
vars == <<outbox, tray, wk, reqs, server, account, events>>

Happens(e) == e \in Events /\ events < MaxEvents /\ events' = events + 1

\* A worker between two drains, holding the token of device d, and a dead one.
Idle(d) == [pc |-> "idle", stack |-> <<>>, batch |-> {}, seq |-> 0, reply |-> "none",
            tok |-> d, quar |-> 0, aborted |-> FALSE]
Dead == [Idle(0) EXCEPT !.pc = "dead"]

Init ==
  /\ row = [i \in Id |-> "absent"] /\ counter = 0
  /\ token = 1 /\ authLost = FALSE /\ pairing = "none" /\ check = "none" /\ gen = 1
  /\ wk = [w \in Worker |-> IF w[2] = 1 THEN Idle(1) ELSE Dead]
  /\ reqs = {} /\ stored = {} /\ rejected = {} /\ dropped = {}
  /\ hi = [d \in Device |-> 0] /\ gaps = {} /\ unseen = FALSE
  /\ revoked = {} /\ restricted = FALSE /\ syncOff = {} /\ newest = 1 /\ events = 0

Max2(a, b) == IF a >= b THEN a ELSE b

-----------------------------------------------------------------------------
(* The outbox and the drain                                                *)

\* insert_event: the tail appends the next row.
InsertEvent(i) ==
  /\ row[i] = "absent" /\ \A j \in 1 .. (i - 1) : row[j] # "absent"
  /\ row' = [row EXCEPT ![i] = "unsent"]
  /\ UNCHANGED <<counter, tray, wk, reqs, server, account, events>>

\* Mutant: the bulk lane does not leave the priority types out.
OfLaneOverlapping(l) == IF l = "priority" THEN Priority ELSE Id

OfLane(l) == IF l = "priority" THEN Priority ELSE Id \ Priority

Unsent(l) == {i \in OfLane(l) : row[i] = "unsent"}

Rank(i, S) == Cardinality({j \in S : j < i})

\* read_unsent_filtered: the lane's first PageSize unsent rows by id.
Page(l) == {i \in Unsent(l) : Rank(i, Unsent(l)) < PageSize}

\* chunk_by_bytes, reversed: the loop pops from the end.
Chunks(P) ==
  LET n == (Cardinality(P) + BatchSize - 1) \div BatchSize
  IN  [k \in 1 .. n |-> {i \in P : Rank(i, P) \div BatchSize = n - k}]

\* split_off(len / 2)
Left(S) == {i \in S : Rank(i, S) < Cardinality(S) \div 2}
Right(S) == S \ Left(S)

\* Mutant: the UPDATE has no id list.
MarkEveryRow(S, s) == [i \in Id |-> IF row[i] = "unsent" THEN s ELSE row[i]]

Mark(S, s) == [i \in Id |-> IF i \in S /\ row[i] = "unsent" THEN s ELSE row[i]]

\* What a worker's own step leaves alone.
WorkerOnly == UNCHANGED <<outbox, tray, reqs, server, account, events>>

GoTo(w, p) == wk' = [wk EXCEPT ![w].pc = p]

\* Mutant: the quarantine cap counts over the worker's life.
EndDrainKeepsCount(w) ==
  wk' = [wk EXCEPT ![w] = [Idle(wk[w].tok) EXCEPT !.aborted = wk[w].aborted, !.quar = wk[w].quar]]

\* The drain returns: its locals are gone.
EndDrain(w) == wk' = [wk EXCEPT ![w] = [Idle(wk[w].tok) EXCEPT !.aborted = wk[w].aborted]]

Idling(w) == wk[w].pc = "idle" /\ ~wk[w].aborted

StartDrain(w) ==
  /\ Idling(w) /\ ~authLost /\ Unsent(w[1]) # {}
  /\ wk' = [wk EXCEPT ![w].pc = "stack", ![w].stack = Chunks(Page(w[1]))]
  /\ WorkerOnly

\* The bulk lane's idle heartbeat: /v1/auth/me rejects its token.
Heartbeat(w) ==
  /\ Idling(w) /\ ~authLost
  /\ w[1] = "bulk" /\ Unsent("bulk") = {} /\ wk[w].tok \in revoked
  /\ wk' = [wk EXCEPT ![w].pc = "waiting", ![w].reply = "auth"]
  /\ WorkerOnly

\* auth_lost at the top of the loop: the worker exits.
LaneExits(w) ==
  /\ Idling(w) /\ authLost
  /\ wk' = [wk EXCEPT ![w] = Dead]
  /\ WorkerOnly

\* Mutant: the ordinal is consumed when it is read.
SendConsumes(w) ==
  LET stack == wk[w].stack
      b == stack[Len(stack)]
  IN  /\ wk[w].pc = "stack" /\ stack # <<>>
      /\ wk' = [wk EXCEPT ![w].pc = "waiting", ![w].reply = "none", ![w].batch = b,
                          ![w].seq = counter + 1,
                          ![w].stack = SubSeq(stack, 1, Len(stack) - 1)]
      /\ counter' = counter + 1
      /\ reqs' = reqs \cup {[w |-> w, tok |-> wk[w].tok, batch |-> b, seq |-> counter + 1,
                             at |-> "gate", live |-> ~wk[w].aborted]}
      /\ UNCHANGED <<row, tray, server, account, events>>

\* peek_next_batch_sequence and the POST of the batch on top of the stack.  An
\* aborted worker still gets as far as handing over the request.
Send(w) ==
  LET stack == wk[w].stack
      b == stack[Len(stack)]
  IN  /\ wk[w].pc = "stack" /\ stack # <<>>
      /\ wk' = [wk EXCEPT ![w].pc = "waiting", ![w].reply = "none", ![w].batch = b,
                          ![w].seq = counter + 1,
                          ![w].stack = SubSeq(stack, 1, Len(stack) - 1)]
      /\ reqs' = reqs \cup {[w |-> w, tok |-> wk[w].tok, batch |-> b, seq |-> counter + 1,
                             at |-> "gate", live |-> ~wk[w].aborted]}
      /\ UNCHANGED <<outbox, tray, server, account, events>>

FinishDrain(w) ==
  /\ wk[w].pc = "stack" /\ wk[w].stack = <<>>
  /\ EndDrain(w)
  /\ WorkerOnly

-----------------------------------------------------------------------------
(* The reply.  Between a reply and the next await a worker runs code that  *)
(* respawn cannot interrupt, so these steps are open to aborted workers.   *)

Replied(w, r) == wk[w].pc = "waiting" /\ wk[w].reply = r

\* Mutant: the rows are marked although the send failed.
HandleOkAnyReply(w) ==
  /\ Replied(w, "ok") \/ Replied(w, "transient")
  /\ row' = Mark(wk[w].batch, "sent")
  /\ GoTo(w, "commit")
  /\ UNCHANGED <<counter, tray, reqs, server, account, events>>

\* mark_sent: only rows whose sent_at is still NULL.
HandleOk(w) ==
  /\ Replied(w, "ok")
  /\ row' = Mark(wk[w].batch, "sent")
  /\ GoTo(w, "commit")
  /\ UNCHANGED <<counter, tray, reqs, server, account, events>>

\* commit_batch_sequence: MAX(value, seq).
CommitSequence(w) ==
  /\ wk[w].pc = "commit"
  /\ counter' = Max2(counter, wk[w].seq)
  /\ GoTo(w, "stack")
  /\ UNCHANGED <<row, tray, reqs, server, account, events>>

\* A SQLite error: that of mark_sent or mark_quarantined ends the drain, that of
\* commit_batch_sequence is only logged.
StorageFails(w) ==
  /\ Happens("storage")
  /\ \/ Replied(w, "ok") /\ EndDrain(w)
     \/ Replied(w, "bad") /\ Cardinality(wk[w].batch) = 1 /\ EndDrain(w)
     \/ wk[w].pc = "commit" /\ GoTo(w, "stack")
  /\ UNCHANGED <<outbox, tray, reqs, server, account>>

\* 401, or a 403 other than device_sync_disabled: clear_persisted_device_token
\* clears whatever token is stored ...
ClearToken(w) ==
  /\ Replied(w, "auth")
  /\ token' = 0
  /\ GoTo(w, "cleared")
  /\ UNCHANGED <<outbox, authLost, pairing, check, gen, reqs, server, account, events>>

\* ... and then auth_lost is set.
SetAuthLost(w) ==
  /\ wk[w].pc = "cleared"
  /\ authLost' = TRUE
  /\ EndDrain(w)
  /\ UNCHANGED <<outbox, token, pairing, check, gen, reqs, server, account, events>>

\* device_sync_disabled, a transport error, a timeout or a 5xx: the drain
\* ends; the rows stay unsent.
HandleBail(w) ==
  /\ Replied(w, "sync_disabled") \/ Replied(w, "transient")
  /\ EndDrain(w)
  /\ WorkerOnly

\* Any other 4xx for several rows: both halves are retried, the left one first.
Bisect(w) ==
  LET b == wk[w].batch
  IN  /\ Replied(w, "bad") /\ Cardinality(b) > 1
      /\ wk' = [wk EXCEPT ![w].pc = "stack",
                          ![w].stack = Append(Append(@, Right(b)), Left(b))]
      /\ WorkerOnly

\* Any other 4xx for one row: mark_quarantined, unless the cap is reached.
Quarantine(w) ==
  /\ Replied(w, "bad") /\ Cardinality(wk[w].batch) = 1
  /\ IF wk[w].quar >= MaxQuarantines
     THEN EndDrain(w) /\ UNCHANGED row
     ELSE /\ row' = Mark(wk[w].batch, "quarantined")
          /\ wk' = [wk EXCEPT ![w].pc = "stack", ![w].quar = @ + 1]
  /\ UNCHANGED <<counter, tray, reqs, server, account, events>>

\* An aborted worker reaches an await.
WorkerEnds(w) ==
  /\ wk[w].aborted
  /\ wk' = [wk EXCEPT ![w] = Dead]
  /\ WorkerOnly

-----------------------------------------------------------------------------
(* ingest::handle, one request of a worker                                 *)

ClientSide == <<outbox, tray>>

\* The reply reaches the worker unless it has given up on this request.
Answer(q, r) ==
  /\ reqs' = reqs \ {q}
  /\ wk' = IF q.live THEN [wk EXCEPT ![q.w].reply = r] ELSE wk

GoOn(q, stage) ==
  /\ reqs' = (reqs \ {q}) \cup {[q EXCEPT !.at = stage]}
  /\ UNCHANGED wk

\* Token, restriction guard, body extractor and sync gate, in this order.
Verdict(q) ==
  IF q.tok \in revoked \/ restricted THEN "auth"
  ELSE IF q.batch \cap Poison # {} THEN "bad"
  ELSE IF q.tok \in syncOff THEN "sync_disabled"
  ELSE "pass"

Gate(q) ==
  /\ q.at = "gate"
  /\ IF Verdict(q) = "pass" THEN GoOn(q, "insert") ELSE Answer(q, Verdict(q))
  /\ UNCHANGED <<ClientSide, server, account, events>>

\* insert_batch: one transaction for the valid rows; invalid ones are
\* quarantined on the server.
InsertBatch(q) ==
  /\ q.at = "insert"
  /\ stored' = stored \cup (q.batch \ Invalid)
  /\ rejected' = rejected \cup (q.batch \cap Invalid)
  /\ GoOn(q, "observe")
  /\ UNCHANGED <<ClientSide, dropped, hi, gaps, unseen, account, events>>

\* The transaction fails: logged, counted as rejected_insert, and the request
\* goes on to its 200.
InsertFails(q) ==
  /\ q.at = "insert" /\ Happens("insert")
  /\ dropped' = dropped \cup (q.batch \ (Invalid \cup stored))
  /\ rejected' = rejected \cup (q.batch \cap Invalid)
  /\ GoOn(q, "observe")
  /\ UNCHANGED <<ClientSide, stored, hi, gaps, unseen, account>>

\* classify_batch_sequence against the device's high-water mark.
Gapped(prev, seq) == prev # 0 /\ seq > prev + 1

\* Mutant: a late batch moves the high-water mark back.
ObserveOverwrites(q) ==
  /\ q.at = "observe"
  /\ gaps' = IF Gapped(hi[q.tok], q.seq) THEN gaps \cup {q.tok} ELSE gaps
  /\ hi' = [hi EXCEPT ![q.tok] = q.seq]
  /\ Answer(q, "ok")
  /\ UNCHANGED <<ClientSide, stored, rejected, dropped, unseen, account, events>>

\* observe_batch_sequence (GREATEST), the audit entry, and the 200.
Observe(q) ==
  /\ q.at = "observe"
  /\ gaps' = IF Gapped(hi[q.tok], q.seq) THEN gaps \cup {q.tok} ELSE gaps
  /\ hi' = [hi EXCEPT ![q.tok] = Max2(@, q.seq)]
  /\ Answer(q, "ok")
  /\ UNCHANGED <<ClientSide, stored, rejected, dropped, unseen, account, events>>

ObserveFails(q) ==
  /\ q.at = "observe" /\ Happens("observe")
  /\ unseen' = TRUE
  /\ Answer(q, "ok")
  /\ UNCHANGED <<ClientSide, stored, rejected, dropped, hi, gaps, account>>

\* The request, or the server process, is lost; a handler whose client hung
\* up may be dropped at any await.
RequestLost(q) ==
  /\ IF q.live THEN Happens("lost") ELSE UNCHANGED events
  /\ reqs' = reqs \ {q}
  /\ UNCHANGED <<ClientSide, wk, server, account>>

\* The requests once the workers of W no longer wait for theirs.
Abandoned(W) == {[q EXCEPT !.live = q.live /\ q.w \notin W] : q \in reqs}

\* The client's 30 s timeout or a broken connection.
Timeout(w) ==
  /\ Replied(w, "none") /\ ~wk[w].aborted
  /\ IF \E q \in reqs : q.w = w /\ q.live THEN Happens("timeout") ELSE UNCHANGED events
  /\ wk' = [wk EXCEPT ![w].reply = "transient"]
  /\ reqs' = Abandoned({w})
  /\ UNCHANGED <<ClientSide, server, account>>

-----------------------------------------------------------------------------
(* Pairing, respawn and restart                                            *)

\* A worker inside synchronous code survives its abort until the next await.
Running(w) == wk[w].pc \in {"stack", "commit", "cleared"}
              \/ (wk[w].pc = "waiting" /\ wk[w].reply # "none")

Aborted(w) == IF Running(w) THEN [wk[w] EXCEPT !.aborted = TRUE] ELSE Dead

\* start: both lanes with the stored token, none when there is no token.
Started(w) == w[2] = gen + 1 /\ token # 0

Start(old) ==
  /\ gen < MaxGen /\ gen' = gen + 1
  /\ wk' = [w \in Worker |-> IF Started(w) THEN Idle(token) ELSE old[w]]
  /\ reqs' = Abandoned(Worker)

Respawn == Start([w \in Worker |-> Aborted(w)])

\* pair_device: the code is redeemed and the token stored.  A new device has
\* sync disabled until the user enables it.
PairSave ==
  /\ pairing = "none" /\ newest < MaxDevice /\ gen < MaxGen /\ Happens("pair")
  /\ newest' = newest + 1
  /\ syncOff' = syncOff \cup {newest + 1}
  /\ token' = newest + 1
  /\ pairing' = "saved"
  /\ UNCHANGED <<outbox, authLost, check, gen, wk, reqs, server, revoked, restricted>>

PairReset ==
  /\ pairing = "saved"
  /\ authLost' = FALSE
  /\ pairing' = "reset"
  /\ UNCHANGED <<outbox, token, check, gen, wk, reqs, server, account, events>>

PairRespawn ==
  /\ pairing = "reset"
  /\ pairing' = "none"
  /\ Respawn
  /\ UNCHANGED <<outbox, token, authLost, check, server, account, events>>

\* save_config and set_sync_preset.
SaveConfig ==
  /\ pairing = "none" /\ Happens("save")
  /\ Respawn
  /\ UNCHANGED <<outbox, token, authLost, pairing, check, server, account>>

\* The tray exits or crashes at any point and is started again.
Restart ==
  /\ Happens("restart")
  /\ Start([w \in Worker |-> Dead])
  /\ authLost' = FALSE /\ pairing' = "none" /\ check' = "none"
  /\ UNCHANGED <<outbox, token, server, account>>

\* refresh_account_info, and the check at startup: GET /v1/auth/me with the
\* stored token ...
CheckAccount ==
  /\ check = "none" /\ token # 0 /\ Happens("check")
  /\ check' = IF token \in revoked THEN "rejected" ELSE "valid"
  /\ UNCHANGED <<outbox, token, authLost, pairing, gen, wk, reqs, server, account>>

\* ... whose answer overwrites auth_lost.
CheckAnswered ==
  /\ check # "none"
  /\ authLost' = (check = "rejected")
  /\ check' = "none"
  /\ UNCHANGED <<outbox, token, pairing, gen, wk, reqs, server, account, events>>

-----------------------------------------------------------------------------
(* The user, on the tray and on the web                                    *)

Operator(e) == Happens(e) /\ UNCHANGED <<counter, tray, wk, reqs, server, newest>>

RevokeDevice(d) ==
  /\ d <= newest /\ d \notin revoked /\ Operator("revoke")
  /\ revoked' = revoked \cup {d}
  /\ UNCHANGED <<row, restricted, syncOff>>

\* A moderator restricts the account or lifts the restriction.
SetRestricted ==
  /\ Operator("restrict")
  /\ restricted' = ~restricted
  /\ UNCHANGED <<row, revoked, syncOff>>

SetSyncEnabled(d) ==
  /\ d <= newest /\ d \notin revoked /\ Operator("sync")
  /\ syncOff' = IF d \in syncOff THEN syncOff \ {d} ELSE syncOff \cup {d}
  /\ UNCHANGED <<row, revoked, restricted>>

ReleaseQuarantined ==
  /\ \E i \in Id : row[i] = "quarantined"
  /\ Operator("release")
  /\ row' = [i \in Id |-> IF row[i] = "quarantined" THEN "unsent" ELSE row[i]]
  /\ UNCHANGED <<revoked, restricted, syncOff>>

\* requeue_missing_events, for the types of one lane.
RequeueSent(l) ==
  /\ \E i \in OfLane(l) : row[i] = "sent"
  /\ Operator("requeue")
  /\ row' = [i \in Id |-> IF i \in OfLane(l) /\ row[i] = "sent" THEN "unsent" ELSE row[i]]
  /\ UNCHANGED <<revoked, restricted, syncOff>>

-----------------------------------------------------------------------------
WorkerStep(w) ==
  \/ StartDrain(w) \/ LaneExits(w) \/ Send(w) \/ FinishDrain(w)
  \/ HandleOk(w) \/ CommitSequence(w) \/ ClearToken(w) \/ SetAuthLost(w)
  \/ HandleBail(w) \/ Bisect(w) \/ Quarantine(w)

ServerStep(q) == Gate(q) \/ InsertBatch(q) \/ Observe(q)

PairStep == PairReset \/ PairRespawn

Fault ==
  \/ \E w \in Worker : StorageFails(w)
  \/ \E q \in reqs : InsertFails(q) \/ ObserveFails(q) \/ RequestLost(q)
  \/ Restart

User ==
  \/ PairSave \/ SaveConfig \/ CheckAccount \/ CheckAnswered
  \/ \E d \in Device : RevokeDevice(d) \/ SetSyncEnabled(d)
  \/ SetRestricted \/ ReleaseQuarantined
  \/ \E l \in Lane : RequeueSent(l)

Next ==
  \/ \E i \in Id : InsertEvent(i)
  \/ \E w \in Worker : WorkerStep(w) \/ Heartbeat(w) \/ WorkerEnds(w) \/ Timeout(w)
  \/ \E q \in reqs : ServerStep(q)
  \/ PairStep \/ Fault \/ User

Spec == Init /\ [][Next]_vars

\* The lanes are driven by a timer, the server answers or the client times
\* out, and pair_device runs to its end.
Fairness ==
  /\ \A w \in Worker : WF_vars(WorkerStep(w)) /\ WF_vars(Timeout(w))
  /\ WF_vars(\E q \in reqs : ServerStep(q))
  /\ WF_vars(PairStep)

FairSpec == Spec /\ Fairness

-----------------------------------------------------------------------------
Request == [w : Worker, tok : Device, batch : SUBSET Id, seq : Nat,
            at : {"gate", "insert", "observe"}, live : BOOLEAN]

WorkerState ==
  [pc : {"idle", "stack", "waiting", "commit", "cleared", "dead"},
   stack : Seq(SUBSET Id), batch : SUBSET Id, seq : Nat,
   reply : {"none", "ok", "auth", "sync_disabled", "bad", "transient"},
   tok : 0 .. MaxDevice, quar : Nat, aborted : BOOLEAN]

\* Type invariant.
TypeOK ==
  /\ row \in [Id -> {"absent", "unsent", "sent", "quarantined"}]
  /\ counter \in Nat /\ token \in 0 .. MaxDevice /\ authLost \in BOOLEAN
  /\ pairing \in {"none", "saved", "reset"} /\ check \in {"none", "valid", "rejected"}
  /\ gen \in 1 .. MaxGen
  /\ wk \in [Worker -> WorkerState]
  /\ reqs \subseteq Request
  /\ stored \subseteq Id /\ rejected \subseteq Id /\ dropped \subseteq Id
  /\ hi \in [Device -> Nat] /\ gaps \subseteq Device /\ unseen \in BOOLEAN
  /\ revoked \subseteq Device /\ restricted \in BOOLEAN /\ syncOff \subseteq Device
  /\ newest \in Device /\ events \in Nat

\* A row the outbox counts as sent was dealt with by the server: stored,
\* quarantined there by validation, or part of a failed insert that the server
\* acknowledged.  Late replies, resends, requeues and restarts included.
AckedIsHandled ==
  \A i \in Id : row[i] = "sent" => i \in stored \cup rejected \cup dropped

\* The batch ordinals of the paired device, shared by two lanes and committed
\* only on a 2xx, never look like a lost batch to observe_batch_sequence,
\* unless the server failed to record an observation.
NoFalseGap == newest \in gaps => unseen

\* Bisection quarantines a row only if the server refuses that row alone.
QuarantineIsolates == \A i \in Id : row[i] = "quarantined" => i \in Poison

\* The sub-batches still to be sent in a drain are disjoint and in ascending
\* id order, after chunking and after any number of bisections.
StackAscending ==
  \A w \in Worker : \A k, l \in DOMAIN wk[w].stack : k < l =>
    \A i \in wk[w].stack[k], j \in wk[w].stack[l] : i > j

\* No row is in two requests that a worker still waits for: the lanes split
\* the rows between them, and respawn stops the old lanes first.
OneSenderPerRow ==
  \A q, r \in reqs : q.live /\ r.live /\ q # r => q.batch \cap r.batch = {}

\* The lanes that are not being stopped send with the stored token, whatever
\* respawns, pairings and rejections came before: "Abort first so the old
\* workers stop draining with stale auth" (sync.rs:104-106).
LanesUseStoredToken ==
  pairing = "none" /\ token # 0 =>
    \A w \in Worker : wk[w].pc # "dead" /\ ~wk[w].aborted => wk[w].tok = token

\* What bisection keeps: the rows it sets aside are the refused ones, and the
\* rest goes out in order.
BisectionSound == QuarantineIsolates /\ StackAscending

\* What the lanes keep between them: one sender for a row, and the token of the
\* present pairing.
LanesSound == TypeOK /\ OneSenderPerRow /\ LanesUseStoredToken

Drainable ==
  /\ token # 0 /\ token = newest /\ token \notin revoked \cup syncOff
  /\ ~restricted /\ ~authLost

\* Once the device stays paired with sync enabled, the account unrestricted
\* and auth_lost clear, every unsent row is dealt with again and again: sent or
\* quarantined.
QueueDrains == \A i \in Id : <>[]Drainable => []<>(row[i] # "unsent")

\* sync.rs:11-13: events never get lost.  Stated as: what the outbox counts as
\* sent, the server stored or refused.
NothingLost == \A i \in Id : row[i] = "sent" => i \in stored \cup rejected

\* sync.rs:936-948: sync does not die silently.  With a token stored and
\* auth_lost clear, some lane is running.
NotSilentlyDead ==
  pairing = "none" /\ token # 0 /\ ~authLost
    => \E w \in Worker : wk[w].pc # "dead" /\ ~wk[w].aborted
=============================================================================
