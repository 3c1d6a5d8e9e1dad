------------------------------ MODULE MCLoops ------------------------------
(*************************************************************************)
(* The components whose background loops have to bring something about,  *)
(* side by side: part says which of them a behaviour runs. Most are      *)
(* instances whose variables the registers hold; the others stay in their*)
(* initial states.                                                       *)
(*************************************************************************)
EXTENDS Inference, Donations, EventFolds, Integers, FiniteSets, Sequences, TLC

CONSTANTS Actors, Things, None

VARIABLES part,  \* the component that runs
          r1, r2, r3, r4, r5, r6, r7, r8, r9, r10, r11, r12, r13, r14,
          r15, r16  \* its variables

registers == <<r1, r2, r3, r4, r5, r6, r7, r8, r9, r10, r11, r12, r13, r14, r15, r16>>
unionVars == <<part, registers, inferVars, donationVars, foldVars>>
Nothing == "nothing"

Actor == CHOOSE a \in Actors : TRUE
Thing == CHOOSE t \in Things : TRUE
Number(t) == IF t = Thing THEN 1 ELSE 2

LogLengths == [deaths |-> 3, places |-> 3, shops |-> 3]
StreamLengths == [closing |-> 4, steps |-> 4, lives |-> 3]
ContractIds == <<"m1", "m2">>

F == INSTANCE Friends WITH Players <- Things, Calls <- Actors, MaxCalls <- 2,
    MaxSocialFaults <- 1, pending <- r1, friends <- r2, blocks <- r3, tuples <- r4, rooms <- r5,
    call <- r6, pass <- r7, placed <- r8, socialFaults <- r9, off <- r10, crossed <- r11

H == INSTANCE HandleRename WITH Users <- Actors, Handles <- Things, NoHandle <- None,
    COOLDOWN <- 1, RESERVATION <- 1, MaxRenames <- 2, MaxClock <- 2, MaxMoveFaults <- 1,
    handle <- r1, renames <- r2, claim <- r3, shared <- r4, wants <- r5, mover <- r6,
    clock <- r7, moveFaults <- r8, snatched <- r9, blurred <- r10

P == INSTANCE PresenceHub WITH Trays <- {Actor}, CONNECTION_QUEUE <- 1, MaxHubCalls <- 2,
    MaxHubFaults <- 0, level <- r1, entry <- r2, call <- r3, open <- r4, watch <- r5,
    viewAt <- r6, queue <- r7, seen <- r8, lost <- r9, crossed <- r10, begun <- r11,
    hubFaults <- r12

E == INSTANCE EventCounts WITH Ingests <- Actors, MaxEvents <- 3, MaxErasures <- 1,
    MaxPurges <- 1, MaxCountFaults <- 1, stored <- r1, row <- r2, lock <- r3, tx <- r4,
    sent <- r5, erasures <- r6, purges <- r7, countFaults <- r8, overlapped <- r9, drift <- r10

C == INSTANCE CloudConfig WITH Themes <- Things, NoTheme <- None, MaxSaves <- 2, MaxEdits <- 1,
    MaxPulls <- 1, MaxCfgFaults <- 1, file <- r1, ui <- r2, remote <- r3, gate <- r4,
    saver <- r5, worker <- r6, lane <- r7, focus <- r8, saves <- r9, edits <- r10, pulls <- r11,
    cfgFaults <- r12, seen <- r13, overlap <- r14, chosen <- r15

R == INSTANCE StatRollup WITH Times <- 1 .. 2, Untimed <- {}, Launcher <- {2}, Gap <- 1,
    Readers <- Actors, BatchSize <- 2, BatchCap <- 2, MaxIngests <- 1, MaxDeletes <- 0,
    MaxRollupFaults <- 1, events <- r1, old <- r2, sessions <- r3, runs <- r4, row <- r5,
    dirty <- r6, from <- r7, rd <- r8, moved <- r9, batches <- r10, ingests <- r11,
    deletes <- r12, rollupFaults <- r13, sOff <- r14, cOff <- r15, tainted <- r16

A == INSTANCE AuditChain WITH Replica <- Actors, Handler <- {Thing},
    Background <- Things \ {Thing}, Capacity <- 1, MaxFaults <- 1, log <- r1, nextval <- r2,
    lock <- r3, phase <- r4, queue <- r5, blocked <- r6, pc <- r7, cur <- r8, tail <- r9,
    rowseq <- r10, mirror <- r11, lost <- r12, faults <- r13

InferenceBegins ==
    /\ part = "inference"
    /\ r1 = Nothing /\ r2 = Nothing /\ r3 = Nothing /\ r4 = Nothing /\ r5 = Nothing
    /\ r6 = Nothing /\ r7 = Nothing /\ r8 = Nothing /\ r9 = Nothing /\ r10 = Nothing
    /\ r11 = Nothing /\ r12 = Nothing /\ r13 = Nothing /\ r14 = Nothing /\ r15 = Nothing
    /\ r16 = Nothing
InferenceIdle == UNCHANGED <<part, registers, donationVars, foldVars>>
InferenceSteps == part = "inference" /\ InferNext /\ InferenceIdle

DonationBegins ==
    /\ part = "donations"
    /\ r1 = Nothing /\ r2 = Nothing /\ r3 = Nothing /\ r4 = Nothing /\ r5 = Nothing
    /\ r6 = Nothing /\ r7 = Nothing /\ r8 = Nothing /\ r9 = Nothing /\ r10 = Nothing
    /\ r11 = Nothing /\ r12 = Nothing /\ r13 = Nothing /\ r14 = Nothing /\ r15 = Nothing
    /\ r16 = Nothing
DonationIdle == UNCHANGED <<part, registers, inferVars, foldVars>>
DonationSteps == part = "donations" /\ DonationNext /\ DonationIdle

FoldsBegins ==
    /\ part = "folds"
    /\ r1 = Nothing /\ r2 = Nothing /\ r3 = Nothing /\ r4 = Nothing /\ r5 = Nothing
    /\ r6 = Nothing /\ r7 = Nothing /\ r8 = Nothing /\ r9 = Nothing /\ r10 = Nothing
    /\ r11 = Nothing /\ r12 = Nothing /\ r13 = Nothing /\ r14 = Nothing /\ r15 = Nothing
    /\ r16 = Nothing
FoldsIdle == UNCHANGED <<part, registers, inferVars, donationVars>>
FoldsSteps == part = "folds" /\ FoldNext /\ FoldsIdle

FBegins ==
    /\ part = "friends" /\ F!FriendInit
    /\ r12 = Nothing /\ r13 = Nothing /\ r14 = Nothing /\ r15 = Nothing /\ r16 = Nothing
FIdle == UNCHANGED <<part, r12, r13, r14, r15, r16, inferVars, donationVars, foldVars>>
FSteps == part = "friends" /\ F!FriendNext /\ FIdle

HBegins ==
    /\ part = "rename" /\ H!RenameInit
    /\ r11 = Nothing /\ r12 = Nothing /\ r13 = Nothing /\ r14 = Nothing /\ r15 = Nothing
    /\ r16 = Nothing
HIdle == UNCHANGED <<part, r11, r12, r13, r14, r15, r16, inferVars, donationVars, foldVars>>
HSteps == part = "rename" /\ H!RenameNext /\ HIdle

PBegins ==
    /\ part = "presence" /\ P!HubInit
    /\ r13 = Nothing /\ r14 = Nothing /\ r15 = Nothing /\ r16 = Nothing
PIdle == UNCHANGED <<part, r13, r14, r15, r16, inferVars, donationVars, foldVars>>
PSteps == part = "presence" /\ P!HubNext /\ PIdle

EBegins ==
    /\ part = "counts" /\ E!CountInit
    /\ r11 = Nothing /\ r12 = Nothing /\ r13 = Nothing /\ r14 = Nothing /\ r15 = Nothing
    /\ r16 = Nothing
EIdle == UNCHANGED <<part, r11, r12, r13, r14, r15, r16, inferVars, donationVars, foldVars>>
ESteps == part = "counts" /\ E!CountNext /\ EIdle

CBegins == part = "config" /\ C!CfgInit /\ r16 = Nothing
CIdle == UNCHANGED <<part, r16, inferVars, donationVars, foldVars>>
CSteps == part = "config" /\ C!CfgNext /\ CIdle

RBegins == part = "rollup" /\ R!RollupInit
RIdle == UNCHANGED <<part, inferVars, donationVars, foldVars>>
RSteps == part = "rollup" /\ R!RollupNext /\ RIdle

ABegins ==
    /\ part = "audit" /\ A!Init
    /\ r14 = Nothing /\ r15 = Nothing /\ r16 = Nothing
AIdle == UNCHANGED <<part, r14, r15, r16, inferVars, donationVars, foldVars>>
ASteps == part = "audit" /\ A!Next /\ AIdle

UnionInit ==
    /\ InferInit /\ DonationInit /\ FoldInit
    /\ \/ InferenceBegins
       \/ DonationBegins
       \/ FoldsBegins
       \/ FBegins
       \/ HBegins
       \/ PBegins
       \/ EBegins
       \/ CBegins
       \/ RBegins
       \/ ABegins
    /\ part # "inference" => (path = "live" /\ topic = "deaths")
    /\ part # "folds" => theme = "lives"
    /\ path = "live" \/ topic = "places"
UnionNext ==
    \/ InferenceSteps
    \/ DonationSteps
    \/ FoldsSteps
    \/ FSteps
    \/ HSteps
    \/ PSteps
    \/ ESteps
    \/ CSteps
    \/ RSteps
    \/ ASteps
\* A handler runs on.
HandlerStep(a) ==
    \/ part = "friends" /\ F!CallStep(a) /\ FIdle
    \/ part = "donations" /\ WebhookStep(a) /\ DonationIdle
    \/ part = "rollup" /\ R!Rebuild(a) /\ RIdle
    \/ part = "audit" /\ (A!WriterStep(a) \/ A!SendUnblocks(a)) /\ AIdle

\* The intervals of the background loops never stop.
LoopStep ==
    \/ part = "friends" /\ F!PassStep /\ FIdle
    \/ part = "rename" /\ H!ReconcileStep /\ HIdle
    \/ part = "presence" /\ P!SweepStep /\ PIdle
    \/ part = "counts" /\ E!ReconcileStep /\ EIdle
    \/ part = "config" /\ C!BulkStep /\ CIdle
    \/ part = "rollup" /\ R!IntervalPasses /\ RIdle

\* What was begun goes on: the save, a transaction, the sweep.
BegunStep ==
    \/ part = "counts" /\ E!CommitStep /\ EIdle
    \/ part = "config" /\ C!SaverStep /\ CIdle
    \/ part = "rollup" /\ (R!PurgeBatch \/ R!PurgeFlag) /\ RIdle
FocusStep == part = "config" /\ C!FocusStep /\ CIdle

\* Revolut delivers an event until it is answered; pages are opened again and
\* again.
Again(k) ==
    \/ part = "donations" /\ (\E o \in Orders : Redelivery(<<o, "COMPLETED">>)) /\ DonationIdle
    \/ part = "rollup" /\ (\E a \in Actors : R!EnsureFresh(a, k)) /\ RIdle

UnionFairness ==
    /\ \A a \in Actors : WF_unionVars(HandlerStep(a))
    /\ WF_unionVars(LoopStep) /\ WF_unionVars(BegunStep) /\ WF_unionVars(FocusStep)
    /\ \A k \in R!Kinds : SF_unionVars(Again(k))
UnionSpec == UnionInit /\ [][UnionNext]_unionVars /\ UnionFairness

-----------------------------------------------------------------------------
(* Properties of the components, each about the states of its own.        *)

\* While no handler is at work on a pair, SpiceDB grants the pair's friend
\* tuples exactly if they are friends; a block ends the friendship and the
\* blocker's request, and nothing brings them back; an open direct-message room
\* is between friends.  For the overlaps that are excused see Friends.
FriendsSound == part = "friends" => F!FriendsSound

\* While a handle is held after a rename, no other account has it; when every
\* move has landed, a record is shared exactly if its owner wants it shared, and
\* nothing is shared under a handle given up, although moves fail and are
\* repeated.  For the exceptions see HandleRename.
RenamesSound == part = "rename" => H!RenamesSound

\* While no writer is at work the row is the number of events; for the ways the
\* code itself lets it drift see EventCounts.
CountsSound == part = "counts" => E!CountsSound

\* What the user saves is not written over by a pull of the bulk lane that
\* read the file before: such a pull never outlives the save.  A user who has
\* turned sync off finds it off, unless a pull on launch or focus overlapped
\* the save.
ConfigSound == part = "config" => C!ConfigSound

\* What the background loops bring about once the users rest, whatever was
\* interleaved or lost: friend_sync, the tuples of the friendships; the nightly
\* reconcile, the number of events; the preference pull, the account's
\* settings; ensure_fresh, two clear flags, though each rebuild moves the
\* updated_at that the other has captured.
LoopsConverge ==
    <>[](/\ part = "friends" => F!TuplesMatch
         /\ part = "counts" => E!Healed
         /\ part = "config" => C!PrefsMatch
         /\ part = "rollup" => R!Settled)

\* What somebody waits for: a payment, one of two renames, an entry past its
\* TTL, an entry of the audit log that append has accepted.
Owed(t) ==
    \/ part = "donations" /\ t \in paid
    \/ part = "rename" /\ H!Renamed(Number(t))
    \/ part = "presence" /\ P!Expired
    \/ part = "audit" /\ \E a \in Actors : t \in A!Held(a)
Done(t) ==
    \/ part = "donations" /\ Covered(t)
    \/ part = "rename" /\ H!MoveLanded(Number(t))
    \/ part = "presence" /\ ~P!Expired
    \/ part = "audit" /\ t \in A!Logged \cup r12

\* Every payment becomes coverage, but for a handler that stopped after
\* recording it; every rename's relationships are moved; an entry nobody
\* refreshes is forgotten; and what append accepted becomes a row, or the
\* process or its transaction failed: no writer waits for ever for the lock.
OwedIsDone == \A t \in Things : Owed(t) ~> Done(t)
=============================================================================
