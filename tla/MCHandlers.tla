---------------------------- MODULE MCHandlers ----------------------------
(*************************************************************************)
(* The components whose requests interleave, side by side: part says which*)
(* of them a behaviour runs. Most are instances whose variables the      *)
(* registers hold; the others stay in their initial states.              *)
(*************************************************************************)
EXTENDS LfgBoard, Waitlist, RsiVerify, Integers, FiniteSets, Sequences, TLC

CONSTANTS Actors, Things, None

VARIABLES part,  \* the component that runs
          r1, r2, r3, r4, r5, r6, r7, r8, r9, r10, r11, r12, r13, r14,
          r15, r16  \* its variables

registers == <<r1, r2, r3, r4, r5, r6, r7, r8, r9, r10, r11, r12, r13, r14, r15, r16>>
unionVars == <<part, registers, lfgVars, waitVars, verifyVars>>
Nothing == "nothing"

Handles == Things \cup {Host}
Some == CHOOSE n \in Names : TRUE

H == INSTANCE HandleRename WITH Users <- Actors, Handles <- Handles, NoHandle <- None,
    COOLDOWN <- 1, RESERVATION <- 2, MaxRenames <- 2, MaxClock <- 2, MaxMoveFaults <- 0,
    handle <- r1, renames <- r2, claim <- r3, shared <- r4, wants <- r5, mover <- r6,
    clock <- r7, moveFaults <- r8, snatched <- r9, blurred <- r10

I == INSTANCE HandleIndex WITH Servers <- Actors, Handles <- Handles, NoHandle <- None,
    RESERVATION <- 2, DEVICE_TTL <- 2, LEEWAY <- 1, MaxRenames <- 2, MaxTokens <- 1,
    MaxClock <- 3, MaxIndexFaults <- 1, handle <- r1, log <- r2, index <- r3, reading <- r4,
    unrecorded <- r5, signing <- r6, tokens <- r7, clock <- r8, indexFaults <- r9, asked <- r10,
    caughtUp <- r11, straddled <- r12

P == INSTANCE PresenceHub WITH Trays <- {"tray"}, CONNECTION_QUEUE <- 1, MaxHubCalls <- 3,
    MaxHubFaults <- 0, level <- r1, entry <- r2, call <- r3, open <- r4, watch <- r5,
    viewAt <- r6, queue <- r7, seen <- r8, lost <- r9, crossed <- r10, begun <- r11,
    hubFaults <- r12

R == INSTANCE StatRollup WITH Times <- 1 .. 2, Untimed <- {}, Launcher <- {2}, Gap <- 1,
    Readers <- Actors, BatchSize <- 2, BatchCap <- 2, MaxIngests <- 1, MaxDeletes <- 1,
    MaxRollupFaults <- 1, events <- r1, old <- r2, sessions <- r3, runs <- r4, row <- r5,
    dirty <- r6, from <- r7, rd <- r8, moved <- r9, batches <- r10, ingests <- r11,
    deletes <- r12, rollupFaults <- r13, sOff <- r14, cOff <- r15, tainted <- r16

LfgBegins ==
    /\ part = "lfg"
    /\ r1 = Nothing /\ r2 = Nothing /\ r3 = Nothing /\ r4 = Nothing /\ r5 = Nothing
    /\ r6 = Nothing /\ r7 = Nothing /\ r8 = Nothing /\ r9 = Nothing /\ r10 = Nothing
    /\ r11 = Nothing /\ r12 = Nothing /\ r13 = Nothing /\ r14 = Nothing /\ r15 = Nothing
    /\ r16 = Nothing
LfgIdle == UNCHANGED <<part, registers, waitVars, verifyVars>>
LfgSteps == part = "lfg" /\ LfgNext /\ LfgIdle

WaitBegins ==
    /\ part = "waitlist"
    /\ r1 = Nothing /\ r2 = Nothing /\ r3 = Nothing /\ r4 = Nothing /\ r5 = Nothing
    /\ r6 = Nothing /\ r7 = Nothing /\ r8 = Nothing /\ r9 = Nothing /\ r10 = Nothing
    /\ r11 = Nothing /\ r12 = Nothing /\ r13 = Nothing /\ r14 = Nothing /\ r15 = Nothing
    /\ r16 = Nothing
WaitIdle == UNCHANGED <<part, registers, lfgVars, verifyVars>>
WaitSteps == part = "waitlist" /\ WaitNext /\ WaitIdle

VerifyBegins ==
    /\ part = "verify"
    /\ r1 = Nothing /\ r2 = Nothing /\ r3 = Nothing /\ r4 = Nothing /\ r5 = Nothing
    /\ r6 = Nothing /\ r7 = Nothing /\ r8 = Nothing /\ r9 = Nothing /\ r10 = Nothing
    /\ r11 = Nothing /\ r12 = Nothing /\ r13 = Nothing /\ r14 = Nothing /\ r15 = Nothing
    /\ r16 = Nothing
VerifyIdle == UNCHANGED <<part, registers, lfgVars, waitVars>>
VerifySteps == part = "verify" /\ VerifyNext /\ VerifyIdle

HBegins ==
    /\ part = "rename" /\ H!RenameInit
    /\ r11 = Nothing /\ r12 = Nothing /\ r13 = Nothing /\ r14 = Nothing /\ r15 = Nothing
    /\ r16 = Nothing
HIdle == UNCHANGED <<part, r11, r12, r13, r14, r15, r16, lfgVars, waitVars, verifyVars>>
HSteps == part = "rename" /\ H!RenameNext /\ HIdle

IBegins ==
    /\ part = "index" /\ I!IndexInit
    /\ r13 = Nothing /\ r14 = Nothing /\ r15 = Nothing /\ r16 = Nothing
IIdle == UNCHANGED <<part, r13, r14, r15, r16, lfgVars, waitVars, verifyVars>>
ISteps == part = "index" /\ I!IndexNext /\ IIdle

PBegins ==
    /\ part = "presence" /\ P!HubInit
    /\ r13 = Nothing /\ r14 = Nothing /\ r15 = Nothing /\ r16 = Nothing
PIdle == UNCHANGED <<part, r13, r14, r15, r16, lfgVars, waitVars, verifyVars>>
PSteps == part = "presence" /\ P!HubNext /\ PIdle

RBegins == part = "rollup" /\ R!RollupInit
RIdle == UNCHANGED <<part, lfgVars, waitVars, verifyVars>>
RSteps == part = "rollup" /\ R!RollupNext /\ RIdle

UnionInit ==
    /\ LfgInit /\ WaitInit /\ VerifyInit
    /\ \/ LfgBegins
       \/ WaitBegins
       \/ VerifyBegins
       \/ HBegins
       \/ IBegins
       \/ PBegins
       \/ RBegins
    /\ part # "waitlist" => (cap = 0 /\ ~gate)
    /\ part # "verify" => (handle = Some /\ ~rsiVerified)
UnionNext ==
    \/ LfgSteps
    \/ WaitSteps
    \/ VerifySteps
    \/ HSteps
    \/ ISteps
    \/ PSteps
    \/ RSteps
UnionSpec == UnionInit /\ [][UnionNext]_unionVars

Symmetric == Permutations(Actors) \cup Permutations(Things) \cup Permutations(Posts)

-----------------------------------------------------------------------------
(* Properties of the components, each about the states of its own.        *)

\* While a handle is held after a rename, no other account has it, whatever
\* renames and sign-ups are in flight, and the shares end up under the handle
\* their owner has; for the exceptions see HandleRename.
RenamesSound == part = "rename" => H!RenamesSound

\* On a server whose index has the last rename, every unexpired token acts as
\* the account's current handle, but for a token whose sign-in straddled a
\* rename.
TokensSound == part = "index" => I!TokensSound

\* The hub keeps no more than the stored presence level allows, but while a
\* change of level is being carried out; once every call has ended and every
\* push has arrived, the friend's client shows what the hub holds at the stored
\* level.  For the exceptions see PresenceHub.
PresenceSound == part = "presence" => P!PresenceSound

\* Rollups that are not flagged are those of the stored events, through account
\* deletions, failed rebuilds and failed sweeps.
RollupsSound == part = "rollup" => R!RollupsSound
=============================================================================
