---------------------------- MODULE HandleRename ----------------------------
(***************************************************************************)
(* A player changes the handle every table and every token names them by   *)
(* (handle_renames.rs, handle_rename_routes.rs): the rename transaction    *)
(* and the hold on the old handle, sign-up under a handle (users.rs,       *)
(* auth_routes.rs), and the move of the SpiceDB relationships by the       *)
(* handler and by the reconciler (spicedb.rs).                             *)
(*                                                                         *)
(* Time is counted in cooldowns: one tick is COOLDOWN (30 days) and passes *)
(* between requests.                                                       *)
(***************************************************************************)
EXTENDS Integers, Sequences, FiniteSets

CONSTANTS Users, Handles, NoHandle,
          COOLDOWN, RESERVATION,
          MaxRenames, MaxClock, MaxMoveFaults

VARIABLES handle,     \* users.claimed_handle, NoHandle: no account
          renames,    \* handle_renames, oldest first
          claim,      \* users: rename transaction or sign-up in flight
          shared,     \* SpiceDB: handles whose stats record is shared
          wants,      \* users: whether the last change they made was to share
          mover,      \* the moves under way: each user's handler, the reconciler
          clock, moveFaults,
          snatched, blurred   \* history: see the properties

renameVars == <<handle, renames, claim, shared, wants, mover, clock, moveFaults, snatched, blurred>>

NoClaim == [to |-> NoHandle, at |-> "idle"]
Idle == [todo |-> <<>>, at |-> "idle", has |-> FALSE]
Reconciler == "reconciler"
Movers == Users \cup {Reconciler}

Of(u) == {i \in DOMAIN renames : renames[i].user = u}
Unmoved(u) == {i \in Of(u) : ~renames[i].moved}
Unsettled(u) == Unmoved(u) \cup
    {i \in Of(u) : \E m \in Movers : \E k \in DOMAIN mover[m].todo : mover[m].todo[k] = i}
\* A move away from h is still to land.
Leaving(h) == \E u \in Users : \E i \in Unsettled(u) : renames[i].old = h
Holder(h) == {u \in Users : handle[u] = h}
\* reserved_until > now
Held(i) == clock < renames[i].at + RESERVATION
ReservedFor(h) == {renames[i].user : i \in {j \in DOMAIN renames : renames[j].old = h /\ Held(j)}}

MoveFault == moveFaults < MaxMoveFaults /\ moveFaults' = moveFaults + 1

\* Handle h goes to u while another claim of it is past its first check.
Contested(h, u) ==
    IF \E v \in Users \ {u} : claim[v].to = h /\ claim[v].at \in {"reserved", "commit"}
    THEN {h} ELSE {}

RenameInit ==
    \E u \in Users, h \in Handles :
        /\ handle = [v \in Users |-> IF v = u THEN h ELSE NoHandle]
        /\ renames = <<>> /\ claim = [v \in Users |-> NoClaim]
        /\ shared \in {{}, {h}} /\ wants = [v \in Users |-> v = u /\ shared # {}]
        /\ mover = [m \in Movers |-> Idle]
        /\ clock = 1 /\ moveFaults = 0
        /\ snatched = {} /\ blurred = {}

-----------------------------------------------------------------------------
(* rename: the row is locked, the rules evaluated, the new handle looked   *)
(* for among the users, then among the reservations; then one commit.      *)

evaluate(u, new) ==
    /\ new # handle[u]
    /\ \A i \in Of(u) : clock >= renames[i].at + COOLDOWN

LockRow(u, new) ==
    /\ handle[u] # NoHandle /\ claim[u] = NoClaim /\ mover[u] = Idle
    /\ Len(renames) < MaxRenames /\ evaluate(u, new)
    /\ claim' = [claim EXCEPT ![u] = [to |-> new, at |-> "taken"]]
    /\ UNCHANGED <<handle, renames, shared, wants, mover,
                   clock, moveFaults, snatched, blurred>>

\* Mutant: the reservations are looked at first.
ReservedFirst(u, s) ==
    IF s = "taken" THEN ReservedFor(claim[u].to) \subseteq {u} ELSE Holder(claim[u].to) = {}
Available(u, s) ==
    IF s = "taken" THEN Holder(claim[u].to) = {} ELSE ReservedFor(claim[u].to) \subseteq {u}

CheckHandle(u) ==
    /\ claim[u].at \in {"taken", "reserved"}
    /\ claim' = [claim EXCEPT ![u] =
          IF ~Available(u, @.at) THEN NoClaim
          ELSE [@ EXCEPT !.at = IF @ = "taken" THEN "reserved" ELSE "commit"]]
    /\ UNCHANGED <<handle, renames, shared, wants, mover,
                   clock, moveFaults, snatched, blurred>>

\* The unique index refuses a handle taken meanwhile.
CommitRename(u) ==
    /\ claim[u].at = "commit" /\ claim' = [claim EXCEPT ![u] = NoClaim]
    /\ IF Holder(claim[u].to) # {}
       THEN UNCHANGED <<handle, renames, mover, snatched, blurred>>
       ELSE /\ handle' = [handle EXCEPT ![u] = claim[u].to]
            /\ renames' = Append(renames, [user |-> u, old |-> handle[u], new |-> claim[u].to,
                                           at |-> clock, moved |-> FALSE])
            /\ mover' = [mover EXCEPT ![u] =
                  [todo |-> <<Len(renames) + 1>>, at |-> "read", has |-> FALSE]]
            /\ blurred' = IF Unsettled(u) = {} /\ ~Leaving(claim[u].to) THEN blurred
                          ELSE blurred \cup {u}
            /\ snatched' = snatched \cup Contested(claim[u].to, u)
    /\ UNCHANGED <<shared, wants, clock, moveFaults>>

-----------------------------------------------------------------------------
(* Sign-up: one INSERT, whose WHERE sees the reservations as they were     *)
(* when the statement began; then the relationships left under the handle  *)
(* are deleted.                                                            *)

CreateBegins(u, h) ==
    /\ handle[u] = NoHandle /\ claim[u] = NoClaim /\ ReservedFor(h) = {}
    /\ claim' = [claim EXCEPT ![u] = [to |-> h, at |-> "insert"]]
    /\ UNCHANGED <<handle, renames, shared, wants, mover,
                   clock, moveFaults, snatched, blurred>>

CreateInserts(u) ==
    LET h == claim[u].to
    IN  /\ claim[u].at = "insert"
        /\ IF Holder(h) # {} THEN claim' = [claim EXCEPT ![u] = NoClaim]
                                /\ UNCHANGED <<handle, snatched, blurred>>
           ELSE /\ handle' = [handle EXCEPT ![u] = h]
                /\ claim' = [claim EXCEPT ![u].at = "forget"]
                /\ snatched' = snatched \cup Contested(h, u)
                                 \cup (IF ReservedFor(h) = {} THEN {} ELSE {h})
                /\ blurred' = IF Leaving(h) THEN blurred \cup {u} ELSE blurred
        /\ UNCHANGED <<renames, shared, wants, mover, clock, moveFaults>>

ForgetHandle(u) ==
    /\ claim[u].at = "forget" /\ claim' = [claim EXCEPT ![u] = NoClaim]
    /\ \/ shared' = shared \ {handle[u]} /\ UNCHANGED moveFaults
       \/ MoveFault /\ UNCHANGED shared
    /\ UNCHANGED <<handle, renames, wants, mover, clock,
                   snatched, blurred>>

-----------------------------------------------------------------------------
(* The SpiceDB side.                                                       *)

\* A share given or taken back, under the current handle.  While a move is
\* still to land it may be undone by it.
SetShare(u) ==
    /\ handle[u] # NoHandle /\ claim[u].at # "forget"
    /\ wants' = [wants EXCEPT ![u] = ~@]
    /\ shared' = IF wants[u] THEN shared \ {handle[u]} ELSE shared \cup {handle[u]}
    /\ blurred' = IF Unsettled(u) = {} THEN blurred ELSE blurred \cup {u}
    /\ UNCHANGED <<handle, renames, claim, mover, clock,
                   moveFaults, snatched>>

Moving(m) == renames[Head(mover[m].todo)]
NextMove(m) ==
    IF Len(mover[m].todo) = 1 THEN Idle
    ELSE [todo |-> Tail(mover[m].todo), at |-> "read", has |-> FALSE]

pending_spicedb_moves ==
    SelectSeq([i \in DOMAIN renames |-> i], LAMBDA i : ~renames[i].moved)
PendingMoves ==
    /\ mover[Reconciler] = Idle /\ pending_spicedb_moves # <<>>
    /\ mover' = [mover EXCEPT ![Reconciler] =
          [todo |-> pending_spicedb_moves, at |-> "read", has |-> FALSE]]
    /\ UNCHANGED <<handle, renames, claim, shared, wants,
                   clock, moveFaults, snatched, blurred>>

\* move_handle reads what names the old handle, and writes it under the new.
MoveReads(m) ==
    /\ mover[m].at = "read"
    /\ mover' = [mover EXCEPT ![m].at = "write", ![m].has = Moving(m).old \in shared]
    /\ UNCHANGED <<handle, renames, claim, shared, wants,
                   clock, moveFaults, snatched, blurred>>

\* Mutant: the new relationships are written and the old ones stay.
CopyHandle(r) == shared \cup {r.new}
MoveHandle(r) == (shared \ {r.old}) \cup {r.new}
MoveWrites(m) ==
    /\ mover[m].at = "write"
    /\ shared' = IF mover[m].has THEN MoveHandle(Moving(m)) ELSE shared
    /\ mover' = [mover EXCEPT ![m].at = "mark"]
    /\ UNCHANGED <<handle, renames, claim, wants, clock,
                   moveFaults, snatched, blurred>>

MarkMoved(m) ==
    /\ mover[m].at = "mark"
    /\ renames' = [renames EXCEPT ![Head(mover[m].todo)].moved = TRUE]
    /\ mover' = [mover EXCEPT ![m] = NextMove(m)]
    /\ UNCHANGED <<handle, claim, shared, wants, clock,
                   moveFaults, snatched, blurred>>

\* A move or a mark fails, or the server stops.  A failed move of the
\* reconciler is left to its next pass and the pass goes on; a failed mark
\* ends the pass.
MoveFails(m) ==
    /\ mover[m] # Idle /\ MoveFault
    /\ \/ mover' = [mover EXCEPT ![m] = Idle]
       \/ mover[m].at # "mark" /\ mover' = [mover EXCEPT ![m] = NextMove(m)]
    /\ UNCHANGED <<handle, renames, claim, shared, wants,
                   clock, snatched, blurred>>

-----------------------------------------------------------------------------
CooldownPasses ==
    /\ clock < MaxClock /\ clock' = clock + 1
    /\ \A u \in Users : claim[u] = NoClaim
    /\ \A m \in Movers : mover[m] = Idle
    /\ UNCHANGED <<handle, renames, claim, shared, wants, mover,
                   moveFaults, snatched, blurred>>

-----------------------------------------------------------------------------
MoveStep(m) == MoveReads(m) \/ MoveWrites(m) \/ MarkMoved(m)
ReconcileStep == PendingMoves \/ MoveStep(Reconciler)

RenameNext ==
    \/ \E u \in Users :
        \/ \E h \in Handles : LockRow(u, h) \/ CreateBegins(u, h)
        \/ CheckHandle(u) \/ CommitRename(u)
        \/ CreateInserts(u) \/ ForgetHandle(u) \/ SetShare(u)
    \/ PendingMoves \/ \E m \in Movers : MoveStep(m) \/ MoveFails(m)
    \/ CooldownPasses

RenameSpec == RenameInit /\ [][RenameNext]_renameVars

-----------------------------------------------------------------------------
(* Properties.                                                             *)

\* Type invariant.
RenameTypeOK ==
    /\ handle \in [Users -> Handles \cup {NoHandle}] /\ shared \subseteq Handles
    /\ wants \in [Users -> BOOLEAN]
    /\ \A i \in DOMAIN renames :
         renames[i] \in [user : Users, old : Handles, new : Handles, at : 1 .. MaxClock,
                         moved : BOOLEAN]
    /\ \A u \in Users : claim[u].at \in {"idle", "taken", "reserved", "commit", "insert", "forget"}
    /\ \A m \in Movers : mover[m].at \in {"idle", "read", "write", "mark"}
    /\ clock \in 1 .. MaxClock /\ moveFaults \in 0 .. MaxMoveFaults

\* While a handle is held after a rename, no other account has it, whatever
\* renames and sign-ups are in flight.  Looking for the holder before the
\* reservation is what makes it so: the commit that frees the handle reserves
\* it.  Excused are a sign-up whose INSERT began before that commit and ended
\* after it, and a handle claimed and given up again between the checks and the
\* commit of another rename.
NameIsHeld ==
    \A i \in DOMAIN renames :
        Held(i) => Holder(renames[i].old) \subseteq {renames[i].user}
                      \/ renames[i].old \in snatched

\* When every move has landed, a record is shared exactly if its owner wants it
\* shared, and nothing is shared under a handle given up.  Excused is an owner
\* who changed the share, or was renamed again, while a move was still to land,
\* and one who took a handle whose move was: the late move overwrites them.
SharesFollow ==
    /\ \A u \in Users : Unsettled(u) = {} /\ claim[u].at # "forget"
    /\ blurred = {}
    => shared = {handle[u] : u \in {v \in Users : wants[v]}}

\* A rename, and one whose relationships have been moved.
Renamed(i) == i \in DOMAIN renames
MoveLanded(i) == Renamed(i) /\ renames[i].moved

\* What renames keep: a handle given up is held, and the shares go along.
RenamesSound == RenameTypeOK /\ NameIsHeld /\ SharesFollow
=============================================================================
