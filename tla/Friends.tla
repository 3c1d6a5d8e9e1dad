------------------------------ MODULE Friends ------------------------------
(***************************************************************************)
(* Friendship between players (social_routes.rs, social.rs): requests,     *)
(* friends, blocks, the direct-message room of a pair (chat_rooms.rs), and *)
(* the friend tuples SpiceDB holds beside the friendships table, repaired  *)
(* by the reconcile loop (friend_sync.rs).                                 *)
(*                                                                         *)
(* A handler is the sequence of its awaited steps.  A call in flight holds *)
(* the steps it still has to run, so any two calls, and the loop,          *)
(* interleave at every await.  A step that must land ends the call when it *)
(* fails; a best-effort one is skipped.                                    *)
(***************************************************************************)
EXTENDS Integers, Sequences, FiniteSets

CONSTANTS Players, Calls, MaxCalls, MaxSocialFaults

VARIABLES pending,    \* friend_requests: pending id of <<requester, recipient>>, 0: none
          friends,    \* friendships, a set of pairs
          blocks,     \* user_blocks: <<blocker, blocked>>
          tuples,     \* SpiceDB: user:<p>#friend@user:<q>
          rooms,      \* pairs with an open row of chat_rooms
          call,       \* handlers in flight
          pass,       \* the reconcile pass
          placed, socialFaults,
          off, crossed   \* history: see the properties

friendVars == <<pending, friends, blocks, tuples, rooms, call, pass,
                placed, socialFaults, off, crossed>>
history == <<off, crossed>>

Pairs == {{p, q} : <<p, q>> \in {d \in Players \X Players : d[1] # d[2]}}
Directions == {d \in Players \X Players : d[1] # d[2]}

\* Each friendship is two tuples.
Directed(F) == {d \in Directions : {d[1], d[2]} \in F}
Unordered(D) == {{d[1], d[2]} : d \in D}

-----------------------------------------------------------------------------
(* Handlers: what each awaits, in order.                                   *)

befriend == <<"resolve", "add", "write">>
send_request ==
    <<"are_friends", "you_blocked", "policy", "they_blocked", "reverse", "create">>
accept_request == <<"hidden">> \o befriend
decline_request == <<"hidden", "resolve">>
cancel_request == <<"resolve">>
remove_friend == <<"remove", "erase", "end_dm">>
block_user == <<"block", "remove", "erase", "end_dm", "cancel">>
unblock_user == <<"unblock">>
open_dm == <<"friends_only", "dm_room", "insert">>

Handler == [send |-> send_request, accept |-> accept_request,
            decline |-> decline_request, cancel |-> cancel_request,
            unfriend |-> remove_friend, block |-> block_user,
            unblock |-> unblock_user, dm |-> open_dm]
Ops == DOMAIN Handler
Making == {"send", "accept", "dm"}
Severing == {"unfriend", "block"}

\* Steps whose failure is logged and passed over.
Forgiven(op) == {"write", "erase", "end_dm", "cancel"}
                \cup (IF op = "block" THEN {"remove"} ELSE {})

NoCall == [op |-> "none", by |-> <<>>, req |-> 0, todo |-> <<>>]

Me(c) == call[c].by[1]
Them(c) == call[c].by[2]
Pair(c) == {Me(c), Them(c)}
InFlight(pr) == {c \in Calls : call[c].todo # <<>> /\ Pair(c) = pr}

At(c, step) == call[c].todo # <<>> /\ Head(call[c].todo) = step
Go(c, steps) ==
    call' = [call EXCEPT ![c] = IF steps = <<>> THEN NoCall
                                ELSE [@ EXCEPT !.todo = steps]]
On(c) == Go(c, Tail(call[c].todo))
Return(c) == Go(c, <<>>)

\* The request a call resolves: the other player's, or for cancel one's own.
Direction(c) == IF call[c].op = "cancel" THEN <<Me(c), Them(c)>> ELSE <<Them(c), Me(c)>>

-----------------------------------------------------------------------------
NoPass == [at |-> "idle", seen |-> {}, write |-> {}, delete |-> {}, mends |-> {}]

\* Friendships may be older than the tuples, which the first pass writes.
FriendInit ==
    /\ pending = [d \in Directions |-> 0]
    /\ friends \in SUBSET Pairs /\ blocks = {} /\ tuples = {} /\ rooms = {}
    /\ call = [c \in Calls |-> NoCall] /\ pass = NoPass
    /\ placed = 0 /\ socialFaults = 0
    /\ off = friends /\ crossed = {}

\* A player acts on the other; one who answers a request has seen it pending.
Begin(c, op, d) ==
    /\ call[c].todo = <<>> /\ placed < MaxCalls
    /\ op \in {"accept", "decline"} => pending[<<d[2], d[1]>>] # 0
    /\ op = "cancel" => pending[d] # 0
    /\ placed' = placed + 1
    /\ call' = [call EXCEPT ![c] =
                 [op |-> op, by |-> d, todo |-> Handler[op],
                  req |-> IF op = "cancel" THEN pending[d]
                          ELSE pending[<<d[2], d[1]>>]]]
    /\ LET pr == {d[1], d[2]}
           meets(kind) == \E e \in InFlight(pr) : call[e].op \in kind
       IN  crossed' = IF \/ op \in Making /\ meets(Severing)
                         \/ op \in Severing /\ meets(Making)
                      THEN crossed \cup {pr} ELSE crossed
    /\ UNCHANGED <<pending, friends, blocks, tuples, rooms, pass, socialFaults, off>>

-----------------------------------------------------------------------------
(* Steps that read.                                                        *)

Read == UNCHANGED <<pending, friends, blocks, tuples, rooms, pass, placed,
                    socialFaults, history>>

AreFriends(c) ==
    /\ \/ At(c, "are_friends") /\ (IF Pair(c) \in friends THEN Return(c) ELSE On(c))
       \/ At(c, "friends_only") /\ (IF Pair(c) \in friends THEN On(c) ELSE Return(c))
    /\ Read

IsBlocked(c) ==
    /\ \/ /\ At(c, "you_blocked") \/ At(c, "hidden")
          /\ IF <<Me(c), Them(c)>> \in blocks THEN Return(c) ELSE On(c)
       \/ /\ At(c, "they_blocked")
          /\ IF <<Them(c), Me(c)>> \in blocks THEN Go(c, <<"create">>) ELSE On(c)
    /\ Read

\* The rate limit and the recipient's policy may refuse at any time.
RequestAllowed(c) == At(c, "policy") /\ (On(c) \/ Return(c)) /\ Read

FindReverse(c) ==
    /\ At(c, "reverse")
    /\ LET id == pending[<<Them(c), Me(c)>>]
       IN  IF id = 0 THEN On(c)
           ELSE call' = [call EXCEPT ![c].todo = befriend, ![c].req = id]
    /\ Read

DmRoom(c) ==
    /\ At(c, "dm_room")
    /\ IF Pair(c) \in rooms THEN Return(c) ELSE On(c)
    /\ Read

-----------------------------------------------------------------------------
(* Steps that write.                                                       *)

CreateRequest(c) ==
    /\ At(c, "create") /\ On(c)
    /\ LET d == <<Me(c), Them(c)>>
       IN  pending' = IF pending[d] = 0 THEN [pending EXCEPT ![d] = placed] ELSE pending
    /\ UNCHANGED <<friends, blocks, tuples, rooms, pass, placed, socialFaults, history>>

ResolveRequest(c) ==
    /\ At(c, "resolve")
    /\ IF pending[Direction(c)] # call[c].req THEN Return(c) /\ UNCHANGED pending
       ELSE On(c) /\ pending' = [pending EXCEPT ![Direction(c)] = 0]
    /\ UNCHANGED <<friends, blocks, tuples, rooms, pass, placed, socialFaults, history>>

\* History: the pair becomes `now` friends while the tuple write of an
\* earlier change, or of a pass past its second read, is still to land.
Strays(c, now) ==
    LET pr == Pair(c)
        late == IF now THEN "erase" ELSE "write"
        planned == IF now THEN pass.delete ELSE pass.write
    IN  \/ \E e \in InFlight(pr) \ {c} : At(e, late)
        \/ pass.at = "apply" /\ pr \in planned
MarkOff(pr, stray) ==
    /\ off' = IF stray THEN off \cup {pr} ELSE off
    /\ pass' = IF stray THEN [pass EXCEPT !.mends = @ \ {pr}] ELSE pass

AddFriendship(c) ==
    /\ At(c, "add") /\ On(c)
    /\ friends' = friends \cup {Pair(c)}
    /\ MarkOff(Pair(c), Strays(c, TRUE))
    /\ UNCHANGED <<pending, blocks, tuples, rooms, placed, socialFaults, crossed>>

RemoveFriendship(c) ==
    /\ At(c, "remove")
    /\ IF Pair(c) \notin friends /\ call[c].op = "unfriend" THEN Return(c) ELSE On(c)
    /\ friends' = friends \ {Pair(c)}
    /\ MarkOff(Pair(c), Strays(c, FALSE))
    /\ UNCHANGED <<pending, blocks, tuples, rooms, placed, socialFaults, crossed>>

\* friend_sync::apply: both tuples in one write.
ApplyTuples(c) ==
    /\ \/ At(c, "write") /\ tuples' = tuples \cup Directed({Pair(c)})
       \/ At(c, "erase") /\ tuples' = tuples \ Directed({Pair(c)})
    /\ On(c)
    /\ UNCHANGED <<pending, friends, blocks, rooms, pass, placed, socialFaults, history>>

Block(c) ==
    /\ \/ At(c, "block") /\ blocks' = blocks \cup {<<Me(c), Them(c)>>}
       \/ At(c, "unblock") /\ blocks' = blocks \ {<<Me(c), Them(c)>>}
    /\ On(c)
    /\ UNCHANGED <<pending, friends, tuples, rooms, pass, placed, socialFaults, history>>

CancelPendingBetween(c) ==
    /\ At(c, "cancel") /\ On(c)
    /\ pending' = [d \in Directions |-> IF {d[1], d[2]} = Pair(c) THEN 0 ELSE pending[d]]
    /\ UNCHANGED <<friends, blocks, tuples, rooms, pass, placed, socialFaults, history>>

\* The unique index refuses a second open room of the pair.
InsertRoom(c) ==
    /\ At(c, "insert") /\ On(c)
    /\ rooms' = rooms \cup {Pair(c)}
    /\ UNCHANGED <<pending, friends, blocks, tuples, pass, placed, socialFaults, history>>

EndDm(c) ==
    /\ At(c, "end_dm") /\ On(c)
    /\ rooms' = rooms \ {Pair(c)}
    /\ UNCHANGED <<pending, friends, blocks, tuples, pass, placed, socialFaults, history>>

SocialFault == socialFaults < MaxSocialFaults /\ socialFaults' = socialFaults + 1

\* The awaited store or service fails, or the client goes away and the
\* handler is dropped at the await.
StepFails(c) ==
    /\ call[c].todo # <<>> /\ SocialFault
    /\ \/ Return(c)
       \/ Head(call[c].todo) \in Forgiven(call[c].op) /\ On(c)
    /\ MarkOff(Pair(c), TRUE)
    /\ crossed' = IF call[c].op \in Severing THEN crossed \cup {Pair(c)} ELSE crossed
    /\ UNCHANGED <<pending, friends, blocks, tuples, rooms, placed>>

-----------------------------------------------------------------------------
(* reconcile_once.                                                         *)

\* Mutant: the first error ends the loop.
ListUntilError ==
    /\ pass.at = "idle" /\ socialFaults = 0
    /\ pass' = [NoPass EXCEPT !.at = "read", !.seen = tuples,
                              !.mends = {pr \in Pairs : InFlight(pr) = {}}]
    /\ UNCHANGED <<pending, friends, blocks, tuples, rooms, call, placed,
                   socialFaults, history>>
ListFriendTuples ==
    /\ pass.at = "idle"
    /\ pass' = [NoPass EXCEPT !.at = "read", !.seen = tuples,
                              !.mends = {pr \in Pairs : InFlight(pr) = {}}]
    /\ UNCHANGED <<pending, friends, blocks, tuples, rooms, call, placed,
                   socialFaults, history>>

diff(F, T) == [write |-> Unordered(Directed(F) \ T),
               delete |-> Unordered(T \ Directed(F))]

ListAllFriendships ==
    /\ pass.at = "read"
    /\ LET d == diff(friends, pass.seen)
       IN  IF d.write = {} /\ d.delete = {}
           THEN pass' = NoPass /\ off' = off \ pass.mends
           ELSE /\ pass' = [pass EXCEPT !.at = "reread", !.write = d.write,
                                        !.delete = d.delete]
                /\ UNCHANGED off
    /\ UNCHANGED <<pending, friends, blocks, tuples, rooms, call, placed,
                   socialFaults, crossed>>

\* Mutant: the pass acts on its first read.
Stale(F) == [pass EXCEPT !.at = "apply"]
Fresh(F) == [pass EXCEPT !.at = "apply", !.write = @ \cap F, !.delete = @ \ F]
Reread ==
    /\ pass.at = "reread" /\ pass' = Fresh(friends)
    /\ UNCHANGED <<pending, friends, blocks, tuples, rooms, call, placed,
                   socialFaults, history>>

PassApplies ==
    /\ pass.at = "apply"
    /\ \/ \E pr \in pass.write :
            /\ tuples' = tuples \cup Directed({pr})
            /\ pass' = [pass EXCEPT !.write = @ \ {pr}] /\ UNCHANGED off
       \/ \E pr \in pass.delete :
            /\ pass.write = {}
            /\ tuples' = tuples \ Directed({pr})
            /\ pass' = [pass EXCEPT !.delete = @ \ {pr}] /\ UNCHANGED off
       \/ /\ pass.write = {} /\ pass.delete = {}
          /\ pass' = NoPass /\ off' = off \ pass.mends /\ UNCHANGED tuples
    /\ UNCHANGED <<pending, friends, blocks, rooms, call, placed, socialFaults, crossed>>

\* A read or a write of the pass fails: it is abandoned to the next tick.
PassFails ==
    /\ pass.at # "idle" /\ SocialFault /\ pass' = NoPass
    /\ UNCHANGED <<pending, friends, blocks, tuples, rooms, call, placed, history>>

-----------------------------------------------------------------------------
CallStep(c) ==
    \/ AreFriends(c) \/ IsBlocked(c) \/ RequestAllowed(c) \/ FindReverse(c)
    \/ DmRoom(c) \/ CreateRequest(c) \/ ResolveRequest(c) \/ AddFriendship(c)
    \/ RemoveFriendship(c) \/ ApplyTuples(c) \/ Block(c)
    \/ CancelPendingBetween(c) \/ InsertRoom(c) \/ EndDm(c)
PassStep == ListFriendTuples \/ ListAllFriendships \/ Reread \/ PassApplies

FriendNext ==
    \/ \E c \in Calls : \/ \E op \in Ops, d \in Directions : Begin(c, op, d)
                        \/ CallStep(c) \/ StepFails(c)
    \/ PassStep \/ PassFails

FriendSpec == FriendInit /\ [][FriendNext]_friendVars

-----------------------------------------------------------------------------
(* Properties.                                                             *)

\* Type invariant.
FriendTypeOK ==
    /\ pending \in [Directions -> 0 .. MaxCalls]
    /\ friends \subseteq Pairs /\ rooms \subseteq Pairs
    /\ blocks \subseteq Directions /\ tuples \subseteq Directions
    /\ \A c \in Calls :
         \/ call[c] = NoCall
         \/ call[c].op \in Ops /\ call[c].by \in Directions /\ call[c].req \in 0 .. MaxCalls
    /\ pass.at \in {"idle", "read", "reread", "apply"}
    /\ pass.seen \subseteq Directions
    /\ \A s \in {pass.write, pass.delete, pass.mends, off, crossed} : s \subseteq Pairs
    /\ placed \in 0 .. MaxCalls /\ socialFaults \in 0 .. MaxSocialFaults

\* While no handler is at work on a pair, SpiceDB grants the pair's friend
\* tuples exactly if the pair are friends.  Excused is a pair with a failed
\* step, or changed while the tuple write of an opposite change, or of a pass
\* past its second read, was still to land; and only until a whole pass that
\* found no handler at work on the pair has run.  So a change between a pass's
\* two reads is never undone, as friend_sync.rs says.
TuplesInStep ==
    \A pr \in Pairs \ off :
        InFlight(pr) = {} =>
            tuples \cap Directed({pr}) = Directed({pr} \cap friends)

\* The tuples are those of the friendships: what the reconcile loop brings about.
TuplesMatch == tuples = Directed(friends)

\* A block ends the friendship and the request of the one who blocks, and none
\* of the calls made later brings them back while it stands, the other
\* player's block and the requests sent meanwhile included, unless a block and
\* a call that makes friends overlapped.
BlockSevers ==
    \A d \in blocks :
        LET pr == {d[1], d[2]}
        IN  pr \notin crossed /\ InFlight(pr) = {} => pr \notin friends /\ pending[d] = 0

\* An open direct-message room is between friends: unfriending and blocking
\* close it and no call reopens it, unless the two overlapped.
RoomsBetweenFriends ==
    \A pr \in rooms \ crossed : InFlight(pr) = {} => pr \in friends

\* What the friend routes keep between them: SpiceDB follows the friendships, a
\* block severs, and a room is between friends.
FriendsSound == FriendTypeOK /\ TuplesInStep /\ BlockSevers /\ RoomsBetweenFriends
=============================================================================
