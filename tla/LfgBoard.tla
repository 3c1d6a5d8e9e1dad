------------------------------ MODULE LfgBoard ------------------------------
(***************************************************************************)
(* The Looking for Group board (lfg_routes.rs, lfg.rs): posts with a       *)
(* number of crew slots, the players who ask to join, the host's answers,  *)
(* reports and their resolution, retention; and what follows the answers:  *)
(* crew history, commends (commend_routes.rs, commends.rs) and the crew's  *)
(* chat room (chat_rooms.rs).                                              *)
(*                                                                         *)
(* A handler is the sequence of its awaited steps.  A call in flight holds *)
(* the steps left and what it read, so that two calls interleave at every  *)
(* await.  Every post is the same host's: posts of two hosts share nothing *)
(* but the players' rows, which are keyed by post.                         *)
(***************************************************************************)
EXTENDS Integers, Sequences, FiniteSets

CONSTANTS Host, Mates,       \* the host, and the players who may join
          Posts, Slots,      \* post ids; crew_slots of every post
          LfgCalls, MaxLfgCalls, MaxLfgFaults, POSTS_PER_DAY

VARIABLES post,        \* lfg_posts: where each post is in its life
          member,      \* lfg_members: status of each player on each post
          report,      \* lfg_reports: status of each player's report of each post
          suspended,   \* account_restrictions: whether the host is suspended
          barred,      \* user_blocks, as pairs
          crew,        \* crew_history: <<post, pair>>
          commend,     \* crew_commends: <<post, giver, recipient>>
          inRoom,      \* chat_room_members of the posts' rooms: <<post, mate>>
          lcall, begun, lfgFaults,
          ousted, tangled, adrift, peak   \* history: see the properties

lfgVars == <<post, member, report, suspended, barred, crew, commend, inRoom,
             lcall, begun, lfgFaults, ousted, tangled, adrift, peak>>
board == <<post, member>>
queue == <<report, suspended>>
after == <<crew, commend, inRoom>>
lfgHistory == <<ousted, tangled, adrift, peak>>

Crew == Mates \cup {Host}
\* open: taking crew; ended: closed or expired, commend window open; over:
\* window shut; removed: by a moderator; gone: purged.
PostStates == {"none", "open", "ended", "over", "removed", "gone"}
Statuses == {"none", "requested", "accepted", "declined", "left", "removed"}
Existing == {"open", "ended", "over", "removed"}

Accepted(p) == {m \in Mates : member[p][m] = "accepted"}
crew_count(p) == Cardinality(Accepted(p))
\* Mutant: the last slot is given twice.
RoomForOneMore(p) == crew_count(p) <= Slots
HasRoom(p) == crew_count(p) < Slots

-----------------------------------------------------------------------------
(* Handlers.  The host answers, the players ask, moderators resolve.       *)

create_post == <<"no_open_post", "count_posts", "insert_post">>
close_post == <<"close">>
join == <<"visible", "request_join">>
leave == <<"member", "set_status">>
respond == <<"get_post", "member", "set_status", "history", "room">>
report_post == <<"visible", "create_report">>
admin_resolve == <<"get_report", "remove_post", "suspend", "resolve">>
give == <<"not_barred", "flew_together", "window", "set_commend">>
withdraw == <<"not_barred", "flew_together", "window", "drop_commend">>
block_user_crew == <<"bar", "delete_between">>

Answer == [accept |-> "accepted", decline |-> "declined", remove |-> "removed"]
Answers == DOMAIN Answer
Outcomes == {"dismissed", "post_removed", "user_suspended"}

Steps ==
    [create |-> create_post, close |-> close_post, join |-> join, leave |-> leave,
     accept |-> respond, decline |-> respond, remove |-> respond, report |-> report_post,
     dismissed |-> <<"get_report", "resolve">>,
     post_removed |-> <<"get_report", "remove_post", "resolve">>,
     user_suspended |-> admin_resolve,
     give |-> give, withdraw |-> withdraw, block |-> block_user_crew]
LfgOps == {"create", "close", "join", "leave", "report", "give", "withdraw", "block"}
              \cup Answers \cup Outcomes

\* Steps whose failure the handler only logs.
LfgForgiven == {"history", "room"}

\* me: who calls; them: whom it is about; was: the status "member" read;
\* others: crew "history" has still to write.
NoLfgCall == [op |-> "none", id |-> 0, me |-> Host, them |-> Host, todo |-> <<>>,
              was |-> "none", others |-> {}]

Doing(c, s) == lcall[c].op # "none" /\ Head(lcall[c].todo) = s
EndLfg(c) == lcall' = [lcall EXCEPT ![c] = NoLfgCall]
Advanced(k) == IF Len(k.todo) = 1 THEN NoLfgCall ELSE [k EXCEPT !.todo = Tail(k.todo)]
StepDone(c) == lcall' = [lcall EXCEPT ![c] = Advanced(lcall[c])]
GoOn(c, ok) == IF ok THEN StepDone(c) ELSE EndLfg(c)
Busy(ops, p) == {c \in LfgCalls : lcall[c].op \in ops /\ lcall[c].id = p}
\* Calls that write the player's row, other than c.
Writing(c, p, m) ==
    {d \in LfgCalls \ {c} : /\ lcall[d].id = p /\ m \in {lcall[d].me, lcall[d].them}
                            /\ lcall[d].op \in Answers \cup {"leave", "join"}}

\* Whose row a call about a member reads and writes.
RowOf(k) == IF k.op = "leave" THEN k.me ELSE k.them

\* The pairs a commend is being given between.
Giving == {<<lcall[c].id, {lcall[c].me, lcall[c].them}>> : c \in {d \in LfgCalls : lcall[d].op = "give"}}

\* Who may place each call, and about whom.
Callers(op) ==
    CASE op \in {"create", "close"} -> {<<Host, Host>>}
      [] op \in Answers -> {Host} \X Mates
      [] op \in Outcomes -> {Host} \X Mates     \* them: the reporter
      [] op \in {"join", "leave", "report"} -> Mates \X {Host}
      [] OTHER -> {d \in Crew \X Crew : d[1] # d[2]}

BeginLfg(c, op, p, who) ==
    /\ lcall[c] = NoLfgCall /\ begun < MaxLfgCalls /\ begun' = begun + 1
    /\ IF op = "create" THEN post[p] = "none" /\ Busy({"create"}, p) = {}   \* a new id
       ELSE post[p] # "none"
    /\ op \in {"create", "give"} /\ who[1] = Host => ~suspended
    /\ op = "report" => report[p][who[1]] = "none" /\ Busy({"report"}, p) = {}
    /\ lcall' = [lcall EXCEPT ![c] =
          [op |-> op, id |-> p, me |-> who[1], them |-> who[2], todo |-> Steps[op],
           was |-> "none", others |-> {}]]
    /\ UNCHANGED <<board, queue, barred, after, lfgFaults, lfgHistory>>

-----------------------------------------------------------------------------
(* Reads: the call goes on, or answers with an error.                      *)

OpenPosts == {p \in Posts : post[p] = "open"}
Larger(a, b) == IF a > b THEN a ELSE b
\* Creates and accepts between their check and their write.
Creating == {c \in LfgCalls : \E s \in {"count_posts", "insert_post"} : Doing(c, s)}
Accepting(p) == {c \in Busy({"accept"}, p) : \E s \in {"member", "set_status"} : Doing(c, s)}

\* Whether the read of c finds what its handler requires.
Passes(c) ==
    LET p == lcall[c].id  op == lcall[c].op
        pair == {lcall[c].me, lcall[c].them}
    IN  \/ Doing(c, "no_open_post") /\ OpenPosts = {}
        \/ /\ Doing(c, "count_posts")
           /\ Cardinality({q \in Posts : post[q] \in Existing}) < POSTS_PER_DAY
        \/ /\ Doing(c, "visible")
           /\ post[p] \in Existing \ {"removed"} /\ pair \notin barred
           /\ op = "join" => post[p] = "open" /\ HasRoom(p)
        \/ /\ Doing(c, "get_post")
           /\ post[p] \in Existing
           /\ op = "accept" => post[p] = "open" /\ HasRoom(p)
        \/ /\ Doing(c, "member")
           /\ member[p][RowOf(lcall[c])] \in
                CASE op = "leave" -> {"requested", "accepted"}
                  [] op = "accept" -> {"requested"}
                  [] OTHER -> Statuses \ {"none"}
        \/ Doing(c, "get_report") /\ report[p][lcall[c].them] = "open"
        \/ Doing(c, "not_barred") /\ pair \notin barred
        \/ Doing(c, "flew_together") /\ <<p, pair>> \in crew
        \/ Doing(c, "window") /\ post[p] = "ended"

Check(c) ==
    /\ lcall[c].op # "none"
    /\ Head(lcall[c].todo) \in {"no_open_post", "count_posts", "visible", "get_post",
            "member", "get_report", "not_barred", "flew_together", "window"}
    /\ IF Passes(c) /\ Doing(c, "member")
       THEN lcall' = [lcall EXCEPT ![c] =
               [lcall[c] EXCEPT !.todo = Tail(lcall[c].todo),
                                !.was = member[lcall[c].id][RowOf(lcall[c])]]]
       ELSE GoOn(c, Passes(c))
    /\ peak' = [posts |-> Larger(peak.posts, Cardinality(Creating')),
                crew |-> [q \in Posts |->
                             Larger(peak.crew[q], Cardinality(Accepting(q)'))]]
    /\ UNCHANGED <<board, queue, barred, after, begun, lfgFaults, ousted, tangled, adrift>>

-----------------------------------------------------------------------------
(* Posts.                                                                  *)

InsertPost(c) ==
    /\ Doing(c, "insert_post")
    /\ post' = [post EXCEPT ![lcall[c].id] = "open"] /\ StepDone(c)
    /\ UNCHANGED <<member, queue, barred, after, begun, lfgFaults, lfgHistory>>

ClosePost(c) ==
    /\ Doing(c, "close")
    /\ post' = [post EXCEPT ![lcall[c].id] = IF @ = "open" THEN "ended" ELSE @]
    /\ StepDone(c)
    /\ UNCHANGED <<member, queue, barred, after, begun, lfgFaults, lfgHistory>>

\* expires_at, and then the end of the commend window, go by.
PostAges(p) ==
    /\ post[p] \in {"open", "ended"}
    /\ post' = [post EXCEPT ![p] = IF @ = "open" THEN "ended" ELSE "over"]
    /\ UNCHANGED <<member, queue, barred, after, lcall, begun, lfgFaults, lfgHistory>>

Purgeable(p) == post[p] \in {"over", "removed"} /\ \A m \in Mates : report[p][m] # "open"
PurgeEnded(p) ==
    /\ Purgeable(p)
    /\ post' = [post EXCEPT ![p] = "gone"]
    /\ member' = [member EXCEPT ![p] = [m \in Mates |-> "none"]]
    /\ ousted' = {d \in ousted : d[1] # p}
    /\ tangled' = tangled \cup {<<p, lcall[c].me>> : c \in Busy({"report"}, p)}
    /\ UNCHANGED <<queue, barred, after, lcall, begun, lfgFaults, adrift, peak>>

-----------------------------------------------------------------------------
(* Members.                                                                *)

MayAsk(s) == s \in {"none", "left", "declined"}
RequestJoin(c) ==
    LET p == lcall[c].id  m == lcall[c].me
    IN  /\ Doing(c, "request_join")
        /\ IF post[p] \in Existing /\ MayAsk(member[p][m])
           THEN member' = [member EXCEPT ![p][m] = "requested"] ELSE UNCHANGED member
        /\ StepDone(c)
        /\ UNCHANGED <<post, queue, barred, after, begun, lfgFaults, lfgHistory>>

\* Neither leave nor respond looks at the row again before writing it.
SetMemberStatus(c) ==
    LET p == lcall[c].id  op == lcall[c].op
        m == RowOf(lcall[c])
        s == IF op = "leave" THEN "left" ELSE Answer[op]
    IN  /\ Doing(c, "set_status")
        /\ IF member[p][m] = "none" THEN UNCHANGED <<member, ousted>>
           ELSE /\ member' = [member EXCEPT ![p][m] = s]
                /\ ousted' = IF s = "removed" THEN ousted \cup {<<p, m>>}
                             ELSE IF s = "declined" THEN ousted \ {<<p, m>>} ELSE ousted
        /\ GoOn(c, op # "leave" /\ member[p][m] # "none")
        /\ tangled' = IF Writing(c, p, m) = {} THEN tangled ELSE tangled \cup {<<p, m>>}
        /\ UNCHANGED <<post, queue, barred, after, begun, lfgFaults, adrift, peak>>

\* record_crew_change: the members are read, then each pair is written.
ReadCrew(c) ==
    LET p == lcall[c].id  m == lcall[c].them
    IN  /\ Doing(c, "history") /\ lcall[c].op = "accept" /\ lcall[c].others = {}
        /\ lcall' = [lcall EXCEPT ![c].others =
              {Host} \cup {o \in Mates \ {m} : member[p][o] \in {"accepted", "left"}}]
        /\ UNCHANGED <<board, queue, barred, after, begun, lfgFaults, lfgHistory>>

RecordCrew(c) ==
    LET p == lcall[c].id  m == lcall[c].them
    IN  /\ Doing(c, "history") /\ \E o \in lcall[c].others :
            /\ crew' = crew \cup {<<p, {m, o}>>}
            /\ IF lcall[c].others = {o} THEN StepDone(c)
               ELSE lcall' = [lcall EXCEPT ![c].others = @ \ {o}]
        /\ UNCHANGED <<board, queue, barred, commend, inRoom, begun, lfgFaults, lfgHistory>>

forget_crew(p, m) ==
    /\ crew' = {e \in crew : e[1] # p \/ m \notin e[2]}
    /\ commend' = {e \in commend : e[1] # p \/ m \notin {e[2], e[3]}}
ForgetCrew(c) ==
    /\ Doing(c, "history") /\ lcall[c].op # "accept" /\ StepDone(c)
    /\ IF lcall[c].op = "remove" /\ lcall[c].was = "accepted"
       THEN /\ forget_crew(lcall[c].id, lcall[c].them)
            /\ adrift' = adrift \cup {e \in Giving : e[1] = lcall[c].id /\ lcall[c].them \in e[2]}
       ELSE UNCHANGED <<crew, commend, adrift>>
    /\ UNCHANGED <<board, queue, barred, inRoom, begun, lfgFaults, ousted, tangled, peak>>

\* crew_member_added and crew_member_removed.
FollowInRoom(c) ==
    LET e == <<lcall[c].id, lcall[c].them>>
    IN  /\ Doing(c, "room") /\ StepDone(c)
        /\ inRoom' = CASE lcall[c].op = "accept" -> inRoom \cup {e}
                       [] lcall[c].op = "remove" /\ lcall[c].was = "accepted" -> inRoom \ {e}
                       [] OTHER -> inRoom
        /\ UNCHANGED <<board, queue, barred, crew, commend, begun, lfgFaults, lfgHistory>>

-----------------------------------------------------------------------------
(* Reports and moderation.                                                 *)

CreateReport(c) ==
    LET p == lcall[c].id  m == lcall[c].me
    IN  /\ Doing(c, "create_report")
        /\ report' = [report EXCEPT ![p][m] = "open"] /\ StepDone(c)
        /\ UNCHANGED <<board, suspended, barred, after, begun, lfgFaults, lfgHistory>>

RemovePost(c) ==
    /\ Doing(c, "remove_post")
    /\ post' = [post EXCEPT ![lcall[c].id] = IF @ = "gone" THEN @ ELSE "removed"]
    /\ StepDone(c)
    /\ UNCHANGED <<member, queue, barred, after, begun, lfgFaults, lfgHistory>>

SuspendHost(c) ==
    /\ Doing(c, "suspend") /\ suspended' = TRUE /\ StepDone(c)
    /\ UNCHANGED <<board, report, barred, after, begun, lfgFaults, lfgHistory>>

ResolveReport(c) ==
    LET p == lcall[c].id  m == lcall[c].them
    IN  /\ Doing(c, "resolve")
        /\ report' = [report EXCEPT ![p][m] = IF @ = "open" THEN lcall[c].op ELSE @]
        /\ StepDone(c)
        /\ UNCHANGED <<board, suspended, barred, after, begun, lfgFaults, lfgHistory>>

-----------------------------------------------------------------------------
(* Commends, and the crew steps of block_user.                             *)

SetCommend(c) ==
    LET e == <<lcall[c].id, lcall[c].me, lcall[c].them>>
    IN  /\ Doing(c, "set_commend") \/ Doing(c, "drop_commend")
        /\ commend' = IF Doing(c, "set_commend") THEN commend \cup {e} ELSE commend \ {e}
        /\ StepDone(c)
        /\ UNCHANGED <<board, queue, barred, crew, inRoom, begun, lfgFaults, lfgHistory>>

Bar(c) ==
    /\ Doing(c, "bar") /\ barred' = barred \cup {{lcall[c].me, lcall[c].them}}
    /\ StepDone(c)
    /\ UNCHANGED <<board, queue, after, begun, lfgFaults, lfgHistory>>

DeleteBetween(c) ==
    LET pair == {lcall[c].me, lcall[c].them}
    IN  /\ Doing(c, "delete_between") /\ StepDone(c)
        /\ crew' = {e \in crew : e[2] # pair}
        /\ commend' = {e \in commend : {e[2], e[3]} # pair}
        /\ adrift' = adrift \cup {e \in Giving : e[2] = pair}
        /\ UNCHANGED <<board, queue, barred, inRoom, begun, lfgFaults, ousted, tangled, peak>>

\* The history of a post passes CREW_HISTORY_DAYS; its commends are kept.
PurgeCrewBefore(p) ==
    /\ post[p] \in {"over", "removed", "gone"} /\ \E e \in crew : e[1] = p
    /\ crew' = {e \in crew : e[1] # p}
    /\ adrift' = adrift \cup {e \in crew : e[1] = p}
    /\ UNCHANGED <<board, queue, barred, commend, inRoom, lcall, begun, lfgFaults,
                   ousted, tangled, peak>>

\* A store call fails: the handler answers with an error, or logs and goes on.
\* A failed write of crew history costs that pair only.
LfgStepFails(c) ==
    /\ lcall[c].op # "none" /\ lfgFaults < MaxLfgFaults /\ lfgFaults' = lfgFaults + 1
    /\ IF Head(lcall[c].todo) \notin LfgForgiven THEN EndLfg(c)
       ELSE IF Cardinality(lcall[c].others) > 1
       THEN \E o \in lcall[c].others : lcall' = [lcall EXCEPT ![c].others = @ \ {o}]
       ELSE StepDone(c)
    /\ UNCHANGED <<board, queue, barred, after, begun, lfgHistory>>

-----------------------------------------------------------------------------
LfgInit ==
    \E p \in Posts :
        /\ post = [q \in Posts |-> IF q = p THEN "open" ELSE "none"]
        /\ member = [q \in Posts |-> [m \in Mates |-> IF q = p THEN "requested" ELSE "none"]]
        /\ report = [q \in Posts |-> [m \in Mates |-> "none"]]
        /\ suspended = FALSE /\ barred = {} /\ crew = {} /\ commend = {} /\ inRoom = {}
        /\ lcall = [c \in LfgCalls |-> NoLfgCall] /\ begun = 0 /\ lfgFaults = 0
        /\ ousted = {} /\ tangled = {} /\ adrift = {}
        /\ peak = [posts |-> 0, crew |-> [q \in Posts |-> 0]]

LfgStep(c) ==
    \/ Check(c) \/ InsertPost(c) \/ ClosePost(c) \/ RequestJoin(c)
    \/ SetMemberStatus(c) \/ ReadCrew(c) \/ RecordCrew(c) \/ ForgetCrew(c)
    \/ FollowInRoom(c) \/ CreateReport(c) \/ RemovePost(c) \/ SuspendHost(c)
    \/ ResolveReport(c) \/ SetCommend(c) \/ Bar(c) \/ DeleteBetween(c)

LfgNext ==
    \/ \E c \in LfgCalls :
        \/ \E op \in LfgOps, p \in Posts : \E who \in Callers(op) : BeginLfg(c, op, p, who)
        \/ LfgStep(c) \/ LfgStepFails(c)
    \/ \E p \in Posts : PostAges(p) \/ PurgeEnded(p) \/ PurgeCrewBefore(p)

LfgSpec == LfgInit /\ [][LfgNext]_lfgVars

-----------------------------------------------------------------------------
(* Properties.                                                             *)

\* Type invariant.
LfgTypeOK ==
    /\ post \in [Posts -> PostStates] /\ member \in [Posts -> [Mates -> Statuses]]
    /\ report \in [Posts -> [Mates -> {"none", "open"} \cup Outcomes]]
    /\ suspended \in BOOLEAN /\ barred \subseteq SUBSET Crew
    /\ \A e \in crew \cup adrift : e[1] \in Posts /\ e[2] \subseteq Crew
    /\ commend \subseteq Posts \X Crew \X Crew
    /\ inRoom \subseteq Posts \X Mates /\ ousted \subseteq Posts \X Mates
    /\ tangled \subseteq Posts \X Mates
    /\ \A c \in LfgCalls :
         \/ lcall[c] = NoLfgCall
         \/ /\ lcall[c].op \in LfgOps /\ lcall[c].id \in Posts /\ lcall[c].todo # <<>>
            /\ lcall[c].was \in Statuses /\ lcall[c].others \subseteq Crew
    /\ begun \in 0 .. MaxLfgCalls /\ lfgFaults \in 0 .. MaxLfgFaults

\* crew_count is checked when respond reads the post and not when it writes the
\* member, so a crew may pass its slots, but only by the accepts that were in
\* flight together beyond the first: never by answers given one at a time.
CrewWithinSlots ==
    \A p \in Posts : crew_count(p) = 0 \/ crew_count(p) < Slots + peak.crew[p]

\* One open post per host, the same way: only creates in flight together leave
\* a second one, which no unique index forbids.
OneOpenPost == Cardinality(OpenPosts) <= Larger(1, peak.posts)

\* A player the host removed stays removed and cannot ask again, unless the
\* host declines them later or a leave, join or answer about the same row was
\* in flight when it was written.
RemovedStaysOut == \A d \in ousted \ tangled : member[d[1]][d[2]] = "removed"

\* Every commend kept is between players the post's crew history puts together;
\* excused is a pair whose commend was being given while a removal or a block
\* erased the history, or whose history passed its retention.
CommendsFollowCrew ==
    \A e \in commend :
        <<e[1], {e[2], e[3]}>> \in crew \cup adrift

\* lfg_routes.rs: "Enforce first, then record".  Whatever fails and whoever else
\* moderates, a report is recorded as acted upon only after the post is down
\* and, for a suspension, the host suspended.
RecordedIsEnforced ==
    \A p \in Posts, m \in Mates :
        /\ report[p][m] \in {"post_removed", "user_suspended"} => post[p] \in {"removed", "gone"}
        /\ report[p][m] = "user_suspended" => suspended

\* The sweep keeps a post while a report of it is open; only one purged while
\* the report was being filed leaves a report without its post.
ReportedPostIsKept ==
    \A p \in Posts, m \in Mates :
        report[p][m] = "open" /\ <<p, m>> \notin tangled => post[p] # "gone"

\* What the board keeps: crews fit their slots and whoever was removed stays out,
\* a host has one open post, commends follow the crew, and reports are acted on.
BoardSound ==
    /\ LfgTypeOK /\ CrewWithinSlots /\ OneOpenPost /\ RemovedStaysOut
    /\ CommendsFollowCrew /\ RecordedIsEnforced /\ ReportedPostIsKept
=============================================================================
