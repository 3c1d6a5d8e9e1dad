--------------------------- MODULE LfgBoardProofs ---------------------------
(***************************************************************************)
(* The LFG board is sound for any number of players, posts, slots, calls   *)
(* and faults.                                                             *)
(*                                                                         *)
(* The inductive invariant LfgInv adds to the promises of LfgBoard what    *)
(* the calls between a read and the write it decides still know: a post id *)
(* is in one create's hands until it is inserted; an accept or a create    *)
(* past its check holds a slot or a post of its own; an answer past its    *)
(* read of the row met no removal it will undo unnoticed; a commend past   *)
(* the crew history has the pair there or excused; and a resolution about  *)
(* to be recorded has been enforced.  One lemma per part shows that every  *)
(* step keeps it: FreshKept, RowKept, GiveKept, ModKept, ReportKept,       *)
(* SlotsKept, OpenKept.  They rest on PassFacts, which says what a call    *)
(* that is past a read found there.                                        *)
(***************************************************************************)
EXTENDS LfgBoard, TLAPS

\* Zenon proves a leaf unless the leaf cites SMT, which the arithmetic needs.
USE Zenon

\* Any number of players, posts, slots, calls and faults, as long as finite.
BoardBounds ==
  /\ Slots \in Nat /\ MaxLfgCalls \in Nat /\ MaxLfgFaults \in Nat
  /\ IsFiniteSet(Mates) /\ IsFiniteSet(Posts) /\ IsFiniteSet(LfgCalls)

-----------------------------------------------------------------------------
(* The calls in flight.                                                    *)

\* What may be left of each handler.
CreateEnds == {<<"no_open_post", "count_posts", "insert_post">>,
               <<"count_posts", "insert_post">>,
               <<"insert_post">>}
CloseEnds == {<<"close">>}
JoinEnds == {<<"visible", "request_join">>, <<"request_join">>}
LeaveEnds == {<<"member", "set_status">>, <<"set_status">>}
RespondEnds == {<<"get_post", "member", "set_status", "history", "room">>,
                <<"member", "set_status", "history", "room">>,
                <<"set_status", "history", "room">>,
                <<"history", "room">>,
                <<"room">>}
ReportEnds == {<<"visible", "create_report">>, <<"create_report">>}
DismissEnds == {<<"get_report", "resolve">>, <<"resolve">>}
RemoveEnds == {<<"get_report", "remove_post", "resolve">>,
               <<"remove_post", "resolve">>,
               <<"resolve">>}
SuspendEnds == {<<"get_report", "remove_post", "suspend", "resolve">>,
                <<"remove_post", "suspend", "resolve">>,
                <<"suspend", "resolve">>,
                <<"resolve">>}
GiveEnds == {<<"not_barred", "flew_together", "window", "set_commend">>,
             <<"flew_together", "window", "set_commend">>,
             <<"window", "set_commend">>,
             <<"set_commend">>}
WithdrawEnds == {<<"not_barred", "flew_together", "window", "drop_commend">>,
                 <<"flew_together", "window", "drop_commend">>,
                 <<"window", "drop_commend">>,
                 <<"drop_commend">>}
BlockEnds == {<<"bar", "delete_between">>, <<"delete_between">>}

Ends(op, todo) ==
  /\ op = "create" => todo \in CreateEnds
  /\ op = "close" => todo \in CloseEnds
  /\ op = "join" => todo \in JoinEnds
  /\ op = "leave" => todo \in LeaveEnds
  /\ op \in Answers => todo \in RespondEnds
  /\ op = "report" => todo \in ReportEnds
  /\ op = "dismissed" => todo \in DismissEnds
  /\ op = "post_removed" => todo \in RemoveEnds
  /\ op = "user_suspended" => todo \in SuspendEnds
  /\ op = "give" => todo \in GiveEnds
  /\ op = "withdraw" => todo \in WithdrawEnds
  /\ op = "block" => todo \in BlockEnds
InOrder(k) == Ends(k.op, k.todo)

AllEnds ==
  CreateEnds \cup CloseEnds \cup JoinEnds \cup LeaveEnds \cup RespondEnds \cup ReportEnds
    \cup DismissEnds \cup RemoveEnds \cup SuspendEnds \cup GiveEnds \cup WithdrawEnds
    \cup BlockEnds
LfgCallRec ==
  [op : LfgOps, id : Posts, me : Crew, them : Crew, todo : AllEnds,
   was : Statuses, others : SUBSET Crew]

\* Whom a call is from and about.
Roles(k) ==
  /\ k.op \in Answers \cup Outcomes => k.them \in Mates
  /\ k.op \in {"join", "leave", "report"} => k.me \in Mates

LfgTypes ==
  /\ post \in [Posts -> PostStates] /\ member \in [Posts -> [Mates -> Statuses]]
  /\ report \in [Posts -> [Mates -> {"none", "open"} \cup Outcomes]]
  /\ suspended \in BOOLEAN /\ barred \subseteq SUBSET Crew
  /\ crew \subseteq Posts \X SUBSET Crew /\ adrift \subseteq Posts \X SUBSET Crew
  /\ commend \subseteq Posts \X Crew \X Crew
  /\ inRoom \subseteq Posts \X Mates /\ ousted \subseteq Posts \X Mates
  /\ tangled \subseteq Posts \X Mates
CallTypes ==
  /\ lcall \in [LfgCalls -> {NoLfgCall} \cup LfgCallRec]
  /\ \A c \in LfgCalls : InOrder(lcall[c]) /\ Roles(lcall[c])
  /\ begun \in Nat /\ begun <= MaxLfgCalls /\ lfgFaults \in Nat /\ lfgFaults <= MaxLfgFaults

At(k, s) == k.op # "none" /\ Head(k.todo) = s

\* One step of an end, and the end it leaves.
StepTo(t, s, E, n) == t # <<>> /\ Head(t) = s /\ Len(t) # 1 /\ Tail(t) \in E /\ Head(Tail(t)) = n
LastStep(t, s) == t # <<>> /\ Head(t) = s /\ Len(t) = 1 /\ Tail(t) = <<>>

LEMMA CreateOrder ==
  ASSUME NEW t \in CreateEnds
  PROVE  \/ StepTo(t, "no_open_post", CreateEnds, "count_posts")
         \/ StepTo(t, "count_posts", CreateEnds, "insert_post")
         \/ LastStep(t, "insert_post")
<1>1. CASE t = <<"no_open_post", "count_posts", "insert_post">>
  <2>1. /\ Head(<<"no_open_post", "count_posts", "insert_post">>) = "no_open_post" /\ Len(<<"no_open_post", "count_posts", "insert_post">>) # 1
        /\ Tail(<<"no_open_post", "count_posts", "insert_post">>) = <<"count_posts", "insert_post">>
        /\ Head(<<"count_posts", "insert_post">>) = "count_posts" /\ <<"no_open_post", "count_posts", "insert_post">> # <<>>
    BY SMT
  <2>. QED BY <1>1, <2>1 DEF StepTo, CreateEnds
<1>2. CASE t = <<"count_posts", "insert_post">>
  <2>1. /\ Head(<<"count_posts", "insert_post">>) = "count_posts" /\ Len(<<"count_posts", "insert_post">>) # 1
        /\ Tail(<<"count_posts", "insert_post">>) = <<"insert_post">>
        /\ Head(<<"insert_post">>) = "insert_post" /\ <<"count_posts", "insert_post">> # <<>>
    BY SMT
  <2>. QED BY <1>2, <2>1 DEF StepTo, CreateEnds
<1>3. CASE t = <<"insert_post">>
  BY <1>3, SMT DEF LastStep
<1>. QED BY <1>1, <1>2, <1>3 DEF CreateEnds

LEMMA CloseOrder ==
  ASSUME NEW t \in CloseEnds
  PROVE  LastStep(t, "close")
<1>1. CASE t = <<"close">>
  BY <1>1, SMT DEF LastStep
<1>. QED BY <1>1 DEF CloseEnds

LEMMA JoinOrder ==
  ASSUME NEW t \in JoinEnds
  PROVE  \/ StepTo(t, "visible", JoinEnds, "request_join")
         \/ LastStep(t, "request_join")
<1>1. CASE t = <<"visible", "request_join">>
  <2>1. /\ Head(<<"visible", "request_join">>) = "visible" /\ Len(<<"visible", "request_join">>) # 1
        /\ Tail(<<"visible", "request_join">>) = <<"request_join">>
        /\ Head(<<"request_join">>) = "request_join" /\ <<"visible", "request_join">> # <<>>
    BY SMT
  <2>. QED BY <1>1, <2>1 DEF StepTo, JoinEnds
<1>2. CASE t = <<"request_join">>
  BY <1>2, SMT DEF LastStep
<1>. QED BY <1>1, <1>2 DEF JoinEnds

LEMMA LeaveOrder ==
  ASSUME NEW t \in LeaveEnds
  PROVE  \/ StepTo(t, "member", LeaveEnds, "set_status")
         \/ LastStep(t, "set_status")
<1>1. CASE t = <<"member", "set_status">>
  <2>1. /\ Head(<<"member", "set_status">>) = "member" /\ Len(<<"member", "set_status">>) # 1
        /\ Tail(<<"member", "set_status">>) = <<"set_status">>
        /\ Head(<<"set_status">>) = "set_status" /\ <<"member", "set_status">> # <<>>
    BY SMT
  <2>. QED BY <1>1, <2>1 DEF StepTo, LeaveEnds
<1>2. CASE t = <<"set_status">>
  BY <1>2, SMT DEF LastStep
<1>. QED BY <1>1, <1>2 DEF LeaveEnds

LEMMA RespondOrder ==
  ASSUME NEW t \in RespondEnds
  PROVE  \/ StepTo(t, "get_post", RespondEnds, "member")
         \/ StepTo(t, "member", RespondEnds, "set_status")
         \/ StepTo(t, "set_status", RespondEnds, "history")
         \/ StepTo(t, "history", RespondEnds, "room")
         \/ LastStep(t, "room")
<1>1. CASE t = <<"get_post", "member", "set_status", "history", "room">>
  <2>1. /\ Head(<<"get_post", "member", "set_status", "history", "room">>) = "get_post" /\ Len(<<"get_post", "member", "set_status", "history", "room">>) # 1
        /\ Tail(<<"get_post", "member", "set_status", "history", "room">>) = <<"member", "set_status", "history", "room">>
        /\ Head(<<"member", "set_status", "history", "room">>) = "member" /\ <<"get_post", "member", "set_status", "history", "room">> # <<>>
    BY SMT
  <2>. QED BY <1>1, <2>1 DEF StepTo, RespondEnds
<1>2. CASE t = <<"member", "set_status", "history", "room">>
  <2>1. /\ Head(<<"member", "set_status", "history", "room">>) = "member" /\ Len(<<"member", "set_status", "history", "room">>) # 1
        /\ Tail(<<"member", "set_status", "history", "room">>) = <<"set_status", "history", "room">>
        /\ Head(<<"set_status", "history", "room">>) = "set_status" /\ <<"member", "set_status", "history", "room">> # <<>>
    BY SMT
  <2>. QED BY <1>2, <2>1 DEF StepTo, RespondEnds
<1>3. CASE t = <<"set_status", "history", "room">>
  <2>1. /\ Head(<<"set_status", "history", "room">>) = "set_status" /\ Len(<<"set_status", "history", "room">>) # 1
        /\ Tail(<<"set_status", "history", "room">>) = <<"history", "room">>
        /\ Head(<<"history", "room">>) = "history" /\ <<"set_status", "history", "room">> # <<>>
    BY SMT
  <2>. QED BY <1>3, <2>1 DEF StepTo, RespondEnds
<1>4. CASE t = <<"history", "room">>
  <2>1. /\ Head(<<"history", "room">>) = "history" /\ Len(<<"history", "room">>) # 1
        /\ Tail(<<"history", "room">>) = <<"room">>
        /\ Head(<<"room">>) = "room" /\ <<"history", "room">> # <<>>
    BY SMT
  <2>. QED BY <1>4, <2>1 DEF StepTo, RespondEnds
<1>5. CASE t = <<"room">>
  BY <1>5, SMT DEF LastStep
<1>. QED BY <1>1, <1>2, <1>3, <1>4, <1>5 DEF RespondEnds

LEMMA ReportOrder ==
  ASSUME NEW t \in ReportEnds
  PROVE  \/ StepTo(t, "visible", ReportEnds, "create_report")
         \/ LastStep(t, "create_report")
<1>1. CASE t = <<"visible", "create_report">>
  <2>1. /\ Head(<<"visible", "create_report">>) = "visible" /\ Len(<<"visible", "create_report">>) # 1
        /\ Tail(<<"visible", "create_report">>) = <<"create_report">>
        /\ Head(<<"create_report">>) = "create_report" /\ <<"visible", "create_report">> # <<>>
    BY SMT
  <2>. QED BY <1>1, <2>1 DEF StepTo, ReportEnds
<1>2. CASE t = <<"create_report">>
  BY <1>2, SMT DEF LastStep
<1>. QED BY <1>1, <1>2 DEF ReportEnds

LEMMA DismissOrder ==
  ASSUME NEW t \in DismissEnds
  PROVE  \/ StepTo(t, "get_report", DismissEnds, "resolve")
         \/ LastStep(t, "resolve")
<1>1. CASE t = <<"get_report", "resolve">>
  <2>1. /\ Head(<<"get_report", "resolve">>) = "get_report" /\ Len(<<"get_report", "resolve">>) # 1
        /\ Tail(<<"get_report", "resolve">>) = <<"resolve">>
        /\ Head(<<"resolve">>) = "resolve" /\ <<"get_report", "resolve">> # <<>>
    BY SMT
  <2>. QED BY <1>1, <2>1 DEF StepTo, DismissEnds
<1>2. CASE t = <<"resolve">>
  BY <1>2, SMT DEF LastStep
<1>. QED BY <1>1, <1>2 DEF DismissEnds

LEMMA RemoveOrder ==
  ASSUME NEW t \in RemoveEnds
  PROVE  \/ StepTo(t, "get_report", RemoveEnds, "remove_post")
         \/ StepTo(t, "remove_post", RemoveEnds, "resolve")
         \/ LastStep(t, "resolve")
<1>1. CASE t = <<"get_report", "remove_post", "resolve">>
  <2>1. /\ Head(<<"get_report", "remove_post", "resolve">>) = "get_report" /\ Len(<<"get_report", "remove_post", "resolve">>) # 1
        /\ Tail(<<"get_report", "remove_post", "resolve">>) = <<"remove_post", "resolve">>
        /\ Head(<<"remove_post", "resolve">>) = "remove_post" /\ <<"get_report", "remove_post", "resolve">> # <<>>
    BY SMT
  <2>. QED BY <1>1, <2>1 DEF StepTo, RemoveEnds
<1>2. CASE t = <<"remove_post", "resolve">>
  <2>1. /\ Head(<<"remove_post", "resolve">>) = "remove_post" /\ Len(<<"remove_post", "resolve">>) # 1
        /\ Tail(<<"remove_post", "resolve">>) = <<"resolve">>
        /\ Head(<<"resolve">>) = "resolve" /\ <<"remove_post", "resolve">> # <<>>
    BY SMT
  <2>. QED BY <1>2, <2>1 DEF StepTo, RemoveEnds
<1>3. CASE t = <<"resolve">>
  BY <1>3, SMT DEF LastStep
<1>. QED BY <1>1, <1>2, <1>3 DEF RemoveEnds

LEMMA SuspendOrder ==
  ASSUME NEW t \in SuspendEnds
  PROVE  \/ StepTo(t, "get_report", SuspendEnds, "remove_post")
         \/ StepTo(t, "remove_post", SuspendEnds, "suspend")
         \/ StepTo(t, "suspend", SuspendEnds, "resolve")
         \/ LastStep(t, "resolve")
<1>1. CASE t = <<"get_report", "remove_post", "suspend", "resolve">>
  <2>1. /\ Head(<<"get_report", "remove_post", "suspend", "resolve">>) = "get_report" /\ Len(<<"get_report", "remove_post", "suspend", "resolve">>) # 1
        /\ Tail(<<"get_report", "remove_post", "suspend", "resolve">>) = <<"remove_post", "suspend", "resolve">>
        /\ Head(<<"remove_post", "suspend", "resolve">>) = "remove_post" /\ <<"get_report", "remove_post", "suspend", "resolve">> # <<>>
    BY SMT
  <2>. QED BY <1>1, <2>1 DEF StepTo, SuspendEnds
<1>2. CASE t = <<"remove_post", "suspend", "resolve">>
  <2>1. /\ Head(<<"remove_post", "suspend", "resolve">>) = "remove_post" /\ Len(<<"remove_post", "suspend", "resolve">>) # 1
        /\ Tail(<<"remove_post", "suspend", "resolve">>) = <<"suspend", "resolve">>
        /\ Head(<<"suspend", "resolve">>) = "suspend" /\ <<"remove_post", "suspend", "resolve">> # <<>>
    BY SMT
  <2>. QED BY <1>2, <2>1 DEF StepTo, SuspendEnds
<1>3. CASE t = <<"suspend", "resolve">>
  <2>1. /\ Head(<<"suspend", "resolve">>) = "suspend" /\ Len(<<"suspend", "resolve">>) # 1
        /\ Tail(<<"suspend", "resolve">>) = <<"resolve">>
        /\ Head(<<"resolve">>) = "resolve" /\ <<"suspend", "resolve">> # <<>>
    BY SMT
  <2>. QED BY <1>3, <2>1 DEF StepTo, SuspendEnds
<1>4. CASE t = <<"resolve">>
  BY <1>4, SMT DEF LastStep
<1>. QED BY <1>1, <1>2, <1>3, <1>4 DEF SuspendEnds

LEMMA GiveOrder ==
  ASSUME NEW t \in GiveEnds
  PROVE  \/ StepTo(t, "not_barred", GiveEnds, "flew_together")
         \/ StepTo(t, "flew_together", GiveEnds, "window")
         \/ StepTo(t, "window", GiveEnds, "set_commend")
         \/ LastStep(t, "set_commend")
<1>1. CASE t = <<"not_barred", "flew_together", "window", "set_commend">>
  <2>1. /\ Head(<<"not_barred", "flew_together", "window", "set_commend">>) = "not_barred" /\ Len(<<"not_barred", "flew_together", "window", "set_commend">>) # 1
        /\ Tail(<<"not_barred", "flew_together", "window", "set_commend">>) = <<"flew_together", "window", "set_commend">>
        /\ Head(<<"flew_together", "window", "set_commend">>) = "flew_together" /\ <<"not_barred", "flew_together", "window", "set_commend">> # <<>>
    BY SMT
  <2>. QED BY <1>1, <2>1 DEF StepTo, GiveEnds
<1>2. CASE t = <<"flew_together", "window", "set_commend">>
  <2>1. /\ Head(<<"flew_together", "window", "set_commend">>) = "flew_together" /\ Len(<<"flew_together", "window", "set_commend">>) # 1
        /\ Tail(<<"flew_together", "window", "set_commend">>) = <<"window", "set_commend">>
        /\ Head(<<"window", "set_commend">>) = "window" /\ <<"flew_together", "window", "set_commend">> # <<>>
    BY SMT
  <2>. QED BY <1>2, <2>1 DEF StepTo, GiveEnds
<1>3. CASE t = <<"window", "set_commend">>
  <2>1. /\ Head(<<"window", "set_commend">>) = "window" /\ Len(<<"window", "set_commend">>) # 1
        /\ Tail(<<"window", "set_commend">>) = <<"set_commend">>
        /\ Head(<<"set_commend">>) = "set_commend" /\ <<"window", "set_commend">> # <<>>
    BY SMT
  <2>. QED BY <1>3, <2>1 DEF StepTo, GiveEnds
<1>4. CASE t = <<"set_commend">>
  BY <1>4, SMT DEF LastStep
<1>. QED BY <1>1, <1>2, <1>3, <1>4 DEF GiveEnds

LEMMA WithdrawOrder ==
  ASSUME NEW t \in WithdrawEnds
  PROVE  \/ StepTo(t, "not_barred", WithdrawEnds, "flew_together")
         \/ StepTo(t, "flew_together", WithdrawEnds, "window")
         \/ StepTo(t, "window", WithdrawEnds, "drop_commend")
         \/ LastStep(t, "drop_commend")
<1>1. CASE t = <<"not_barred", "flew_together", "window", "drop_commend">>
  <2>1. /\ Head(<<"not_barred", "flew_together", "window", "drop_commend">>) = "not_barred" /\ Len(<<"not_barred", "flew_together", "window", "drop_commend">>) # 1
        /\ Tail(<<"not_barred", "flew_together", "window", "drop_commend">>) = <<"flew_together", "window", "drop_commend">>
        /\ Head(<<"flew_together", "window", "drop_commend">>) = "flew_together" /\ <<"not_barred", "flew_together", "window", "drop_commend">> # <<>>
    BY SMT
  <2>. QED BY <1>1, <2>1 DEF StepTo, WithdrawEnds
<1>2. CASE t = <<"flew_together", "window", "drop_commend">>
  <2>1. /\ Head(<<"flew_together", "window", "drop_commend">>) = "flew_together" /\ Len(<<"flew_together", "window", "drop_commend">>) # 1
        /\ Tail(<<"flew_together", "window", "drop_commend">>) = <<"window", "drop_commend">>
        /\ Head(<<"window", "drop_commend">>) = "window" /\ <<"flew_together", "window", "drop_commend">> # <<>>
    BY SMT
  <2>. QED BY <1>2, <2>1 DEF StepTo, WithdrawEnds
<1>3. CASE t = <<"window", "drop_commend">>
  <2>1. /\ Head(<<"window", "drop_commend">>) = "window" /\ Len(<<"window", "drop_commend">>) # 1
        /\ Tail(<<"window", "drop_commend">>) = <<"drop_commend">>
        /\ Head(<<"drop_commend">>) = "drop_commend" /\ <<"window", "drop_commend">> # <<>>
    BY SMT
  <2>. QED BY <1>3, <2>1 DEF StepTo, WithdrawEnds
<1>4. CASE t = <<"drop_commend">>
  BY <1>4, SMT DEF LastStep
<1>. QED BY <1>1, <1>2, <1>3, <1>4 DEF WithdrawEnds

LEMMA BlockOrder ==
  ASSUME NEW t \in BlockEnds
  PROVE  \/ StepTo(t, "bar", BlockEnds, "delete_between")
         \/ LastStep(t, "delete_between")
<1>1. CASE t = <<"bar", "delete_between">>
  <2>1. /\ Head(<<"bar", "delete_between">>) = "bar" /\ Len(<<"bar", "delete_between">>) # 1
        /\ Tail(<<"bar", "delete_between">>) = <<"delete_between">>
        /\ Head(<<"delete_between">>) = "delete_between" /\ <<"bar", "delete_between">> # <<>>
    BY SMT
  <2>. QED BY <1>1, <2>1 DEF StepTo, BlockEnds
<1>2. CASE t = <<"delete_between">>
  BY <1>2, SMT DEF LastStep
<1>. QED BY <1>1, <1>2 DEF BlockEnds

LEMMA AnswersAre == Answers = {"accept", "decline", "remove"}
  BY SMT DEF Answers, Answer

LEMMA EachOp ==
  ASSUME NEW op \in LfgOps
  PROVE  \/ op = "create" \/ op = "close" \/ op = "join" \/ op = "leave" \/ op = "report"
         \/ op = "give" \/ op = "withdraw" \/ op = "block" \/ op \in Answers
         \/ op = "dismissed" \/ op = "post_removed" \/ op = "user_suspended"
  BY DEF LfgOps, Outcomes

LEMMA EndsAll ==
  ASSUME NEW op \in LfgOps, NEW todo, Ends(op, todo)
  PROVE  todo \in AllEnds
  BY EachOp DEF Ends, AllEnds

\* The end of a handler after one more step is an end of the same handler.
LEMMA OneStepOn ==
  ASSUME NEW op \in LfgOps, NEW todo, Ends(op, todo)
  PROVE  /\ todo # <<>>
         /\ Len(todo) # 1 => Ends(op, Tail(todo))
<1>1. CASE op = "create"
  <2>1. todo \in CreateEnds  BY <1>1 DEF Ends
  <2>. QED BY <1>1, <2>1, CreateOrder, AnswersAre DEF StepTo, LastStep, Ends
<1>2. CASE op = "close"
  <2>1. todo \in CloseEnds  BY <1>2 DEF Ends
  <2>. QED BY <1>2, <2>1, CloseOrder, AnswersAre DEF StepTo, LastStep, Ends
<1>3. CASE op = "join"
  <2>1. todo \in JoinEnds  BY <1>3 DEF Ends
  <2>. QED BY <1>3, <2>1, JoinOrder, AnswersAre DEF StepTo, LastStep, Ends
<1>4. CASE op = "leave"
  <2>1. todo \in LeaveEnds  BY <1>4 DEF Ends
  <2>. QED BY <1>4, <2>1, LeaveOrder, AnswersAre DEF StepTo, LastStep, Ends
<1>5. CASE op \in Answers
  <2>1. todo \in RespondEnds  BY <1>5 DEF Ends
  <2>. QED BY <1>5, <2>1, RespondOrder, AnswersAre DEF StepTo, LastStep, Ends
<1>6. CASE op = "report"
  <2>1. todo \in ReportEnds  BY <1>6 DEF Ends
  <2>. QED BY <1>6, <2>1, ReportOrder, AnswersAre DEF StepTo, LastStep, Ends
<1>7. CASE op = "dismissed"
  <2>1. todo \in DismissEnds  BY <1>7 DEF Ends
  <2>. QED BY <1>7, <2>1, DismissOrder, AnswersAre DEF StepTo, LastStep, Ends
<1>8. CASE op = "post_removed"
  <2>1. todo \in RemoveEnds  BY <1>8 DEF Ends
  <2>. QED BY <1>8, <2>1, RemoveOrder, AnswersAre DEF StepTo, LastStep, Ends
<1>9. CASE op = "user_suspended"
  <2>1. todo \in SuspendEnds  BY <1>9 DEF Ends
  <2>. QED BY <1>9, <2>1, SuspendOrder, AnswersAre DEF StepTo, LastStep, Ends
<1>10. CASE op = "give"
  <2>1. todo \in GiveEnds  BY <1>10 DEF Ends
  <2>. QED BY <1>10, <2>1, GiveOrder, AnswersAre DEF StepTo, LastStep, Ends
<1>11. CASE op = "withdraw"
  <2>1. todo \in WithdrawEnds  BY <1>11 DEF Ends
  <2>. QED BY <1>11, <2>1, WithdrawOrder, AnswersAre DEF StepTo, LastStep, Ends
<1>12. CASE op = "block"
  <2>1. todo \in BlockEnds  BY <1>12 DEF Ends
  <2>. QED BY <1>12, <2>1, BlockOrder, AnswersAre DEF StepTo, LastStep, Ends
<1>. QED BY <1>1, <1>2, <1>3, <1>4, <1>5, <1>6, <1>7, <1>8, <1>9, <1>10, <1>11, <1>12, EachOp

\* Which step comes before each of these, and in which handler.
Precedes(op, t) ==
  /\ Head(Tail(t)) = "count_posts" => Head(t) = "no_open_post"
  /\ Head(Tail(t)) = "insert_post" => Head(t) = "count_posts"
  /\ Head(Tail(t)) = "set_status" => Head(t) = "member"
  /\ Head(Tail(t)) = "member" => Head(t) = "get_post"
  /\ Head(Tail(t)) = "create_report" => Head(t) = "visible"
  /\ Head(Tail(t)) = "window" => Head(t) = "flew_together"
  /\ Head(Tail(t)) = "set_commend" => Head(t) = "window"
  /\ Head(Tail(t)) = "suspend" => Head(t) = "remove_post"
  /\ Head(Tail(t)) = "resolve" =>
       \/ op = "dismissed" \/ (op = "post_removed" /\ Head(t) = "remove_post")
       \/ (op = "user_suspended" /\ Head(t) = "suspend")

LEMMA StepBefore ==
  ASSUME NEW op \in LfgOps, NEW todo, Ends(op, todo), Len(todo) # 1
  PROVE  Precedes(op, todo)
<1>1. CASE op = "create"
  <2>1. todo \in CreateEnds  BY <1>1 DEF Ends
  <2>. QED BY <1>1, <2>1, CreateOrder DEF StepTo, LastStep, Precedes
<1>2. CASE op = "close"
  <2>1. todo \in CloseEnds  BY <1>2 DEF Ends
  <2>. QED BY <1>2, <2>1, CloseOrder DEF StepTo, LastStep, Precedes
<1>3. CASE op = "join"
  <2>1. todo \in JoinEnds  BY <1>3 DEF Ends
  <2>. QED BY <1>3, <2>1, JoinOrder DEF StepTo, LastStep, Precedes
<1>4. CASE op = "leave"
  <2>1. todo \in LeaveEnds  BY <1>4 DEF Ends
  <2>. QED BY <1>4, <2>1, LeaveOrder DEF StepTo, LastStep, Precedes
<1>5. CASE op \in Answers
  <2>1. todo \in RespondEnds  BY <1>5 DEF Ends
  <2>. QED BY <1>5, <2>1, RespondOrder, AnswersAre DEF StepTo, LastStep, Precedes
<1>6. CASE op = "report"
  <2>1. todo \in ReportEnds  BY <1>6 DEF Ends
  <2>. QED BY <1>6, <2>1, ReportOrder DEF StepTo, LastStep, Precedes
<1>7. CASE op = "dismissed"
  <2>1. todo \in DismissEnds  BY <1>7 DEF Ends
  <2>. QED BY <1>7, <2>1, DismissOrder DEF StepTo, LastStep, Precedes
<1>8. CASE op = "post_removed"
  <2>1. todo \in RemoveEnds  BY <1>8 DEF Ends
  <2>. QED BY <1>8, <2>1, RemoveOrder DEF StepTo, LastStep, Precedes
<1>9. CASE op = "user_suspended"
  <2>1. todo \in SuspendEnds  BY <1>9 DEF Ends
  <2>. QED BY <1>9, <2>1, SuspendOrder DEF StepTo, LastStep, Precedes
<1>10. CASE op = "give"
  <2>1. todo \in GiveEnds  BY <1>10 DEF Ends
  <2>. QED BY <1>10, <2>1, GiveOrder DEF StepTo, LastStep, Precedes
<1>11. CASE op = "withdraw"
  <2>1. todo \in WithdrawEnds  BY <1>11 DEF Ends
  <2>. QED BY <1>11, <2>1, WithdrawOrder DEF StepTo, LastStep, Precedes
<1>12. CASE op = "block"
  <2>1. todo \in BlockEnds  BY <1>12 DEF Ends
  <2>. QED BY <1>12, <2>1, BlockOrder DEF StepTo, LastStep, Precedes
<1>. QED BY <1>1, <1>2, <1>3, <1>4, <1>5, <1>6, <1>7, <1>8, <1>9, <1>10, <1>11, <1>12, EachOp

\* Which handler a step is of.
LEMMA StepOwner ==
  ASSUME NEW op \in LfgOps, NEW todo, Ends(op, todo)
  PROVE  /\ Head(todo) \in {"no_open_post", "count_posts", "insert_post"} => op = "create"
         /\ Head(todo) \in {"member", "set_status"} => op = "leave" \/ op \in Answers
         /\ Head(todo) \in {"get_post", "history", "room"} => op \in Answers
         /\ Head(todo) = "create_report" => op = "report"
         /\ Head(todo) = "request_join" => op = "join"
         /\ Head(todo) = "set_commend" => op = "give"
         /\ Head(todo) = "suspend" => op = "user_suspended"
         /\ Head(todo) \in {"remove_post"} => op = "post_removed" \/ op = "user_suspended"
         /\ Head(todo) = "resolve" => op \in Outcomes
<1>1. CASE op = "create"
  <2>1. todo \in CreateEnds  BY <1>1 DEF Ends
  <2>. QED BY <1>1, <2>1, CreateOrder DEF StepTo, LastStep, Outcomes
<1>2. CASE op = "close"
  <2>1. todo \in CloseEnds  BY <1>2 DEF Ends
  <2>. QED BY <1>2, <2>1, CloseOrder DEF StepTo, LastStep, Outcomes
<1>3. CASE op = "join"
  <2>1. todo \in JoinEnds  BY <1>3 DEF Ends
  <2>. QED BY <1>3, <2>1, JoinOrder DEF StepTo, LastStep, Outcomes
<1>4. CASE op = "leave"
  <2>1. todo \in LeaveEnds  BY <1>4 DEF Ends
  <2>. QED BY <1>4, <2>1, LeaveOrder DEF StepTo, LastStep, Outcomes
<1>5. CASE op \in Answers
  <2>1. todo \in RespondEnds  BY <1>5 DEF Ends
  <2>. QED BY <1>5, <2>1, RespondOrder, AnswersAre DEF StepTo, LastStep, Outcomes
<1>6. CASE op = "report"
  <2>1. todo \in ReportEnds  BY <1>6 DEF Ends
  <2>. QED BY <1>6, <2>1, ReportOrder DEF StepTo, LastStep, Outcomes
<1>7. CASE op = "dismissed"
  <2>1. todo \in DismissEnds  BY <1>7 DEF Ends
  <2>. QED BY <1>7, <2>1, DismissOrder DEF StepTo, LastStep, Outcomes
<1>8. CASE op = "post_removed"
  <2>1. todo \in RemoveEnds  BY <1>8 DEF Ends
  <2>. QED BY <1>8, <2>1, RemoveOrder DEF StepTo, LastStep, Outcomes
<1>9. CASE op = "user_suspended"
  <2>1. todo \in SuspendEnds  BY <1>9 DEF Ends
  <2>. QED BY <1>9, <2>1, SuspendOrder DEF StepTo, LastStep, Outcomes
<1>10. CASE op = "give"
  <2>1. todo \in GiveEnds  BY <1>10 DEF Ends
  <2>. QED BY <1>10, <2>1, GiveOrder DEF StepTo, LastStep, Outcomes
<1>11. CASE op = "withdraw"
  <2>1. todo \in WithdrawEnds  BY <1>11 DEF Ends
  <2>. QED BY <1>11, <2>1, WithdrawOrder DEF StepTo, LastStep, Outcomes
<1>12. CASE op = "block"
  <2>1. todo \in BlockEnds  BY <1>12 DEF Ends
  <2>. QED BY <1>12, <2>1, BlockOrder DEF StepTo, LastStep, Outcomes
<1>. QED BY <1>1, <1>2, <1>3, <1>4, <1>5, <1>6, <1>7, <1>8, <1>9, <1>10, <1>11, <1>12, EachOp

-----------------------------------------------------------------------------
(* How a call goes on.                                                     *)

Same(k, j) == j.op = k.op /\ j.id = k.id /\ j.me = k.me /\ j.them = k.them

Goes(k, j) ==
  \/ j = k \/ j = NoLfgCall
  \/ k \in LfgCallRec /\ Same(k, j) /\ j.todo = k.todo
  \/ k \in LfgCallRec /\ Same(k, j) /\ Len(k.todo) # 1 /\ j.todo = Tail(k.todo)
  \/ k = NoLfgCall /\ j.op \in LfgOps /\ j.todo = Steps[j.op]

CallOk(k) == k \in {NoLfgCall} \cup LfgCallRec /\ InOrder(k) /\ Roles(k)
CallsGo == \A c \in LfgCalls : Goes(lcall[c], lcall'[c])
OthersStay(c) == \A d \in LfgCalls : d # c => lcall'[d] = lcall[d]

LEMMA IdleOk == CallOk(NoLfgCall) /\ NoLfgCall.op = "none" /\ NoLfgCall \notin LfgCallRec
<1>1. NoLfgCall.op = "none" /\ NoLfgCall.todo = <<>>
  BY SMT DEF NoLfgCall
<1>2. "none" \notin LfgOps
  BY AnswersAre DEF LfgOps, Outcomes
<1>3. "none" \notin Answers \cup Outcomes
  BY AnswersAre DEF Outcomes
<1>. QED BY <1>1, <1>2, <1>3 DEF CallOk, InOrder, Ends, Roles, LfgCallRec

LEMMA CallFields ==
  ASSUME NEW k \in LfgCallRec
  PROVE  /\ k.op \in LfgOps /\ k.op # "none" /\ k.id \in Posts /\ k.me \in Crew
         /\ k.them \in Crew /\ k.todo \in AllEnds /\ k.was \in Statuses
         /\ k.others \in SUBSET Crew
<1>1. "none" \notin LfgOps
  BY AnswersAre DEF LfgOps, Outcomes
<1>. QED BY <1>1 DEF LfgCallRec

LEMMA Retold ==
  ASSUME NEW k \in LfgCallRec, InOrder(k), Roles(k), Len(k.todo) # 1
  PROVE  LET j == [k EXCEPT !.todo = Tail(k.todo)]
         IN  j \in LfgCallRec /\ Same(k, j) /\ j.todo = Tail(k.todo) /\ CallOk(j) /\ Goes(k, j)
             /\ j.was = k.was /\ j.others = k.others
<1>. DEFINE j == [k EXCEPT !.todo = Tail(k.todo)]
<1>1. k.todo # <<>> /\ Ends(k.op, Tail(k.todo))
  BY OneStepOn, CallFields DEF InOrder
<1>2. Tail(k.todo) \in AllEnds
  BY <1>1, EndsAll, CallFields
<1>3. j \in LfgCallRec
  BY <1>2 DEF LfgCallRec
<1>4. /\ j.op = k.op /\ j.id = k.id /\ j.me = k.me /\ j.them = k.them
      /\ j.todo = Tail(k.todo) /\ j.was = k.was /\ j.others = k.others
  BY DEF LfgCallRec
<1>. HIDE DEF j
<1>5. InOrder(j) /\ Roles(j)
  BY <1>1, <1>4 DEF InOrder, Roles
<1>6. QED BY <1>3, <1>4, <1>5 DEF Same, CallOk, Goes, j

LEMMA Advancing ==
  ASSUME NEW k \in LfgCallRec, InOrder(k), Roles(k)
  PROVE  CallOk(Advanced(k)) /\ Goes(k, Advanced(k))
<1>1. CASE Len(k.todo) = 1
  BY <1>1, IdleOk DEF Advanced, Goes
<1>2. CASE Len(k.todo) # 1
  BY <1>2, Retold DEF Advanced
<1>. QED BY <1>1, <1>2

LEMMA Reading ==
  ASSUME NEW k \in LfgCallRec, InOrder(k), Roles(k), Len(k.todo) # 1, NEW w \in Statuses
  PROVE  LET j == [k EXCEPT !.todo = Tail(k.todo), !.was = w]
         IN  CallOk(j) /\ Goes(k, j)
<1>. DEFINE i == [k EXCEPT !.todo = Tail(k.todo)]
            j == [k EXCEPT !.todo = Tail(k.todo), !.was = w]
<1>1. i \in LfgCallRec /\ CallOk(i) /\ Same(k, i) /\ i.todo = Tail(k.todo)
  BY Retold
<1>2. j = [i EXCEPT !.was = w]
  BY SMT DEF LfgCallRec
<1>. HIDE DEF i, j
<1>3. ASSUME NEW h \in LfgCallRec
      PROVE  /\ [h EXCEPT !.was = w] \in LfgCallRec
             /\ Same(h, [h EXCEPT !.was = w]) /\ [h EXCEPT !.was = w].todo = h.todo
  BY <1>3 DEF LfgCallRec, Same
<1>4. j \in LfgCallRec /\ Same(i, j) /\ j.todo = i.todo
  BY <1>1, <1>2, <1>3
<1>5. CallOk(j) /\ Same(k, j) /\ j.todo = Tail(k.todo)
  BY <1>1, <1>4 DEF CallOk, Same, InOrder, Roles
<1>. QED BY <1>5 DEF Goes, j

LEMMA Thinning ==
  ASSUME NEW k \in LfgCallRec, InOrder(k), Roles(k), NEW o \in SUBSET Crew
  PROVE  LET j == [k EXCEPT !.others = o]
         IN  CallOk(j) /\ Goes(k, j) /\ j.todo = k.todo
<1>. DEFINE j == [k EXCEPT !.others = o]
<1>1. j \in LfgCallRec /\ Same(k, j) /\ j.todo = k.todo
  BY DEF LfgCallRec, Same
<1>. HIDE DEF j
<1>2. CallOk(j) /\ Goes(k, j) /\ j.todo = k.todo
  BY <1>1 DEF CallOk, Same, InOrder, Roles, Goes
<1>. QED BY <1>2 DEF j

\* One call goes on and the others stay.
OneGoes(c) == CallTypes' /\ CallsGo /\ OthersStay(c)

LEMMA CallBecomes ==
  ASSUME CallTypes, NEW c \in LfgCalls, NEW j, CallOk(j), Goes(lcall[c], j),
         lcall' = [lcall EXCEPT ![c] = j],
         begun' \in Nat, begun' <= MaxLfgCalls, lfgFaults' \in Nat, lfgFaults' <= MaxLfgFaults
  PROVE  OneGoes(c) /\ lcall'[c] = j
<1>1. /\ lcall' \in [LfgCalls -> {NoLfgCall} \cup LfgCallRec]
      /\ \A d \in LfgCalls : lcall'[d] = IF d = c THEN j ELSE lcall[d]
  BY DEF CallTypes, CallOk
<1>2. CallTypes'
  BY <1>1 DEF CallTypes, CallOk
<1>3. CallsGo /\ OthersStay(c)
  BY <1>1 DEF CallsGo, OthersStay, Goes
<1>. QED BY <1>1, <1>2, <1>3 DEF OneGoes

LEMMA Inflight ==
  ASSUME CallTypes, NEW c \in LfgCalls, lcall[c].op # "none"
  PROVE  lcall[c] \in LfgCallRec /\ InOrder(lcall[c]) /\ Roles(lcall[c])
  BY IdleOk DEF CallTypes

LEMMA StepIsDone ==
  ASSUME CallTypes, NEW c \in LfgCalls, lcall[c].op # "none", StepDone(c),
         UNCHANGED <<begun, lfgFaults>>
  PROVE  OneGoes(c)
<1>1. CallOk(Advanced(lcall[c])) /\ Goes(lcall[c], Advanced(lcall[c]))
  BY Inflight, Advancing
<1>2. begun' \in Nat /\ begun' <= MaxLfgCalls /\ lfgFaults' \in Nat /\ lfgFaults' <= MaxLfgFaults
  BY DEF CallTypes
<1>. QED BY <1>1, <1>2, CallBecomes DEF StepDone

LEMMA CallEnds ==
  ASSUME CallTypes, NEW c \in LfgCalls, EndLfg(c),
         begun' \in Nat, begun' <= MaxLfgCalls, lfgFaults' \in Nat, lfgFaults' <= MaxLfgFaults
  PROVE  OneGoes(c) /\ lcall'[c] = NoLfgCall
  BY IdleOk, CallBecomes DEF EndLfg, Goes

LEMMA BoundsStay ==
  ASSUME CallTypes, UNCHANGED <<begun, lfgFaults>>
  PROVE  begun' \in Nat /\ begun' <= MaxLfgCalls /\ lfgFaults' \in Nat /\ lfgFaults' <= MaxLfgFaults
  BY DEF CallTypes

\* The steps that a call passes only when something holds.
Passed(c, s) ==
  /\ At(lcall[c], s) /\ lcall'[c] # lcall[c] /\ lcall[c] \in LfgCallRec
  /\ Same(lcall[c], lcall'[c]) /\ Len(lcall[c].todo) # 1 /\ lcall'[c].todo = Tail(lcall[c].todo)

Pair(k) == {k.me, k.them}
PassFacts ==
  \A c \in LfgCalls :
    /\ Passed(c, "no_open_post") => OpenPosts = {}
    /\ Passed(c, "visible") => post[lcall[c].id] \in Existing
    /\ Passed(c, "get_post") /\ lcall[c].op = "accept" => HasRoom(lcall[c].id)
    /\ Passed(c, "member") /\ lcall[c].op \in {"leave", "accept"} =>
         member[lcall[c].id][RowOf(lcall[c])] \in {"requested", "accepted"}
    /\ Passed(c, "flew_together") => <<lcall[c].id, Pair(lcall[c])>> \in crew
    /\ Passed(c, "remove_post") => post'[lcall[c].id] \in {"removed", "gone"}
    /\ Passed(c, "suspend") => suspended'
    /\ Passed(c, "no_open_post") \/ Passed(c, "get_post") => \E d \in LfgCalls : Check(d)

Gated == {"no_open_post", "visible", "get_post", "member", "flew_together",
          "remove_post", "suspend"}

LEMMA UngatedPass ==
  ASSUME NEW c \in LfgCalls, OthersStay(c),
         lcall[c] = NoLfgCall \/ Head(lcall[c].todo) \notin Gated \/ lcall'[c] = NoLfgCall
  PROVE  PassFacts
<1>1. ASSUME NEW d \in LfgCalls, NEW s \in Gated PROVE ~Passed(d, s)
  <2>1. CASE d # c  BY <2>1 DEF OthersStay, Passed
  <2>2. CASE d = c
    <3>1. lcall[c] = NoLfgCall => ~At(lcall[c], s)
      BY IdleOk DEF At
    <3>2. lcall'[c] = NoLfgCall => ~(lcall[c] \in LfgCallRec /\ Same(lcall[c], lcall'[c]))
      BY IdleOk, CallFields DEF Same
    <3>. QED BY <2>2, <3>1, <3>2, <1>1 DEF Passed, At
  <2>. QED BY <2>1, <2>2
<1>. QED BY <1>1 DEF PassFacts, Gated

\* What every step does to the calls.
CallsFare == CallTypes' /\ CallsGo /\ PassFacts

LEMMA UngatedFare ==
  ASSUME NEW c \in LfgCalls, OneGoes(c),
         lcall[c] = NoLfgCall \/ Head(lcall[c].todo) \notin Gated \/ lcall'[c] = NoLfgCall
  PROVE  CallsFare
  BY UngatedPass DEF OneGoes, CallsFare

\* Where each handler starts.
Starts(op, todo) ==
  /\ Ends(op, todo)
  /\ Head(todo) \in {"no_open_post", "close", "visible", "get_post", "get_report",
                    "not_barred", "bar", "member"}
  /\ Head(todo) = "member" => op = "leave"

LEMMA StepsStart ==
  ASSUME NEW op \in LfgOps
  PROVE  Starts(op, Steps[op])
<1>1. CASE op = "create"
  <2>1. Steps[op] = <<"no_open_post", "count_posts", "insert_post">>
    BY <1>1, AnswersAre DEF Steps, create_post
  <2>2. Head(<<"no_open_post", "count_posts", "insert_post">>) = "no_open_post"
    BY SMT
  <2>3. <<"no_open_post", "count_posts", "insert_post">> \in CreateEnds
    BY DEF CreateEnds
  <2>. QED BY <1>1, <2>1, <2>2, <2>3, AnswersAre DEF Starts, Ends
<1>2. CASE op = "close"
  <2>1. Steps[op] = <<"close">>
    BY <1>2, AnswersAre DEF Steps, close_post
  <2>2. Head(<<"close">>) = "close"
    BY SMT
  <2>3. <<"close">> \in CloseEnds
    BY DEF CloseEnds
  <2>. QED BY <1>2, <2>1, <2>2, <2>3, AnswersAre DEF Starts, Ends
<1>3. CASE op = "join"
  <2>1. Steps[op] = <<"visible", "request_join">>
    BY <1>3, AnswersAre DEF Steps, join
  <2>2. Head(<<"visible", "request_join">>) = "visible"
    BY SMT
  <2>3. <<"visible", "request_join">> \in JoinEnds
    BY DEF JoinEnds
  <2>. QED BY <1>3, <2>1, <2>2, <2>3, AnswersAre DEF Starts, Ends
<1>4. CASE op = "leave"
  <2>1. Steps[op] = <<"member", "set_status">>
    BY <1>4, AnswersAre DEF Steps, leave
  <2>2. Head(<<"member", "set_status">>) = "member"
    BY SMT
  <2>3. <<"member", "set_status">> \in LeaveEnds
    BY DEF LeaveEnds
  <2>. QED BY <1>4, <2>1, <2>2, <2>3, AnswersAre DEF Starts, Ends
<1>5. CASE op \in Answers
  <2>1. Steps[op] = <<"get_post", "member", "set_status", "history", "room">>
    <3>1. /\ Steps["accept"] = respond /\ Steps["decline"] = respond
          /\ Steps["remove"] = respond
      BY DEF Steps
    <3>. QED BY <1>5, <3>1, AnswersAre DEF respond
  <2>2. Head(<<"get_post", "member", "set_status", "history", "room">>) = "get_post"
    BY SMT
  <2>3. <<"get_post", "member", "set_status", "history", "room">> \in RespondEnds
    BY DEF RespondEnds
  <2>. QED BY <1>5, <2>1, <2>2, <2>3, AnswersAre DEF Starts, Ends
<1>6. CASE op = "report"
  <2>1. Steps[op] = <<"visible", "create_report">>
    BY <1>6, AnswersAre DEF Steps, report_post
  <2>2. Head(<<"visible", "create_report">>) = "visible"
    BY SMT
  <2>3. <<"visible", "create_report">> \in ReportEnds
    BY DEF ReportEnds
  <2>. QED BY <1>6, <2>1, <2>2, <2>3, AnswersAre DEF Starts, Ends
<1>7. CASE op = "dismissed"
  <2>1. Steps[op] = <<"get_report", "resolve">>
    BY <1>7, AnswersAre DEF Steps
  <2>2. Head(<<"get_report", "resolve">>) = "get_report"
    BY SMT
  <2>3. <<"get_report", "resolve">> \in DismissEnds
    BY DEF DismissEnds
  <2>. QED BY <1>7, <2>1, <2>2, <2>3, AnswersAre DEF Starts, Ends
<1>8. CASE op = "post_removed"
  <2>1. Steps[op] = <<"get_report", "remove_post", "resolve">>
    BY <1>8, AnswersAre DEF Steps
  <2>2. Head(<<"get_report", "remove_post", "resolve">>) = "get_report"
    BY SMT
  <2>3. <<"get_report", "remove_post", "resolve">> \in RemoveEnds
    BY DEF RemoveEnds
  <2>. QED BY <1>8, <2>1, <2>2, <2>3, AnswersAre DEF Starts, Ends
<1>9. CASE op = "user_suspended"
  <2>1. Steps[op] = <<"get_report", "remove_post", "suspend", "resolve">>
    BY <1>9, AnswersAre DEF Steps, admin_resolve
  <2>2. Head(<<"get_report", "remove_post", "suspend", "resolve">>) = "get_report"
    BY SMT
  <2>3. <<"get_report", "remove_post", "suspend", "resolve">> \in SuspendEnds
    BY DEF SuspendEnds
  <2>. QED BY <1>9, <2>1, <2>2, <2>3, AnswersAre DEF Starts, Ends
<1>10. CASE op = "give"
  <2>1. Steps[op] = <<"not_barred", "flew_together", "window", "set_commend">>
    BY <1>10, AnswersAre DEF Steps, give
  <2>2. Head(<<"not_barred", "flew_together", "window", "set_commend">>) = "not_barred"
    BY SMT
  <2>3. <<"not_barred", "flew_together", "window", "set_commend">> \in GiveEnds
    BY DEF GiveEnds
  <2>. QED BY <1>10, <2>1, <2>2, <2>3, AnswersAre DEF Starts, Ends
<1>11. CASE op = "withdraw"
  <2>1. Steps[op] = <<"not_barred", "flew_together", "window", "drop_commend">>
    BY <1>11, AnswersAre DEF Steps, withdraw
  <2>2. Head(<<"not_barred", "flew_together", "window", "drop_commend">>) = "not_barred"
    BY SMT
  <2>3. <<"not_barred", "flew_together", "window", "drop_commend">> \in WithdrawEnds
    BY DEF WithdrawEnds
  <2>. QED BY <1>11, <2>1, <2>2, <2>3, AnswersAre DEF Starts, Ends
<1>12. CASE op = "block"
  <2>1. Steps[op] = <<"bar", "delete_between">>
    BY <1>12, AnswersAre DEF Steps, block_user_crew
  <2>2. Head(<<"bar", "delete_between">>) = "bar"
    BY SMT
  <2>3. <<"bar", "delete_between">> \in BlockEnds
    BY DEF BlockEnds
  <2>. QED BY <1>12, <2>1, <2>2, <2>3, AnswersAre DEF Starts, Ends
<1>. QED BY <1>1, <1>2, <1>3, <1>4, <1>5, <1>6, <1>7, <1>8, <1>9, <1>10, <1>11, <1>12, EachOp

LEMMA CallBegins ==
  ASSUME CallTypes, BoardBounds, NEW c \in LfgCalls, NEW op \in LfgOps, NEW p \in Posts,
         NEW who \in Callers(op), BeginLfg(c, op, p, who)
  PROVE  /\ CallsFare /\ OneGoes(c) /\ lcall[c] = NoLfgCall
         /\ lcall'[c].op = op /\ lcall'[c].id = p /\ Head(lcall'[c].todo) # "set_status"
<1>. DEFINE j == [op |-> op, id |-> p, me |-> who[1], them |-> who[2], todo |-> Steps[op],
                  was |-> "none", others |-> {}]
<1>1. Starts(op, Steps[op])
  BY StepsStart
<1>2. /\ who[1] \in Crew /\ who[2] \in Crew
      /\ op \in Answers \cup Outcomes => who[2] \in Mates
      /\ op \in {"join", "leave", "report"} => who[1] \in Mates
  <2>1. CASE op \in {"create", "close"}
    <3>1. Callers(op) = {<<Host, Host>>}
      BY <2>1, AnswersAre DEF Callers, Outcomes
    <3>. QED BY <2>1, <3>1, AnswersAre, SMT DEF Outcomes, Crew
  <2>2. CASE op \in Answers
    <3>1. Callers(op) = {Host} \X Mates
      BY <2>2, AnswersAre DEF Callers
    <3>. QED BY <2>2, <3>1, AnswersAre, SMT DEF Outcomes, Crew
  <2>3. CASE op \in Outcomes
    <3>1. Callers(op) = {Host} \X Mates
      BY <2>3, AnswersAre DEF Callers, Outcomes
    <3>. QED BY <2>3, <3>1, AnswersAre, SMT DEF Outcomes, Crew
  <2>4. CASE op \in {"join", "leave", "report"}
    <3>1. Callers(op) = Mates \X {Host}
      BY <2>4, AnswersAre DEF Callers, Outcomes
    <3>. QED BY <2>4, <3>1, AnswersAre, SMT DEF Outcomes, Crew
  <2>5. CASE op \in {"give", "withdraw", "block"}
    <3>1. Callers(op) = {d \in Crew \X Crew : d[1] # d[2]}
      BY <2>5, AnswersAre DEF Callers, Outcomes
    <3>. QED BY <2>5, <3>1, AnswersAre, SMT DEF Outcomes, Crew
  <2>. QED BY <2>1, <2>2, <2>3, <2>4, <2>5 DEF LfgOps
<1>3. "none" \in Statuses /\ {} \in SUBSET Crew
  BY DEF Statuses
<1>4. Steps[op] \in AllEnds
  BY <1>1, EndsAll DEF Starts
<1>5. j \in LfgCallRec
  BY <1>2, <1>3, <1>4 DEF LfgCallRec
<1>6. /\ j.op = op /\ j.id = p /\ j.me = who[1] /\ j.them = who[2] /\ j.todo = Steps[op]
  OBVIOUS
<1>7. lcall' = [lcall EXCEPT ![c] = j] /\ lcall[c] = NoLfgCall /\ UNCHANGED lfgFaults
  BY DEF BeginLfg
<1>. HIDE DEF j
<1>8. CallOk(j)
  BY <1>1, <1>2, <1>5, <1>6 DEF CallOk, InOrder, Roles, Starts
<1>9. Goes(lcall[c], j)
  BY <1>6, <1>7 DEF Goes
<1>10. begun' \in Nat /\ begun' <= MaxLfgCalls
  BY SMT DEF BeginLfg, CallTypes, BoardBounds
<1>11. lfgFaults' \in Nat /\ lfgFaults' <= MaxLfgFaults
  BY <1>7 DEF CallTypes
<1>12. OneGoes(c) /\ lcall'[c] = j
  BY <1>7, <1>8, <1>9, <1>10, <1>11, CallBecomes
<1>13. Head(Steps[op]) # "set_status"
  BY <1>1 DEF Starts
<1>. QED BY <1>6, <1>7, <1>12, <1>13, UngatedFare

LEMMA CallChecks ==
  ASSUME CallTypes, LfgTypes, NEW c \in LfgCalls, Check(c)
  PROVE  CallsFare /\ OneGoes(c)
<1>1. /\ lcall[c] \in LfgCallRec /\ InOrder(lcall[c]) /\ Roles(lcall[c]) /\ lcall[c].op # "none"
  BY Inflight DEF Check
<1>2. UNCHANGED <<begun, lfgFaults>>
  BY DEF Check
<1>3. CASE ~Passes(c)
  <2>1. EndLfg(c)
    BY <1>3 DEF Check, GoOn
  <2>2. OneGoes(c) /\ lcall'[c] = NoLfgCall
    BY <1>2, <2>1, BoundsStay, CallEnds
  <2>. QED BY <2>2, UngatedFare
<1>4. CASE Passes(c)
  <2>1. OneGoes(c)
    <3>1. CASE ~Doing(c, "member")
      <4>1. StepDone(c)
        BY <1>4, <3>1 DEF Check, GoOn
      <4>. QED BY <1>1, <1>2, <4>1, StepIsDone
    <3>2. CASE Doing(c, "member")
      <4>. DEFINE w == member[lcall[c].id][RowOf(lcall[c])]
                  j == [lcall[c] EXCEPT !.todo = Tail(lcall[c].todo), !.was = w]
      <4>1. lcall' = [lcall EXCEPT ![c] = j]
        BY <1>4, <3>2 DEF Check
      <4>2. Len(lcall[c].todo) # 1
        <5>1. lcall[c].op = "leave" \/ lcall[c].op \in Answers
          BY <1>1, <3>2, StepOwner, CallFields DEF Doing, InOrder
        <5>2. CASE lcall[c].op = "leave"
          <6>1. lcall[c].todo \in LeaveEnds
            BY <1>1, <5>2 DEF InOrder, Ends
          <6>. QED BY <3>2, <6>1, LeaveOrder DEF Doing, StepTo, LastStep
        <5>3. CASE lcall[c].op \in Answers
          <6>1. lcall[c].todo \in RespondEnds
            BY <1>1, <5>3 DEF InOrder, Ends
          <6>. QED BY <3>2, <6>1, RespondOrder DEF Doing, StepTo, LastStep
        <5>. QED BY <5>1, <5>2, <5>3
      <4>3. lcall[c].id \in Posts /\ RowOf(lcall[c]) \in Mates
        <5>1. lcall[c].op = "leave" \/ lcall[c].op \in Answers
          BY <1>1, <3>2, StepOwner, CallFields DEF Doing, InOrder
        <5>. QED BY <1>1, <5>1, CallFields, AnswersAre DEF Roles, RowOf
      <4>4. w \in Statuses
        <5>1. member[lcall[c].id] \in [Mates -> Statuses]
          BY <4>3 DEF LfgTypes
        <5>. QED BY <4>3, <5>1
      <4>. HIDE DEF w
      <4>5. CallOk(j) /\ Goes(lcall[c], j)
        BY <1>1, <4>2, <4>4, Reading
      <4>. HIDE DEF j
      <4>. QED BY <1>2, <4>1, <4>5, BoundsStay, CallBecomes
    <3>. QED BY <3>1, <3>2
  <2>2. PassFacts
    <3>1. ASSUME NEW d \in LfgCalls, NEW s, Passed(d, s) PROVE d = c /\ Head(lcall[c].todo) = s
      BY <2>1, <3>1 DEF OneGoes, OthersStay, Passed, At
    <3>2. Head(lcall[c].todo) \in {"no_open_post", "count_posts", "visible", "get_post",
            "member", "get_report", "not_barred", "flew_together", "window"}
      BY DEF Check
    <3>3. Head(lcall[c].todo) = "no_open_post" => OpenPosts = {}
      BY <1>4 DEF Passes, Doing
    <3>4. Head(lcall[c].todo) = "visible" => post[lcall[c].id] \in Existing
      BY <1>4 DEF Passes, Doing
    <3>5. Head(lcall[c].todo) = "get_post" /\ lcall[c].op = "accept" => HasRoom(lcall[c].id)
      BY <1>4 DEF Passes, Doing
    <3>6. Head(lcall[c].todo) = "member" /\ lcall[c].op \in {"leave", "accept"} =>
            member[lcall[c].id][RowOf(lcall[c])] \in {"requested", "accepted"}
      BY <1>4 DEF Passes, Doing
    <3>7. Head(lcall[c].todo) = "flew_together" => <<lcall[c].id, Pair(lcall[c])>> \in crew
      BY <1>4 DEF Passes, Doing, Pair
    <3>8. ASSUME NEW d \in LfgCalls PROVE ~Passed(d, "remove_post") /\ ~Passed(d, "suspend")
      <4>1. Head(lcall[c].todo) # "remove_post" /\ Head(lcall[c].todo) # "suspend"
        BY <3>2
      <4>. QED BY <3>1, <4>1
    <3>9. ASSUME NEW d \in LfgCalls
          PROVE  /\ Passed(d, "no_open_post") => OpenPosts = {}
                 /\ Passed(d, "visible") => post[lcall[d].id] \in Existing
                 /\ Passed(d, "get_post") /\ lcall[d].op = "accept" => HasRoom(lcall[d].id)
      BY <3>1, <3>3, <3>4, <3>5
    <3>10. ASSUME NEW d \in LfgCalls
           PROVE  Passed(d, "member") /\ lcall[d].op \in {"leave", "accept"} =>
                    member[lcall[d].id][RowOf(lcall[d])] \in {"requested", "accepted"}
      BY <3>1, <3>6
    <3>11. ASSUME NEW d \in LfgCalls
           PROVE  Passed(d, "flew_together") => <<lcall[d].id, Pair(lcall[d])>> \in crew
      BY <3>1, <3>7
    <3>. QED BY <3>8, <3>9, <3>10, <3>11 DEF PassFacts
  <2>. QED BY <2>1, <2>2 DEF CallsFare, OneGoes
<1>. QED BY <1>3, <1>4

\* The steps that write.
LEMMA CallWrites ==
  ASSUME CallTypes, NEW c \in LfgCalls, lcall[c].op # "none", StepDone(c),
         Head(lcall[c].todo) \notin Gated, UNCHANGED <<begun, lfgFaults>>
  PROVE  CallsFare /\ OneGoes(c)
  BY StepIsDone, UngatedFare

LEMMA StatusWritten ==
  ASSUME CallTypes, NEW c \in LfgCalls, SetMemberStatus(c)
  PROVE  CallsFare /\ OneGoes(c)
<1>1. /\ lcall[c].op # "none" /\ Head(lcall[c].todo) = "set_status" /\ UNCHANGED <<begun, lfgFaults>>
      /\ StepDone(c) \/ EndLfg(c)
  BY DEF SetMemberStatus, Doing, GoOn
<1>2. Head(lcall[c].todo) \notin Gated
  BY <1>1 DEF Gated
<1>3. CASE StepDone(c)
  BY <1>1, <1>2, <1>3, CallWrites
<1>4. CASE EndLfg(c)
  BY <1>1, <1>4, BoundsStay, CallEnds, UngatedFare
<1>. QED BY <1>1, <1>3, <1>4

LEMMA CallThins ==
  ASSUME CallTypes, NEW c \in LfgCalls, lcall[c].op # "none",
         Head(lcall[c].todo) \notin Gated, NEW o \in SUBSET Crew,
         lcall' = [lcall EXCEPT ![c] = [lcall[c] EXCEPT !.others = o]],
         begun' \in Nat, begun' <= MaxLfgCalls, lfgFaults' \in Nat, lfgFaults' <= MaxLfgFaults
  PROVE  CallsFare /\ OneGoes(c)
  BY Inflight, Thinning, CallBecomes, UngatedFare

LEMMA CrewIsRead ==
  ASSUME CallTypes, NEW c \in LfgCalls, ReadCrew(c)
  PROVE  CallsFare /\ OneGoes(c)
<1>. DEFINE o == {Host} \cup {m \in Mates \ {lcall[c].them} :
                                member[lcall[c].id][m] \in {"accepted", "left"}}
<1>1. /\ lcall[c].op # "none" /\ Head(lcall[c].todo) = "history" /\ UNCHANGED <<begun, lfgFaults>>
      /\ lcall' = [lcall EXCEPT ![c] = [lcall[c] EXCEPT !.others = o]]
  BY DEF ReadCrew, Doing
<1>2. Head(lcall[c].todo) \notin Gated
  BY <1>1 DEF Gated
<1>3. o \in SUBSET Crew
  BY DEF Crew
<1>. HIDE DEF o
<1>. QED BY <1>1, <1>2, <1>3, BoundsStay, CallThins

LEMMA CrewIsRecorded ==
  ASSUME CallTypes, NEW c \in LfgCalls, RecordCrew(c)
  PROVE  CallsFare /\ OneGoes(c)
<1>1. /\ lcall[c].op # "none" /\ Head(lcall[c].todo) = "history" /\ UNCHANGED <<begun, lfgFaults>>
  BY DEF RecordCrew, Doing
<1>2. PICK o \in lcall[c].others :
         \/ StepDone(c)
         \/ lcall' = [lcall EXCEPT ![c] = [lcall[c] EXCEPT !.others = lcall[c].others \ {o}]]
  BY DEF RecordCrew
<1>3. Head(lcall[c].todo) \notin Gated
  BY <1>1 DEF Gated
<1>4. CASE StepDone(c)
  BY <1>1, <1>3, <1>4, CallWrites
<1>5. CASE lcall' = [lcall EXCEPT ![c] = [lcall[c] EXCEPT !.others = lcall[c].others \ {o}]]
  <2>1. lcall[c].others \ {o} \in SUBSET Crew
    BY <1>1, Inflight, CallFields
  <2>. QED BY <1>1, <1>3, <1>5, <2>1, BoundsStay, CallThins
<1>. QED BY <1>2, <1>4, <1>5

LEMMA CallFails ==
  ASSUME CallTypes, BoardBounds, NEW c \in LfgCalls, LfgStepFails(c)
  PROVE  CallsFare /\ OneGoes(c)
<1>1. lcall[c].op # "none" /\ UNCHANGED begun
  BY DEF LfgStepFails
<1>2. begun' \in Nat /\ begun' <= MaxLfgCalls
  BY <1>1 DEF CallTypes
<1>3. lfgFaults' \in Nat /\ lfgFaults' <= MaxLfgFaults
  BY SMT DEF LfgStepFails, CallTypes, BoardBounds
<1>4. CASE Head(lcall[c].todo) \notin LfgForgiven
  <2>1. EndLfg(c)
    BY <1>4 DEF LfgStepFails
  <2>. QED BY <1>2, <1>3, <2>1, CallEnds, UngatedFare
<1>5. CASE Head(lcall[c].todo) \in LfgForgiven
  <2>1. Head(lcall[c].todo) \notin Gated
    BY <1>5 DEF LfgForgiven, Gated
  <2>2. \/ StepDone(c)
        \/ \E o \in lcall[c].others :
             lcall' = [lcall EXCEPT ![c] = [lcall[c] EXCEPT !.others = lcall[c].others \ {o}]]
    BY <1>5 DEF LfgStepFails
  <2>3. CASE StepDone(c)
    <3>1. CallOk(Advanced(lcall[c])) /\ Goes(lcall[c], Advanced(lcall[c]))
      BY <1>1, Inflight, Advancing
    <3>2. OneGoes(c)
      BY <1>2, <1>3, <2>3, <3>1, CallBecomes DEF StepDone
    <3>. QED BY <2>1, <3>2, UngatedFare
  <2>4. ASSUME NEW o \in lcall[c].others,
               lcall' = [lcall EXCEPT ![c] = [lcall[c] EXCEPT !.others = lcall[c].others \ {o}]]
        PROVE  CallsFare /\ OneGoes(c)
    <3>1. lcall[c].others \ {o} \in SUBSET Crew
      BY <1>1, Inflight, CallFields
    <3>. QED BY <1>1, <1>2, <1>3, <2>1, <2>4, <3>1, CallThins
  <2>. QED BY <2>2, <2>3, <2>4
<1>. QED BY <1>4, <1>5

LEMMA PostTakenDown ==
  ASSUME CallTypes, LfgTypes, NEW c \in LfgCalls, RemovePost(c)
  PROVE  CallsFare /\ OneGoes(c)
<1>1. /\ lcall[c].op # "none" /\ Head(lcall[c].todo) = "remove_post"
      /\ UNCHANGED <<begun, lfgFaults>> /\ StepDone(c)
  BY DEF RemovePost, Doing
<1>2. OneGoes(c)
  BY <1>1, StepIsDone
<1>3. lcall[c].id \in Posts
  BY <1>1, Inflight, CallFields
<1>4. post'[lcall[c].id] \in {"removed", "gone"}
  BY <1>3 DEF RemovePost, LfgTypes
<1>5. ASSUME NEW d \in LfgCalls, NEW s, Passed(d, s) PROVE d = c /\ s = "remove_post"
  BY <1>1, <1>2, <1>5 DEF OneGoes, OthersStay, Passed, At
<1>6. PassFacts
  <2>1. ASSUME NEW d \in LfgCalls, NEW s \in Gated \ {"remove_post"} PROVE ~Passed(d, s)
    BY <1>5, <2>1
  <2>. QED BY <1>4, <1>5, <2>1 DEF PassFacts, Gated
<1>. QED BY <1>2, <1>6 DEF CallsFare, OneGoes

LEMMA HostSuspended ==
  ASSUME CallTypes, NEW c \in LfgCalls, SuspendHost(c)
  PROVE  CallsFare /\ OneGoes(c)
<1>1. /\ lcall[c].op # "none" /\ Head(lcall[c].todo) = "suspend"
      /\ UNCHANGED <<begun, lfgFaults>> /\ StepDone(c) /\ suspended'
  BY DEF SuspendHost, Doing
<1>2. OneGoes(c)
  BY <1>1, StepIsDone
<1>5. ASSUME NEW d \in LfgCalls, NEW s, Passed(d, s) PROVE d = c /\ s = "suspend"
  BY <1>1, <1>2, <1>5 DEF OneGoes, OthersStay, Passed, At
<1>6. PassFacts
  <2>1. ASSUME NEW d \in LfgCalls, NEW s \in Gated \ {"suspend"} PROVE ~Passed(d, s)
    BY <1>5, <2>1
  <2>. QED BY <1>1, <1>5, <2>1 DEF PassFacts, Gated
<1>. QED BY <1>2, <1>6 DEF CallsFare, OneGoes

Begins ==
  \E c \in LfgCalls, op \in LfgOps, p \in Posts :
    \E who \in Callers(op) : BeginLfg(c, op, p, who)
NoneBegins == \A d \in LfgCalls : lcall[d] = NoLfgCall => lcall'[d] = NoLfgCall

LEMMA CallsContinue ==
  ASSUME NEW c \in LfgCalls, lcall[c].op # "none", OneGoes(c)
  PROVE  NoneBegins
  BY IdleOk DEF OneGoes, OthersStay, NoneBegins

LEMMA EveryStepFares ==
  ASSUME CallTypes, LfgTypes, BoardBounds, LfgNext
  PROVE  CallsFare /\ (Begins \/ NoneBegins)
<1>1. ASSUME NEW c \in LfgCalls, LfgStep(c) PROVE CallsFare /\ NoneBegins
  <2>1. CASE Check(c)  BY <2>1, CallChecks, CallsContinue DEF Check
  <2>2. CASE InsertPost(c)  BY <2>2, CallWrites, CallsContinue DEF InsertPost, Doing, Gated
  <2>3. CASE ClosePost(c)  BY <2>3, CallWrites, CallsContinue DEF ClosePost, Doing, Gated
  <2>4. CASE RequestJoin(c)  BY <2>4, CallWrites, CallsContinue DEF RequestJoin, Doing, Gated
  <2>5. CASE SetMemberStatus(c)  BY <2>5, StatusWritten, CallsContinue DEF SetMemberStatus, Doing
  <2>6. CASE ReadCrew(c)  BY <2>6, CrewIsRead, CallsContinue DEF ReadCrew, Doing
  <2>7. CASE RecordCrew(c)  BY <2>7, CrewIsRecorded, CallsContinue DEF RecordCrew, Doing
  <2>8. CASE ForgetCrew(c)  BY <2>8, CallWrites, CallsContinue DEF ForgetCrew, Doing, Gated
  <2>9. CASE FollowInRoom(c)  BY <2>9, CallWrites, CallsContinue DEF FollowInRoom, Doing, Gated
  <2>10. CASE CreateReport(c)  BY <2>10, CallWrites, CallsContinue DEF CreateReport, Doing, Gated
  <2>11. CASE RemovePost(c)  BY <2>11, PostTakenDown, CallsContinue DEF RemovePost, Doing
  <2>12. CASE SuspendHost(c)  BY <2>12, HostSuspended, CallsContinue DEF SuspendHost, Doing
  <2>13. CASE ResolveReport(c)  BY <2>13, CallWrites, CallsContinue DEF ResolveReport, Doing, Gated
  <2>14. CASE SetCommend(c)  BY <2>14, CallWrites, CallsContinue DEF SetCommend, Doing, Gated
  <2>15. CASE Bar(c)  BY <2>15, CallWrites, CallsContinue DEF Bar, Doing, Gated
  <2>16. CASE DeleteBetween(c)  BY <2>16, CallWrites, CallsContinue DEF DeleteBetween, Doing, Gated
  <2>. QED BY <1>1, <2>1, <2>2, <2>3, <2>4, <2>5, <2>6, <2>7, <2>8, <2>9, <2>10, <2>11, <2>12,
              <2>13, <2>14, <2>15, <2>16 DEF LfgStep
<1>2. ASSUME NEW p \in Posts, PostAges(p) \/ PurgeEnded(p) \/ PurgeCrewBefore(p)
      PROVE  CallsFare /\ NoneBegins
  <2>1. UNCHANGED <<lcall, begun, lfgFaults>>
    BY <1>2 DEF PostAges, PurgeEnded, PurgeCrewBefore
  <2>2. CallTypes' /\ CallsGo /\ NoneBegins
    BY <2>1 DEF CallTypes, CallsGo, Goes, NoneBegins
  <2>3. PassFacts
    BY <2>1 DEF PassFacts, Passed
  <2>. QED BY <2>2, <2>3 DEF CallsFare
<1>3. ASSUME NEW c \in LfgCalls, NEW op \in LfgOps, NEW p \in Posts, NEW who \in Callers(op),
             BeginLfg(c, op, p, who)
      PROVE  CallsFare /\ Begins
  BY <1>3, CallBegins DEF Begins
<1>4. ASSUME NEW c \in LfgCalls, LfgStepFails(c) PROVE CallsFare /\ NoneBegins
  BY <1>4, CallFails, CallsContinue DEF LfgStepFails
<1>. QED BY <1>1, <1>2, <1>3, <1>4 DEF LfgNext

-----------------------------------------------------------------------------
(* Types.                                                                  *)

\* Who and what a call in flight is about.
LEMMA WhoCalls ==
  ASSUME CallTypes, NEW c \in LfgCalls, lcall[c].op # "none"
  PROVE  /\ lcall[c].id \in Posts /\ lcall[c].me \in Crew /\ lcall[c].them \in Crew
         /\ lcall[c].op \in LfgOps
         /\ lcall[c].op \in Answers \cup Outcomes => lcall[c].them \in Mates
         /\ lcall[c].op \in {"join", "leave", "report"} => lcall[c].me \in Mates
  BY Inflight, CallFields DEF Roles

LEMMA WhichHandler ==
  ASSUME CallTypes, NEW c \in LfgCalls, lcall[c].op # "none"
  PROVE  LET s == Head(lcall[c].todo)  op == lcall[c].op
         IN  /\ s \in {"no_open_post", "count_posts", "insert_post"} => op = "create"
             /\ s \in {"member", "set_status"} => op = "leave" \/ op \in Answers
             /\ s \in {"get_post", "history", "room"} => op \in Answers
             /\ s = "create_report" => op = "report"
             /\ s = "request_join" => op = "join"
             /\ s = "set_commend" => op = "give"
             /\ s = "suspend" => op = "user_suspended"
             /\ s \in {"remove_post"} => op = "post_removed" \/ op = "user_suspended"
             /\ s = "resolve" => op \in Outcomes
<1>1. lcall[c].op \in LfgOps /\ Ends(lcall[c].op, lcall[c].todo)
  BY Inflight, CallFields DEF InOrder
<1>. QED BY <1>1, StepOwner

\* What each step may write, apart from the calls.
CallsOnly == UNCHANGED <<post, member, report, suspended, barred, crew, commend, inRoom,
                         ousted, tangled, adrift, peak>>
Checked ==
  /\ \E c \in LfgCalls : Check(c)
  /\ UNCHANGED <<post, member, report, suspended, barred, crew, commend, inRoom, ousted,
                 tangled, adrift>>
PostMoves ==
  /\ \/ \E c \in LfgCalls : InsertPost(c) \/ ClosePost(c) \/ RemovePost(c)
     \/ \E p \in Posts : PostAges(p)
  /\ UNCHANGED <<member, report, suspended, barred, crew, commend, inRoom, ousted,
                 tangled, adrift, peak>>
Purged ==
  /\ \E p \in Posts : PurgeEnded(p)
  /\ UNCHANGED <<report, suspended, barred, crew, commend, inRoom, adrift, peak>>
Asked ==
  /\ \E c \in LfgCalls : RequestJoin(c)
  /\ UNCHANGED <<post, report, suspended, barred, crew, commend, inRoom, ousted, tangled,
                 adrift, peak>>
Answered ==
  /\ \E c \in LfgCalls : SetMemberStatus(c)
  /\ UNCHANGED <<post, report, suspended, barred, crew, commend, inRoom, adrift, peak>>
CrewGrows ==
  /\ \E c \in LfgCalls : RecordCrew(c)
  /\ UNCHANGED <<post, member, report, suspended, barred, commend, inRoom, ousted,
                 tangled, adrift, peak>>
CrewErased ==
  /\ \E c \in LfgCalls : ForgetCrew(c) \/ DeleteBetween(c)
  /\ UNCHANGED <<post, member, report, suspended, barred, inRoom, ousted, tangled, peak>>
CrewAges ==
  /\ \E p \in Posts : PurgeCrewBefore(p)
  /\ UNCHANGED <<post, member, report, suspended, barred, commend, inRoom, ousted,
                 tangled, peak>>
RoomMoves ==
  /\ \E c \in LfgCalls : FollowInRoom(c)
  /\ UNCHANGED <<post, member, report, suspended, barred, crew, commend, ousted, tangled,
                 adrift, peak>>
ReportMoves ==
  /\ \E c \in LfgCalls : CreateReport(c) \/ ResolveReport(c)
  /\ UNCHANGED <<post, member, suspended, barred, crew, commend, inRoom, ousted, tangled,
                 adrift, peak>>
HostMoves ==
  /\ \E c \in LfgCalls : SuspendHost(c)
  /\ UNCHANGED <<post, member, report, barred, crew, commend, inRoom, ousted, tangled,
                 adrift, peak>>
CommendMoves ==
  /\ \E c \in LfgCalls : SetCommend(c)
  /\ UNCHANGED <<post, member, report, suspended, barred, crew, inRoom, ousted, tangled,
                 adrift, peak>>
BarMoves ==
  /\ \E c \in LfgCalls : Bar(c)
  /\ UNCHANGED <<post, member, report, suspended, crew, commend, inRoom, ousted, tangled,
                 adrift, peak>>

LEMMA Frames ==
  ASSUME LfgNext
  PROVE  \/ CallsOnly \/ Checked \/ PostMoves \/ Purged \/ Asked
         \/ Answered \/ CrewGrows \/ CrewErased \/ CrewAges \/ RoomMoves
         \/ ReportMoves \/ HostMoves \/ CommendMoves \/ BarMoves
<1>. USE DEF board, queue, after, lfgHistory
<1>1. ASSUME NEW c \in LfgCalls, NEW op \in LfgOps, NEW p \in Posts, NEW who \in Callers(op),
             BeginLfg(c, op, p, who)
      PROVE  CallsOnly
  BY <1>1 DEF BeginLfg, CallsOnly
<1>2. ASSUME NEW c \in LfgCalls, ReadCrew(c) \/ LfgStepFails(c) PROVE CallsOnly
  BY <1>2 DEF ReadCrew, LfgStepFails, CallsOnly
<1>3. ASSUME NEW c \in LfgCalls, Check(c) PROVE Checked
  BY <1>3 DEF Check, Checked
<1>4. ASSUME NEW c \in LfgCalls, InsertPost(c) PROVE PostMoves
  BY <1>4 DEF InsertPost, PostMoves
<1>5. ASSUME NEW c \in LfgCalls, ClosePost(c) PROVE PostMoves
  BY <1>5 DEF ClosePost, PostMoves
<1>6. ASSUME NEW c \in LfgCalls, RemovePost(c) PROVE PostMoves
  BY <1>6 DEF RemovePost, PostMoves
<1>7. ASSUME NEW p \in Posts, PostAges(p) PROVE PostMoves
  BY <1>7 DEF PostAges, PostMoves
<1>8. ASSUME NEW p \in Posts, PurgeEnded(p) PROVE Purged
  BY <1>8 DEF PurgeEnded, Purged
<1>9. ASSUME NEW c \in LfgCalls, RequestJoin(c) PROVE Asked
  BY <1>9 DEF RequestJoin, Asked
<1>10. ASSUME NEW c \in LfgCalls, SetMemberStatus(c) PROVE Answered
  BY <1>10 DEF SetMemberStatus, Answered
<1>11. ASSUME NEW c \in LfgCalls, RecordCrew(c) PROVE CrewGrows
  BY <1>11 DEF RecordCrew, CrewGrows
<1>12. ASSUME NEW c \in LfgCalls, ForgetCrew(c) PROVE CrewErased
  BY <1>12 DEF ForgetCrew, CrewErased
<1>13. ASSUME NEW c \in LfgCalls, DeleteBetween(c) PROVE CrewErased
  BY <1>13 DEF DeleteBetween, CrewErased
<1>14. ASSUME NEW p \in Posts, PurgeCrewBefore(p) PROVE CrewAges
  BY <1>14 DEF PurgeCrewBefore, CrewAges
<1>15. ASSUME NEW c \in LfgCalls, FollowInRoom(c) PROVE RoomMoves
  BY <1>15 DEF FollowInRoom, RoomMoves
<1>16. ASSUME NEW c \in LfgCalls, CreateReport(c) PROVE ReportMoves
  BY <1>16 DEF CreateReport, ReportMoves
<1>17. ASSUME NEW c \in LfgCalls, ResolveReport(c) PROVE ReportMoves
  BY <1>17 DEF ResolveReport, ReportMoves
<1>18. ASSUME NEW c \in LfgCalls, SuspendHost(c) PROVE HostMoves
  BY <1>18 DEF SuspendHost, HostMoves
<1>19. ASSUME NEW c \in LfgCalls, SetCommend(c) PROVE CommendMoves
  BY <1>19 DEF SetCommend, CommendMoves
<1>20. ASSUME NEW c \in LfgCalls, Bar(c) PROVE BarMoves
  BY <1>20 DEF Bar, BarMoves
<1>. QED BY <1>1, <1>2, <1>3, <1>4, <1>5, <1>6, <1>7, <1>8, <1>9, <1>10, <1>11, <1>12, <1>13, <1>14, <1>15, <1>16, <1>17, <1>18, <1>19, <1>20
         DEF LfgNext, LfgStep

LEMMA PostsTyped ==
  ASSUME LfgTypes, CallTypes, LfgNext
  PROVE  post' \in [Posts -> PostStates]
<1>1. ASSUME NEW f \in [Posts -> PostStates], NEW p \in Posts, NEW v \in PostStates
      PROVE  [f EXCEPT ![p] = v] \in [Posts -> PostStates]
  BY <1>1
<1>2. ASSUME NEW c \in LfgCalls, InsertPost(c) PROVE post' \in [Posts -> PostStates]
  BY <1>1, <1>2, WhoCalls DEF InsertPost, Doing, LfgTypes, PostStates
<1>3. ASSUME NEW c \in LfgCalls, ClosePost(c) PROVE post' \in [Posts -> PostStates]
  BY <1>1, <1>3, WhoCalls DEF ClosePost, Doing, LfgTypes, PostStates
<1>4. ASSUME NEW c \in LfgCalls, RemovePost(c) PROVE post' \in [Posts -> PostStates]
  BY <1>1, <1>4, WhoCalls DEF RemovePost, Doing, LfgTypes, PostStates
<1>5. ASSUME NEW p \in Posts, PostAges(p) PROVE post' \in [Posts -> PostStates]
  BY <1>1, <1>5 DEF PostAges, LfgTypes, PostStates
<1>6. ASSUME NEW p \in Posts, PurgeEnded(p) PROVE post' \in [Posts -> PostStates]
  BY <1>1, <1>6 DEF PurgeEnded, LfgTypes, PostStates
<1>7. CASE UNCHANGED post
  BY <1>7 DEF LfgTypes
<1>. QED BY <1>2, <1>3, <1>4, <1>5, <1>6, <1>7, Frames
         DEF CallsOnly, Checked, PostMoves, Purged, Asked, Answered, CrewGrows, CrewErased,
             CrewAges, RoomMoves, ReportMoves, HostMoves, CommendMoves, BarMoves

LEMMA MembersTyped ==
  ASSUME LfgTypes, CallTypes, LfgNext
  PROVE  member' \in [Posts -> [Mates -> Statuses]]
<1>2. ASSUME NEW c \in LfgCalls, RequestJoin(c) PROVE member' \in [Posts -> [Mates -> Statuses]]
  <2>1. lcall[c].id \in Posts /\ lcall[c].me \in Mates
    BY <1>2, WhoCalls, WhichHandler DEF RequestJoin, Doing
  <2>2. \/ member' = [member EXCEPT ![lcall[c].id][lcall[c].me] = "requested"]
        \/ member' = member
    BY <1>2 DEF RequestJoin
  <2>3. "requested" \in Statuses /\ member \in [Posts -> [Mates -> Statuses]]
    BY DEF Statuses, LfgTypes
  <2>. QED BY <2>1, <2>2, <2>3, SMT
<1>3. ASSUME NEW c \in LfgCalls, SetMemberStatus(c)
      PROVE  member' \in [Posts -> [Mates -> Statuses]]
  <2>1. lcall[c].op # "none" /\ Head(lcall[c].todo) = "set_status"
    BY <1>3 DEF SetMemberStatus, Doing
  <2>2. lcall[c].op = "leave" \/ lcall[c].op \in Answers
    BY <2>1, WhichHandler
  <2>3. lcall[c].id \in Posts /\ RowOf(lcall[c]) \in Mates
    BY <2>1, <2>2, WhoCalls, AnswersAre DEF RowOf
  <2>4. (IF lcall[c].op = "leave" THEN "left" ELSE Answer[lcall[c].op]) \in Statuses
    <3>1. /\ Answer["accept"] = "accepted" /\ Answer["decline"] = "declined"
          /\ Answer["remove"] = "removed"
      BY DEF Answer
    <3>. QED BY <2>2, <3>1, AnswersAre DEF Statuses
  <2>5. \/ member' = member
        \/ member' = [member EXCEPT ![lcall[c].id][RowOf(lcall[c])] =
                        IF lcall[c].op = "leave" THEN "left" ELSE Answer[lcall[c].op]]
    BY <1>3 DEF SetMemberStatus
  <2>6. member \in [Posts -> [Mates -> Statuses]]
    BY DEF LfgTypes
  <2>. QED BY <2>3, <2>4, <2>5, <2>6, SMT
<1>4. ASSUME NEW p \in Posts, PurgeEnded(p) PROVE member' \in [Posts -> [Mates -> Statuses]]
  <2>1. [m \in Mates |-> "none"] \in [Mates -> Statuses]
    BY DEF Statuses
  <2>. QED BY <1>4, <2>1 DEF PurgeEnded, LfgTypes
<1>5. CASE UNCHANGED member
  BY <1>5 DEF LfgTypes
<1>. QED BY <1>2, <1>3, <1>4, <1>5, Frames
         DEF CallsOnly, Checked, PostMoves, Purged, Asked, Answered, CrewGrows, CrewErased,
             CrewAges, RoomMoves, ReportMoves, HostMoves, CommendMoves, BarMoves

LEMMA ReportsTyped ==
  ASSUME LfgTypes, CallTypes, LfgNext
  PROVE  /\ report' \in [Posts -> [Mates -> {"none", "open"} \cup Outcomes]]
         /\ suspended' \in BOOLEAN /\ barred' \subseteq SUBSET Crew
<1>. DEFINE R == {"none", "open"} \cup Outcomes
<1>1. ASSUME NEW f \in [Posts -> [Mates -> R]], NEW p \in Posts, NEW m \in Mates, NEW v \in R
      PROVE  [f EXCEPT ![p][m] = v] \in [Posts -> [Mates -> R]]
  <2>. HIDE DEF R
  <2>. QED BY <1>1
<1>2. ASSUME NEW c \in LfgCalls, CreateReport(c) PROVE report' \in [Posts -> [Mates -> R]]
  <2>1. lcall[c].id \in Posts /\ lcall[c].me \in Mates
    BY <1>2, WhoCalls, WhichHandler DEF CreateReport, Doing
  <2>. QED BY <1>1, <1>2, <2>1 DEF CreateReport, LfgTypes
<1>3. ASSUME NEW c \in LfgCalls, ResolveReport(c) PROVE report' \in [Posts -> [Mates -> R]]
  <2>1. lcall[c].op # "none" /\ Head(lcall[c].todo) = "resolve"
    BY <1>3 DEF ResolveReport, Doing
  <2>2. lcall[c].op \in Outcomes
    BY <2>1, WhichHandler
  <2>3. lcall[c].id \in Posts /\ lcall[c].them \in Mates
    BY <2>1, <2>2, WhoCalls
  <2>4. report[lcall[c].id][lcall[c].them] \in R
    <3>1. report[lcall[c].id] \in [Mates -> R]
      BY <2>3 DEF LfgTypes
    <3>. QED BY <2>3, <3>1
  <2>. QED BY <1>1, <1>3, <2>2, <2>3, <2>4 DEF ResolveReport, LfgTypes
<1>4. ASSUME UNCHANGED report PROVE report' \in [Posts -> [Mates -> R]]
  <2>1. report \in [Posts -> [Mates -> R]]
    BY DEF LfgTypes
  <2>. QED BY <1>4, <2>1
<1>5. report' \in [Posts -> [Mates -> R]]
  BY <1>2, <1>3, <1>4, Frames
     DEF CallsOnly, Checked, PostMoves, Purged, Asked, Answered, CrewGrows, CrewErased,
         CrewAges, RoomMoves, ReportMoves, HostMoves, CommendMoves, BarMoves
<1>6. suspended' \in BOOLEAN
  <2>1. ASSUME NEW c \in LfgCalls, SuspendHost(c) PROVE suspended' \in BOOLEAN
    BY <2>1 DEF SuspendHost
  <2>2. CASE UNCHANGED suspended
    BY <2>2 DEF LfgTypes
  <2>. QED BY <2>1, <2>2, Frames
     DEF CallsOnly, Checked, PostMoves, Purged, Asked, Answered, CrewGrows, CrewErased,
         CrewAges, RoomMoves, ReportMoves, HostMoves, CommendMoves, BarMoves
<1>7. barred' \subseteq SUBSET Crew
  <2>1. ASSUME NEW c \in LfgCalls, Bar(c) PROVE barred' \subseteq SUBSET Crew
    <3>1. barred' = barred \cup {{lcall[c].me, lcall[c].them}} /\ lcall[c].op # "none"
      BY <2>1 DEF Bar, Doing
    <3>2. {lcall[c].me, lcall[c].them} \in SUBSET Crew
      BY <3>1, WhoCalls
    <3>. QED BY <3>1, <3>2 DEF LfgTypes
  <2>2. CASE UNCHANGED barred
    BY <2>2 DEF LfgTypes
  <2>. QED BY <2>1, <2>2, Frames
     DEF CallsOnly, Checked, PostMoves, Purged, Asked, Answered, CrewGrows, CrewErased,
         CrewAges, RoomMoves, ReportMoves, HostMoves, CommendMoves, BarMoves
<1>. QED BY <1>5, <1>6, <1>7

LEMMA GivingTyped ==
  ASSUME CallTypes
  PROVE  Giving \subseteq Posts \X SUBSET Crew
<1>. SUFFICES ASSUME NEW c \in LfgCalls, lcall[c].op = "give"
              PROVE  <<lcall[c].id, {lcall[c].me, lcall[c].them}>> \in Posts \X SUBSET Crew
  BY DEF Giving
<1>1. lcall[c].id \in Posts /\ lcall[c].me \in Crew /\ lcall[c].them \in Crew
  BY WhoCalls
<1>. QED BY <1>1

LEMMA CrewTyped ==
  ASSUME LfgTypes, CallTypes, LfgNext
  PROVE  /\ crew' \subseteq Posts \X SUBSET Crew /\ adrift' \subseteq Posts \X SUBSET Crew
         /\ commend' \subseteq Posts \X Crew \X Crew
<1>. DEFINE Typed == /\ crew' \subseteq Posts \X SUBSET Crew /\ adrift' \subseteq Posts \X SUBSET Crew
                     /\ commend' \subseteq Posts \X Crew \X Crew
<1>1. ASSUME NEW c \in LfgCalls, RecordCrew(c) PROVE Typed
  <2>1. lcall[c].op # "none" /\ lcall[c].others \in SUBSET Crew /\ UNCHANGED <<adrift, commend>>
    BY <1>1, Inflight, CallFields DEF RecordCrew, Doing, lfgHistory
  <2>2. PICK o \in lcall[c].others : crew' = crew \cup {<<lcall[c].id, {lcall[c].them, o}>>}
    BY <1>1 DEF RecordCrew
  <2>3. <<lcall[c].id, {lcall[c].them, o}>> \in Posts \X SUBSET Crew
    BY <2>1, WhoCalls
  <2>. QED BY <2>1, <2>2, <2>3 DEF LfgTypes
<1>2. ASSUME NEW c \in LfgCalls, ForgetCrew(c) PROVE Typed
  <2>1. crew' \subseteq crew /\ commend' \subseteq commend /\ adrift' \subseteq adrift \cup Giving
    BY <1>2 DEF ForgetCrew, forget_crew
  <2>. QED BY <2>1, GivingTyped DEF LfgTypes
<1>3. ASSUME NEW c \in LfgCalls, DeleteBetween(c) PROVE Typed
  <2>1. crew' \subseteq crew /\ commend' \subseteq commend /\ adrift' \subseteq adrift \cup Giving
    BY <1>3 DEF DeleteBetween
  <2>. QED BY <2>1, GivingTyped DEF LfgTypes
<1>4. ASSUME NEW p \in Posts, PurgeCrewBefore(p) PROVE Typed
  <2>1. crew' \subseteq crew /\ commend' = commend /\ adrift' \subseteq adrift \cup crew
    BY <1>4 DEF PurgeCrewBefore
  <2>. QED BY <2>1 DEF LfgTypes
<1>5. ASSUME NEW c \in LfgCalls, SetCommend(c) PROVE Typed
  <2>1. crew' = crew /\ adrift' = adrift
        /\ commend' \subseteq commend \cup {<<lcall[c].id, lcall[c].me, lcall[c].them>>}
    BY <1>5 DEF SetCommend, lfgHistory
  <2>2. <<lcall[c].id, lcall[c].me, lcall[c].them>> \in Posts \X Crew \X Crew
    BY <1>5, WhoCalls DEF SetCommend, Doing
  <2>. QED BY <2>1, <2>2 DEF LfgTypes
<1>6. ASSUME UNCHANGED <<crew, adrift, commend>> PROVE Typed
  BY <1>6 DEF LfgTypes
<1>. HIDE DEF Typed
<1>7. \/ \E c \in LfgCalls : RecordCrew(c) \/ ForgetCrew(c) \/ DeleteBetween(c) \/ SetCommend(c)
      \/ \E p \in Posts : PurgeCrewBefore(p)
      \/ UNCHANGED <<crew, adrift, commend>>
  BY Frames
     DEF CallsOnly, Checked, PostMoves, Purged, Asked, Answered, CrewGrows, CrewErased,
         CrewAges, RoomMoves, ReportMoves, HostMoves, CommendMoves, BarMoves
<1>8. Typed
  BY <1>1, <1>2, <1>3, <1>4, <1>5, <1>6, <1>7
<1>. QED BY <1>8 DEF Typed

LEMMA MarksTyped ==
  ASSUME LfgTypes, CallTypes, LfgNext
  PROVE  /\ inRoom' \subseteq Posts \X Mates /\ ousted' \subseteq Posts \X Mates
         /\ tangled' \subseteq Posts \X Mates
<1>1. ASSUME NEW c \in LfgCalls, FollowInRoom(c) PROVE inRoom' \subseteq Posts \X Mates
  <2>1. lcall[c].op # "none" /\ Head(lcall[c].todo) = "room"
        /\ inRoom' \subseteq inRoom \cup {<<lcall[c].id, lcall[c].them>>}
    BY <1>1, SMT DEF FollowInRoom, Doing
  <2>2. lcall[c].id \in Posts /\ lcall[c].them \in Mates
    BY <2>1, WhoCalls, WhichHandler
  <2>3. <<lcall[c].id, lcall[c].them>> \in Posts \X Mates /\ inRoom \subseteq Posts \X Mates
    BY <2>2 DEF LfgTypes
  <2>. QED BY <2>1, <2>3
<1>2. ASSUME NEW c \in LfgCalls, SetMemberStatus(c)
      PROVE  ousted' \subseteq Posts \X Mates /\ tangled' \subseteq Posts \X Mates
  <2>1. lcall[c].op # "none" /\ Head(lcall[c].todo) = "set_status"
    BY <1>2 DEF SetMemberStatus, Doing
  <2>2. lcall[c].op = "leave" \/ lcall[c].op \in Answers
    BY <2>1, WhichHandler
  <2>3. lcall[c].id \in Posts /\ RowOf(lcall[c]) \in Mates
    BY <2>1, <2>2, WhoCalls, AnswersAre DEF RowOf
  <2>4. ousted' \subseteq ousted \cup {<<lcall[c].id, RowOf(lcall[c])>>}
    BY <1>2 DEF SetMemberStatus
  <2>5. tangled' \subseteq tangled \cup {<<lcall[c].id, RowOf(lcall[c])>>}
    BY <1>2 DEF SetMemberStatus
  <2>6. /\ <<lcall[c].id, RowOf(lcall[c])>> \in Posts \X Mates
        /\ ousted \subseteq Posts \X Mates /\ tangled \subseteq Posts \X Mates
    BY <2>3 DEF LfgTypes
  <2>. QED BY <2>4, <2>5, <2>6
<1>3. ASSUME NEW p \in Posts, PurgeEnded(p)
      PROVE  ousted' \subseteq Posts \X Mates /\ tangled' \subseteq Posts \X Mates
  <2>1. /\ ousted' \subseteq ousted
        /\ tangled' = tangled \cup {<<p, lcall[c].me>> : c \in Busy({"report"}, p)}
    BY <1>3 DEF PurgeEnded
  <2>2. ASSUME NEW c \in Busy({"report"}, p) PROVE <<p, lcall[c].me>> \in Posts \X Mates
    BY WhoCalls DEF Busy
  <2>3. ousted \subseteq Posts \X Mates /\ tangled \subseteq Posts \X Mates
    BY DEF LfgTypes
  <2>. QED BY <2>1, <2>2, <2>3
<1>4. \/ \E c \in LfgCalls : FollowInRoom(c)
      \/ UNCHANGED inRoom
  BY Frames
     DEF CallsOnly, Checked, PostMoves, Purged, Asked, Answered, CrewGrows, CrewErased,
         CrewAges, RoomMoves, ReportMoves, HostMoves, CommendMoves, BarMoves
<1>5. \/ \E c \in LfgCalls : SetMemberStatus(c)
      \/ \E p \in Posts : PurgeEnded(p)
      \/ UNCHANGED <<ousted, tangled>>
  BY Frames
     DEF CallsOnly, Checked, PostMoves, Purged, Asked, Answered, CrewGrows, CrewErased,
         CrewAges, RoomMoves, ReportMoves, HostMoves, CommendMoves, BarMoves
<1>6. inRoom' \subseteq Posts \X Mates
  BY <1>1, <1>4 DEF LfgTypes
<1>7. ousted' \subseteq Posts \X Mates /\ tangled' \subseteq Posts \X Mates
  BY <1>2, <1>3, <1>5 DEF LfgTypes
<1>. QED BY <1>6, <1>7

LEMMA TypesKept ==
  ASSUME LfgTypes, CallTypes, LfgNext
  PROVE  LfgTypes'
  BY PostsTyped, MembersTyped, ReportsTyped, CrewTyped, MarksTyped DEF LfgTypes

-----------------------------------------------------------------------------
(* Where a call was before the step.                                       *)

Stayed(d) == lcall[d].op # "none" /\ Same(lcall[d], lcall'[d]) /\ lcall'[d].todo = lcall[d].todo
Moved(d) ==
  /\ lcall[d] \in LfgCallRec /\ Same(lcall[d], lcall'[d]) /\ Len(lcall[d].todo) # 1
  /\ lcall'[d].todo = Tail(lcall[d].todo) /\ lcall'[d] # lcall[d]
Began(d) == lcall[d] = NoLfgCall /\ Starts(lcall'[d].op, lcall'[d].todo)

LEMMA Came ==
  ASSUME CallTypes, CallsFare, NEW d \in LfgCalls, lcall'[d].op # "none"
  PROVE  Stayed(d) \/ Moved(d) \/ Began(d)
<1>1. Goes(lcall[d], lcall'[d])
  BY DEF CallsFare, CallsGo
<1>2. CASE lcall'[d] = lcall[d]
  BY <1>2 DEF Stayed, Same
<1>3. CASE lcall'[d] = NoLfgCall
  BY <1>3, IdleOk
<1>4. CASE lcall[d] \in LfgCallRec /\ Same(lcall[d], lcall'[d]) /\ lcall'[d].todo = lcall[d].todo
  BY <1>4, CallFields DEF Stayed
<1>5. CASE /\ lcall[d] \in LfgCallRec /\ Same(lcall[d], lcall'[d]) /\ Len(lcall[d].todo) # 1
           /\ lcall'[d].todo = Tail(lcall[d].todo)
  BY <1>2, <1>5 DEF Moved
<1>6. CASE lcall[d] = NoLfgCall /\ lcall'[d].op \in LfgOps /\ lcall'[d].todo = Steps[lcall'[d].op]
  BY <1>6, StepsStart DEF Began
<1>. QED BY <1>1, <1>2, <1>3, <1>4, <1>5, <1>6 DEF Goes

LEMMA MovedFrom ==
  ASSUME CallTypes, NEW d \in LfgCalls, Moved(d)
  PROVE  LET s == Head(lcall'[d].todo)  op == lcall'[d].op
         IN  /\ s = "count_posts" => Passed(d, "no_open_post")
             /\ s = "set_status" => Passed(d, "member")
             /\ s = "member" => Passed(d, "get_post")
             /\ s = "create_report" => Passed(d, "visible")
             /\ s = "window" => Passed(d, "flew_together")
             /\ s = "suspend" => Passed(d, "remove_post")
             /\ s = "insert_post" => Passed(d, "count_posts")
             /\ s = "set_commend" => Passed(d, "window")
             /\ s = "resolve" =>
                  \/ op = "dismissed" \/ (op = "post_removed" /\ Passed(d, "remove_post"))
                  \/ (op = "user_suspended" /\ Passed(d, "suspend"))
<1>1. /\ lcall[d] \in LfgCallRec /\ lcall[d].op # "none" /\ lcall[d].op \in LfgOps
      /\ Ends(lcall[d].op, lcall[d].todo)
  BY Inflight, CallFields DEF Moved, InOrder
<1>2. ASSUME NEW t, Head(lcall[d].todo) = t PROVE Passed(d, t)
  BY <1>1, <1>2 DEF Moved, Passed, At
<1>3. lcall'[d].todo = Tail(lcall[d].todo) /\ lcall'[d].op = lcall[d].op /\ Len(lcall[d].todo) # 1
  BY DEF Moved, Same
<1>4. Precedes(lcall[d].op, lcall[d].todo)
  BY <1>1, <1>3, StepBefore
<1>. QED BY <1>2, <1>3, <1>4 DEF Precedes

\* What a call that is at a step has passed.
LEMMA CameFrom ==
  ASSUME CallTypes, CallsFare, NEW d \in LfgCalls
  PROVE  /\ At(lcall'[d], "count_posts") =>
              Same(lcall[d], lcall'[d]) /\ (At(lcall[d], "count_posts") \/ Passed(d, "no_open_post"))
         /\ At(lcall'[d], "set_status") =>
              Same(lcall[d], lcall'[d]) /\ (At(lcall[d], "set_status") \/ Passed(d, "member"))
         /\ At(lcall'[d], "member") /\ lcall'[d].op = "accept" =>
              Same(lcall[d], lcall'[d]) /\ (At(lcall[d], "member") \/ Passed(d, "get_post"))
         /\ At(lcall'[d], "create_report") =>
              Same(lcall[d], lcall'[d]) /\ (At(lcall[d], "create_report") \/ Passed(d, "visible"))
         /\ At(lcall'[d], "window") =>
              Same(lcall[d], lcall'[d]) /\ (At(lcall[d], "window") \/ Passed(d, "flew_together"))
         /\ At(lcall'[d], "suspend") =>
              Same(lcall[d], lcall'[d]) /\ (At(lcall[d], "suspend") \/ Passed(d, "remove_post"))
         /\ At(lcall'[d], "insert_post") =>
              Same(lcall[d], lcall'[d]) /\ (At(lcall[d], "insert_post") \/ Passed(d, "count_posts"))
         /\ At(lcall'[d], "set_commend") =>
              Same(lcall[d], lcall'[d]) /\ (At(lcall[d], "set_commend") \/ Passed(d, "window"))
         /\ At(lcall'[d], "resolve") =>
              /\ Same(lcall[d], lcall'[d])
              /\ \/ At(lcall[d], "resolve") \/ lcall'[d].op = "dismissed"
                 \/ (lcall'[d].op = "post_removed" /\ Passed(d, "remove_post"))
                 \/ (lcall'[d].op = "user_suspended" /\ Passed(d, "suspend"))
<1>1. CASE lcall'[d].op = "none"
  BY <1>1 DEF At
<1>2. CASE Stayed(d)
  BY <1>2 DEF Stayed, At
<1>3. CASE Moved(d)
  <2>1. Same(lcall[d], lcall'[d])
    BY <1>3 DEF Moved
  <2>. QED BY <1>3, <2>1, MovedFrom DEF At
<1>4. CASE Began(d)
  <2>1. /\ Head(lcall'[d].todo) \in {"no_open_post", "close", "visible", "get_post", "get_report",
                                    "not_barred", "bar", "member"}
        /\ Head(lcall'[d].todo) = "member" => lcall'[d].op = "leave"
    BY <1>4 DEF Began, Starts
  <2>. QED BY <2>1 DEF At
<1>. QED BY <1>1, <1>2, <1>3, <1>4, Came

-----------------------------------------------------------------------------
(* The invariant.                                                          *)

Down == {"removed", "gone"}
Enforcing == {"post_removed", "user_suspended"}

\* A post's id is in one create's hands until it is inserted, and no other call
\* is about a post that is not there yet.
FreshInv ==
  /\ \A c \in LfgCalls : lcall[c].op = "create" => post[lcall[c].id] = "none"
  /\ \A c \in LfgCalls : lcall[c].op \notin {"none", "create"} => post[lcall[c].id] # "none"
  /\ \A c, d \in LfgCalls :
       lcall[c].op = "create" /\ lcall[d].op = "create" /\ lcall[c].id = lcall[d].id => c = d

\* A leave or an accept that is past its read of the row, and whose row says
\* removed since, is one that was in flight when the removal was written.
RowInv ==
  /\ RemovedStaysOut
  /\ \A c \in LfgCalls :
       At(lcall[c], "set_status") /\ lcall[c].op \in {"leave", "accept"}
         => <<lcall[c].id, RowOf(lcall[c])>> \notin ousted \ tangled

\* A commend past its look at the crew history has, or had, the pair there.
GiveInv ==
  /\ CommendsFollowCrew
  /\ \A c \in LfgCalls :
       lcall[c].op = "give" /\ (At(lcall[c], "window") \/ At(lcall[c], "set_commend"))
         => <<lcall[c].id, Pair(lcall[c])>> \in crew \cup adrift

\* A resolution that has still to be recorded has been enforced.
ModInv ==
  /\ RecordedIsEnforced
  /\ \A c \in LfgCalls :
       /\ At(lcall[c], "suspend") => post[lcall[c].id] \in Down
       /\ At(lcall[c], "resolve") /\ lcall[c].op \in Enforcing => post[lcall[c].id] \in Down
       /\ At(lcall[c], "resolve") /\ lcall[c].op = "user_suspended" => suspended

\* A report about to be stored is of a post that is there, or is known to have
\* crossed the purge.
ReportInv ==
  /\ ReportedPostIsKept
  /\ \A c \in LfgCalls :
       At(lcall[c], "create_report") =>
         post[lcall[c].id] # "gone" \/ <<lcall[c].id, lcall[c].me>> \in tangled

\* Members accepted and accepts past their check share the slots, up to the most
\* accepts that were in flight together.
SlotsInv ==
  \A p \in Posts :
    \/ Accepted(p) = {} /\ Accepting(p) = {}
    \/ Cardinality(Accepted(p)) + Cardinality(Accepting(p)) < Slots + peak.crew[p]

\* Open posts and creates past their check, the same way.
OpenInv == Cardinality(OpenPosts) + Cardinality(Creating) <= Larger(1, peak.posts)

PeakTypes == peak \in [posts : Nat, crew : [Posts -> Nat]]

LfgInv ==
  /\ LfgTypes /\ PeakTypes /\ CallTypes /\ FreshInv /\ RowInv /\ GiveInv /\ ModInv /\ ReportInv
  /\ SlotsInv /\ OpenInv

-----------------------------------------------------------------------------
(* Each part of the invariant is kept.                                     *)

\* A post's life: it is inserted once, comes down for good, and is gone only by
\* the purge.
LEMMA PostLife ==
  ASSUME LfgInv, LfgNext
  PROVE  /\ \A p \in Posts : post[p] # "none" => post'[p] # "none"
         /\ \A p \in Posts : post[p] \in Down => post'[p] \in Down
         /\ \A p \in Posts : post'[p] = "gone" => post[p] = "gone" \/ PurgeEnded(p)
         /\ \/ \A p \in Posts : /\ post[p] = "none" => post'[p] = "none"
                                /\ post'[p] = "open" => post[p] = "open"
            \/ \E c \in LfgCalls : /\ InsertPost(c) /\ post[lcall[c].id] = "none"
                                   /\ post' = [post EXCEPT ![lcall[c].id] = "open"]
<1>. DEFINE Goal ==
  /\ \A p \in Posts : post[p] # "none" => post'[p] # "none"
  /\ \A p \in Posts : post[p] \in Down => post'[p] \in Down
  /\ \A p \in Posts : post'[p] = "gone" => post[p] = "gone" \/ PurgeEnded(p)
  /\ \/ \A p \in Posts : /\ post[p] = "none" => post'[p] = "none"
                         /\ post'[p] = "open" => post[p] = "open"
     \/ \E c \in LfgCalls : /\ InsertPost(c) /\ post[lcall[c].id] = "none"
                            /\ post' = [post EXCEPT ![lcall[c].id] = "open"]
<1>0. post \in [Posts -> PostStates]
  BY DEF LfgInv, LfgTypes
<1>1. ASSUME NEW c \in LfgCalls, InsertPost(c) PROVE Goal
  <2>1. /\ lcall[c].op # "none" /\ Head(lcall[c].todo) = "insert_post"
        /\ post' = [post EXCEPT ![lcall[c].id] = "open"]
    BY <1>1 DEF InsertPost, Doing
  <2>2. lcall[c].op = "create" /\ lcall[c].id \in Posts
    BY <2>1, WhichHandler, WhoCalls DEF LfgInv
  <2>3. post[lcall[c].id] = "none"
    BY <2>2 DEF LfgInv, FreshInv
  <2>4. \A p \in Posts : post'[p] = IF p = lcall[c].id THEN "open" ELSE post[p]
    BY <1>0, <2>1, <2>2
  <2>5. /\ \A p \in Posts : post[p] # "none" => post'[p] # "none"
        /\ \A p \in Posts : post[p] \in Down => post'[p] \in Down
        /\ \A p \in Posts : post'[p] = "gone" => post[p] = "gone" \/ PurgeEnded(p)
    BY <2>3, <2>4 DEF Down
  <2>6. \E d \in LfgCalls : /\ InsertPost(d) /\ post[lcall[d].id] = "none"
                            /\ post' = [post EXCEPT ![lcall[d].id] = "open"]
    BY <1>1, <2>1, <2>3
  <2>. QED BY <2>5, <2>6
<1>2. ASSUME NEW c \in LfgCalls, ClosePost(c) PROVE Goal
  <2>1. lcall[c].id \in Posts
    BY <1>2, WhoCalls DEF ClosePost, Doing, LfgInv
  <2>2. \A p \in Posts : post'[p] = post[p] \/ (post[p] = "open" /\ post'[p] = "ended")
    BY <1>0, <1>2, <2>1 DEF ClosePost
  <2>. QED BY <2>2 DEF Down
<1>3. ASSUME NEW c \in LfgCalls, RemovePost(c) PROVE Goal
  <2>1. lcall[c].op # "none" /\ Head(lcall[c].todo) = "remove_post"
    BY <1>3 DEF RemovePost, Doing
  <2>2. lcall[c].op \notin {"none", "create"} /\ lcall[c].id \in Posts
    BY <2>1, WhichHandler, WhoCalls DEF LfgInv
  <2>3. post[lcall[c].id] # "none"
    BY <2>2 DEF LfgInv, FreshInv
  <2>4. \A p \in Posts : post'[p] = post[p]
                         \/ (post[p] \notin {"none", "gone"} /\ post'[p] = "removed")
    BY <1>0, <1>3, <2>2, <2>3 DEF RemovePost
  <2>. QED BY <2>4 DEF Down
<1>4. ASSUME NEW q \in Posts, PostAges(q) PROVE Goal
  <2>1. \A p \in Posts : \/ post'[p] = post[p]
                         \/ (post[p] \in {"open", "ended"} /\ post'[p] \in {"ended", "over"})
    BY <1>0, <1>4 DEF PostAges
  <2>. QED BY <2>1 DEF Down
<1>5. ASSUME NEW q \in Posts, PurgeEnded(q) PROVE Goal
  <2>1. \A p \in Posts : \/ post'[p] = post[p]
                         \/ (post[p] \in {"over", "removed"} /\ post'[p] = "gone" /\ p = q)
    BY <1>0, <1>5 DEF PurgeEnded, Purgeable
  <2>. QED BY <1>5, <2>1 DEF Down
<1>6. ASSUME UNCHANGED post PROVE Goal
  BY <1>6
<1>7. \/ \E c \in LfgCalls : InsertPost(c) \/ ClosePost(c) \/ RemovePost(c)
      \/ \E p \in Posts : PostAges(p) \/ PurgeEnded(p)
      \/ UNCHANGED post
  BY Frames
     DEF CallsOnly, Checked, PostMoves, Purged, Asked, Answered, CrewGrows, CrewErased,
         CrewAges, RoomMoves, ReportMoves, HostMoves, CommendMoves, BarMoves
<1>. HIDE DEF Goal
<1>8. Goal
  BY <1>1, <1>2, <1>3, <1>4, <1>5, <1>6, <1>7
<1>. QED BY <1>8 DEF Goal

\* A call that was in flight is the same call.
LEMMA StillTheSame ==
  ASSUME LfgInv, BoardBounds, LfgNext, NEW d \in LfgCalls, lcall'[d].op # "none",
         ~Begins \/ lcall[d].op # "none"
  PROVE  lcall[d].op # "none" /\ Same(lcall[d], lcall'[d])
<1>1. CallTypes /\ CallsFare /\ (Begins \/ NoneBegins)
  BY EveryStepFares DEF LfgInv
<1>2. Stayed(d) \/ Moved(d) \/ Began(d)
  BY <1>1, Came
<1>3. ~Began(d)
  BY <1>1, IdleOk DEF Began, NoneBegins
<1>. QED BY <1>2, <1>3, CallFields DEF Stayed, Moved

\* The call that inserts a post ends.
LEMMA InsertEnds ==
  ASSUME CallTypes, NEW c \in LfgCalls, InsertPost(c)
  PROVE  lcall'[c] = NoLfgCall /\ lcall[c].op = "create" /\ lcall[c].id \in Posts
<1>1. lcall[c].op # "none" /\ Head(lcall[c].todo) = "insert_post" /\ StepDone(c)
  BY DEF InsertPost, Doing
<1>2. lcall[c].op = "create" /\ lcall[c].id \in Posts
  BY <1>1, WhichHandler, WhoCalls
<1>3. lcall[c].todo \in CreateEnds
  BY <1>1, <1>2, Inflight DEF InOrder, Ends
<1>4. Len(lcall[c].todo) = 1
  BY <1>1, <1>3, CreateOrder DEF StepTo, LastStep
<1>5. lcall' = [lcall EXCEPT ![c] = NoLfgCall]
  BY <1>1, <1>4 DEF StepDone, Advanced
<1>. QED BY <1>2, <1>5 DEF CallTypes

LEMMA FreshKept ==
  ASSUME LfgInv, BoardBounds, LfgNext
  PROVE  FreshInv'
<1>1. CASE Begins
  <2>1. PICK c \in LfgCalls, op \in LfgOps, p \in Posts :
               \E who \in Callers(op) : BeginLfg(c, op, p, who)
    BY <1>1 DEF Begins
  <2>2. PICK who \in Callers(op) : BeginLfg(c, op, p, who)
    BY <2>1
  <2>3. OneGoes(c) /\ lcall'[c].op = op /\ lcall'[c].id = p
    BY <2>2, CallBegins DEF LfgInv
  <2>4. /\ UNCHANGED post
        /\ op = "create" => post[p] = "none" /\ Busy({"create"}, p) = {}
        /\ op # "create" => post[p] # "none"
    BY <2>2 DEF BeginLfg, board
  <2>5. \A d \in LfgCalls : d # c => lcall'[d] = lcall[d]
    BY <2>3 DEF OneGoes, OthersStay
  <2>6. op = "create" => \A d \in LfgCalls : lcall[d].op = "create" => lcall[d].id # p
    BY <2>4 DEF Busy
  <2>7. FreshInv
    BY DEF LfgInv
  <2>8. \A d \in LfgCalls : lcall'[d].op = "create" => post'[lcall'[d].id] = "none"
    BY <2>3, <2>4, <2>5, <2>7 DEF FreshInv
  <2>9. \A d \in LfgCalls : lcall'[d].op \notin {"none", "create"} => post'[lcall'[d].id] # "none"
    BY <2>3, <2>4, <2>5, <2>7 DEF FreshInv
  <2>10. ASSUME NEW d \in LfgCalls, NEW e \in LfgCalls, lcall'[d].op = "create",
                lcall'[e].op = "create", lcall'[d].id = lcall'[e].id
         PROVE  d = e
    BY <2>3, <2>5, <2>6, <2>7, <2>10 DEF FreshInv
  <2>. QED BY <2>8, <2>9, <2>10 DEF FreshInv
<1>2. CASE ~Begins
  <2>1. ASSUME NEW d \in LfgCalls, lcall'[d].op # "none"
        PROVE  /\ lcall[d].op = lcall'[d].op /\ lcall[d].id = lcall'[d].id
               /\ lcall[d].id \in Posts
    BY <1>2, <2>1, StillTheSame, WhoCalls DEF Same, LfgInv
  <2>2. ASSUME NEW d \in LfgCalls, lcall'[d].op = "create" PROVE post'[lcall'[d].id] = "none"
    <3>1. post[lcall[d].id] = "none" /\ lcall[d].id \in Posts /\ lcall[d].op = "create"
      BY <2>1, <2>2 DEF LfgInv, FreshInv
    <3>2. ASSUME NEW c \in LfgCalls, InsertPost(c), post' = [post EXCEPT ![lcall[c].id] = "open"]
          PROVE  post'[lcall[d].id] = post[lcall[d].id]
      <4>1. lcall'[c] = NoLfgCall /\ lcall[c].op = "create"
        BY <3>2, InsertEnds DEF LfgInv
      <4>2. d # c
        BY <2>2, <4>1, IdleOk
      <4>3. lcall[c].id # lcall[d].id
        BY <3>1, <4>1, <4>2 DEF LfgInv, FreshInv
      <4>. QED BY <3>1, <3>2, <4>3 DEF LfgInv, LfgTypes
    <3>. QED BY <2>1, <2>2, <3>1, <3>2, PostLife
  <2>3. ASSUME NEW d \in LfgCalls, lcall'[d].op \notin {"none", "create"}
        PROVE  post'[lcall'[d].id] # "none"
    BY <2>1, <2>3, PostLife DEF LfgInv, FreshInv
  <2>4. ASSUME NEW d \in LfgCalls, NEW e \in LfgCalls, lcall'[d].op = "create",
               lcall'[e].op = "create", lcall'[d].id = lcall'[e].id
        PROVE  d = e
    BY <2>1, <2>4 DEF LfgInv, FreshInv
  <2>. QED BY <2>2, <2>3, <2>4 DEF FreshInv
<1>. QED BY <1>1, <1>2

\* The status each call about a member writes.
LEMMA StatusOf ==
  ASSUME NEW op \in {"leave", "accept", "decline", "remove"}
  PROVE  LET s == IF op = "leave" THEN "left" ELSE Answer[op]
         IN  /\ s \in Statuses
             /\ s = "accepted" <=> op = "accept"
             /\ s = "removed" <=> op = "remove"
             /\ s = "declined" <=> op = "decline"
<1>1. Answer["accept"] = "accepted" /\ Answer["decline"] = "declined" /\ Answer["remove"] = "removed"
  BY SMT DEF Answer
<1>. QED BY <1>1 DEF Statuses

\* A row that counts as removed after the step did before, and says the same.
RowsRest(D) ==
  \A d \in D : d \in ousted' \ tangled'
                 => d \in ousted \ tangled /\ member'[d[1]][d[2]] = member[d[1]][d[2]]

LEMMA RowsAtRest ==
  ASSUME LfgInv, BoardBounds, LfgNext, NEW D, RowsRest(D)
  PROVE  /\ \A d \in D : d \in ousted' \ tangled' => member'[d[1]][d[2]] = "removed"
         /\ \A c \in LfgCalls :
              At(lcall'[c], "set_status") /\ lcall'[c].op \in {"leave", "accept"}
                /\ <<lcall'[c].id, RowOf(lcall'[c])>> \in D
                => <<lcall'[c].id, RowOf(lcall'[c])>> \notin ousted' \ tangled'
<1>0. /\ CallTypes /\ CallsFare /\ RemovedStaysOut
      /\ \A c \in LfgCalls :
           At(lcall[c], "set_status") /\ lcall[c].op \in {"leave", "accept"}
             => <<lcall[c].id, RowOf(lcall[c])>> \notin ousted \ tangled
  BY EveryStepFares DEF LfgInv, RowInv
<1>1. ASSUME NEW d \in D, d \in ousted' \ tangled' PROVE member'[d[1]][d[2]] = "removed"
  BY <1>0, <1>1 DEF RowsRest, RemovedStaysOut
<1>2. ASSUME NEW c \in LfgCalls, At(lcall'[c], "set_status"), lcall'[c].op \in {"leave", "accept"},
             <<lcall'[c].id, RowOf(lcall'[c])>> \in D,
             <<lcall'[c].id, RowOf(lcall'[c])>> \in ousted' \ tangled'
      PROVE  FALSE
  <2>1. Same(lcall[c], lcall'[c]) /\ (At(lcall[c], "set_status") \/ Passed(c, "member"))
    BY <1>0, <1>2, CameFrom
  <2>2. /\ lcall'[c].id = lcall[c].id /\ lcall'[c].op = lcall[c].op
        /\ RowOf(lcall'[c]) = RowOf(lcall[c])
    BY <2>1 DEF Same, RowOf
  <2>. DEFINE d == <<lcall[c].id, RowOf(lcall[c])>>
  <2>3. d \in ousted \ tangled /\ d[1] = lcall[c].id /\ d[2] = RowOf(lcall[c])
    BY <1>2, <2>2 DEF RowsRest
  <2>4. member[lcall[c].id][RowOf(lcall[c])] = "removed"
    BY <1>0, <2>3 DEF RemovedStaysOut
  <2>5. CASE At(lcall[c], "set_status")
    BY <1>0, <1>2, <2>2, <2>3, <2>5
  <2>6. CASE Passed(c, "member")
    <3>1. member[lcall[c].id][RowOf(lcall[c])] \in {"requested", "accepted"}
      BY <1>0, <1>2, <2>2, <2>6 DEF CallsFare, PassFacts
    <3>. QED BY <2>4, <3>1
  <2>. QED BY <2>1, <2>5, <2>6
<1>. QED BY <1>1, <1>2

\* Every row may be at rest but the one an answer writes.
LEMMA RowKept ==
  ASSUME LfgInv, BoardBounds, LfgNext
  PROVE  RowInv'
<1>. DEFINE All == Posts \X Mates
<1>0. /\ LfgTypes /\ CallTypes /\ ousted \subseteq All /\ LfgTypes' /\ ousted' \subseteq All
      /\ member \in [Posts -> [Mates -> Statuses]]
  BY TypesKept DEF LfgInv, LfgTypes
<1>1. ASSUME RowsRest(ousted') PROVE RowInv'
  BY <1>1, RowsAtRest DEF RowInv, RemovedStaysOut
<1>2. CASE UNCHANGED <<member, ousted, tangled>>
  <2>1. RowsRest(ousted')
    BY <1>2 DEF RowsRest
  <2>. QED BY <1>1, <2>1
<1>3. ASSUME NEW c \in LfgCalls, RequestJoin(c), UNCHANGED <<ousted, tangled>> PROVE RowInv'
  <2>1. \/ UNCHANGED member
        \/ MayAsk(member[lcall[c].id][lcall[c].me])
             /\ member' = [member EXCEPT ![lcall[c].id][lcall[c].me] = "requested"]
    BY <1>3 DEF RequestJoin
  <2>2. lcall[c].op # "none" /\ Head(lcall[c].todo) = "request_join"
    BY <1>3 DEF RequestJoin, Doing
  <2>3. lcall[c].id \in Posts /\ lcall[c].me \in Mates
    BY <1>0, <2>2, WhichHandler, WhoCalls
  <2>4. RowsRest(ousted')
    <3>. SUFFICES ASSUME NEW d \in ousted \ tangled
                  PROVE  member'[d[1]][d[2]] = member[d[1]][d[2]]
      BY <1>3 DEF RowsRest
    <3>1. d[1] \in Posts /\ d[2] \in Mates /\ member[d[1]][d[2]] = "removed"
      BY <1>0 DEF LfgInv, RowInv, RemovedStaysOut
    <3>2. ASSUME MayAsk(member[lcall[c].id][lcall[c].me])
          PROVE  d[1] # lcall[c].id \/ d[2] # lcall[c].me
      BY <3>1, <3>2 DEF MayAsk
    <3>. QED BY <1>0, <2>1, <2>3, <3>1, <3>2, SMT
  <2>. QED BY <1>1, <2>4
<1>4. ASSUME NEW p \in Posts, PurgeEnded(p) PROVE RowInv'
  <2>1. /\ ousted' = {d \in ousted : d[1] # p} /\ tangled \subseteq tangled'
        /\ member' = [member EXCEPT ![p] = [m \in Mates |-> "none"]]
    BY <1>4 DEF PurgeEnded
  <2>2. RowsRest(ousted')
    BY <1>0, <2>1 DEF RowsRest
  <2>. QED BY <1>1, <2>2
<1>5. ASSUME NEW c \in LfgCalls, SetMemberStatus(c) PROVE RowInv'
  <2>. DEFINE p == lcall[c].id  m == RowOf(lcall[c])
  <2>1. lcall[c].op # "none" /\ Head(lcall[c].todo) = "set_status" /\ OthersStay(c)
    BY <1>0, <1>5, StatusWritten DEF SetMemberStatus, Doing, OneGoes
  <2>2. lcall[c].op = "leave" \/ lcall[c].op \in {"accept", "decline", "remove"}
    BY <1>0, <2>1, WhichHandler, AnswersAre
  <2>3. p \in Posts /\ m \in Mates
    BY <1>0, <2>1, <2>2, WhoCalls, AnswersAre DEF RowOf
  <2>4. tangled \subseteq tangled' /\ (Writing(c, p, m) # {} => <<p, m>> \in tangled')
    BY <1>5 DEF SetMemberStatus
  <2>5. CASE member[p][m] = "none"
    <3>1. UNCHANGED <<member, ousted>>
      BY <1>5, <2>5 DEF SetMemberStatus
    <3>2. RowsRest(ousted')
      BY <2>4, <3>1 DEF RowsRest
    <3>. QED BY <1>1, <3>2
  <2>6. CASE member[p][m] # "none"
    <3>1. /\ lcall[c].op \in {"leave", "accept"} => ousted' = ousted
          /\ lcall[c].op = "decline" => ousted' = ousted \ {<<p, m>>}
          /\ lcall[c].op = "remove" => ousted' = ousted \cup {<<p, m>>}
                                       /\ member' = [member EXCEPT ![p][m] = "removed"]
      <4>. DEFINE s == IF lcall[c].op = "leave" THEN "left" ELSE Answer[lcall[c].op]
      <4>1. /\ member' = [member EXCEPT ![p][m] = s]
            /\ s = "removed" => ousted' = ousted \cup {<<p, m>>}
            /\ s = "declined" => ousted' = ousted \ {<<p, m>>}
            /\ s \notin {"removed", "declined"} => ousted' = ousted
        BY <1>5, <2>6 DEF SetMemberStatus
      <4>2. /\ s = "removed" <=> lcall[c].op = "remove"
            /\ s = "declined" <=> lcall[c].op = "decline"
        BY <2>2, StatusOf
      <4>. HIDE DEF s
      <4>. QED BY <4>1, <4>2
    <3>2. \E s \in Statuses : member' = [member EXCEPT ![p][m] = s]
      <4>. DEFINE s == IF lcall[c].op = "leave" THEN "left" ELSE Answer[lcall[c].op]
      <4>1. member' = [member EXCEPT ![p][m] = s]
        BY <1>5, <2>6 DEF SetMemberStatus
      <4>2. s \in Statuses
        BY <2>2, StatusOf
      <4>. HIDE DEF s
      <4>. QED BY <4>1, <4>2
    <3>3. RowsRest(All \ {<<p, m>>})
      <4>. SUFFICES ASSUME NEW d \in All, d # <<p, m>>, d \in ousted' \ tangled'
                    PROVE  d \in ousted \ tangled /\ member'[d[1]][d[2]] = member[d[1]][d[2]]
        BY DEF RowsRest
      <4>1. d \in ousted \ tangled
        BY <2>2, <2>4, <3>1
      <4>2. d[1] \in Posts /\ d[2] \in Mates /\ (d[1] # p \/ d[2] # m)
        BY SMT
      <4>3. PICK s \in Statuses : member' = [member EXCEPT ![p][m] = s]
        BY <3>2
      <4>. HIDE DEF p, m
      <4>4. member'[d[1]][d[2]] = member[d[1]][d[2]]
        BY <1>0, <2>3, <4>2, <4>3, SMT
      <4>. QED BY <4>1, <4>4
    <3>4. lcall[c].op \in {"leave", "accept"} => <<p, m>> \notin ousted' \ tangled'
      BY <2>1, <2>4, <3>1 DEF LfgInv, RowInv, At
    <3>5. <<p, m>> \in ousted' \ tangled' => member'[p][m] = "removed"
      <4>1. CASE lcall[c].op = "remove"
        <5>. HIDE DEF p, m
        <5>1. member'[p][m] = "removed"
          BY <1>0, <2>3, <3>1, <4>1, SMT
        <5>. QED BY <5>1
      <4>. QED BY <2>2, <3>1, <3>4, <4>1
    <3>6. ASSUME NEW e \in LfgCalls, At(lcall'[e], "set_status"),
                 lcall'[e].op \in {"leave", "accept"}, lcall'[e].id = p, RowOf(lcall'[e]) = m
          PROVE  <<p, m>> \notin ousted' \ tangled'
      <4>1. CASE e = c
        <5>1. lcall'[c].op = lcall[c].op
          BY <1>0, <3>6, <4>1, EveryStepFares, CameFrom DEF Same
        <5>. QED BY <3>4, <3>6, <4>1, <5>1
      <4>2. CASE e # c
        <5>1. lcall'[e] = lcall[e]
          BY <2>1, <4>2 DEF OthersStay
        <5>2. m \in {lcall[e].me, lcall[e].them} /\ lcall[e].id = p
              /\ lcall[e].op \in Answers \cup {"leave", "join"}
          BY <3>6, <5>1, AnswersAre DEF RowOf
        <5>3. e \in Writing(c, p, m)
          BY <4>2, <5>2 DEF Writing
        <5>. QED BY <2>4, <5>3
      <4>. QED BY <4>1, <4>2
    <3>7. ASSUME NEW d \in ousted' \ tangled' PROVE member'[d[1]][d[2]] = "removed"
      <4>1. CASE d = <<p, m>>
        <5>1. d[1] = p /\ d[2] = m
          BY <4>1
        <5>. QED BY <3>5, <4>1, <5>1
      <4>2. CASE d # <<p, m>>
        <5>1. d \in All \ {<<p, m>>}
          BY <1>0, <4>2
        <5>. QED BY <3>3, <5>1, RowsAtRest
      <4>. QED BY <4>1, <4>2
    <3>8. ASSUME NEW e \in LfgCalls, At(lcall'[e], "set_status"),
                 lcall'[e].op \in {"leave", "accept"}
          PROVE  <<lcall'[e].id, RowOf(lcall'[e])>> \notin ousted' \ tangled'
      <4>1. CASE lcall'[e].id = p /\ RowOf(lcall'[e]) = m
        BY <3>6, <3>8, <4>1
      <4>2. CASE ~(lcall'[e].id = p /\ RowOf(lcall'[e]) = m)
        <5>1. <<lcall'[e].id, RowOf(lcall'[e])>> # <<p, m>>
          BY <4>2
        <5>. QED BY <1>0, <3>3, <3>8, <5>1, RowsAtRest
      <4>. QED BY <4>1, <4>2
    <3>. QED BY <3>7, <3>8 DEF RowInv, RemovedStaysOut
  <2>. QED BY <2>5, <2>6
<1>6. \/ UNCHANGED <<member, ousted, tangled>>
      \/ \E c \in LfgCalls : RequestJoin(c) /\ UNCHANGED <<ousted, tangled>>
      \/ \E p \in Posts : PurgeEnded(p)
      \/ \E c \in LfgCalls : SetMemberStatus(c)
  BY Frames
     DEF CallsOnly, Checked, PostMoves, Purged, Asked, Answered, CrewGrows, CrewErased,
         CrewAges, RoomMoves, ReportMoves, HostMoves, CommendMoves, BarMoves
<1>. QED BY <1>2, <1>3, <1>4, <1>5, <1>6

\* What a commend needs of the crew history is still there, or is excused.
LEMMA GiveRemembered ==
  ASSUME LfgInv, BoardBounds, LfgNext,
         \A x \in Giving : x \in crew \cup adrift => x \in crew' \cup adrift',
         \A e \in commend' : <<e[1], {e[2], e[3]}>> \in crew' \cup adrift'
  PROVE  GiveInv'
<1>1. CallTypes /\ CallsFare
  BY EveryStepFares DEF LfgInv
<1>2. ASSUME NEW c \in LfgCalls, lcall'[c].op = "give",
             At(lcall'[c], "window") \/ At(lcall'[c], "set_commend")
      PROVE  <<lcall'[c].id, Pair(lcall'[c])>> \in crew' \cup adrift'
  <2>1. /\ Same(lcall[c], lcall'[c])
        /\ At(lcall[c], "window") \/ At(lcall[c], "set_commend") \/ Passed(c, "flew_together")
    <3>1. At(lcall'[c], "window") =>
            Same(lcall[c], lcall'[c]) /\ (At(lcall[c], "window") \/ Passed(c, "flew_together"))
      BY <1>1, CameFrom
    <3>2. At(lcall'[c], "set_commend") =>
            Same(lcall[c], lcall'[c]) /\ (At(lcall[c], "set_commend") \/ Passed(c, "window"))
      BY <1>1, CameFrom
    <3>. QED BY <1>2, <3>1, <3>2 DEF Passed
  <2>2. /\ lcall'[c].id = lcall[c].id /\ Pair(lcall'[c]) = Pair(lcall[c])
        /\ lcall[c].op = "give"
    BY <1>2, <2>1 DEF Same, Pair
  <2>3. <<lcall[c].id, Pair(lcall[c])>> \in crew \cup adrift
    <3>1. CASE Passed(c, "flew_together")
      BY <1>1, <3>1 DEF CallsFare, PassFacts
    <3>. QED BY <2>1, <2>2, <3>1 DEF LfgInv, GiveInv
  <2>4. <<lcall[c].id, Pair(lcall[c])>> \in Giving
    BY <2>2 DEF Giving, Pair
  <2>. QED BY <2>2, <2>3, <2>4
<1>. QED BY <1>2 DEF GiveInv, CommendsFollowCrew

LEMMA GiveKept ==
  ASSUME LfgInv, BoardBounds, LfgNext
  PROVE  GiveInv'
<1>. DEFINE P(e) == <<e[1], {e[2], e[3]}>>
            Kept == \A x \in crew \cup adrift : x \in crew' \cup adrift'
<1>0. CallTypes /\ \A e \in commend : P(e) \in crew \cup adrift
  BY DEF LfgInv, GiveInv, CommendsFollowCrew
<1>1. ASSUME Kept, UNCHANGED commend PROVE GiveInv'
  BY <1>0, <1>1, GiveRemembered
<1>2. ASSUME NEW c \in LfgCalls, RecordCrew(c), UNCHANGED <<commend, adrift>> PROVE GiveInv'
  <2>1. crew \subseteq crew'
    BY <1>2 DEF RecordCrew
  <2>. QED BY <1>1, <1>2, <2>1
<1>3. ASSUME NEW p \in Posts, PurgeCrewBefore(p), UNCHANGED commend PROVE GiveInv'
  <2>1. Kept
    BY <1>3 DEF PurgeCrewBefore
  <2>. QED BY <1>1, <1>3, <2>1
<1>4. ASSUME NEW c \in LfgCalls, ForgetCrew(c) PROVE GiveInv'
  <2>. DEFINE p == lcall[c].id  m == lcall[c].them
  <2>1. CASE UNCHANGED <<crew, commend, adrift>>
    BY <1>1, <2>1
  <2>2. CASE /\ crew' = {e \in crew : e[1] # p \/ m \notin e[2]}
             /\ commend' = {e \in commend : e[1] # p \/ m \notin {e[2], e[3]}}
             /\ adrift' = adrift \cup {e \in Giving : e[1] = p /\ m \in e[2]}
    <3>1. \A x \in Giving : x \in crew \cup adrift => x \in crew' \cup adrift'
      BY <2>2
    <3>2. ASSUME NEW e \in commend' PROVE P(e) \in crew' \cup adrift'
      <4>1. e \in commend /\ (e[1] # p \/ m \notin {e[2], e[3]})
        BY <2>2, <3>2
      <4>2. P(e)[1] = e[1] /\ P(e)[2] = {e[2], e[3]}
        OBVIOUS
      <4>3. P(e) \in crew \cup adrift
        BY <1>0, <4>1
      <4>. HIDE DEF P
      <4>. QED BY <2>2, <4>1, <4>2, <4>3
    <3>. QED BY <3>1, <3>2, GiveRemembered
  <2>. QED BY <1>4, <2>1, <2>2 DEF ForgetCrew, forget_crew
<1>5. ASSUME NEW c \in LfgCalls, DeleteBetween(c) PROVE GiveInv'
  <2>. DEFINE pair == {lcall[c].me, lcall[c].them}
  <2>1. /\ crew' = {e \in crew : e[2] # pair}
        /\ commend' = {e \in commend : {e[2], e[3]} # pair}
        /\ adrift' = adrift \cup {e \in Giving : e[2] = pair}
    BY <1>5 DEF DeleteBetween
  <2>. HIDE DEF pair
  <2>2. \A x \in Giving : x \in crew \cup adrift => x \in crew' \cup adrift'
    BY <2>1
  <2>3. ASSUME NEW e \in commend' PROVE P(e) \in crew' \cup adrift'
    <3>1. e \in commend /\ {e[2], e[3]} # pair
      BY <2>1, <2>3
    <3>2. P(e)[2] = {e[2], e[3]} /\ P(e) \in crew \cup adrift
      BY <1>0, <3>1
    <3>. HIDE DEF P
    <3>. QED BY <2>1, <3>1, <3>2
  <2>. QED BY <2>2, <2>3, GiveRemembered
<1>6. ASSUME NEW c \in LfgCalls, SetCommend(c), UNCHANGED <<crew, adrift>> PROVE GiveInv'
  <2>. DEFINE n == <<lcall[c].id, lcall[c].me, lcall[c].them>>
  <2>1. \/ At(lcall[c], "set_commend") /\ commend' = commend \cup {n}
        \/ commend' \subseteq commend
    BY <1>6 DEF SetCommend, Doing, At
  <2>2. ASSUME At(lcall[c], "set_commend") PROVE P(n) \in crew \cup adrift
    <3>1. lcall[c].op = "give"
      BY <1>0, <2>2, WhichHandler DEF At
    <3>2. P(n) = <<lcall[c].id, Pair(lcall[c])>>
      BY DEF Pair
    <3>. QED BY <2>2, <3>1, <3>2 DEF LfgInv, GiveInv
  <2>. HIDE DEF n
  <2>3. ASSUME NEW e \in commend' PROVE P(e) \in crew' \cup adrift'
    BY <1>0, <1>6, <2>1, <2>2, <2>3
  <2>4. \A x \in Giving : x \in crew \cup adrift => x \in crew' \cup adrift'
    BY <1>6
  <2>. QED BY <2>3, <2>4, GiveRemembered
<1>7. ASSUME UNCHANGED <<crew, commend, adrift>> PROVE GiveInv'
  BY <1>1, <1>7
<1>8. \/ UNCHANGED <<crew, commend, adrift>>
      \/ \E c \in LfgCalls : \/ RecordCrew(c) /\ UNCHANGED <<commend, adrift>>
                             \/ ForgetCrew(c) \/ DeleteBetween(c)
                             \/ SetCommend(c) /\ UNCHANGED <<crew, adrift>>
      \/ \E p \in Posts : PurgeCrewBefore(p) /\ UNCHANGED commend
  BY Frames
     DEF CallsOnly, Checked, PostMoves, Purged, Asked, Answered, CrewGrows, CrewErased,
         CrewAges, RoomMoves, ReportMoves, HostMoves, CommendMoves, BarMoves
<1>. QED BY <1>2, <1>3, <1>4, <1>5, <1>6, <1>7, <1>8

LEMMA ModKept ==
  ASSUME LfgInv, BoardBounds, LfgNext
  PROVE  ModInv'
<1>. DEFINE Stands(p, m) ==
              /\ report[p][m] \in {"post_removed", "user_suspended"} => post[p] \in Down
              /\ report[p][m] = "user_suspended" => suspended
<1>0. /\ CallTypes /\ CallsFare /\ LfgTypes
      /\ report \in [Posts -> [Mates -> {"none", "open"} \cup Outcomes]]
  BY EveryStepFares DEF LfgInv, LfgTypes
<1>1. \A p \in Posts, m \in Mates : Stands(p, m)
  BY DEF LfgInv, ModInv, RecordedIsEnforced, Down
<1>2. \A p \in Posts : post[p] \in Down => post'[p] \in Down
  BY PostLife
<1>3. suspended => suspended'
  <2>1. (\E c \in LfgCalls : SuspendHost(c)) \/ UNCHANGED suspended
    BY Frames
       DEF CallsOnly, Checked, PostMoves, Purged, Asked, Answered, CrewGrows, CrewErased,
           CrewAges, RoomMoves, ReportMoves, HostMoves, CommendMoves, BarMoves
  <2>. QED BY <2>1 DEF SuspendHost
<1>4. ASSUME NEW p \in Posts, NEW m \in Mates PROVE Stands(p, m)'
  <2>1. CASE report'[p][m] = report[p][m]
    BY <1>1, <1>2, <1>3, <2>1
  <2>2. CASE report'[p][m] # report[p][m]
    <3>1. \E c \in LfgCalls : (CreateReport(c) \/ ResolveReport(c)) /\ UNCHANGED <<post, suspended>>
      BY <2>2, Frames
         DEF CallsOnly, Checked, PostMoves, Purged, Asked, Answered, CrewGrows, CrewErased,
             CrewAges, RoomMoves, ReportMoves, HostMoves, CommendMoves, BarMoves
    <3>2. ASSUME NEW c \in LfgCalls, CreateReport(c) PROVE report'[p][m] = "open"
      <4>1. lcall[c].id \in Posts /\ lcall[c].me \in Mates
        BY <1>0, <3>2, WhichHandler, WhoCalls DEF CreateReport, Doing
      <4>2. report' = [report EXCEPT ![lcall[c].id][lcall[c].me] = "open"]
        BY <3>2 DEF CreateReport
      <4>. QED BY <1>0, <2>2, <4>1, <4>2, SMT
    <3>3. ASSUME NEW c \in LfgCalls, ResolveReport(c), UNCHANGED <<post, suspended>>
          PROVE Stands(p, m)'
      <4>1. lcall[c].op # "none" /\ Head(lcall[c].todo) = "resolve"
        BY <3>3 DEF ResolveReport, Doing
      <4>2. lcall[c].id \in Posts /\ lcall[c].them \in Mates
        BY <1>0, <4>1, WhichHandler, WhoCalls
      <4>3. report' = [report EXCEPT ![lcall[c].id][lcall[c].them] =
                         IF report[lcall[c].id][lcall[c].them] = "open" THEN lcall[c].op
                         ELSE report[lcall[c].id][lcall[c].them]]
        BY <3>3 DEF ResolveReport
      <4>4. p = lcall[c].id /\ report'[p][m] = lcall[c].op
        BY <1>0, <2>2, <4>2, <4>3, SMT
      <4>5. /\ lcall[c].op \in {"post_removed", "user_suspended"} => post[p] \in Down
            /\ lcall[c].op = "user_suspended" => suspended
        BY <4>1, <4>4 DEF LfgInv, ModInv, Enforcing, At
      <4>. QED BY <3>3, <4>4, <4>5
    <3>. QED BY <3>1, <3>2, <3>3
  <2>. QED BY <2>1, <2>2
<1>5. RecordedIsEnforced'
  BY <1>4 DEF RecordedIsEnforced, Down
<1>6. ASSUME NEW c \in LfgCalls, lcall'[c].op # "none", Same(lcall[c], lcall'[c])
      PROVE  /\ lcall'[c].id = lcall[c].id /\ lcall'[c].op = lcall[c].op /\ lcall[c].id \in Posts
  BY <1>0, <1>6, WhoCalls DEF Same
<1>7. ASSUME NEW c \in LfgCalls, At(lcall'[c], "suspend") PROVE post'[lcall'[c].id] \in Down
  <2>1. Same(lcall[c], lcall'[c]) /\ (At(lcall[c], "suspend") \/ Passed(c, "remove_post"))
    BY <1>0, <1>7, CameFrom
  <2>2. CASE At(lcall[c], "suspend")
    BY <1>2, <1>6, <1>7, <2>1, <2>2 DEF At, LfgInv, ModInv
  <2>3. CASE Passed(c, "remove_post")
    BY <1>0, <1>6, <1>7, <2>1, <2>3 DEF At, CallsFare, PassFacts, Down
  <2>. QED BY <2>1, <2>2, <2>3
<1>8. ASSUME NEW c \in LfgCalls, At(lcall'[c], "resolve"), lcall'[c].op \in Enforcing
      PROVE  post'[lcall'[c].id] \in Down /\ (lcall'[c].op = "user_suspended" => suspended')
  <2>1. /\ Same(lcall[c], lcall'[c])
        /\ \/ At(lcall[c], "resolve")
           \/ (lcall'[c].op = "post_removed" /\ Passed(c, "remove_post"))
           \/ (lcall'[c].op = "user_suspended" /\ Passed(c, "suspend"))
    <3>1. lcall'[c].op # "dismissed"
      BY <1>8 DEF Enforcing
    <3>. QED BY <1>0, <1>8, <3>1, CameFrom
  <2>2. lcall'[c].id = lcall[c].id /\ lcall'[c].op = lcall[c].op /\ lcall[c].id \in Posts
    BY <1>6, <1>8, <2>1 DEF At
  <2>3. CASE At(lcall[c], "resolve")
    BY <1>2, <1>3, <1>8, <2>2, <2>3 DEF LfgInv, ModInv
  <2>4. CASE lcall'[c].op = "post_removed" /\ Passed(c, "remove_post")
    BY <1>0, <2>2, <2>4 DEF CallsFare, PassFacts, Down
  <2>5. CASE lcall'[c].op = "user_suspended" /\ Passed(c, "suspend")
    <3>1. At(lcall[c], "suspend") /\ suspended'
      BY <1>0, <2>5 DEF CallsFare, PassFacts, Passed
    <3>. QED BY <1>2, <2>2, <3>1 DEF LfgInv, ModInv
  <2>. QED BY <2>1, <2>3, <2>4, <2>5
<1>. QED BY <1>5, <1>7, <1>8 DEF ModInv, Enforcing

LEMMA ReportKept ==
  ASSUME LfgInv, BoardBounds, LfgNext
  PROVE  ReportInv'
<1>0. /\ CallTypes /\ CallsFare /\ LfgTypes
      /\ report \in [Posts -> [Mates -> {"none", "open"} \cup Outcomes]]
  BY EveryStepFares DEF LfgInv, LfgTypes
<1>1. \A p \in Posts : post'[p] = "gone" => post[p] = "gone" \/ PurgeEnded(p)
  BY PostLife
<1>2. tangled \subseteq tangled'
  <2>1. ASSUME NEW c \in LfgCalls, SetMemberStatus(c) PROVE tangled \subseteq tangled'
    BY <2>1 DEF SetMemberStatus
  <2>2. ASSUME NEW p \in Posts, PurgeEnded(p) PROVE tangled \subseteq tangled'
    BY <2>2 DEF PurgeEnded
  <2>3. \/ \E c \in LfgCalls : SetMemberStatus(c)
        \/ \E p \in Posts : PurgeEnded(p)
        \/ UNCHANGED tangled
    BY Frames
       DEF CallsOnly, Checked, PostMoves, Purged, Asked, Answered, CrewGrows, CrewErased,
           CrewAges, RoomMoves, ReportMoves, HostMoves, CommendMoves, BarMoves
  <2>. QED BY <2>1, <2>2, <2>3
<1>3. ASSUME NEW p \in Posts, PurgeEnded(p)
      PROVE  /\ UNCHANGED <<report, lcall>> /\ \A m \in Mates : report[p][m] # "open"
             /\ \A c \in Busy({"report"}, p) : <<p, lcall[c].me>> \in tangled'
  BY <1>3 DEF PurgeEnded, Purgeable, queue
<1>4. ASSUME NEW c \in LfgCalls, At(lcall'[c], "create_report"), post'[lcall'[c].id] = "gone"
      PROVE  <<lcall'[c].id, lcall'[c].me>> \in tangled'
  <2>1. Same(lcall[c], lcall'[c]) /\ (At(lcall[c], "create_report") \/ Passed(c, "visible"))
    BY <1>0, <1>4, CameFrom
  <2>2. /\ lcall'[c].id = lcall[c].id /\ lcall'[c].me = lcall[c].me /\ lcall[c].op # "none"
        /\ lcall'[c].op = lcall[c].op /\ lcall[c].id \in Posts
    BY <1>0, <1>4, <2>1, WhoCalls DEF Same, At
  <2>3. CASE PurgeEnded(lcall[c].id)
    <3>1. lcall' = lcall
      BY <1>3, <2>2, <2>3
    <3>2. c \in Busy({"report"}, lcall[c].id)
      BY <1>0, <1>4, <2>2, <3>1, WhichHandler DEF Busy, At
    <3>. QED BY <1>3, <2>2, <2>3, <3>2
  <2>4. CASE post[lcall[c].id] = "gone"
    <3>1. CASE At(lcall[c], "create_report")
      BY <1>2, <2>2, <2>4, <3>1 DEF LfgInv, ReportInv
    <3>2. CASE Passed(c, "visible")
      BY <1>0, <2>4, <3>2 DEF CallsFare, PassFacts, Existing
    <3>. QED BY <2>1, <3>1, <3>2
  <2>. QED BY <1>1, <1>4, <2>2, <2>3, <2>4
<1>5. ASSUME NEW p \in Posts, NEW m \in Mates, report'[p][m] = "open", <<p, m>> \notin tangled',
             post'[p] = "gone"
      PROVE  FALSE
  <2>1. <<p, m>> \notin tangled
    BY <1>2, <1>5
  <2>2. CASE report[p][m] = "open"
    <3>1. ~PurgeEnded(p)
      BY <1>3, <2>2
    <3>. QED BY <1>1, <1>5, <2>1, <2>2, <3>1 DEF LfgInv, ReportInv, ReportedPostIsKept
  <2>3. CASE report[p][m] # "open"
    <3>1. \E c \in LfgCalls : (CreateReport(c) \/ ResolveReport(c)) /\ UNCHANGED post
      BY <1>5, <2>3, Frames
         DEF CallsOnly, Checked, PostMoves, Purged, Asked, Answered, CrewGrows, CrewErased,
             CrewAges, RoomMoves, ReportMoves, HostMoves, CommendMoves, BarMoves
    <3>2. ASSUME NEW c \in LfgCalls, CreateReport(c), UNCHANGED post PROVE FALSE
      <4>1. lcall[c].op # "none" /\ Head(lcall[c].todo) = "create_report"
        BY <3>2 DEF CreateReport, Doing
      <4>2. lcall[c].id \in Posts /\ lcall[c].me \in Mates
        BY <1>0, <4>1, WhichHandler, WhoCalls
      <4>3. report' = [report EXCEPT ![lcall[c].id][lcall[c].me] = "open"]
        BY <3>2 DEF CreateReport
      <4>4. p = lcall[c].id /\ m = lcall[c].me
        BY <1>0, <1>5, <2>3, <4>2, <4>3, SMT
      <4>. QED BY <1>5, <2>1, <3>2, <4>1, <4>4 DEF LfgInv, ReportInv, At
    <3>3. ASSUME NEW c \in LfgCalls, ResolveReport(c) PROVE FALSE
      <4>1. lcall[c].op # "none" /\ Head(lcall[c].todo) = "resolve"
        BY <3>3 DEF ResolveReport, Doing
      <4>2. lcall[c].id \in Posts /\ lcall[c].them \in Mates /\ lcall[c].op # "open"
        BY <1>0, <4>1, WhichHandler, WhoCalls DEF Outcomes
      <4>3. report' = [report EXCEPT ![lcall[c].id][lcall[c].them] =
                         IF report[lcall[c].id][lcall[c].them] = "open" THEN lcall[c].op
                         ELSE report[lcall[c].id][lcall[c].them]]
        BY <3>3 DEF ResolveReport
      <4>. QED BY <1>0, <1>5, <2>3, <4>2, <4>3, SMT
    <3>. QED BY <3>1, <3>2, <3>3
  <2>. QED BY <2>2, <2>3
<1>. QED BY <1>4, <1>5 DEF ReportInv, ReportedPostIsKept

-----------------------------------------------------------------------------
(* The two counts.                                                         *)

\* What the counts need of cardinalities; proved last, where the theorems about
\* finite sets come in.
Counting ==
  /\ \A S, U : IsFiniteSet(S) /\ U \subseteq S =>
       /\ IsFiniteSet(U) /\ Cardinality(U) \in Nat /\ Cardinality(S) \in Nat
       /\ Cardinality(U) <= Cardinality(S)
  /\ \A S, a : IsFiniteSet(S) =>
       /\ IsFiniteSet(S \cup {a}) /\ Cardinality(S) \in Nat
       /\ Cardinality(S \cup {a}) = Cardinality(S) \/ Cardinality(S \cup {a}) = Cardinality(S) + 1
  /\ \A S : \A a \in S : IsFiniteSet(S) =>
       /\ IsFiniteSet(S \ {a}) /\ Cardinality(S \ {a}) = Cardinality(S) - 1
  /\ Cardinality({}) = 0 /\ \A a : Cardinality({a}) = 1

LEMMA FewerOf ==
  ASSUME Counting, NEW S, NEW U, IsFiniteSet(S), U \subseteq S
  PROVE  IsFiniteSet(U) /\ Cardinality(U) \in Nat /\ Cardinality(S) \in Nat
         /\ Cardinality(U) <= Cardinality(S)
  BY DEF Counting

\* One moves over: a set gains at most one element and the other loses one.
LEMMA MovesOver ==
  ASSUME Counting, NEW A, NEW B, NEW a, B \subseteq A \cup {a}, IsFiniteSet(A),
         NEW G, NEW H, NEW g \in G, H \subseteq G \ {g}, IsFiniteSet(G)
  PROVE  Cardinality(B) + Cardinality(H) <= Cardinality(A) + Cardinality(G)
<1>1. /\ IsFiniteSet(A \cup {a}) /\ Cardinality(A) \in Nat
      /\ Cardinality(A \cup {a}) = Cardinality(A) \/ Cardinality(A \cup {a}) = Cardinality(A) + 1
  BY DEF Counting
<1>2. IsFiniteSet(G \ {g}) /\ Cardinality(G \ {g}) = Cardinality(G) - 1 /\ Cardinality(G) \in Nat
  BY DEF Counting
<1>3. Cardinality(B) \in Nat /\ Cardinality(B) <= Cardinality(A \cup {a})
  BY <1>1, FewerOf
<1>4. Cardinality(H) \in Nat /\ Cardinality(H) <= Cardinality(G \ {g})
  BY <1>2, FewerOf
<1>. QED BY <1>1, <1>2, <1>3, <1>4, SMT

LEMMA AcceptingIs ==
  ASSUME NEW p \in Posts, NEW c \in LfgCalls
  PROVE  /\ c \in Accepting(p) <=>
              /\ lcall[c].op = "accept" /\ lcall[c].id = p
              /\ At(lcall[c], "member") \/ At(lcall[c], "set_status")
         /\ c \in Accepting(p)' <=>
              /\ lcall'[c].op = "accept" /\ lcall'[c].id = p
              /\ At(lcall'[c], "member") \/ At(lcall'[c], "set_status")
  BY DEF Accepting, Busy, Doing, At

LEMMA CreatingIs ==
  ASSUME NEW c \in LfgCalls
  PROVE  /\ c \in Creating <=> At(lcall[c], "count_posts") \/ At(lcall[c], "insert_post")
         /\ c \in Creating' <=> At(lcall'[c], "count_posts") \/ At(lcall'[c], "insert_post")
  BY DEF Creating, Doing, At

\* Only a check that passes lets a call in.
LEMMA CameToAccept ==
  ASSUME CallTypes, CallsFare, NEW p \in Posts
  PROVE  \/ Accepting(p)' \subseteq Accepting(p)
         \/ HasRoom(p) /\ \E d \in LfgCalls : Check(d)
<1>. SUFFICES ASSUME NEW c \in LfgCalls, c \in Accepting(p)', c \notin Accepting(p)
              PROVE  HasRoom(p) /\ \E d \in LfgCalls : Check(d)
  BY DEF Accepting, Busy
<1>1. /\ lcall'[c].op = "accept" /\ lcall'[c].id = p
      /\ At(lcall'[c], "member") \/ At(lcall'[c], "set_status")
  BY AcceptingIs
<1>2. /\ Same(lcall[c], lcall'[c])
      /\ At(lcall[c], "member") \/ At(lcall[c], "set_status") \/ Passed(c, "get_post")
  <2>1. At(lcall'[c], "set_status") =>
          Same(lcall[c], lcall'[c]) /\ (At(lcall[c], "set_status") \/ Passed(c, "member"))
    BY CameFrom
  <2>2. At(lcall'[c], "member") =>
          Same(lcall[c], lcall'[c]) /\ (At(lcall[c], "member") \/ Passed(c, "get_post"))
    BY <1>1, CameFrom
  <2>. QED BY <1>1, <2>1, <2>2 DEF Passed
<1>3. lcall[c].op = "accept" /\ lcall[c].id = p
  BY <1>1, <1>2 DEF Same
<1>4. Passed(c, "get_post")
  BY <1>2, <1>3, AcceptingIs
<1>. QED BY <1>3, <1>4 DEF CallsFare, PassFacts

LEMMA CameToCreate ==
  ASSUME CallTypes, CallsFare
  PROVE  \/ Creating' \subseteq Creating
         \/ OpenPosts = {} /\ \E d \in LfgCalls : Check(d)
<1>. SUFFICES ASSUME NEW c \in LfgCalls, c \in Creating', c \notin Creating
              PROVE  OpenPosts = {} /\ \E d \in LfgCalls : Check(d)
  BY DEF Creating
<1>1. At(lcall'[c], "count_posts") \/ At(lcall'[c], "insert_post")
  BY CreatingIs
<1>2. At(lcall[c], "count_posts") \/ At(lcall[c], "insert_post") \/ Passed(c, "no_open_post")
  <2>1. At(lcall'[c], "insert_post") => At(lcall[c], "insert_post") \/ Passed(c, "count_posts")
    BY CameFrom
  <2>2. At(lcall'[c], "count_posts") => At(lcall[c], "count_posts") \/ Passed(c, "no_open_post")
    BY CameFrom
  <2>. QED BY <1>1, <2>1, <2>2 DEF Passed
<1>3. Passed(c, "no_open_post")
  BY <1>2, CreatingIs
<1>. QED BY <1>3 DEF CallsFare, PassFacts

\* An accept that has written the row is past it.
LEMMA AcceptPasses ==
  ASSUME CallTypes, NEW c \in LfgCalls, SetMemberStatus(c), lcall[c].op = "accept"
  PROVE  ~At(lcall'[c], "member") /\ ~At(lcall'[c], "set_status")
<1>1. /\ lcall[c].op # "none" /\ Head(lcall[c].todo) = "set_status"
      /\ StepDone(c) \/ EndLfg(c)
  BY DEF SetMemberStatus, Doing, GoOn
<1>2. lcall[c] \in LfgCallRec /\ lcall[c].todo \in RespondEnds
  BY <1>1, Inflight, AnswersAre DEF InOrder, Ends
<1>3. Len(lcall[c].todo) # 1 /\ Head(Tail(lcall[c].todo)) = "history"
  BY <1>1, <1>2, RespondOrder DEF StepTo, LastStep
<1>4. CASE EndLfg(c)
  <2>1. lcall'[c] = NoLfgCall
    BY <1>4 DEF EndLfg, CallTypes
  <2>. QED BY <2>1, IdleOk DEF At
<1>5. CASE StepDone(c)
  <2>1. lcall'[c] = [lcall[c] EXCEPT !.todo = Tail(lcall[c].todo)]
    BY <1>3, <1>5 DEF StepDone, Advanced, CallTypes
  <2>2. lcall'[c].todo = Tail(lcall[c].todo)
    BY <1>1, <1>2, <1>3, <2>1, Inflight, Retold
  <2>. QED BY <1>3, <2>2 DEF At
<1>. QED BY <1>1, <1>4, <1>5

LEMMA CountsAreFinite ==
  ASSUME Counting, BoardBounds
  PROVE  /\ IsFiniteSet(Creating) /\ Cardinality(Creating) \in Nat
         /\ IsFiniteSet(Creating') /\ Cardinality(Creating') \in Nat
         /\ IsFiniteSet(OpenPosts) /\ Cardinality(OpenPosts) \in Nat
         /\ IsFiniteSet(OpenPosts') /\ Cardinality(OpenPosts') \in Nat
         /\ \A p : IsFiniteSet(Accepting(p)) /\ Cardinality(Accepting(p)) \in Nat
         /\ \A p : IsFiniteSet(Accepting(p)') /\ Cardinality(Accepting(p)') \in Nat
         /\ \A p : IsFiniteSet(Accepted(p)) /\ Cardinality(Accepted(p)) \in Nat
         /\ \A p : IsFiniteSet(Accepted(p)') /\ Cardinality(Accepted(p)') \in Nat
<1>1. ASSUME NEW S, NEW U \in SUBSET S, IsFiniteSet(S)
      PROVE  IsFiniteSet(U) /\ Cardinality(U) \in Nat
  BY <1>1, FewerOf
<1>2. IsFiniteSet(LfgCalls) /\ IsFiniteSet(Posts) /\ IsFiniteSet(Mates)
  BY DEF BoardBounds
<1>3. Creating \in SUBSET LfgCalls /\ Creating' \in SUBSET LfgCalls
  BY DEF Creating
<1>4. OpenPosts \in SUBSET Posts /\ OpenPosts' \in SUBSET Posts
  BY DEF OpenPosts
<1>5. ASSUME NEW p PROVE Accepting(p) \in SUBSET LfgCalls /\ Accepting(p)' \in SUBSET LfgCalls
  BY DEF Accepting, Busy
<1>6. ASSUME NEW p PROVE Accepted(p) \in SUBSET Mates /\ Accepted(p)' \in SUBSET Mates
  BY DEF Accepted
<1>7. /\ IsFiniteSet(Creating) /\ Cardinality(Creating) \in Nat
      /\ IsFiniteSet(Creating') /\ Cardinality(Creating') \in Nat
  BY <1>1, <1>2, <1>3
<1>8. /\ IsFiniteSet(OpenPosts) /\ Cardinality(OpenPosts) \in Nat
      /\ IsFiniteSet(OpenPosts') /\ Cardinality(OpenPosts') \in Nat
  BY <1>1, <1>2, <1>4
<1>9. ASSUME NEW p PROVE /\ IsFiniteSet(Accepting(p)) /\ Cardinality(Accepting(p)) \in Nat
                         /\ IsFiniteSet(Accepting(p)') /\ Cardinality(Accepting(p)') \in Nat
  BY <1>1, <1>2, <1>5
<1>10. ASSUME NEW p PROVE /\ IsFiniteSet(Accepted(p)) /\ Cardinality(Accepted(p)) \in Nat
                          /\ IsFiniteSet(Accepted(p)') /\ Cardinality(Accepted(p)') \in Nat
  BY <1>1, <1>2, <1>6
<1>. QED BY <1>7, <1>8, <1>9, <1>10

\* The peaks only rise, to what is in flight.
LEMMA PeaksRise ==
  ASSUME Counting, PeakTypes, BoardBounds, NEW c \in LfgCalls, Check(c)
  PROVE  /\ PeakTypes'
         /\ peak'.posts >= peak.posts /\ peak'.posts >= Cardinality(Creating')
         /\ \A p \in Posts : /\ peak'.crew[p] >= peak.crew[p]
                             /\ peak'.crew[p] >= Cardinality(Accepting(p)')
<1>1. peak' = [posts |-> Larger(peak.posts, Cardinality(Creating')),
               crew |-> [q \in Posts |-> Larger(peak.crew[q], Cardinality(Accepting(q)'))]]
  BY DEF Check
<1>2. peak.posts \in Nat /\ \A q \in Posts : peak.crew[q] \in Nat
  BY DEF PeakTypes
<1>3. ASSUME NEW a \in Nat, NEW b \in Nat
      PROVE  Larger(a, b) \in Nat /\ Larger(a, b) >= a /\ Larger(a, b) >= b
  BY <1>3, SMT DEF Larger
<1>4. Cardinality(Creating') \in Nat /\ \A q \in Posts : Cardinality(Accepting(q)') \in Nat
  BY CountsAreFinite
<1>5. /\ peak'.posts = Larger(peak.posts, Cardinality(Creating'))
      /\ \A q \in Posts : peak'.crew[q] = Larger(peak.crew[q], Cardinality(Accepting(q)'))
  BY <1>1
<1>6. PeakTypes'
  <2>1. [q \in Posts |-> Larger(peak.crew[q], Cardinality(Accepting(q)'))] \in [Posts -> Nat]
    BY <1>2, <1>3, <1>4
  <2>2. Larger(peak.posts, Cardinality(Creating')) \in Nat
    BY <1>2, <1>3, <1>4
  <2>. QED BY <1>1, <2>1, <2>2 DEF PeakTypes
<1>7. peak'.posts >= peak.posts /\ peak'.posts >= Cardinality(Creating')
  BY <1>2, <1>3, <1>4, <1>5
<1>8. ASSUME NEW p \in Posts
      PROVE  /\ peak'.crew[p] >= peak.crew[p]
             /\ peak'.crew[p] >= Cardinality(Accepting(p)')
  <2>1. peak.crew[p] \in Nat /\ Cardinality(Accepting(p)') \in Nat
    BY <1>2, <1>4
  <2>2. peak'.crew[p] = Larger(peak.crew[p], Cardinality(Accepting(p)'))
    BY <1>5
  <2>. QED BY <1>3, <2>1, <2>2
<1>. QED BY <1>6, <1>7, <1>8

LEMMA PeaksKept ==
  ASSUME Counting, PeakTypes, BoardBounds, LfgNext
  PROVE  /\ PeakTypes'
         /\ peak'.posts >= peak.posts /\ \A p \in Posts : peak'.crew[p] >= peak.crew[p]
<1>1. (\E c \in LfgCalls : Check(c)) \/ UNCHANGED peak
  BY Frames
     DEF CallsOnly, Checked, PostMoves, Purged, Asked, Answered, CrewGrows, CrewErased,
         CrewAges, RoomMoves, ReportMoves, HostMoves, CommendMoves, BarMoves
<1>2. ASSUME UNCHANGED peak
      PROVE  /\ PeakTypes'
             /\ peak'.posts >= peak.posts /\ \A p \in Posts : peak'.crew[p] >= peak.crew[p]
  <2>1. PeakTypes' /\ peak.posts \in Nat /\ \A p \in Posts : peak.crew[p] \in Nat
    BY <1>2 DEF PeakTypes
  <2>. QED BY <1>2, <2>1, SMT
<1>. QED BY <1>1, <1>2, PeaksRise

LEMMA SlotsKept ==
  ASSUME Counting, LfgInv, BoardBounds, LfgNext
  PROVE  SlotsInv'
<1>0. /\ LfgTypes /\ PeakTypes /\ PeakTypes' /\ CallTypes /\ CallsFare /\ Slots \in Nat
      /\ member \in [Posts -> [Mates -> Statuses]]
  BY EveryStepFares, PeaksKept DEF LfgInv, LfgTypes, BoardBounds
<1>. SUFFICES ASSUME NEW p \in Posts
              PROVE  \/ Accepted(p)' = {} /\ Accepting(p)' = {}
                     \/ Cardinality(Accepted(p)') + Cardinality(Accepting(p)')
                          < Slots + peak'.crew[p]
  BY DEF SlotsInv
<1>. DEFINE Goal == \/ Accepted(p)' = {} /\ Accepting(p)' = {}
                    \/ Cardinality(Accepted(p)') + Cardinality(Accepting(p)')
                         < Slots + peak'.crew[p]
<1>1. /\ IsFiniteSet(Accepted(p)) /\ Cardinality(Accepted(p)) \in Nat
      /\ IsFiniteSet(Accepting(p)) /\ Cardinality(Accepting(p)) \in Nat
      /\ Cardinality(Accepted(p)') \in Nat /\ Cardinality(Accepting(p)') \in Nat
  BY CountsAreFinite
<1>2. peak.crew[p] \in Nat /\ peak'.crew[p] \in Nat
  BY <1>0 DEF PeakTypes
<1>4. peak.crew[p] <= peak'.crew[p]
  <2>1. peak'.crew[p] >= peak.crew[p]
    BY <1>0, PeaksKept
  <2>. QED BY <1>2, <2>1, SMT
<1>5. \/ Accepted(p) = {} /\ Accepting(p) = {}
      \/ Cardinality(Accepted(p)) + Cardinality(Accepting(p)) < Slots + peak.crew[p]
  BY DEF LfgInv, SlotsInv
<1>6. ASSUME Accepted(p)' \subseteq Accepted(p), Accepting(p)' \subseteq Accepting(p) PROVE Goal
  <2>1. /\ Cardinality(Accepted(p)') <= Cardinality(Accepted(p))
        /\ Cardinality(Accepting(p)') <= Cardinality(Accepting(p))
    BY <1>1, <1>6, FewerOf
  <2>2. CASE Accepted(p) = {} /\ Accepting(p) = {}
    BY <1>6, <2>2
  <2>3. CASE Cardinality(Accepted(p)) + Cardinality(Accepting(p)) < Slots + peak.crew[p]
    BY <1>0, <1>1, <1>2, <1>4, <2>1, <2>3, SMT
  <2>. QED BY <1>5, <2>2, <2>3
<1>7. ASSUME NEW d \in LfgCalls, Check(d), HasRoom(p) PROVE Goal
  <2>1. Accepted(p)' = Accepted(p)
    BY <1>7 DEF Check, board, Accepted
  <2>2. Cardinality(Accepted(p)) < Slots
    BY <1>7 DEF HasRoom, crew_count
  <2>3. peak'.crew[p] >= Cardinality(Accepting(p)')
    BY <1>0, <1>7, PeaksRise
  <2>. QED BY <1>0, <1>1, <1>2, <2>1, <2>2, <2>3, SMT
<1>8. ASSUME UNCHANGED member PROVE Accepted(p)' \subseteq Accepted(p)
  BY <1>8 DEF Accepted
<1>9. ASSUME NEW c \in LfgCalls, RequestJoin(c) PROVE Accepted(p)' \subseteq Accepted(p)
  <2>1. lcall[c].id \in Posts /\ lcall[c].me \in Mates
    BY <1>0, <1>9, WhichHandler, WhoCalls DEF RequestJoin, Doing
  <2>2. \/ UNCHANGED member
        \/ member' = [member EXCEPT ![lcall[c].id][lcall[c].me] = "requested"]
    BY <1>9 DEF RequestJoin
  <2>3. ASSUME NEW m \in Mates, member'[p][m] = "accepted" PROVE member[p][m] = "accepted"
    BY <1>0, <2>1, <2>2, <2>3, SMT
  <2>. QED BY <2>3 DEF Accepted
<1>10. ASSUME NEW q \in Posts, PurgeEnded(q) PROVE Accepted(p)' \subseteq Accepted(p)
  <2>1. member' = [member EXCEPT ![q] = [m \in Mates |-> "none"]]
    BY <1>10 DEF PurgeEnded
  <2>2. ASSUME NEW m \in Mates, member'[p][m] = "accepted" PROVE member[p][m] = "accepted"
    BY <1>0, <2>1, <2>2, SMT
  <2>. QED BY <2>2 DEF Accepted
<1>11. ASSUME NEW c \in LfgCalls, SetMemberStatus(c), UNCHANGED peak,
              Accepting(p)' \subseteq Accepting(p)
       PROVE  Goal
  <2>1. lcall[c].op # "none" /\ Head(lcall[c].todo) = "set_status"
    BY <1>11 DEF SetMemberStatus, Doing
  <2>2. lcall[c].op = "leave" \/ lcall[c].op \in {"accept", "decline", "remove"}
    BY <1>0, <2>1, WhichHandler, AnswersAre
  <2>. DEFINE r == RowOf(lcall[c])
  <2>3. lcall[c].id \in Posts /\ r \in Mates
    BY <1>0, <2>1, <2>2, WhoCalls, AnswersAre DEF RowOf
  <2>4. \/ UNCHANGED member
        \/ \E s \in Statuses : /\ member' = [member EXCEPT ![lcall[c].id][r] = s]
                               /\ s = "accepted" => lcall[c].op = "accept"
    <3>1. \/ UNCHANGED member
          \/ member' = [member EXCEPT ![lcall[c].id][r] =
                          IF lcall[c].op = "leave" THEN "left" ELSE Answer[lcall[c].op]]
      BY <1>11 DEF SetMemberStatus
    <3>. QED BY <2>2, <3>1, StatusOf
  <2>. HIDE DEF r
  <2>5. ASSUME NEW s \in Statuses, member' = [member EXCEPT ![lcall[c].id][r] = s]
        PROVE  \A m \in Mates : member'[p][m] = IF p = lcall[c].id /\ m = r THEN s ELSE member[p][m]
    BY <1>0, <2>3, <2>5, SMT
  <2>6. CASE lcall[c].op = "accept" /\ lcall[c].id = p
    <3>1. c \in Accepting(p) /\ c \notin Accepting(p)'
      <4>1. At(lcall[c], "set_status")
        BY <2>1 DEF At
      <4>2. ~At(lcall'[c], "member") /\ ~At(lcall'[c], "set_status")
        BY <1>0, <1>11, <2>6, AcceptPasses
      <4>3. c \in Accepting(p)
        BY <2>6, <4>1, AcceptingIs
      <4>4. c \notin Accepting(p)'
        BY <4>2, AcceptingIs
      <4>. QED BY <4>3, <4>4
    <3>2. Accepted(p)' \subseteq Accepted(p) \cup {r}
      BY <2>4, <2>5 DEF Accepted
    <3>3. Accepting(p)' \subseteq Accepting(p) \ {c}
      BY <1>11, <3>1
    <3>4. Cardinality(Accepted(p)') + Cardinality(Accepting(p)')
            <= Cardinality(Accepted(p)) + Cardinality(Accepting(p))
      BY <1>1, <3>1, <3>2, <3>3, MovesOver
    <3>5. Cardinality(Accepted(p)) + Cardinality(Accepting(p)) < Slots + peak.crew[p]
      BY <1>5, <3>1
    <3>. QED BY <1>0, <1>1, <1>2, <1>4, <3>4, <3>5, SMT
  <2>7. CASE ~(lcall[c].op = "accept" /\ lcall[c].id = p)
    <3>1. ASSUME NEW m \in Mates, member'[p][m] = "accepted" PROVE member[p][m] = "accepted"
      <4>1. ASSUME NEW s \in Statuses, member' = [member EXCEPT ![lcall[c].id][r] = s],
                   s = "accepted" => lcall[c].op = "accept"
            PROVE  member[p][m] = "accepted"
        <5>1. member'[p][m] = IF p = lcall[c].id /\ m = r THEN s ELSE member[p][m]
          BY <2>5, <4>1
        <5>2. s = "accepted" => p # lcall[c].id
          BY <2>7, <4>1
        <5>. QED BY <3>1, <5>1, <5>2
      <4>. QED BY <2>4, <3>1, <4>1
    <3>2. Accepted(p)' \subseteq Accepted(p)
      BY <3>1 DEF Accepted
    <3>. QED BY <1>6, <1>11, <3>2
  <2>. QED BY <2>6, <2>7
<1>12. \/ UNCHANGED member
       \/ \E c \in LfgCalls : RequestJoin(c)
       \/ \E q \in Posts : PurgeEnded(q)
       \/ \E c \in LfgCalls : SetMemberStatus(c) /\ UNCHANGED peak
  BY Frames
     DEF CallsOnly, Checked, PostMoves, Purged, Asked, Answered, CrewGrows, CrewErased,
         CrewAges, RoomMoves, ReportMoves, HostMoves, CommendMoves, BarMoves
<1>13. Accepting(p)' \subseteq Accepting(p) \/ (HasRoom(p) /\ \E d \in LfgCalls : Check(d))
  BY <1>0, CameToAccept
<1>. HIDE DEF Goal
<1>14. Goal
  BY <1>6, <1>7, <1>8, <1>9, <1>10, <1>11, <1>12, <1>13
<1>. QED BY <1>14 DEF Goal

\* A post leaves the open ones, or one create inserts it.
LEMMA OpenKept ==
  ASSUME Counting, LfgInv, BoardBounds, LfgNext
  PROVE  OpenInv'
<1>0. LfgTypes /\ PeakTypes /\ PeakTypes' /\ CallTypes /\ CallsFare /\ post \in [Posts -> PostStates]
  BY EveryStepFares, PeaksKept DEF LfgInv, LfgTypes
<1>1. /\ IsFiniteSet(OpenPosts) /\ Cardinality(OpenPosts) \in Nat
      /\ IsFiniteSet(Creating) /\ Cardinality(Creating) \in Nat
      /\ Cardinality(OpenPosts') \in Nat /\ Cardinality(Creating') \in Nat
  BY CountsAreFinite
<1>2. peak.posts \in Nat /\ peak'.posts \in Nat
  BY <1>0 DEF PeakTypes
<1>3. peak.posts <= peak'.posts
  <2>1. peak'.posts >= peak.posts
    BY <1>0, PeaksKept
  <2>. QED BY <1>2, <2>1, SMT
<1>4. Cardinality(OpenPosts) + Cardinality(Creating) <= Larger(1, peak.posts)
  BY DEF LfgInv, OpenInv
<1>5. ASSUME Cardinality(OpenPosts') + Cardinality(Creating')
               <= Cardinality(OpenPosts) + Cardinality(Creating)
      PROVE  OpenInv'
  BY <1>1, <1>2, <1>3, <1>4, <1>5, SMT DEF OpenInv, Larger
<1>6. ASSUME NEW d \in LfgCalls, Check(d), OpenPosts = {} PROVE OpenInv'
  <2>1. OpenPosts' = {}
    BY <1>6 DEF Check, board, OpenPosts
  <2>2. Cardinality(OpenPosts') = 0
    BY <2>1 DEF Counting
  <2>3. peak'.posts >= Cardinality(Creating')
    BY <1>0, <1>6, PeaksRise
  <2>. QED BY <1>1, <1>2, <2>2, <2>3, SMT DEF OpenInv, Larger
<1>7. ASSUME \A p \in Posts : post'[p] = "open" => post[p] = "open",
             Creating' \subseteq Creating
      PROVE  OpenInv'
  <2>1. OpenPosts' \subseteq OpenPosts
    BY <1>7 DEF OpenPosts
  <2>2. Cardinality(OpenPosts') <= Cardinality(OpenPosts)
    BY <1>1, <2>1, FewerOf
  <2>3. Cardinality(Creating') <= Cardinality(Creating)
    BY <1>1, <1>7, FewerOf
  <2>4. Cardinality(OpenPosts') + Cardinality(Creating')
          <= Cardinality(OpenPosts) + Cardinality(Creating)
    BY <1>1, <2>2, <2>3, SMT
  <2>. QED BY <1>5, <2>4
<1>8. ASSUME NEW c \in LfgCalls, InsertPost(c), Creating' \subseteq Creating,
             post' = [post EXCEPT ![lcall[c].id] = "open"]
      PROVE  OpenInv'
  <2>1. lcall'[c] = NoLfgCall /\ lcall[c].id \in Posts
    BY <1>0, <1>8, InsertEnds
  <2>2. c \in Creating /\ c \notin Creating'
    <3>1. ~At(lcall'[c], "count_posts") /\ ~At(lcall'[c], "insert_post")
      BY <2>1, IdleOk DEF At
    <3>2. At(lcall[c], "insert_post")
      BY <1>8 DEF InsertPost, Doing, At
    <3>. QED BY <3>1, <3>2, CreatingIs
  <2>3. OpenPosts' \subseteq OpenPosts \cup {lcall[c].id} /\ Creating' \subseteq Creating \ {c}
    BY <1>0, <1>8, <2>1, <2>2 DEF OpenPosts
  <2>4. Cardinality(OpenPosts') + Cardinality(Creating')
          <= Cardinality(OpenPosts) + Cardinality(Creating)
    BY <1>1, <2>2, <2>3, MovesOver
  <2>. QED BY <1>5, <2>4
<1>9. Creating' \subseteq Creating \/ (OpenPosts = {} /\ \E d \in LfgCalls : Check(d))
  BY <1>0, CameToCreate
<1>10. \/ \A p \in Posts : post'[p] = "open" => post[p] = "open"
       \/ \E c \in LfgCalls : InsertPost(c) /\ post' = [post EXCEPT ![lcall[c].id] = "open"]
  BY PostLife
<1>. QED BY <1>6, <1>7, <1>8, <1>9, <1>10

-----------------------------------------------------------------------------
(* The board.                                                              *)

LEMMA BoardBegins ==
  ASSUME Counting, BoardBounds, LfgInit
  PROVE  LfgInv
<1>1. PICK p \in Posts :
        /\ post = [q \in Posts |-> IF q = p THEN "open" ELSE "none"]
        /\ member = [q \in Posts |-> [m \in Mates |-> IF q = p THEN "requested" ELSE "none"]]
        /\ report = [q \in Posts |-> [m \in Mates |-> "none"]]
  BY DEF LfgInit
<1>2. /\ suspended = FALSE /\ barred = {} /\ crew = {} /\ commend = {} /\ inRoom = {}
      /\ lcall = [c \in LfgCalls |-> NoLfgCall] /\ begun = 0 /\ lfgFaults = 0
      /\ ousted = {} /\ tangled = {} /\ adrift = {}
      /\ peak = [posts |-> 0, crew |-> [q \in Posts |-> 0]]
  BY DEF LfgInit
<1>3. LfgTypes /\ PeakTypes
  <2>1. PeakTypes
    <3>1. [q \in Posts |-> 0] \in [Posts -> Nat]
      BY SMT
    <3>. QED BY <1>2, <3>1, SMT DEF PeakTypes
  <2>2. /\ post \in [Posts -> PostStates] /\ member \in [Posts -> [Mates -> Statuses]]
        /\ report \in [Posts -> [Mates -> {"none", "open"} \cup Outcomes]]
    BY <1>1 DEF PostStates, Statuses
  <2>. QED BY <1>2, <2>1, <2>2 DEF LfgTypes
<1>4. \A c \in LfgCalls : lcall[c] = NoLfgCall /\ lcall[c].op = "none"
  BY <1>2, IdleOk
<1>5. CallTypes
  <2>1. lcall \in [LfgCalls -> {NoLfgCall} \cup LfgCallRec]
    BY <1>2
  <2>2. begun \in Nat /\ begun <= MaxLfgCalls /\ lfgFaults \in Nat /\ lfgFaults <= MaxLfgFaults
    BY <1>2, SMT DEF BoardBounds
  <2>. QED BY <1>4, <2>1, <2>2, IdleOk DEF CallTypes, CallOk
<1>6. FreshInv /\ RowInv /\ GiveInv
  BY <1>2, <1>4 DEF FreshInv, RowInv, RemovedStaysOut, GiveInv, CommendsFollowCrew, At
<1>7. \A q \in Posts, m \in Mates : report[q][m] = "none"
  BY <1>1
<1>8. ModInv /\ ReportInv
  BY <1>4, <1>7 DEF ModInv, ReportInv, RecordedIsEnforced, ReportedPostIsKept, At
<1>9. SlotsInv
  <2>1. ASSUME NEW q \in Posts PROVE Accepted(q) = {} /\ Accepting(q) = {}
    <3>1. \A m \in Mates : member[q][m] # "accepted"
      BY <1>1
    <3>. QED BY <1>4, <3>1 DEF Accepted, Accepting, Busy
  <2>. QED BY <2>1 DEF SlotsInv
<1>10. OpenInv
  <2>1. Creating = {} /\ OpenPosts = {p}
    BY <1>1, <1>4 DEF Creating, Doing, OpenPosts
  <2>2. Cardinality(Creating) = 0 /\ Cardinality(OpenPosts) = 1
    BY <2>1 DEF Counting
  <2>3. peak.posts = 0
    BY <1>2
  <2>. QED BY <2>2, <2>3, SMT DEF OpenInv, Larger
<1>. QED BY <1>3, <1>5, <1>6, <1>8, <1>9, <1>10 DEF LfgInv

LEMMA BoardStands ==
  ASSUME Counting, BoardBounds, LfgInv, [LfgNext]_lfgVars
  PROVE  LfgInv'
<1>1. CASE LfgNext
  <2>1. LfgTypes' /\ PeakTypes' /\ CallTypes'
    BY <1>1, TypesKept, PeaksKept, EveryStepFares DEF LfgInv, CallsFare
  <2>. QED BY <1>1, <2>1, FreshKept, RowKept, GiveKept, ModKept, ReportKept, SlotsKept, OpenKept
           DEF LfgInv
<1>2. CASE UNCHANGED lfgVars
  <2>1. UNCHANGED <<post, member, report, suspended, barred, crew, commend, inRoom,
                    lcall, begun, lfgFaults, ousted, tangled, adrift, peak>>
    BY <1>2 DEF lfgVars
  <2>2. LfgTypes' /\ PeakTypes' /\ CallTypes' /\ FreshInv'
    BY <2>1 DEF LfgInv, LfgTypes, PeakTypes, CallTypes, FreshInv
  <2>3. RowInv' /\ GiveInv'
    BY <2>1 DEF LfgInv, RowInv, RemovedStaysOut, GiveInv, CommendsFollowCrew
  <2>4. ModInv' /\ ReportInv'
    BY <2>1 DEF LfgInv, ModInv, RecordedIsEnforced, ReportInv, ReportedPostIsKept
  <2>5. SlotsInv' /\ OpenInv'
    BY <2>1 DEF LfgInv, SlotsInv, OpenInv, Accepted, Accepting, Busy, Doing, OpenPosts, Creating
  <2>. QED BY <2>2, <2>3, <2>4, <2>5 DEF LfgInv
<1>. QED BY <1>1, <1>2

LEMMA BoardPromises ==
  ASSUME Counting, BoardBounds, LfgInv
  PROVE  BoardSound
<1>1. LfgTypeOK
  <2>1. ASSUME NEW e \in crew \cup adrift PROVE e[1] \in Posts /\ e[2] \subseteq Crew
    BY <2>1 DEF LfgInv, LfgTypes
  <2>2. ASSUME NEW c \in LfgCalls, lcall[c] # NoLfgCall
        PROVE  /\ lcall[c].op \in LfgOps /\ lcall[c].id \in Posts /\ lcall[c].todo # <<>>
               /\ lcall[c].was \in Statuses /\ lcall[c].others \subseteq Crew
    <3>1. lcall[c] \in LfgCallRec /\ InOrder(lcall[c])
      BY <2>2 DEF LfgInv, CallTypes
    <3>2. lcall[c].todo # <<>>
      BY <3>1, OneStepOn, CallFields DEF InOrder
    <3>. QED BY <3>1, <3>2, CallFields
  <2>3. begun \in 0 .. MaxLfgCalls /\ lfgFaults \in 0 .. MaxLfgFaults
    BY SMT DEF LfgInv, CallTypes, BoardBounds
  <2>. QED BY <2>1, <2>2, <2>3 DEF LfgTypeOK, LfgInv, LfgTypes
<1>2. CrewWithinSlots
  <2>. SUFFICES ASSUME NEW p \in Posts
                PROVE  crew_count(p) = 0 \/ crew_count(p) < Slots + peak.crew[p]
    BY DEF CrewWithinSlots
  <2>1. \/ Accepted(p) = {}
        \/ Cardinality(Accepted(p)) + Cardinality(Accepting(p)) < Slots + peak.crew[p]
    BY DEF LfgInv, SlotsInv
  <2>2. CASE Accepted(p) = {}
    BY <2>2 DEF crew_count, Counting
  <2>3. CASE Cardinality(Accepted(p)) + Cardinality(Accepting(p)) < Slots + peak.crew[p]
    <3>1. Cardinality(Accepted(p)) \in Nat /\ Cardinality(Accepting(p)) \in Nat
      BY CountsAreFinite
    <3>2. peak.crew[p] \in Nat /\ Slots \in Nat
      BY DEF LfgInv, PeakTypes, BoardBounds
    <3>. QED BY <2>3, <3>1, <3>2, SMT DEF crew_count
  <2>. QED BY <2>1, <2>2, <2>3
<1>3. OneOpenPost
  <2>1. Cardinality(OpenPosts) \in Nat /\ Cardinality(Creating) \in Nat
    BY CountsAreFinite
  <2>2. peak.posts \in Nat /\ Cardinality(OpenPosts) + Cardinality(Creating) <= Larger(1, peak.posts)
    BY DEF LfgInv, PeakTypes, OpenInv
  <2>. QED BY <2>1, <2>2, SMT DEF OneOpenPost, Larger
<1>. QED BY <1>1, <1>2, <1>3 DEF BoardSound, LfgInv, RowInv, GiveInv, ModInv, ReportInv

INSTANCE FiniteSetTheorems

LEMMA CountingHolds == Counting
<1>1. ASSUME NEW S, NEW U, IsFiniteSet(S), U \subseteq S
      PROVE  /\ IsFiniteSet(U) /\ Cardinality(U) \in Nat /\ Cardinality(S) \in Nat
             /\ Cardinality(U) <= Cardinality(S)
  BY <1>1, FS_Subset, FS_CardinalityType
<1>2. ASSUME NEW S, NEW a, IsFiniteSet(S)
      PROVE  /\ IsFiniteSet(S \cup {a}) /\ Cardinality(S) \in Nat
             /\ Cardinality(S \cup {a}) = Cardinality(S) \/ Cardinality(S \cup {a}) = Cardinality(S) + 1
  BY <1>2, FS_AddElement, FS_CardinalityType, SMT
<1>3. ASSUME NEW S, NEW a \in S, IsFiniteSet(S)
      PROVE  IsFiniteSet(S \ {a}) /\ Cardinality(S \ {a}) = Cardinality(S) - 1
  BY <1>3, FS_RemoveElement, SMT
<1>4. Cardinality({}) = 0 /\ \A a : Cardinality({a}) = 1
  BY FS_EmptySet, FS_Singleton
<1>. QED BY <1>1, <1>2, <1>3, <1>4 DEF Counting

\* The board keeps its promises however its handlers interleave, whichever store
\* calls fail and however long it runs: a crew passes its slots only by accepts
\* that were in flight together, a host's open posts only by creates in flight
\* together, a removed player stays out, commends follow the crew history, a
\* report is recorded after it is enforced and keeps its post.
THEOREM BoardIsSound ==
  ASSUME BoardBounds
  PROVE  LfgSpec => []BoardSound
<1>1. LfgInit => LfgInv
  BY CountingHolds, BoardBegins
<1>2. LfgInv /\ [LfgNext]_lfgVars => LfgInv'
  BY CountingHolds, BoardStands
<1>3. LfgInv => BoardSound
  BY CountingHolds, BoardPromises
<1>. QED BY <1>1, <1>2, <1>3, PTL DEF LfgSpec
=============================================================================
