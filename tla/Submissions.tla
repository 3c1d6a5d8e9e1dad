----------------------------- MODULE Submissions -----------------------------
(***************************************************************************)
(* A line shape the parser does not know, on its way to a parser rule:     *)
(* the rows of parser_submissions that trays send for it, one per install  *)
(* (parser_submissions.rs); the moderators who draft a rule for it and     *)
(* publish it (admin_parser_submissions.rs); and the community submission  *)
(* it is promoted into, which users flag and moderators accept or reject   *)
(* (submissions.rs, submission_routes.rs, admin_submission_routes.rs).     *)
(*                                                                         *)
(* A moderator's PATCH and publish are sequences of awaited steps; a flag  *)
(* is a transaction that holds the submission's row lock.  Votes, notes,   *)
(* counters and payloads are left out.                                     *)
(***************************************************************************)
EXTENDS Integers, Sequences, FiniteSets

CONSTANTS Installs, Users, Desks,
          COMMUNITY,      \* COMMUNITY_USER_ID
          AUTO_FLAG_THRESHOLD,
          MaxDeskEvents   \* lines sent, calls placed, and failures

VARIABLES shape,    \* parser_submissions: the row of each install
          copies,   \* submissions with this source_shape_hash
          post,     \* that submission: status and author
          flags,    \* submission_flags
          flagTx,   \* users' flag transactions
          desk,     \* moderators' calls
          deskEvents,
          raced,    \* history: rows two patches wrote on one reading
          missed,   \* history: rows whose rule was written out of step with the link
          cleared   \* history: the flags a moderator last dismissed

shapeRow == <<shape>>
community == <<copies, post, flags>>
deskGhosts == <<raced, missed, cleared>>
submissionVars == <<shape, copies, post, flags, flagTx, desk, deskEvents, deskGhosts>>

Nobody == "nobody"
\* "open" stands for pending, drafting and dismissed, which nothing tells apart.
RowStatus == {"open", "rule_written"}
PostStatus == {"review", "accepted", "shipped", "rejected", "withdrawn", "flagged"}
NoRow == [st |-> "none", rule |-> FALSE, link |-> FALSE, who |-> Nobody]
NoDesk == [op |-> "none", row |-> "none", arg |-> "none", todo |-> <<>>, who |-> Nobody,
           stale |-> FALSE]
Patches == [st : RowStatus \cup {"keep"}, rule : {"keep", "set", "clear"}]
             \ {[st |-> "keep", rule |-> "keep"]}
Spend == deskEvents < MaxDeskEvents /\ deskEvents' = deskEvents + 1

-----------------------------------------------------------------------------
(* Trays.                                                                  *)

coalesce(old, new) == IF old = Nobody THEN new ELSE old

\* submit: who is Nobody for an anonymous submission.
upsert(i, who) ==
    /\ Spend
    /\ shape' = [shape EXCEPT ![i] =
          IF shape[i] = NoRow
          THEN [st |-> "open", rule |-> FALSE, link |-> FALSE, who |-> who]
          ELSE [shape[i] EXCEPT !.who = coalesce(@, who)]]
    /\ UNCHANGED <<community, flagTx, desk, deskGhosts>>

-----------------------------------------------------------------------------
(* Moderators, on the shape.                                               *)

NeedsCheck(p) == p.st = "rule_written" \/ p.rule # "keep"
patch_submission(p) == IF NeedsCheck(p) THEN <<"precheck", "update">> ELSE <<"update">>
publish_to_community == <<"load", "promote", "link">>

DeskRequests ==
    {[op |-> "patch", row |-> d[1], arg |-> d[2], todo |-> patch_submission(d[2])]
        : d \in Installs \X Patches}
    \cup [op : {"publish"}, row : Installs, arg : {"credit", "force_anonymous"},
          todo : {publish_to_community}]

AtDesk(m, s) == desk[m].op # "none" /\ Head(desk[m].todo) = s
DeskDo(m, steps) ==
    desk' = [desk EXCEPT ![m] = IF steps = <<>> THEN NoDesk ELSE [desk[m] EXCEPT !.todo = steps]]
DeskOn(m) == DeskDo(m, Tail(desk[m].todo))

BeginDesk(m, q) ==
    /\ desk[m].op = "none" /\ Spend
    /\ shape[q.row] # NoRow
    /\ desk' = [desk EXCEPT ![m] = [op |-> q.op, row |-> q.row, arg |-> q.arg, todo |-> q.todo,
                                    who |-> Nobody, stale |-> FALSE]]
    /\ UNCHANGED <<shapeRow, community, flagTx, deskGhosts>>

Applied(r, p) == [r EXCEPT !.st = IF p.st = "keep" THEN @ ELSE p.st,
                           !.rule = IF p.rule = "keep" THEN @ ELSE p.rule = "set"]
RuleMissing(r) == r.st = "rule_written" /\ ~r.rule
PatchRefused(r, p) == RuleMissing(Applied(r, p))

Precheck(m) ==
    /\ AtDesk(m, "precheck")
    /\ IF PatchRefused(shape[desk[m].row], desk[m].arg) THEN DeskDo(m, <<>>) ELSE DeskOn(m)
    /\ UNCHANGED <<shapeRow, community, flagTx, deskEvents, deskGhosts>>

Ships(r, p) == p.st = "rule_written" /\ r.link
Update(m) ==
    LET i == desk[m].row
        p == desk[m].arg
        r == Applied(shape[i], p)
        next == IF Ships(r, p) THEN <<"ship">> ELSE <<>>
        others == {d \in Desks \ {m} : desk[d].row = i /\ AtDesk(d, "update")}
    IN  /\ AtDesk(m, "update") /\ shape' = [shape EXCEPT ![i] = r]
        /\ desk' = [d \in Desks |->
              IF d = m THEN IF next = <<>> THEN NoDesk ELSE [desk[m] EXCEPT !.todo = next]
              ELSE [desk[d] EXCEPT !.stale = @ \/ d \in others]]
        /\ raced' = IF desk[m].stale /\ RuleMissing(r) THEN raced \cup {i}
                    ELSE IF RuleMissing(r) THEN raced ELSE raced \ {i}
        /\ missed' = IF p.st = "rule_written" /\ r.link THEN missed \ {i} ELSE missed
        /\ UNCHANGED <<community, flagTx, deskEvents, cleared>>

\* No statement passes the lock a flag holds on the submission.
Unlocked == \A u \in Users : flagTx[u].at = "none"
mark_shipped_by_source(m) ==
    /\ AtDesk(m, "ship") /\ Unlocked
    /\ post' = IF copies = 0 THEN post ELSE [post EXCEPT !.status = "shipped"]
    /\ DeskOn(m)
    /\ UNCHANGED <<shapeRow, copies, flags, flagTx, deskEvents, deskGhosts>>

\* publish_to_community: the row is loaded and the author chosen,
Load(m) ==
    LET r == shape[desk[m].row]
    IN  /\ AtDesk(m, "load")
        /\ desk' = [desk EXCEPT ![m] =
              IF r.link THEN NoDesk
              ELSE [desk[m] EXCEPT !.todo = Tail(@),
                                   !.who = IF r.who # Nobody /\ desk[m].arg = "credit" THEN r.who
                                           ELSE COMMUNITY]]
        /\ UNCHANGED <<shapeRow, community, flagTx, deskEvents, deskGhosts>>
\* the submission inserted unless the shape has one,
\* Mutant: the insert names no conflict target.
InsertAlways == TRUE
NoConflict == copies = 0
create_promoted(m) ==
    /\ AtDesk(m, "promote") /\ DeskOn(m)
    /\ IF NoConflict
       THEN /\ copies' = copies + 1
            /\ post' = [status |-> "review", author |-> desk[m].who]
       ELSE UNCHANGED <<copies, post>>
    /\ UNCHANGED <<shapeRow, flags, flagTx, deskEvents, deskGhosts>>
\* and the row linked to it.
link_community(m) ==
    LET i == desk[m].row
    IN  /\ AtDesk(m, "link") /\ DeskOn(m)
        /\ shape' = [shape EXCEPT ![i].link = TRUE]
        /\ missed' = IF shape[i].st = "rule_written" /\ ~shape[i].link THEN missed \cup {i} ELSE missed
        /\ UNCHANGED <<community, flagTx, deskEvents, raced, cleared>>

\* A statement fails: a ship that does is logged, any other ends the call.
DeskFails(m) ==
    /\ desk[m].op # "none" /\ Spend
    /\ DeskDo(m, <<>>)
    /\ missed' = IF AtDesk(m, "ship") THEN missed \cup {desk[m].row} ELSE missed
    /\ UNCHANGED <<shapeRow, community, flagTx, raced, cleared>>

-----------------------------------------------------------------------------
(* The community submission.                                               *)

NoFlagTx == [at |-> "none", prior |-> "none", escalates |-> FALSE]
ForUpdate == Unlocked
\* flag: SELECT status ... FOR UPDATE,
FlagBegins(u) ==
    /\ flagTx[u].at = "none" /\ copies > 0 /\ ForUpdate
    /\ flagTx' = [flagTx EXCEPT ![u] = [at |-> "insert", prior |-> post.status, escalates |-> FALSE]]
    /\ UNCHANGED <<shapeRow, community, desk, deskEvents, deskGhosts>>
\* the flag inserted, and counted with the committed ones,
FlagCounts(u) ==
    /\ flagTx[u].at = "insert"
    /\ flagTx' = [flagTx EXCEPT ![u] = [at |-> "commit", prior |-> flagTx[u].prior, escalates |->
          /\ u \notin flags /\ flagTx[u].prior = "review"
          /\ Cardinality(flags \cup {u}) >= AUTO_FLAG_THRESHOLD]]
    /\ UNCHANGED <<shapeRow, community, desk, deskEvents, deskGhosts>>
\* and the transaction commits.
FlagCommits(u) ==
    /\ flagTx[u].at = "commit"
    /\ flags' = flags \cup {u} /\ flagTx' = [flagTx EXCEPT ![u] = NoFlagTx]
    /\ post' = IF flagTx[u].escalates THEN [post EXCEPT !.status = "flagged"] ELSE post
    /\ UNCHANGED <<shapeRow, copies, desk, deskEvents, deskGhosts>>

withdraw(u) ==
    /\ copies > 0 /\ Unlocked /\ post.author = u /\ post.status = "review"
    /\ post' = [post EXCEPT !.status = "withdrawn"]
    /\ UNCHANGED <<shapeRow, copies, flags, flagTx, desk, deskEvents, deskGhosts>>

\* Mutant: a withdrawn submission can be accepted after all.
LegalPriorsLoose(target) ==
    CASE target = "accepted" -> {"review", "flagged", "withdrawn"}
      [] target = "rejected" -> {"review", "flagged"}
      [] target = "review" -> {"flagged"}
LegalPriors(target) ==
    CASE target = "accepted" -> {"review", "flagged"}
      [] target = "rejected" -> {"review", "flagged"}
      [] target = "review" -> {"flagged"}
\* accept_submission, reject_submission and dismiss_flag; one transaction.
admin_transition(target) ==
    /\ copies > 0 /\ Unlocked /\ post.status \in LegalPriors(target)
    /\ post' = [post EXCEPT !.status = target]
    /\ cleared' = IF target = "review" THEN flags ELSE cleared
    /\ UNCHANGED <<shapeRow, copies, flags, flagTx, desk, deskEvents, raced, missed>>

-----------------------------------------------------------------------------
SubmissionInit ==
    /\ shape = [i \in Installs |-> NoRow]
    /\ copies = 0 /\ post = [status |-> "review", author |-> Nobody] /\ flags = {}
    /\ flagTx = [u \in Users |-> NoFlagTx] /\ desk = [m \in Desks |-> NoDesk]
    /\ deskEvents = 0
    /\ raced = {} /\ missed = {} /\ cleared = {}

SubmissionNext ==
    \/ \E i \in Installs, who \in Users \cup {Nobody} : upsert(i, who)
    \/ \E m \in Desks :
        \/ \E q \in DeskRequests : BeginDesk(m, q)
        \/ Precheck(m) \/ Update(m) \/ mark_shipped_by_source(m)
        \/ Load(m) \/ create_promoted(m) \/ link_community(m) \/ DeskFails(m)
    \/ \E u \in Users : FlagBegins(u) \/ FlagCounts(u) \/ FlagCommits(u) \/ withdraw(u)
    \/ \E target \in {"accepted", "rejected", "review"} : admin_transition(target)

SubmissionSpec == SubmissionInit /\ [][SubmissionNext]_submissionVars

-----------------------------------------------------------------------------
(* Properties.                                                             *)

\* Type invariant.
SubmissionTypeOK ==
    /\ shape \in [Installs -> {NoRow} \cup [st : RowStatus, rule : BOOLEAN, link : BOOLEAN,
                                            who : Users \cup {Nobody}]]
    /\ copies \in Nat /\ flags \subseteq Users
    /\ post \in [status : PostStatus, author : Users \cup {COMMUNITY, Nobody}]
    /\ flagTx \in [Users -> [at : {"none", "insert", "commit"},
                             prior : PostStatus \cup {"none"}, escalates : BOOLEAN]]
    /\ \A m \in Desks : desk[m] = NoDesk \/ desk[m].todo # <<>>
    /\ raced \subseteq Installs /\ missed \subseteq Installs /\ cleared \subseteq Users
    /\ deskEvents \in 0 .. MaxDeskEvents

\* However many moderators publish however many rows of it, a shape becomes one
\* submission, and whoever is credited for it sent it under their name.
PublishedOnce ==
    /\ copies <= 1
    /\ copies = 1 /\ post.author # COMMUNITY => \E i \in Installs : shape[i].who = post.author

\* A row marked rule_written names its rule, unless two patches that had both
\* checked the row wrote it one after the other.
RuleIsNamed == \A i \in Installs \ raced : ~RuleMissing(shape[i])

\* A published shape whose rule is written has shipped, whatever flags, verdicts
\* or withdrawals came in between; except where the rule was written before the
\* link, or the statement that ships it failed.
RuleShips ==
    \A i \in Installs \ missed :
        shape[i].link /\ shape[i].st = "rule_written"
        /\ (\A m \in Desks : desk[m].row = i => ~AtDesk(m, "ship"))
        => post.status = "shipped"

\* As many flags as the threshold take a submission out of review, though they
\* are set at the same time; it is back there only if a moderator dismissed
\* these very flags.
FlagsEscalate ==
    post.status = "review" /\ Cardinality(flags) >= AUTO_FLAG_THRESHOLD => flags \subseteq cleared

\* A verdict or a withdrawal stands: only the rule itself supersedes it.
VerdictStep ==
    post.status \in {"accepted", "rejected", "withdrawn", "shipped"}
        => post'.status \in {post.status, "shipped"}
VerdictStands == [][VerdictStep]_post

\* A name once attached to a shape stays attached, whoever sends it again.
AttributionStep ==
    \A i \in Installs : shape[i].who # Nobody => shape'[i].who = shape[i].who
AttributionKept == [][AttributionStep]_shape

\* What the desks and the users keep between them: one community row for a
\* shape, a rule that is named and ships, and flags that reach the moderators.
SubmissionsSound ==
    /\ SubmissionTypeOK /\ PublishedOnce /\ RuleIsNamed /\ RuleShips /\ FlagsEscalate

\* No step takes back a verdict, nor the attribution of a shape.
VerdictsKept == VerdictStands /\ AttributionKept
=============================================================================
