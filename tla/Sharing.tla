------------------------------- MODULE Sharing -------------------------------
(***************************************************************************)
(* What one owner shares (sharing_routes.rs, share_metadata.rs,            *)
(* share_scopes.rs): shares with single players, held as a SpiceDB tuple   *)
(* and a share_metadata row with an expiry and a scope; shares with        *)
(* friends or an org; the public profile and its clamp; the friend reads,  *)
(* which revoke an expired share as they meet it; reports, the pause they  *)
(* bring (share_reports.rs) and a moderator's resolution                   *)
(* (admin_sharing_routes.rs).                                              *)
(*                                                                         *)
(* A handler is the sequence of its awaited steps; calls interleave at     *)
(* every await.  Audit rows, notes and the listing opt-out (a column       *)
(* nothing here reads) are left out, and so is the lag of SpiceDB's        *)
(* minimize-latency checks.  Times are ticks; a share that never expires   *)
(* expires after the last one.  All ticks lie within the window reports    *)
(* are counted in.                                                         *)
(***************************************************************************)
EXTENDS Integers, Sequences, FiniteSets

CONSTANTS Viewers, ShareCalls,
          Scopes,            \* scope kinds a grant may carry, "full" among them
          MaxShareEvents,    \* calls placed, blocks set or lifted, and failures
          MaxNow,
          FailingSteps,      \* steps whose store or service may fail
          MaxShareFaults,
          CLUSTER_REPORT_THRESHOLD

VARIABLES grant,      \* SpiceDB: stats_record:<owner>#share_with_user
          wide,       \* SpiceDB: share_with_friends, share_with_org
          public,     \* SpiceDB: public_view
          terms,      \* share_metadata of each viewer
          pubScope,   \* share_scopes: the public clamp
          hidden,     \* user_blocks: viewers the owner blocks
          restricted, \* account_restrictions of the owner
          pausedTo,   \* users.shares_paused_until
          report,     \* share_reports: each viewer's report of the owner
          now, scall, placed, shareFaults,
          said,       \* history: the terms of the last grant, or that it was revoked
          mixed, late, breach   \* history: see the properties

shareVars == <<grant, wide, public, terms, pubScope, hidden, restricted, pausedTo,
               report, now, scall, placed, shareFaults, said, mixed, late, breach>>

spice == <<grant, wide, public>>
rows == <<terms, pubScope, report>>
owner == <<hidden, restricted, pausedTo>>
bounds == <<now, placed, shareFaults>>
ghosts == <<said, mixed, late, breach>>

NoTerms == [exp |-> 0, scope |-> "none"]
Never == MaxNow + 1
Terms == [exp : 1 .. Never, scope : Scopes]
Surfaces == {"timeline", "aggregates"}
Allows(scope, surface) == scope \in {"full", "none", surface}
Groups == {"friends", "org"}
Outcomes == {"dismissed", "share_revoked", "user_suspended"}
VisRequests == [pub : BOOLEAN, scope : {"none", "chosen"}]

-----------------------------------------------------------------------------
(* Handlers.                                                               *)

add_share == <<"gate", "paused", "write_share", "upsert">>
\* Mutant: the metadata goes before the tuple.
delete_terms_first == <<"delete_terms", "delete_share">>
delete_share == <<"delete_share", "delete_terms">>
share_with_friends == <<"gate", "paused", "write_group">>
share_with_org == <<"gate", "write_group">>
unshare == <<"delete_group">>
set_visibility(r) ==
    <<"gate", "write_public">>
        \o (IF r.scope = "chosen" THEN <<"put_public">>
            ELSE IF r.pub THEN <<"get_public">> ELSE <<>>)
friend_read == <<"blocked", "check_view", "find", "scope">>
lazy_revoke == <<"lazy_share", "lazy_terms", "recheck">>
report_share == <<"create_report", "cluster">>
revoke_owner_shares == <<"list_shares", "revoke_each", "drop_public">>
resolve_report(outcome) ==
    CASE outcome = "dismissed" -> <<"resolve">>
      [] outcome = "share_revoked" -> <<"resolve", "revoke_each">>
      [] outcome = "user_suspended" -> <<"resolve", "restrict">> \o revoke_owner_shares

\* v: the viewer concerned; arg: terms, group, surface, outcome or request;
\* left: shares still to revoke; just: whether the owner's word allowed the read
\* as it began; stirred: whether that word was changing meanwhile.
NoShareCall == [op |-> "none", v |-> "none", arg |-> "none", todo |-> <<>>,
                left |-> {}, just |-> TRUE, stirred |-> FALSE]

Requests ==
    [op : {"add"}, v : Viewers, arg : Terms, todo : {add_share}]
    \cup [op : {"delete"}, v : Viewers, arg : {"none"}, todo : {delete_share}]
    \cup [op : {"wide"}, v : {"none"}, arg : {"friends"}, todo : {share_with_friends}]
    \cup [op : {"wide"}, v : {"none"}, arg : {"org"}, todo : {share_with_org}]
    \cup [op : {"unwide"}, v : {"none"}, arg : Groups, todo : {unshare}]
    \cup [op : {"read"}, v : Viewers, arg : Surfaces, todo : {friend_read}]
    \cup [op : {"report"}, v : Viewers, arg : {"none"}, todo : {report_share}]
    \cup {[op |-> "vis", v |-> "none", arg |-> r, todo |-> set_visibility(r)] : r \in VisRequests}
    \cup {[op |-> "resolve", v |-> d[1], arg |-> d[2], todo |-> resolve_report(d[2])]
             : d \in Viewers \X Outcomes}

Open(c) == scall[c].op # "none"
AtStep(c, s) == Open(c) /\ Head(scall[c].todo) = s
InFlight(ops) == {c \in ShareCalls : scall[c].op \in ops}
About(ops, v) == {c \in InFlight(ops) : scall[c].v = v}
ToDo(c, steps) ==
    scall' = [scall EXCEPT ![c] = IF steps = <<>> THEN NoShareCall ELSE [@ EXCEPT !.todo = steps]]
NextStep(c) == ToDo(c, Tail(scall[c].todo))
Return(c) == ToDo(c, <<>>)

Unexpired(t) == t # NoTerms /\ t.exp > now
\* SpiceDB's permission view: any relation grants it.
View(v) == v \in grant \/ wide # {} \/ public
\* What the owner last said, as the viewer may hold them to it.
Allowed(v, surface) ==
    /\ v \notin hidden
    /\ \/ wide # {} \/ public
       \/ Unexpired(said[v]) /\ Allows(said[v].scope, surface)

\* Calls that take the viewer's share away: the owner's, a moderator's, or a
\* read that has met its expiry.
Removing(v) ==
    About({"delete"}, v)
    \cup {c \in InFlight({"resolve"}) :
            \/ scall[c].arg = "user_suspended"
            \/ scall[c].arg = "share_revoked" /\ scall[c].v = v}
    \cup {c \in About({"read"}, v) : \E s \in {"lazy_share", "lazy_terms"} : AtStep(c, s)}
\* History: a grant and a removal of the viewer's share overlap.
Mix(v) == IF Removing(v) # {} /\ About({"add"}, v) # {} THEN mixed \cup {v} ELSE mixed

Granting == {"add", "wide", "vis"}
BeginShare(c, q) ==
    /\ ~Open(c) /\ placed + shareFaults < MaxShareEvents /\ placed' = placed + 1
    /\ q.op = "add" => q.arg.exp > now
    /\ q.op = "report" => report[q.v] = "none" /\ About({"report"}, q.v) = {}
    /\ q.op = "resolve" => report[q.v] # "none"
    /\ scall' = [d \in ShareCalls |->
          IF d = c
          THEN [op |-> q.op, v |-> q.v, arg |-> q.arg, todo |-> q.todo, left |-> {q.v},
                just |-> (q.op = "read" => Allowed(q.v, q.arg)),
                stirred |-> (q.op = "read" /\ InFlight(Granting) # {})]
          ELSE [scall[d] EXCEPT !.stirred = @ \/ (scall[d].op = "read" /\ q.op \in Granting)]]
    /\ UNCHANGED <<spice, rows, owner, now, shareFaults, ghosts>>

-----------------------------------------------------------------------------
(* Checks: the call goes on, or answers with an error.                     *)

Check(c) ==
    /\ \/ AtStep(c, "gate") /\ (IF restricted THEN Return(c) ELSE NextStep(c))
       \/ AtStep(c, "paused") /\ (IF pausedTo > now THEN Return(c) ELSE NextStep(c))
       \/ AtStep(c, "blocked") /\ (IF scall[c].v \in hidden THEN Return(c) ELSE NextStep(c))
       \/ /\ AtStep(c, "check_view") \/ AtStep(c, "recheck")
          /\ IF View(scall[c].v) THEN NextStep(c) ELSE Return(c)
    /\ UNCHANGED <<spice, rows, owner, bounds, ghosts>>

\* check_view_with_expiry finds the row; an expired one is revoked.
Find(c) ==
    LET t == terms[scall[c].v]
    IN  /\ AtStep(c, "find")
        /\ IF t # NoTerms /\ ~Unexpired(t) THEN ToDo(c, lazy_revoke \o <<"scope">>)
           ELSE NextStep(c)
        /\ UNCHANGED <<spice, rows, owner, bounds, ghosts>>

\* The row is found again for its scope, and the answer given.
Serve(c) ==
    LET v == scall[c].v
    IN  /\ AtStep(c, "scope") /\ Return(c)
        /\ breach' = IF /\ Allows(terms[v].scope, scall[c].arg)
                        /\ ~scall[c].just /\ ~scall[c].stirred /\ v \notin mixed
                     THEN breach \cup {v} ELSE breach
        /\ UNCHANGED <<spice, rows, owner, bounds, said, mixed, late>>

-----------------------------------------------------------------------------
(* Shares.                                                                 *)

WriteShare(c) ==
    /\ AtStep(c, "write_share") /\ NextStep(c)
    /\ grant' = grant \cup {scall[c].v} /\ mixed' = Mix(scall[c].v)
    /\ UNCHANGED <<wide, public, rows, owner, bounds, said, late, breach>>

Upsert(c) ==
    /\ AtStep(c, "upsert") /\ NextStep(c)
    /\ terms' = [terms EXCEPT ![scall[c].v] = scall[c].arg]
    /\ said' = [said EXCEPT ![scall[c].v] = scall[c].arg] /\ mixed' = Mix(scall[c].v)
    /\ UNCHANGED <<spice, pubScope, report, owner, bounds, late, breach>>

DeleteShare(c) ==
    LET v == scall[c].v
    IN  /\ AtStep(c, "delete_share") \/ AtStep(c, "lazy_share")
        /\ grant' = grant \ {v} /\ NextStep(c) /\ mixed' = Mix(v)
        /\ said' = IF AtStep(c, "delete_share") THEN [said EXCEPT ![v] = NoTerms] ELSE said
        /\ UNCHANGED <<wide, public, rows, owner, bounds, late, breach>>

\* A read that has passed its check and meets no row takes the share for one
\* without terms.
Unbound(c) == {d \in About({"read"}, scall[c].v) \ {c} : AtStep(d, "find") \/ AtStep(d, "scope")}
DeleteTerms(c) ==
    /\ AtStep(c, "delete_terms") \/ AtStep(c, "lazy_terms")
    /\ terms' = [terms EXCEPT ![scall[c].v] = NoTerms] /\ mixed' = Mix(scall[c].v)
    /\ LET rest == Tail(scall[c].todo)
       IN  scall' = [d \in ShareCalls |->
              IF d = c THEN IF rest = <<>> THEN NoShareCall ELSE [scall[c] EXCEPT !.todo = rest]
              ELSE [scall[d] EXCEPT !.stirred = @ \/ d \in Unbound(c)]]
    /\ UNCHANGED <<spice, pubScope, report, owner, bounds, said, late, breach>>

ShareWithGroup(c) ==
    /\ \/ AtStep(c, "write_group") /\ wide' = wide \cup {scall[c].arg}
       \/ AtStep(c, "delete_group") /\ wide' = wide \ {scall[c].arg}
    /\ NextStep(c)
    /\ UNCHANGED <<grant, public, rows, owner, bounds, ghosts>>

-----------------------------------------------------------------------------
(* The public profile.                                                     *)

WritePublicView(c) ==
    /\ \/ AtStep(c, "write_public") /\ public' = scall[c].arg.pub
       \/ AtStep(c, "drop_public") /\ public' = FALSE
    /\ NextStep(c)
    /\ UNCHANGED <<grant, wide, rows, owner, bounds, ghosts>>

GetPublic(c) ==
    /\ AtStep(c, "get_public")
    /\ ToDo(c, (IF pubScope = "none" THEN <<"put_default">> ELSE <<>>) \o Tail(scall[c].todo))
    /\ UNCHANGED <<spice, rows, owner, bounds, ghosts>>

PutPublic(c) ==
    /\ \/ AtStep(c, "put_public") /\ pubScope' = "chosen"
       \/ AtStep(c, "put_default") /\ pubScope' = "default"
    /\ NextStep(c)
    /\ UNCHANGED <<spice, terms, report, owner, bounds, ghosts>>

-----------------------------------------------------------------------------
(* Reports and their resolution.                                           *)

CreateReport(c) ==
    /\ AtStep(c, "create_report") /\ NextStep(c)
    /\ report' = [report EXCEPT ![scall[c].v] = "open"]
    /\ UNCHANGED <<spice, terms, pubScope, owner, bounds, ghosts>>

Filed == {v \in Viewers : report[v] # "none"}
\* check_cross_report_cluster: the reports are listed, then the pause stamped.
CountReports(c) ==
    /\ AtStep(c, "cluster")
    /\ ToDo(c, (IF Cardinality(Filed) >= CLUSTER_REPORT_THRESHOLD THEN <<"pause">> ELSE <<>>)
               \o Tail(scall[c].todo))
    /\ UNCHANGED <<spice, rows, owner, bounds, ghosts>>

\* PAUSE_DURATION is one tick.
StampPause(c) ==
    /\ AtStep(c, "pause") /\ NextStep(c) /\ pausedTo' = now + 1
    /\ UNCHANGED <<spice, rows, hidden, restricted, bounds, ghosts>>

ResolveReport(c) ==
    LET v == scall[c].v
    IN  /\ AtStep(c, "resolve")
        /\ IF report[v] = "open" THEN NextStep(c) /\ report' = [report EXCEPT ![v] = scall[c].arg]
           ELSE Return(c) /\ UNCHANGED report
        /\ UNCHANGED <<spice, terms, pubScope, owner, bounds, ghosts>>

\* A grant that has passed its gate is not stopped by the restriction.
RestrictSharing(c) ==
    /\ AtStep(c, "restrict") /\ NextStep(c) /\ restricted' = TRUE
    /\ late' = \/ late
               \/ \E d \in InFlight({"add", "vis"}) : ~AtStep(d, "gate")
    /\ UNCHANGED <<spice, rows, hidden, pausedTo, bounds, said, mixed, breach>>

ListShares(c) ==
    /\ AtStep(c, "list_shares")
    /\ scall' = [scall EXCEPT ![c].left = grant,
                              ![c].todo = IF grant = {} THEN Tail(Tail(@)) ELSE Tail(@)]
    /\ UNCHANGED <<spice, rows, owner, bounds, ghosts>>

RevokeEach(c) ==
    /\ AtStep(c, "revoke_each")
    /\ \E v \in scall[c].left :
        /\ grant' = grant \ {v} /\ said' = [said EXCEPT ![v] = NoTerms] /\ mixed' = Mix(v)
        /\ IF scall[c].left = {v} THEN NextStep(c)
           ELSE scall' = [scall EXCEPT ![c].left = @ \ {v}]
    /\ UNCHANGED <<wide, public, rows, owner, bounds, late, breach>>

-----------------------------------------------------------------------------
(* The store or SpiceDB fails.                                             *)

\* Logged, and the handler goes on: one revoke that fails does not stop the
\* rest, and a list that fails leaves only the public profile to drop.
ShareForgiven == {"paused", "find", "upsert", "delete_terms", "lazy_share", "lazy_terms",
                  "get_public", "put_public", "put_default", "cluster", "pause", "drop_public"}
ShareStepFails(c) ==
    LET s == Head(scall[c].todo)
    IN  /\ Open(c) /\ s \in FailingSteps
        /\ placed + shareFaults < MaxShareEvents
        /\ shareFaults < MaxShareFaults /\ shareFaults' = shareFaults + 1
        /\ CASE s = "find" -> scall' = [scall EXCEPT ![c].todo = Tail(@), ![c].stirred = TRUE]
             [] s = "list_shares" -> ToDo(c, Tail(Tail(scall[c].todo)))
             [] s = "revoke_each" ->
                  \E v \in scall[c].left :
                     IF scall[c].left = {v} THEN NextStep(c)
                     ELSE scall' = [scall EXCEPT ![c].left = @ \ {v}]
             [] s \in ShareForgiven -> NextStep(c)
             [] OTHER -> Return(c)
        /\ mixed' = IF s \in {"upsert", "lazy_share"} THEN mixed \cup {scall[c].v} ELSE mixed
        /\ UNCHANGED <<spice, rows, owner, now, placed, said, late, breach>>

\* The owner blocks or unblocks the viewer; their reads in flight may see either.
BlockViewer(v) ==
    /\ placed + shareFaults < MaxShareEvents /\ placed' = placed + 1
    /\ hidden' = IF v \in hidden THEN hidden \ {v} ELSE hidden \cup {v}
    /\ scall' = [c \in ShareCalls |-> [scall[c] EXCEPT !.stirred = @ \/ c \in About({"read"}, v)]]
    /\ UNCHANGED <<spice, rows, restricted, pausedTo, now, shareFaults, ghosts>>

Tick ==
    /\ now < MaxNow /\ now' = now + 1
    /\ UNCHANGED <<spice, rows, owner, scall, placed, shareFaults, ghosts>>

ShareInit ==
    /\ grant = {} /\ wide = {} /\ public = FALSE
    /\ terms = [v \in Viewers |-> NoTerms] /\ said = terms
    /\ pubScope = "none" /\ hidden = {} /\ restricted = FALSE
    /\ pausedTo = 0 /\ report = [v \in Viewers |-> "none"]
    /\ now = 0 /\ scall = [c \in ShareCalls |-> NoShareCall] /\ placed = 0 /\ shareFaults = 0
    /\ mixed = {} /\ late = FALSE /\ breach = {}

ShareStep(c) ==
    \/ Check(c) \/ Find(c) \/ Serve(c) \/ WriteShare(c) \/ Upsert(c) \/ DeleteShare(c)
    \/ DeleteTerms(c) \/ ShareWithGroup(c) \/ WritePublicView(c) \/ GetPublic(c)
    \/ PutPublic(c) \/ CreateReport(c) \/ CountReports(c)
    \/ StampPause(c) \/ ResolveReport(c) \/ RestrictSharing(c) \/ ListShares(c) \/ RevokeEach(c)

ShareNext ==
    \/ \E c \in ShareCalls :
        \/ \E q \in Requests : BeginShare(c, q)
        \/ ShareStep(c) \/ ShareStepFails(c)
    \/ \E v \in Viewers : BlockViewer(v)
    \/ Tick

ShareSpec == ShareInit /\ [][ShareNext]_shareVars

-----------------------------------------------------------------------------
(* Properties.                                                             *)

\* Type invariant.
ShareTypeOK ==
    /\ grant \subseteq Viewers /\ wide \subseteq Groups /\ hidden \subseteq Viewers
    /\ {public, restricted, late} \subseteq BOOLEAN
    /\ terms \in [Viewers -> Terms \cup {NoTerms}] /\ said \in [Viewers -> Terms \cup {NoTerms}]
    /\ pubScope \in {"none", "default", "chosen"}
    /\ report \in [Viewers -> {"none", "open"} \cup Outcomes]
    /\ \A c \in ShareCalls : scall[c] = NoShareCall \/ scall[c].todo # <<>>
    /\ pausedTo \in 0 .. Never /\ now \in 0 .. MaxNow
    /\ placed \in 0 .. MaxShareEvents /\ shareFaults \in 0 .. MaxShareFaults
    /\ mixed \subseteq Viewers /\ breach \subseteq Viewers

\* A friend read is answered with data only if, as it began, the owner's last
\* word allowed the viewer that surface: no block, and a share unexpired and
\* wide enough, or one with everybody, friends or an org.  Excused are reads
\* that overlapped a grant or an unblock, that had passed their check when a
\* revoke, or another read of the expired share, deleted the metadata, or that
\* could not read it; and viewers whose share was granted and taken away at the
\* same time.
ServedIsAllowed == breach = {}

\* Whoever holds a share holds it on the terms it was granted with: no revoke,
\* expiry or moderation, in any order, leaves a share without its expiry and
\* scope, unless it overlapped a grant to the same viewer or a step failed.
TermsKept ==
    \A v \in grant \ mixed :
        About({"add"}, v) = {} /\ shareFaults = 0 => terms[v] = said[v] /\ said[v] # NoTerms

\* A suspended owner's shares with players and public profile are gone once the
\* moderator's call is through, and none comes back, except by a call that had
\* passed its gate before the restriction or where a step failed.
SuspendedSharesNothing ==
    restricted /\ ~late /\ shareFaults = 0 /\ InFlight({"resolve"}) = {} => grant = {} /\ ~public

\* Reports filed at the same time still pause the owner: each is filed before it
\* counts, so the last to count sees them all.
ClusterPauses ==
    /\ shareFaults = 0 /\ InFlight({"report"}) = {}
    /\ Cardinality(Filed) >= CLUSTER_REPORT_THRESHOLD
    => pausedTo # 0

\* A public profile has a clamp, the owner's or the default, unless a step failed.
PublicIsClamped ==
    public /\ shareFaults = 0 /\ InFlight({"vis"}) = {} => pubScope # "none"

\* "Errors here are warnings, not fatal: even if cleanup partially fails, the next
\* read will retry" (check_view_with_expiry): a share past its expiry that no call
\* is working on is gone, or still has the row by which a read knows it expired.
RevokeRetried ==
    \A v \in grant :
        said[v] # NoTerms /\ ~Unexpired(said[v]) /\ About({"add", "read", "delete"}, v) = {}
            => terms[v] = said[v]

\* What sharing keeps: nothing is served beyond what its owner said, and reports
\* and suspensions end what they should.
SharesSound ==
    /\ ShareTypeOK /\ ServedIsAllowed /\ TermsKept
    /\ SuspendedSharesNothing /\ ClusterPauses /\ PublicIsClamped
=============================================================================
