---------------------------- MODULE MCAccounts ----------------------------
(*************************************************************************)
(* The audit log, the rollups and the parts of the server around accounts,*)
(* side by side: part says which of them a behaviour runs; the others stay*)
(* in their initial states.                                              *)
(*************************************************************************)
EXTENDS AuditChain, StatRollup, Sharing, Submissions, TwoFactor, Credentials, Integers,
        FiniteSets, Sequences, TLC

VARIABLE part  \* the component that runs

unionVars == <<part, vars, rollupVars, shareVars, submissionVars, tfaVars, credVars>>

ConstTimes == 1 .. 3
ConstUntimed == {0}
ConstNone == {}
ConstSteps ==
    {"gate", "paused", "write_share", "upsert", "delete_share", "delete_terms", "blocked",
     "check_view", "find", "lazy_share", "lazy_terms", "recheck", "scope", "write_public",
     "get_public", "put_public", "put_default", "create_report", "cluster", "pause",
     "resolve", "restrict", "list_shares", "revoke_each", "drop_public", "write_group",
     "delete_group"}

AuditIdle == UNCHANGED <<part, rollupVars, shareVars, submissionVars, tfaVars, credVars>>
AuditSteps == part = "audit" /\ Next /\ AuditIdle

RollupIdle == UNCHANGED <<part, vars, shareVars, submissionVars, tfaVars, credVars>>
RollupSteps == part = "rollup" /\ RollupNext /\ RollupIdle

ShareIdle == UNCHANGED <<part, vars, rollupVars, submissionVars, tfaVars, credVars>>
ShareSteps == part = "sharing" /\ ShareNext /\ ShareIdle

SubmissionIdle == UNCHANGED <<part, vars, rollupVars, shareVars, tfaVars, credVars>>
SubmissionSteps == part = "submissions" /\ SubmissionNext /\ SubmissionIdle

FactorIdle == UNCHANGED <<part, vars, rollupVars, shareVars, submissionVars, credVars>>
FactorSteps == part = "factor" /\ TfaNext /\ FactorIdle

CredentialIdle == UNCHANGED <<part, vars, rollupVars, shareVars, submissionVars, tfaVars>>
CredentialSteps == part = "credentials" /\ CredNext /\ CredentialIdle

UnionInit ==
    /\ Init /\ RollupInit /\ ShareInit /\ SubmissionInit /\ TfaInit /\ CredInit
    /\ part \in {"audit", "rollup", "sharing", "submissions", "factor", "credentials"}
UnionNext ==
    \/ AuditSteps
    \/ RollupSteps
    \/ ShareSteps
    \/ SubmissionSteps
    \/ FactorSteps
    \/ CredentialSteps
UnionSpec == UnionInit /\ [][UnionNext]_unionVars

Symmetric == Permutations(ShareCalls) \cup Permutations(Viewers)

=============================================================================
