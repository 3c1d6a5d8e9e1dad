----------------------------- MODULE TwoFactor -----------------------------
(***************************************************************************)
(* Signing in with a second factor, for one account: enrolling an          *)
(* authenticator, recovery codes and the answer to a challenge             *)
(* (totp_routes.rs, recovery_codes.rs, users.rs), after a password or a    *)
(* mailed link (auth_routes.rs, magic_link_routes.rs, magic_link.rs).      *)
(*                                                                         *)
(* A handler is the sequence of its awaited steps.  A number stands for a  *)
(* random secret, for a set of recovery codes, or for a link; of a set of  *)
(* codes one is modelled.  Passwords are right, bearers are valid.         *)
(***************************************************************************)
EXTENDS Integers, Sequences, FiniteSets

CONSTANTS TfaCalls,        \* handlers that can be in flight
          TOTP_MAX_FAILS,
          MaxSecrets, MaxSheets, MaxLinks, MaxTfaCalls, MaxTfaFaults

VARIABLES secret, enabled,   \* totp_secret (0: none), totp_enabled_at is set
          sheet, used,       \* recovery_codes: which set (0: none), its code is used
          links,             \* magic_link_tokens
          fails,             \* TotpAttemptLimiter: failures in the window
          app,               \* the secret in the user's authenticator
          issued, printed,   \* secrets and sets of codes so far
          tcall, tbegun, tfaFaults,
          paired,            \* history: the secret a confirm matched
          opened, entered,   \* history: sign-ins by each code, by each link
          crossed, tangled   \* history: see store, mark; regenerate

tfaRow == <<secret, enabled>>
tfaCodes == <<sheet, used>>
tfaCounts == <<issued, printed>>
tfaGhosts == <<paired, opened, entered, crossed, tangled>>
tfaVars == <<tfaRow, tfaCodes, links, fails, app, tfaCounts, tcall, tbegun, tfaFaults, tfaGhosts>>

Resting == [todo |-> <<>>, by |-> "none", n |-> 0, ok |-> FALSE]

TfaInit ==
    /\ secret = 0 /\ enabled = FALSE /\ sheet = 0 /\ used = FALSE
    /\ links = [l \in 1 .. MaxLinks |-> "none"] /\ fails = 0 /\ app = 0
    /\ issued = 0 /\ printed = 0 /\ tbegun = 0 /\ tfaFaults = 0
    /\ tcall = [c \in TfaCalls |-> Resting]
    /\ paired = 0 /\ opened = [s \in 1 .. MaxSheets |-> 0]
    /\ entered = [l \in 1 .. MaxLinks |-> 0] /\ crossed = FALSE /\ tangled = FALSE

-----------------------------------------------------------------------------
(* Handlers.  by says what is presented: a code of the authenticator, a    *)
(* recovery code, a link.                                                  *)

setup == <<"find_off", "get_secret", "store">>
confirm == <<"find_off", "match", "mark", "regenerate">>
disable == <<"clear", "disable">>
regenerate_recovery == <<"find_on", "regenerate">>
redeem == <<"consume", "fork">>
verify_login(by) ==
    IF by = "totp" THEN <<"unlocked", "find_on", "match", "record">>
                   ELSE <<"unlocked", "find_on", "look", "use", "record">>

Call(todo, by, n) == [todo |-> todo, by |-> by, n |-> n, ok |-> FALSE]
TfaRequests ==
    {Call(setup, "none", 0), Call(confirm, "totp", app), Call(disable, "none", 0),
     Call(regenerate_recovery, "none", 0), Call(verify_login("totp"), "totp", app)}
    \cup {Call(verify_login("sheet"), "sheet", s) : s \in 1 .. printed}
    \cup {Call(redeem, "link", l) : l \in {k \in DOMAIN links : links[k] # "none"}}

At(c, s) == tcall[c].todo # <<>> /\ Head(tcall[c].todo) = s
Stops(c) == tcall' = [tcall EXCEPT ![c] = Resting]
NextCall(q) == IF Tail(q.todo) = <<>> THEN Resting ELSE [q EXCEPT !.todo = Tail(q.todo)]
Goes(c) == tcall' = [tcall EXCEPT ![c] = NextCall(tcall[c])]
GoesIf(c, b) == IF b THEN Goes(c) ELSE Stops(c)

BeginTfa(c, q) ==
    /\ tcall[c] = Resting /\ tbegun < MaxTfaCalls /\ tbegun' = tbegun + 1
    /\ tcall' = [tcall EXCEPT ![c] = q]
    /\ UNCHANGED <<tfaRow, tfaCodes, links, fails, app, tfaCounts, tfaFaults, tfaGhosts>>

\* A statement fails, or the server stops: the handler ends there.
TfaFails(c) ==
    /\ tcall[c] # Resting /\ tfaFaults < MaxTfaFaults /\ tfaFaults' = tfaFaults + 1
    /\ Stops(c)
    /\ UNCHANGED <<tfaRow, tfaCodes, links, fails, app, tfaCounts, tbegun, tfaGhosts>>

-----------------------------------------------------------------------------
(* The user's row.                                                         *)

FindUser(c) ==
    /\ \/ At(c, "find_off") /\ GoesIf(c, ~enabled)
       \/ At(c, "find_on") /\ GoesIf(c, enabled)
    /\ UNCHANGED <<tfaRow, tfaCodes, links, fails, app, tfaCounts, tbegun, tfaFaults, tfaGhosts>>

\* A secret in flight is shown again; otherwise a fresh one is stored.
GetSecret(c) ==
    /\ At(c, "get_secret") /\ GoesIf(c, secret = 0)
    /\ app' = IF secret = 0 THEN app ELSE secret
    /\ UNCHANGED <<tfaRow, tfaCodes, links, fails, tfaCounts, tbegun, tfaFaults, tfaGhosts>>

\* Excused: the row was enabled since this call read it.
start_totp_setup(c) ==
    /\ At(c, "store") /\ Goes(c) /\ issued < MaxSecrets /\ issued' = issued + 1
    /\ secret' = issued + 1 /\ app' = issued + 1
    /\ crossed' = (crossed \/ enabled)
    /\ UNCHANGED <<enabled, tfaCodes, links, fails, printed, tbegun, tfaFaults, paired, opened,
                   entered, tangled>>

\* Without a secret a confirm is refused and a challenge cannot be answered.
verify_now(c) ==
    /\ At(c, "match")
    /\ LET ok == secret # 0 /\ tcall[c].n = secret
       IN  IF secret = 0 \/ (~ok /\ tcall[c].todo[2] = "mark") THEN Stops(c)
           ELSE tcall' = [tcall EXCEPT ![c].todo = Tail(@), ![c].ok = ok]
    /\ UNCHANGED <<tfaRow, tfaCodes, links, fails, app, tfaCounts, tbegun, tfaFaults, tfaGhosts>>

\* Excused: the secret is no longer the one this call matched.
mark_totp_enabled(c) ==
    /\ At(c, "mark") /\ Goes(c) /\ enabled' = TRUE /\ paired' = tcall[c].n
    /\ crossed' = (crossed \/ secret # tcall[c].n)
    /\ UNCHANGED <<secret, tfaCodes, links, fails, app, tfaCounts, tbegun, tfaFaults, opened,
                   entered, tangled>>

disable_totp(c) ==
    /\ At(c, "disable") /\ Goes(c) /\ secret' = 0 /\ enabled' = FALSE
    /\ crossed' = FALSE
    /\ UNCHANGED <<tfaCodes, links, fails, app, tfaCounts, tbegun, tfaFaults, paired, opened,
                   entered, tangled>>

-----------------------------------------------------------------------------
(* Recovery codes.                                                         *)

\* Excused: the second factor is off, or a disable is past its clear.
regenerate_for_user(c) ==
    /\ At(c, "regenerate") /\ Goes(c) /\ printed < MaxSheets /\ printed' = printed + 1
    /\ sheet' = printed + 1 /\ used' = FALSE
    /\ tangled' = (~enabled \/ \E d \in TfaCalls : At(d, "disable"))
    /\ UNCHANGED <<tfaRow, links, fails, app, issued, tbegun, tfaFaults, paired, opened, entered,
                   crossed>>

clear_for_user(c) ==
    /\ At(c, "clear") /\ Goes(c) /\ sheet' = 0 /\ used' = FALSE /\ tangled' = FALSE
    /\ UNCHANGED <<tfaRow, links, fails, app, tfaCounts, tbegun, tfaFaults, paired, opened,
                   entered, crossed>>

Unused(s) == sheet = s /\ ~used
\* RecoveryCodeStore::redeem reads the unused rows, then marks the one that
\* matches if it is still unused.
LookForCode(c) ==
    /\ At(c, "look")
    /\ tcall' = [tcall EXCEPT ![c].todo =
                    IF Unused(tcall[c].n) THEN Tail(@) ELSE Tail(Tail(@))]
    /\ UNCHANGED <<tfaRow, tfaCodes, links, fails, app, tfaCounts, tbegun, tfaFaults, tfaGhosts>>

\* Mutant: a code already used is marked again.
StillThere(s) == sheet = s
StillUnused(s) == Unused(s)
UseCode(c) ==
    /\ At(c, "use")
    /\ tcall' = [tcall EXCEPT ![c].todo = Tail(@), ![c].ok = StillUnused(tcall[c].n)]
    /\ used' = (used \/ StillUnused(tcall[c].n))
    /\ UNCHANGED <<tfaRow, sheet, links, fails, app, tfaCounts, tbegun, tfaFaults, tfaGhosts>>

-----------------------------------------------------------------------------
(* The limiter is looked at first and told of the outcome last.            *)

is_locked == fails >= TOTP_MAX_FAILS
MayTry(c) ==
    /\ At(c, "unlocked") /\ GoesIf(c, ~is_locked)
    /\ UNCHANGED <<tfaRow, tfaCodes, links, fails, app, tfaCounts, tbegun, tfaFaults, tfaGhosts>>

\* record_failure, or record_success and a session.
Record(c) ==
    /\ At(c, "record") /\ Goes(c)
    /\ fails' = IF tcall[c].ok THEN 0 ELSE fails + 1
    /\ opened' = IF tcall[c].ok /\ tcall[c].by = "sheet"
                 THEN [opened EXCEPT ![tcall[c].n] = @ + 1] ELSE opened
    /\ UNCHANGED <<tfaRow, tfaCodes, links, app, tfaCounts, tbegun, tfaFaults, paired, entered,
                   crossed, tangled>>

\* TOTP_LOCKOUT_WINDOW is over.
WindowEnds ==
    /\ fails > 0 /\ fails' = 0
    /\ UNCHANGED <<tfaRow, tfaCodes, links, app, tfaCounts, tcall, tbegun, tfaFaults, tfaGhosts>>

-----------------------------------------------------------------------------
(* Mailed links.                                                           *)

IssueLink(l) ==
    /\ links[l] = "none" /\ links' = [links EXCEPT ![l] = "sent"]
    /\ UNCHANGED <<tfaRow, tfaCodes, fails, app, tfaCounts, tcall, tbegun, tfaFaults, tfaGhosts>>

Expire(l) ==
    /\ links[l] = "sent" /\ links' = [links EXCEPT ![l] = "dead"]
    /\ UNCHANGED <<tfaRow, tfaCodes, fails, app, tfaCounts, tcall, tbegun, tfaFaults, tfaGhosts>>

Consume(c) ==
    /\ At(c, "consume") /\ GoesIf(c, links[tcall[c].n] = "sent")
    /\ links' = [links EXCEPT ![tcall[c].n] = "dead"]
    /\ UNCHANGED <<tfaRow, tfaCodes, fails, app, tfaCounts, tbegun, tfaFaults, tfaGhosts>>

\* An interim token if the second factor is on, a session otherwise.
Fork(c) ==
    /\ At(c, "fork") /\ Goes(c)
    /\ entered' = [entered EXCEPT ![tcall[c].n] = @ + 1]
    /\ UNCHANGED <<tfaRow, tfaCodes, links, fails, app, tfaCounts, tbegun, tfaFaults, paired,
                   opened, crossed, tangled>>

-----------------------------------------------------------------------------
TfaStep(c) ==
    \/ FindUser(c) \/ GetSecret(c) \/ start_totp_setup(c) \/ verify_now(c)
    \/ mark_totp_enabled(c) \/ disable_totp(c) \/ regenerate_for_user(c) \/ clear_for_user(c)
    \/ LookForCode(c) \/ UseCode(c) \/ MayTry(c) \/ Record(c) \/ Consume(c) \/ Fork(c)

TfaNext ==
    \/ \E c \in TfaCalls :
        \/ \E q \in TfaRequests : BeginTfa(c, q)
        \/ TfaStep(c) \/ TfaFails(c)
    \/ WindowEnds
    \/ \E l \in 1 .. MaxLinks : IssueLink(l) \/ Expire(l)

TfaSpec == TfaInit /\ [][TfaNext]_tfaVars

-----------------------------------------------------------------------------
(* Properties.                                                             *)

\* Type invariant.
TfaTypeOK ==
    /\ {secret, app, paired, issued} \subseteq 0 .. MaxSecrets
    /\ {sheet, printed} \subseteq 0 .. MaxSheets
    /\ {enabled, used, crossed, tangled} \subseteq BOOLEAN
    /\ links \in [1 .. MaxLinks -> {"none", "sent", "dead"}] /\ fails \in Nat

\* A second factor that is on is the authenticator the user proved to hold, so
\* that they can answer the challenge.  Excused are calls of the same user that
\* overlap: a setup or a disable between a confirm's match and its mark, and a
\* setup that stores after another call turned the factor on.
FactorUsable == enabled /\ ~crossed => secret # 0 /\ secret = paired

\* Recovery codes exist only beside a second factor: "a follow-up retry sees no
\* orphan codes" (totp_routes.rs:518), whichever step of a disable fails.
\* Excused is a set of codes printed while a disable was past its clear.
NoOrphanCodes == sheet # 0 /\ ~tangled => enabled

\* A recovery code, and a mailed link, signs in once, however often and from
\* however many tabs it is presented.
SignsInOnce ==
    /\ \A s \in DOMAIN opened : opened[s] <= 1
    /\ \A l \in DOMAIN entered : entered[l] <= 1

\* The limiter's count passes the limit by no more than the calls that were in
\* flight when it was reached.
FailuresBounded == fails < TOTP_MAX_FAILS + Cardinality(TfaCalls)

\* What the routes of the second factor keep between them.
FactorSound ==
    TfaTypeOK /\ FactorUsable /\ NoOrphanCodes /\ SignsInOnce /\ FailuresBounded
=============================================================================
