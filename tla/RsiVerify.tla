----------------------------- MODULE RsiVerify -----------------------------
(***************************************************************************)
(* Proving that an account owns its RSI handle (rsi_verify_routes.rs,      *)
(* users.rs): a code is issued, the player pastes it into the public bio   *)
(* of the handle, and the server looks for it there.  A rename             *)
(* (handle_renames.rs) makes the new handle unproven.  One account.        *)
(*                                                                         *)
(* A call reads the row, then asks RSI or writes; a number stands for a    *)
(* random code.                                                            *)
(***************************************************************************)
EXTENDS Integers, FiniteSets

CONSTANTS Names, Requests, MaxRequests, MaxIssued, MaxNameChanges

VARIABLES handle, rsiVerified,   \* claimed_handle, rsi_verified_at is set
          code, unexpired,    \* rsi_verify_code (0: none), its expiry is ahead
          bio,                \* RSI: the code in each handle's bio, 0: none
          req,                \* the requests in flight
          requests, codesIssued, nameChanges,
          shown,              \* history: codes answered and not yet expired
          proven,             \* history: handles whose bio had the code
          moved, doubled      \* history: a rename came inside a verify;
                              \* two requests issued a code together

verifyVars == <<handle, rsiVerified, code, unexpired, bio, req, requests, codesIssued, nameChanges,
                shown, proven, moved, doubled>>

NoRequest == [at |-> "idle", name |-> 0, code |-> 0]

VerifyInit ==
    /\ handle \in Names /\ rsiVerified \in BOOLEAN /\ code = 0 /\ unexpired = FALSE
    /\ bio = [h \in Names |-> 0] /\ req = [r \in Requests |-> NoRequest]
    /\ requests = 0 /\ codesIssued = 0 /\ nameChanges = 0
    /\ shown = {} /\ proven = (IF rsiVerified THEN {handle} ELSE {})
    /\ moved = FALSE /\ doubled = FALSE

BeginRequest(r) == requests < MaxRequests /\ requests' = requests + 1 /\ req[r] = NoRequest

-----------------------------------------------------------------------------
(* /start and /reverify                                                    *)

Reuse == code # 0 /\ unexpired

Issuing == {r \in Requests : req[r].at = "issue"}

\* Answer with the code in flight, or go on to store a fresh one.
IssueCode(r) ==
    IF Reuse THEN shown' = shown \cup {code} /\ UNCHANGED <<req, codesIssued>>
    ELSE /\ codesIssued < MaxIssued /\ codesIssued' = codesIssued + 1
         /\ req' = [req EXCEPT ![r] = [at |-> "issue", name |-> handle, code |-> codesIssued + 1]]
         /\ UNCHANGED shown

start(r) ==
    /\ BeginRequest(r) /\ ~rsiVerified /\ IssueCode(r)
    /\ UNCHANGED <<handle, rsiVerified, code, unexpired, bio, nameChanges, proven, moved, doubled>>

reverify(r) ==
    /\ BeginRequest(r) /\ IssueCode(r)
    /\ UNCHANGED <<handle, rsiVerified, code, unexpired, bio, nameChanges, proven, moved, doubled>>

set_rsi_verify_code(r) ==
    /\ req[r].at = "issue"
    /\ code' = req[r].code /\ unexpired' = TRUE /\ shown' = shown \cup {req[r].code}
    /\ req' = [req EXCEPT ![r] = NoRequest]
    /\ doubled' = (doubled \/ Issuing # {r})
    /\ UNCHANGED <<handle, rsiVerified, bio, requests, codesIssued, nameChanges, proven, moved>>

-----------------------------------------------------------------------------
(* /verify: the handle and the code are read, the bio is looked at, and    *)
(* the account is marked.                                                  *)

verify(r) ==
    /\ BeginRequest(r) /\ code # 0 /\ unexpired
    /\ req' = [req EXCEPT ![r] = [at |-> "bio", name |-> handle, code |-> code]]
    /\ UNCHANGED <<handle, rsiVerified, code, unexpired, bio, codesIssued, nameChanges, shown,
                   proven, moved, doubled>>

\* Not there, no such handle, RSI unreachable: an answer and nothing else.
check_bio(r) ==
    /\ req[r].at = "bio"
    /\ \/ /\ bio[req[r].name] = req[r].code
          /\ req' = [req EXCEPT ![r].at = "mark"] /\ proven' = proven \cup {req[r].name}
       \/ req' = [req EXCEPT ![r] = NoRequest] /\ UNCHANGED proven
    /\ UNCHANGED <<handle, rsiVerified, code, unexpired, bio, requests, codesIssued, nameChanges,
                   shown, moved, doubled>>

mark_rsi_verified(r) ==
    /\ req[r].at = "mark" /\ req' = [req EXCEPT ![r] = NoRequest]
    /\ rsiVerified' = TRUE /\ code' = 0 /\ unexpired' = FALSE /\ shown' = {}
    /\ UNCHANGED <<handle, bio, requests, codesIssued, nameChanges, proven, moved, doubled>>

-----------------------------------------------------------------------------
(* A rename, the player's bio, the clock.                                  *)

\* Mutant: the rename leaves the verification alone.
keep_verification == UNCHANGED <<rsiVerified, code, unexpired>>
reset_verification == rsiVerified' = FALSE /\ code' = 0 /\ unexpired' = FALSE

Rename(h) ==
    /\ h # handle /\ nameChanges < MaxNameChanges /\ nameChanges' = nameChanges + 1
    /\ handle' = h /\ reset_verification
    /\ moved' = (moved \/ \E r \in Requests : req[r].at \in {"bio", "mark"})
    /\ shown' = {}
    /\ UNCHANGED <<bio, req, requests, codesIssued, proven, doubled>>

\* The player pastes a code they were shown into the bio of a handle of theirs.
PasteCode(h) ==
    /\ \E n \in shown \ {bio[h]} : bio' = [bio EXCEPT ![h] = n]
    /\ UNCHANGED <<handle, rsiVerified, code, unexpired, req, requests, codesIssued, nameChanges,
                   shown, proven, moved, doubled>>

CodeExpires ==
    /\ unexpired /\ unexpired' = FALSE /\ shown' = shown \ {code}
    /\ UNCHANGED <<handle, rsiVerified, code, bio, req, requests, codesIssued, nameChanges, proven,
                   moved, doubled>>

-----------------------------------------------------------------------------
VerifyNext ==
    \/ \E r \in Requests :
        \/ start(r) \/ reverify(r) \/ set_rsi_verify_code(r)
        \/ verify(r) \/ check_bio(r) \/ mark_rsi_verified(r)
    \/ \E h \in Names : Rename(h) \/ PasteCode(h)
    \/ CodeExpires

VerifySpec == VerifyInit /\ [][VerifyNext]_verifyVars

-----------------------------------------------------------------------------
(* Properties.                                                             *)

\* Type invariant.
VerifyTypeOK ==
    /\ handle \in Names /\ rsiVerified \in BOOLEAN /\ unexpired \in BOOLEAN
    /\ code \in 0 .. MaxIssued /\ bio \in [Names -> 0 .. MaxIssued]
    /\ req \in [Requests -> [at : {"idle", "issue", "bio", "mark"}, name : Names \cup {0},
                             code : 0 .. MaxIssued]]
    /\ shown \subseteq 1 .. MaxIssued /\ proven \subseteq Names

\* A verified account's handle is one whose own bio showed the account's code.
\* Excused is a rename that committed between a verify's read of the handle and
\* its mark, which then marks the new handle.
VerifiedIsProven == rsiVerified /\ ~moved => handle \in proven

\* A code the player was shown stays the one the server looks for until it
\* expires, is used or the handle changes, however often the page asks again.
\* Excused is a code stored by two requests that both found none.
ShownCodeStands == ~doubled /\ code # 0 /\ unexpired => shown \subseteq {code}

\* What verification keeps: the mark is earned, and a shown code is the one the
\* server looks for.
CodesSound == VerifyTypeOK /\ VerifiedIsProven /\ ShownCodeStands
=============================================================================
