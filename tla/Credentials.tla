---------------------------- MODULE Credentials ----------------------------
(***************************************************************************)
(* The credentials of one account: its address and the three kinds of      *)
(* mailed link ("verify" the address, "reset" the password, "change" the   *)
(* address), its password, and the devices paired with it (auth_routes.rs, *)
(* users.rs, device_routes.rs, devices.rs).                                *)
(*                                                                         *)
(* A handler is the sequence of its awaited steps.  Numbers stand for      *)
(* addresses, random tokens, passwords (each new one is the next number),  *)
(* pairing codes and devices; the device paired by a code has its number.  *)
(***************************************************************************)
EXTENDS Integers, Sequences

CONSTANTS CredCalls,       \* handlers that can be in flight
          MaxAddresses, MaxTokens, MaxPasswords, MaxPairings,
          MaxCredCalls, MaxCredTurns

VARIABLES email, verified, pending,  \* users.email, email_verified_at is set, pending_email
          token, live,       \* per kind: the stored token (0: none), not yet expired
          password,
          codes,             \* device_pairings
          devices,           \* devices
          others,            \* addresses of other accounts
          sent,              \* the mails delivered, by token
          ccall, cbegun, credTurns, minted,
          proved,            \* history: addresses whose link was opened
          newest, overtaken, \* history, per kind: last link mailed; see Mail, Wipes
          crossedMail,       \* history: see Wipes
          born, swept,       \* history: password when a device was paired, of the last sweep
          made               \* history: devices made from each code

LinkKinds == {"verify", "reset", "change"}
Addresses == 1 .. MaxAddresses
Pairings == 1 .. MaxPairings

credRow == <<email, verified, pending, token, live, password>>
credGhosts == <<proved, newest, overtaken, crossedMail, born, swept, made>>
credVars == <<credRow, codes, devices, others, sent, ccall, cbegun, credTurns, minted, credGhosts>>

Spare == [todo |-> <<>>, kind |-> "none", addr |-> 0, tok |-> 0, pw |-> 0]
Unsent == [kind |-> "none", addr |-> 0]

\* A new account: its first link is stored and mailed (auth_routes.rs signup).
CredInit ==
    /\ email = 1 /\ verified = FALSE /\ pending = 0 /\ password = 0
    /\ token = [k \in LinkKinds |-> IF k = "verify" THEN 1 ELSE 0]
    /\ live = [k \in LinkKinds |-> k = "verify"] /\ minted = 1
    /\ sent = [t \in 1 .. MaxTokens |-> IF t = 1 THEN [kind |-> "verify", addr |-> 1] ELSE Unsent]
    /\ newest = token /\ overtaken = [k \in LinkKinds |-> FALSE]
    /\ codes = [p \in Pairings |-> "none"] /\ devices = [p \in Pairings |-> "none"]
    /\ others = {} /\ ccall = [c \in CredCalls |-> Spare] /\ cbegun = 0 /\ credTurns = 0
    /\ proved = {} /\ crossedMail = FALSE /\ swept = 0
    /\ born = [p \in Pairings |-> 0] /\ made = [p \in Pairings |-> 0]

-----------------------------------------------------------------------------
(* Handlers.                                                               *)

resend_verification == <<"find", "set_verify", "mail">>
password_reset_start == <<"find", "set_reset", "mail">>
email_change_start == <<"find", "set_pending", "mail">>
verify_email == <<"find_token", "mark">>
password_reset_complete == <<"find_token", "reset", "revoke_all">>
email_change_verify == <<"find_token", "commit">>
change_password == <<"check", "update", "revoke_all">>
redeem_code == <<"redeem">>

CredCall(todo, k, a, t, pw) == [todo |-> todo, kind |-> k, addr |-> a, tok |-> t, pw |-> pw]
Opens(k) == CASE k = "verify" -> verify_email [] k = "reset" -> password_reset_complete
              [] OTHER -> email_change_verify
Mailed == {t \in DOMAIN sent : sent[t] # Unsent}
Issued == {p \in Pairings : codes[p] # "none"}
CredRequests ==
    {CredCall(resend_verification, "verify", 0, 0, 0),
     CredCall(change_password, "none", 0, 0, password)}
    \cup {CredCall(password_reset_start, "reset", a, 0, 0) : a \in Addresses}
    \cup {CredCall(email_change_start, "change", a, 0, 0) : a \in Addresses}
    \cup {CredCall(Opens(sent[t].kind), sent[t].kind, sent[t].addr, t, 0) : t \in Mailed}
    \cup {CredCall(redeem_code, "none", 0, p, 0) : p \in Issued}

CAt(c, s) == ccall[c].todo # <<>> /\ Head(ccall[c].todo) = s
After(q) == IF Tail(q.todo) = <<>> THEN Spare ELSE [q EXCEPT !.todo = Tail(q.todo)]
CGoes(c, q) == ccall' = [ccall EXCEPT ![c] = After(q)]
CGoesIf(c, b, q) == ccall' = [ccall EXCEPT ![c] = IF b THEN After(q) ELSE Spare]

\* Faults, expiries and acts of others, counted together.
Turn == credTurns < MaxCredTurns /\ credTurns' = credTurns + 1

BeginCred(c, q) ==
    /\ ccall[c] = Spare /\ cbegun < MaxCredCalls /\ cbegun' = cbegun + 1
    /\ ccall' = [ccall EXCEPT ![c] = q]
    /\ UNCHANGED <<credRow, codes, devices, others, sent, credTurns, minted, credGhosts>>

\* A statement fails, the mail is not delivered, or the server stops.
CredFails(c) ==
    /\ ccall[c] # Spare /\ Turn
    /\ ccall' = [ccall EXCEPT ![c] = Spare]
    /\ newest' = IF CAt(c, "mail") THEN [newest EXCEPT ![ccall[c].kind] = 0] ELSE newest
    /\ UNCHANGED <<credRow, codes, devices, others, sent, cbegun, minted, proved, overtaken,
                   crossedMail, born, swept, made>>

-----------------------------------------------------------------------------
(* resend_verification, password_reset_start, email_change_start.          *)

\* A verified address needs no link; a reset is for the account's address; an
\* address of someone else cannot be staged.
MayStart(q) ==
    CASE q.kind = "verify" -> ~verified
      [] q.kind = "reset" -> q.addr = email
      [] OTHER -> q.addr \notin others
FindStart(c) ==
    LET q == ccall[c]
    IN  /\ CAt(c, "find")
        /\ CGoesIf(c, MayStart(q), [q EXCEPT !.addr = IF q.kind = "verify" THEN email ELSE q.addr])
        /\ UNCHANGED <<credRow, codes, devices, others, sent, cbegun, credTurns, minted,
                       credGhosts>>

\* Mutant: a newly staged address keeps the token of the one before.
StagedToken(k, t) == IF k = "change" /\ token[k] # 0 THEN token[k] ELSE t
StoredToken(k, t) == t
Stores(c, k) ==
    LET t == StoredToken(k, minted + 1)
    IN  /\ minted < MaxTokens /\ minted' = minted + 1
        /\ token' = [token EXCEPT ![k] = t] /\ live' = [live EXCEPT ![k] = TRUE]
        /\ CGoes(c, [ccall[c] EXCEPT !.tok = t])
        /\ UNCHANGED <<email, verified, password, codes, devices, others, sent, cbegun, credTurns,
                       credGhosts>>
set_verification_token(c) == CAt(c, "set_verify") /\ Stores(c, "verify") /\ UNCHANGED pending
set_password_reset_token(c) == CAt(c, "set_reset") /\ Stores(c, "reset") /\ UNCHANGED pending
set_pending_email(c) ==
    CAt(c, "set_pending") /\ Stores(c, "change") /\ pending' = ccall[c].addr

\* Excused: the token was replaced, or used, since this call stored it.
Mail(c) ==
    LET q == ccall[c]
    IN  /\ CAt(c, "mail") /\ CGoes(c, q)
        /\ sent' = [sent EXCEPT ![q.tok] = [kind |-> q.kind, addr |-> q.addr]]
        /\ newest' = [newest EXCEPT ![q.kind] = q.tok]
        /\ overtaken' = [overtaken EXCEPT ![q.kind] = @ \/ token[q.kind] # q.tok]
        /\ UNCHANGED <<credRow, codes, devices, others, cbegun, credTurns, minted, proved,
                       crossedMail, born, swept, made>>

ExpireToken(k) ==
    /\ Turn
    /\ live[k] /\ live' = [live EXCEPT ![k] = FALSE]
    /\ UNCHANGED <<email, verified, pending, token, password, codes, devices, others, sent, ccall,
                   cbegun, minted, credGhosts>>

-----------------------------------------------------------------------------
(* verify_email, password_reset_complete, email_change_verify.             *)

FindToken(c) ==
    LET q == ccall[c]
        found == token[q.kind] = q.tok /\ live[q.kind]
    IN  /\ CAt(c, "find_token") /\ CGoesIf(c, found, q)
        /\ proved' = IF found THEN proved \cup {q.addr} ELSE proved
        /\ UNCHANGED <<credRow, codes, devices, others, sent, cbegun, credTurns, minted, newest,
                       overtaken, crossedMail, born, swept, made>>

\* The last step is by the account's id and wipes whatever token is stored by
\* then.  Excused: that is no longer the token this call looked up.
Wipes(c, k) ==
    LET replaced == token[k] # ccall[c].tok
    IN  /\ token' = [token EXCEPT ![k] = 0] /\ live' = [live EXCEPT ![k] = FALSE]
        /\ newest' = IF replaced THEN newest ELSE [newest EXCEPT ![k] = 0]
        /\ overtaken' = [overtaken EXCEPT ![k] = @ \/ replaced]
        /\ crossedMail' = (crossedMail \/ (k = "change" /\ replaced))
        /\ UNCHANGED <<codes, devices, others, sent, cbegun, credTurns, minted, proved, born,
                       swept, made>>

mark_email_verified(c) ==
    /\ CAt(c, "mark") /\ CGoes(c, ccall[c]) /\ Wipes(c, "verify") /\ verified' = TRUE
    /\ UNCHANGED <<email, pending, password>>

complete_password_reset(c) ==
    /\ CAt(c, "reset") /\ Wipes(c, "reset")
    /\ password < MaxPasswords /\ password' = password + 1
    /\ CGoes(c, [ccall[c] EXCEPT !.pw = password + 1])
    /\ UNCHANGED <<email, verified, pending>>

\* Nothing without a staged address; refused when another account has it.
commit_pending_email(c) ==
    /\ CAt(c, "commit") /\ CGoes(c, ccall[c]) /\ UNCHANGED password
    /\ IF pending # 0 /\ pending \notin others
       THEN Wipes(c, "change") /\ email' = pending /\ verified' = TRUE /\ pending' = 0
       ELSE UNCHANGED <<email, verified, pending, token, live, codes, devices, others, sent,
                        cbegun, credTurns, minted, credGhosts>>

\* Another account signs up with an address.
OtherSignsUp(a) ==
    /\ Turn
    /\ a # email /\ a \notin others /\ others' = others \cup {a}
    /\ UNCHANGED <<credRow, codes, devices, sent, ccall, cbegun, minted, credGhosts>>

-----------------------------------------------------------------------------
(* change_password, and the sweep of the devices.                          *)

CheckPassword(c) ==
    /\ CAt(c, "check") /\ CGoesIf(c, ccall[c].pw = password, ccall[c])
    /\ UNCHANGED <<credRow, codes, devices, others, sent, cbegun, credTurns, minted, credGhosts>>

update_password(c) ==
    /\ CAt(c, "update") /\ password < MaxPasswords /\ password' = password + 1
    /\ CGoes(c, [ccall[c] EXCEPT !.pw = password + 1])
    /\ UNCHANGED <<email, verified, pending, token, live, codes, devices, others, sent, cbegun,
                   credTurns, minted, credGhosts>>

revoke_all_for_user(c) ==
    /\ CAt(c, "revoke_all") /\ CGoes(c, ccall[c])
    /\ devices' = [d \in Pairings |-> IF devices[d] = "none" THEN "none" ELSE "revoked"]
    /\ swept' = IF ccall[c].pw > swept THEN ccall[c].pw ELSE swept
    /\ UNCHANGED <<credRow, codes, others, sent, cbegun, credTurns, minted, proved, newest,
                   overtaken, crossedMail, born, made>>

-----------------------------------------------------------------------------
(* Pairing a device.                                                       *)

create_pairing(p) ==
    /\ cbegun < MaxCredCalls /\ cbegun' = cbegun + 1
    /\ codes[p] = "none" /\ codes' = [codes EXCEPT ![p] = "open"]
    /\ UNCHANGED <<credRow, devices, others, sent, ccall, credTurns, minted, credGhosts>>

ExpireCode(p) ==
    /\ Turn
    /\ codes[p] = "open" /\ codes' = [codes EXCEPT ![p] = "expired"]
    /\ UNCHANGED <<credRow, devices, others, sent, ccall, cbegun, minted, credGhosts>>

\* One transaction with the code's row locked.
RedeemCode(c) ==
    LET p == ccall[c].tok
        ok == codes[p] = "open"
    IN  /\ CAt(c, "redeem") /\ CGoes(c, ccall[c])
        /\ codes' = IF ok THEN [codes EXCEPT ![p] = "redeemed"] ELSE codes
        /\ devices' = IF ok THEN [devices EXCEPT ![p] = "active"] ELSE devices
        /\ born' = IF ok THEN [born EXCEPT ![p] = password] ELSE born
        /\ made' = IF ok THEN [made EXCEPT ![p] = @ + 1] ELSE made
        /\ UNCHANGED <<credRow, others, sent, cbegun, credTurns, minted, proved, newest,
                       overtaken, crossedMail, swept>>

\* DELETE of one device.
RevokeDevice(d) ==
    /\ Turn
    /\ devices[d] = "active" /\ devices' = [devices EXCEPT ![d] = "revoked"]
    /\ UNCHANGED <<credRow, codes, others, sent, ccall, cbegun, minted, credGhosts>>

-----------------------------------------------------------------------------
CredStep(c) ==
    \/ FindStart(c) \/ set_verification_token(c) \/ set_password_reset_token(c)
    \/ set_pending_email(c) \/ Mail(c) \/ FindToken(c)
    \/ mark_email_verified(c) \/ complete_password_reset(c) \/ commit_pending_email(c)
    \/ CheckPassword(c) \/ update_password(c) \/ revoke_all_for_user(c) \/ RedeemCode(c)

CredNext ==
    \/ \E c \in CredCalls :
        \/ \E q \in CredRequests : BeginCred(c, q)
        \/ CredStep(c) \/ CredFails(c)
    \/ \E k \in LinkKinds : ExpireToken(k)
    \/ \E a \in Addresses : OtherSignsUp(a)
    \/ \E p \in Pairings : create_pairing(p) \/ ExpireCode(p) \/ RevokeDevice(p)

CredSpec == CredInit /\ [][CredNext]_credVars

-----------------------------------------------------------------------------
(* Properties.                                                             *)

\* Type invariant.
CredTypeOK ==
    /\ email \in Addresses /\ pending \in 0 .. MaxAddresses /\ verified \in BOOLEAN
    /\ token \in [LinkKinds -> 0 .. MaxTokens] /\ live \in [LinkKinds -> BOOLEAN]
    /\ password \in 0 .. MaxPasswords /\ others \subseteq Addresses
    /\ devices \in [Pairings -> {"none", "active", "revoked"}]

\* A verified address is one whose own link was opened.  Excused is an address
\* staged between email_change_verify's lookup and its commit, which commits it.
VerifiedWasOpened == verified /\ ~crossedMail => email \in proved

\* The newest link mailed of each kind is the stored one until it is used: a user
\* who opens the last mail they got is not told it is unknown.  Excused are
\* requests of the same kind that overlap: a token replaced before its mail
\* left, and a completion that wipes a token younger than the one it looked up.
NewestLinkStands ==
    \A k \in LinkKinds : newest[k] # 0 /\ ~overtaken[k] =>
        \/ token[k] = newest[k]
        \/ \E c \in CredCalls : CAt(c, "mail") /\ ccall[c].kind = k

\* A device that is not revoked was paired under the password in force at the
\* last sweep, or a later one: "Force a re-pair on every device"
\* (auth_routes.rs:523), whatever else ran between the update and the sweep.
SweptArePaired == \A d \in Pairings : devices[d] = "active" => born[d] >= swept

\* A pairing code makes at most one device.
PairsOnce == \A p \in Pairings : made[p] <= 1

\* What the routes of the credentials keep between them.
CredentialsSound ==
    CredTypeOK /\ VerifiedWasOpened /\ NewestLinkStands /\ SweptArePaired /\ PairsOnce
=============================================================================
