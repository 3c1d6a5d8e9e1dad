------------------------------ MODULE Waitlist ------------------------------
(***************************************************************************)
(* The public-beta gate: the waitlist and its admission rule (waitlist.rs, *)
(* waitlist_routes.rs) and the account sign-up that spends an invite       *)
(* (auth_routes.rs signup).  A call is one request in flight; between its  *)
(* statements the others run.  Invites are numbered as they are minted.    *)
(***************************************************************************)
EXTENDS Integers, FiniteSets

CONSTANTS Emails, Calls, Caps, MaxWaitCalls, MaxInvites, MaxWaitFaults

NoCall == "no call"
NoEmail == "no email"
NoInvite == 0
NoEntry == [how |-> "none", invite |-> NoInvite, used |-> FALSE]
Free == [at |-> "free", e |-> NoEmail, t |-> NoInvite, n |-> 0]

VARIABLES entries,   \* email -> its waitlist row: how it was admitted, its invite, whether that is spent
          cap, gate, \* waitlist_config
          admission, \* the call that has WAITLIST_ADMISSION_LOCK
          calls,     \* call -> the request it carries out
          minted, started, waitFaults,
          inbox,     \* invites that were mailed
          accounts,  \* invite -> accounts it opened
          peakCap,   \* history: the highest cap there was
          withdrawn, \* history: invites whose row was deleted
          burnt,     \* history: invites a fault left spent
          unsure     \* history: invites given back although the account had been made

waitVars == <<entries, cap, gate, admission, calls, minted, started, waitFaults, inbox, accounts,
              peakCap, withdrawn, burnt, unsure>>

Invites == 1 .. MaxInvites
WaitInit ==
    /\ entries = [e \in Emails |-> NoEntry]
    /\ cap \in Caps /\ gate \in BOOLEAN /\ peakCap = cap
    /\ admission = NoCall /\ calls = [c \in Calls |-> Free]
    /\ minted = 0 /\ started = 0 /\ waitFaults = 0
    /\ inbox = {} /\ accounts = [t \in Invites |-> 0]
    /\ withdrawn = {} /\ burnt = {} /\ unsure = {}

Begin(c) == calls[c] = Free /\ started < MaxWaitCalls /\ started' = started + 1
Go(c, at, e, t, n) == calls' = [calls EXCEPT ![c] = [at |-> at, e |-> e, t |-> t, n |-> n]]
Done(c) == calls' = [calls EXCEPT ![c] = Free]
WaitFault == waitFaults < MaxWaitFaults /\ waitFaults' = waitFaults + 1
Mint == minted < MaxInvites /\ minted' = minted + 1
Admitted == {e \in Emails : entries[e].how \in {"auto", "hand"}}
Entry(how, t) == [how |-> how, invite |-> t, used |-> FALSE]

-----------------------------------------------------------------------------
(* join and WaitlistStore::signup                                          *)

\* Mutant: the decision is not serialised.
AnyTurn(c) == UNCHANGED admission
\* pg_advisory_xact_lock: one decision at a time.
TakeTurn(c) == admission = NoCall /\ admission' = c

\* An email that is already listed is only told so; otherwise the cap is read.
signup(c, e) ==
    /\ Begin(c)
    /\ IF entries[e] # NoEntry
       THEN UNCHANGED <<calls, admission>> /\ admission = NoCall
       ELSE TakeTurn(c) /\ Go(c, "count", e, NoInvite, cap)
    /\ UNCHANGED <<entries, cap, gate, minted, waitFaults, inbox, accounts, peakCap, withdrawn,
                   burnt, unsure>>

CountAdmitted(c) ==
    /\ calls[c].at = "count"
    /\ Go(c, IF Cardinality(Admitted) < calls[c].n THEN "admit" ELSE "queue", calls[c].e, NoInvite, 0)
    /\ UNCHANGED <<entries, cap, gate, admission, minted, started, waitFaults, inbox, accounts,
                   peakCap, withdrawn, burnt, unsure>>

ReleaseTurn(c) == admission' = IF admission = c THEN NoCall ELSE admission

\* The unique index on the email refuses a second row.
InsertAdmitted(c) ==
    /\ calls[c].at = "admit" /\ entries[calls[c].e] = NoEntry /\ Mint
    /\ entries' = [entries EXCEPT ![calls[c].e] = Entry("auto", minted')]
    /\ ReleaseTurn(c) /\ Go(c, "mail", calls[c].e, minted', 0)
    /\ UNCHANGED <<cap, gate, started, waitFaults, inbox, accounts, peakCap, withdrawn, burnt,
                   unsure>>

InsertQueued(c) ==
    /\ calls[c].at = "queue" /\ entries[calls[c].e] = NoEntry
    /\ entries' = [entries EXCEPT ![calls[c].e] = Entry("queued", NoInvite)]
    /\ ReleaseTurn(c) /\ Done(c)
    /\ UNCHANGED <<cap, gate, minted, started, waitFaults, inbox, accounts, peakCap, withdrawn,
                   burnt, unsure>>

\* A failed send is logged, and the row stays admitted.
SendInvite(c) ==
    /\ calls[c].at = "mail" /\ Done(c)
    /\ \/ inbox' = inbox \cup {calls[c].t} /\ UNCHANGED waitFaults
       \/ WaitFault /\ UNCHANGED inbox
    /\ UNCHANGED <<entries, cap, gate, admission, minted, started, accounts, peakCap, withdrawn,
                   burnt, unsure>>

-----------------------------------------------------------------------------
(* The moderators' console.                                                *)

StillQueued(e) == entries[e].how = "queued"

admit_batch(c, e) ==
    /\ Begin(c) /\ StillQueued(e) /\ Mint
    /\ entries' = [entries EXCEPT ![e] = Entry("hand", minted')]
    /\ Go(c, "mail", e, minted', 0)
    /\ UNCHANGED <<cap, gate, admission, waitFaults, inbox, accounts, peakCap, withdrawn, burnt,
                   unsure>>

resend_batch(c, e) ==
    /\ Begin(c) /\ e \in Admitted /\ Go(c, "mail", e, entries[e].invite, 0)
    /\ UNCHANGED <<entries, cap, gate, admission, minted, waitFaults, inbox, accounts,
                   peakCap, withdrawn, burnt, unsure>>

Deletable(e) == entries[e] # NoEntry /\ ~entries[e].used

delete_batch(e) ==
    /\ Deletable(e) /\ started < MaxWaitCalls /\ started' = started + 1
    /\ entries' = [entries EXCEPT ![e] = NoEntry]
    /\ withdrawn' = withdrawn \cup ({entries[e].invite} \ {NoInvite})
    /\ UNCHANGED <<cap, gate, admission, calls, minted, waitFaults, inbox, accounts, peakCap,
                   burnt, unsure>>

set_config(n, on) ==
    /\ <<n, on>> # <<cap, gate>> /\ started < MaxWaitCalls /\ started' = started + 1
    /\ cap' = n /\ gate' = on /\ peakCap' = IF n > peakCap THEN n ELSE peakCap
    /\ UNCHANGED <<entries, admission, calls, minted, waitFaults, inbox, accounts, withdrawn,
                   burnt, unsure>>

-----------------------------------------------------------------------------
(* Opening an account (auth_routes.rs signup).                             *)

\* The holder of a mailed invite, or somebody without one, signs up.
ReadGate(c, t) ==
    /\ Begin(c) /\ t \in inbox \cup {NoInvite}
    /\ IF gate THEN t # NoInvite /\ Go(c, "redeem", NoEmail, t, 0)
               ELSE Go(c, "create", NoEmail, NoInvite, 0)
    /\ UNCHANGED <<entries, cap, gate, admission, minted, waitFaults, inbox, accounts,
                   peakCap, withdrawn, burnt, unsure>>

Redeemable(t) == {e \in Admitted : entries[e].invite = t /\ ~entries[e].used}

redeem_invite(c) ==
    /\ calls[c].at = "redeem"
    /\ IF Redeemable(calls[c].t) = {} THEN Done(c) /\ UNCHANGED entries
       ELSE /\ entries' = [e \in Emails |-> IF e \in Redeemable(calls[c].t)
                                            THEN [entries[e] EXCEPT !.used = TRUE] ELSE entries[e]]
            /\ Go(c, "create", NoEmail, calls[c].t, 0)
    /\ UNCHANGED <<cap, gate, admission, minted, started, waitFaults, inbox, accounts,
                   peakCap, withdrawn, burnt, unsure>>

\* The account is made; or the hash, the email or the handle is refused; or
\* the insert commits and its answer is lost.
create(c) ==
    /\ calls[c].at = "create"
    /\ \/ /\ Done(c) /\ UNCHANGED <<waitFaults, unsure>>
          /\ accounts' = [t \in Invites |-> accounts[t] + (IF t = calls[c].t THEN 1 ELSE 0)]
       \/ Go(c, "release", NoEmail, calls[c].t, 0) /\ UNCHANGED <<waitFaults, accounts, unsure>>
       \/ /\ WaitFault /\ Go(c, "release", NoEmail, calls[c].t, 0)
          /\ unsure' = unsure \cup ({calls[c].t} \ {NoInvite})
          /\ accounts' = [t \in Invites |-> accounts[t] + (IF t = calls[c].t THEN 1 ELSE 0)]
    /\ UNCHANGED <<entries, cap, gate, admission, minted, started, inbox, peakCap, withdrawn,
                   burnt>>

release_invite(c) ==
    /\ calls[c].at = "release" /\ Done(c)
    /\ \/ /\ entries' = [e \in Emails |-> IF e \in Admitted /\ entries[e].invite = calls[c].t
                                          THEN [entries[e] EXCEPT !.used = FALSE] ELSE entries[e]]
          /\ UNCHANGED <<waitFaults, burnt>>
       \/ WaitFault /\ burnt' = burnt \cup {calls[c].t} /\ UNCHANGED entries
    /\ UNCHANGED <<cap, gate, admission, minted, started, inbox, accounts, peakCap, withdrawn,
                   unsure>>

\* The server stops, or the connection is gone: an open transaction rolls back.
Dropped(c) ==
    /\ calls[c] # Free /\ WaitFault /\ Done(c) /\ ReleaseTurn(c)
    /\ burnt' = IF calls[c].at \in {"create", "release"} THEN burnt \cup {calls[c].t} ELSE burnt
    /\ UNCHANGED <<entries, cap, gate, minted, started, inbox, accounts, peakCap, withdrawn,
                   unsure>>

-----------------------------------------------------------------------------
WaitNext ==
    \/ \E c \in Calls :
        \/ \E e \in Emails : signup(c, e) \/ admit_batch(c, e) \/ resend_batch(c, e)
        \/ CountAdmitted(c) \/ InsertAdmitted(c) \/ InsertQueued(c) \/ SendInvite(c)
        \/ \E t \in Invites \cup {NoInvite} : ReadGate(c, t)
        \/ redeem_invite(c) \/ create(c) \/ release_invite(c) \/ Dropped(c)
    \/ \E e \in Emails : delete_batch(e)
    \/ \E n \in Caps, on \in BOOLEAN : set_config(n, on)

WaitSpec == WaitInit /\ [][WaitNext]_waitVars

-----------------------------------------------------------------------------
(* Properties.                                                             *)

\* Type invariant.
WaitTypeOK ==
    /\ entries \in [Emails -> [how : {"none", "queued", "auto", "hand"},
                              invite : Invites \cup {NoInvite}, used : BOOLEAN]]
    /\ admission \in Calls \cup {NoCall} /\ minted \in 0 .. MaxInvites
    /\ \A c \in Calls : calls[c].at \in {"free", "count", "admit", "queue", "mail",
                                         "redeem", "create", "release"}

\* The cap is never overrun by the people who let themselves in: however many
\* sign up at once, and whatever moderators admit, delete or configure
\* meanwhile, the rows admitted on sign-up are at most the highest cap set.
CapKept ==
    Cardinality({e \in Emails : entries[e].how = "auto"}) <= peakCap

\* A link that was mailed stays the one that opens the door: it is its row's
\* invite until the row is deleted.  Nothing mints over it.
MailedLinkLives ==
    \A t \in inbox \ withdrawn : \E e \in Admitted : entries[e].invite = t

\* One invite opens one account, however often it is submitted at once;
\* excused is the invite given back because the answer to the insert was lost.
OneAccountPerInvite == \A t \in Invites \ unsure : accounts[t] <= 1

\* The row behind an account is kept: while somebody holds an account opened
\* by an invite, moderators cannot delete that row.
InvitedRowKept ==
    \A t \in Invites \ unsure : accounts[t] > 0 => t \notin withdrawn

\* A spent invite is somebody's account or a sign-up still going on: every
\* refusal gives it back, unless the server stopped or the release failed.
InviteNotBurnt ==
    \A e \in Admitted :
        entries[e].used =>
            \/ accounts[entries[e].invite] > 0 \/ entries[e].invite \in burnt
            \/ \E c \in Calls : calls[c].t = entries[e].invite /\ calls[c].at \in {"create", "release"}

\* What the waitlist keeps: the cap, the links that were mailed, the rows of
\* those invited, and one account for each invite.
InvitesSound ==
    /\ WaitTypeOK /\ CapKept /\ MailedLinkLives
    /\ OneAccountPerInvite /\ InvitedRowKept /\ InviteNotBurnt
=============================================================================
