------------------------------ MODULE DeskProofs ----------------------------
(***************************************************************************)
(* What the waitlist keeps, for every finite set of emails, any requests   *)
(* in flight, any caps and any number of calls, invites and failures; and  *)
(* what a community submission's shape keeps, for any users, moderators    *)
(* and submissions and any number of events.                               *)
(*                                                                         *)
(* The waitlist: an invite belongs to one row until the row is deleted; a  *)
(* sign-up that holds an invite has marked its row as used, and a used row *)
(* cannot be redeemed again nor deleted; a decision to admit is made by    *)
(* the one request that has the advisory lock, so nobody else lets         *)
(* themselves in between its count and its insert.                         *)
(*                                                                         *)
(* Submissions: the promises are not inductive because a call writes from  *)
(* what an earlier step of it read.  SubmissionInv adds what is left of    *)
(* each call (DeskTypes), what its earlier reads still tell it             *)
(* (CallsKnow), that a row is linked only to a submission that is there    *)
(* (LinksHold), and that the transaction that flags it is alone and has    *)
(* read its present status (FlagsAlone).                                   *)
(***************************************************************************)
EXTENDS Submissions, Waitlist, TLAPS

\* Zenon proves a leaf unless the leaf cites SMT, which the arithmetic needs.
USE Zenon

-----------------------------------------------------------------------------
(* The waitlist.                                                           *)

WaitBounds ==
    /\ IsFiniteSet(Emails) /\ Caps \subseteq Nat /\ MaxInvites \in Nat
    /\ MaxWaitCalls \in Nat /\ MaxWaitFaults \in Nat /\ NoCall \notin Calls

\* What the cap needs of cardinalities; proved last, where the theorems about
\* finite sets come in.
Counting ==
    /\ \A S, T : IsFiniteSet(S) /\ T \subseteq S =>
         /\ IsFiniteSet(T) /\ Cardinality(T) \in Nat /\ Cardinality(S) \in Nat
         /\ Cardinality(T) <= Cardinality(S)
    /\ \A S, x : IsFiniteSet(S) /\ x \notin S => Cardinality(S \cup {x}) = Cardinality(S) + 1
    /\ Cardinality({}) = 0

LetIn == {e \in Emails : entries[e].how = "auto"}

Deciding == {"count", "admit", "queue"}

RowShape ==
    [how : {"none", "queued", "auto", "hand"}, invite : Invites \cup {NoInvite}, used : BOOLEAN]

CallShape ==
    [at : {"free", "count", "admit", "queue", "mail", "redeem", "create", "release"},
     e : Emails \cup {NoEmail}, t : Invites \cup {NoInvite}, n : Nat]

\* The types of all the proofs use.
WaitTypes ==
    /\ entries \in [Emails -> RowShape]
    /\ cap \in Nat /\ peakCap \in Nat /\ cap <= peakCap
    /\ admission \in Calls \cup {NoCall} /\ minted \in 0 .. MaxInvites
    /\ calls \in [Calls -> CallShape]
    /\ \A c \in Calls : calls[c].at \in Deciding => calls[c].e \in Emails
    /\ inbox \subseteq Invites /\ accounts \in [Invites -> Nat]

\* An admitted row has an invite of its own; the others have none.
RowsInv ==
    /\ \A e \in Emails : entries[e].how = "none" => entries[e] = NoEntry
    /\ \A e \in Emails : e \notin Admitted => entries[e].invite = NoInvite /\ ~entries[e].used
    /\ \A e \in Admitted : entries[e].invite \in 1 .. minted
    /\ \A e, f \in Admitted : entries[e].invite = entries[f].invite => e = f

\* An invite that was sent, or is about to be, is its row's until the row goes.
LinksInv ==
    /\ \A t \in inbox \ withdrawn : \E e \in Admitted : entries[e].invite = t
    /\ \A c \in Calls : calls[c].at = "mail" /\ calls[c].t \notin withdrawn
          => calls[c].t \in Invites /\ \E e \in Admitted : entries[e].invite = calls[c].t
    /\ \A c \in Calls : calls[c].at = "mail" => calls[c].t \in Invites
    /\ withdrawn \subseteq 1 .. minted /\ inbox \subseteq 1 .. minted
    /\ \A c \in Calls : calls[c].t \in 0 .. minted
    /\ \A t \in Invites : accounts[t] > 0 => t <= minted

\* One request decides at a time, and the cap leaves room for what it decided.
CapInv ==
    /\ \A c \in Calls : calls[c].at \in Deciding => admission = c
    /\ \A c \in Calls : calls[c].at = "count" => calls[c].n <= peakCap
    /\ \A c \in Calls : calls[c].at = "admit" => Cardinality(LetIn) < peakCap
    /\ Cardinality(LetIn) <= peakCap

\* A sign-up that has spent invite t.
Holds(c, t) == calls[c].at \in {"create", "release"} /\ calls[c].t = t

\* An invite is spent by one sign-up or by one account, and its row is marked
\* as used as long as it is.
SpentInv ==
    /\ \A t \in Invites \ unsure : \A c, d \in Calls : Holds(c, t) /\ Holds(d, t) => c = d
    /\ \A t \in Invites \ unsure : accounts[t] <= 1
    /\ \A t \in Invites \ unsure : \A c \in Calls : Holds(c, t) => accounts[t] = 0
    /\ \A t \in Invites \ unsure : \A c \in Calls : Holds(c, t) => t \notin withdrawn
    /\ \A t \in Invites \ unsure : accounts[t] > 0 => t \notin withdrawn
    /\ \A e \in Admitted : entries[e].invite \notin withdrawn
    /\ \A t \in Invites \ unsure : \A e \in Admitted :
          entries[e].invite = t /\ (accounts[t] > 0 \/ \E c \in Calls : Holds(c, t))
             => entries[e].used

\* A used row is somebody's account, or a sign-up's, unless a fault left it so.
UsedInv ==
    \A t \in Invites \ burnt : \A e \in Admitted :
        entries[e].invite = t /\ entries[e].used
           => accounts[t] > 0 \/ \E c \in Calls : Holds(c, t)

WaitInv == WaitTypes /\ RowsInv /\ LinksInv /\ CapInv /\ SpentInv /\ UsedInv

-----------------------------------------------------------------------------
\* An admitted row's invite is an invite.
LEMMA RowsOfInv == ASSUME Counting, WaitBounds, WaitTypes, RowsInv, NEW e \in Admitted
                   PROVE e \in Emails /\ entries[e].invite \in Invites
BY SMT DEF WaitBounds, WaitTypes, RowsInv, Admitted, Invites

\* The invariant gives what the run checks.
LEMMA WaitInvSound == Counting /\ WaitBounds /\ WaitInv => InvitesSound
<1> SUFFICES ASSUME Counting, WaitBounds, WaitInv PROVE InvitesSound
  OBVIOUS
<1> USE DEF WaitInv
<1>1. WaitTypeOK
  BY DEF WaitTypes, CallShape, RowShape, WaitTypeOK
<1>2. CapKept
  BY DEF CapInv, CapKept, LetIn
<1>3. MailedLinkLives
  BY DEF LinksInv, MailedLinkLives
<1>4. OneAccountPerInvite /\ InvitedRowKept
  BY DEF SpentInv, OneAccountPerInvite, InvitedRowKept
<1>5. InviteNotBurnt
  <2>1. \A e \in Admitted : entries[e].invite \in Invites
    BY RowsOfInv
  <2> QED  BY <2>1 DEF UsedInv, InviteNotBurnt, Holds
<1> QED  BY <1>1, <1>2, <1>3, <1>4, <1>5 DEF InvitesSound

\* The invariant holds at first.
LEMMA WaitInvInit == Counting /\ WaitBounds /\ WaitInit => WaitInv
<1> SUFFICES ASSUME Counting, WaitBounds, WaitInit PROVE WaitInv
  OBVIOUS
<1> USE DEF WaitInit, NoEntry, Free, NoInvite
<1>1. WaitTypes
  BY SMT DEF WaitBounds, WaitTypes, CallShape, RowShape, Deciding, Invites
<1>2. Admitted = {} /\ LetIn = {}
  BY DEF Admitted, LetIn
<1>3. RowsInv
  BY <1>2 DEF RowsInv
<1>4. LinksInv
  BY SMT DEF LinksInv, Invites
<1>5. CapInv
  BY <1>1, <1>2, SMT DEF CapInv, Deciding, WaitTypes, Counting
<1>6. SpentInv /\ UsedInv
  BY <1>2, SMT DEF SpentInv, UsedInv, Holds, Invites
<1> QED  BY <1>1, <1>3, <1>4, <1>5, <1>6 DEF WaitInv

-----------------------------------------------------------------------------
\* Steps that change no row, and no sign-up that has spent an invite.
Quiet ==
    /\ UNCHANGED <<entries, minted, accounts, withdrawn, burnt, unsure>>
    /\ \A d \in Calls, t \in Invites : Holds(d, t)' <=> Holds(d, t)

LEMMA QuietKeeps ==
    ASSUME WaitInv, Quiet
    PROVE  Admitted' = Admitted /\ LetIn' = LetIn /\ RowsInv' /\ SpentInv' /\ UsedInv'
<1> USE DEF WaitInv
<1>1. Admitted' = Admitted /\ LetIn' = LetIn
  BY DEF Quiet, Admitted, LetIn
<1>2. RowsInv'
  BY <1>1 DEF Quiet, RowsInv
<1>3. SpentInv'
  BY <1>1 DEF Quiet, SpentInv
<1>4. UsedInv'
  BY <1>1 DEF Quiet, UsedInv
<1> QED  BY <1>1, <1>2, <1>3, <1>4

\* A request that is not deciding afterwards leaves the cap as it was.
LEMMA UndecidedKeepsCap ==
    ASSUME WaitInv, NEW c \in Calls, NEW r, calls' = [calls EXCEPT ![c] = r],
           r.at \notin Deciding, LetIn' = LetIn, peakCap' = peakCap,
           admission' = admission \/ ReleaseTurn(c)
    PROVE  CapInv'
<1> USE DEF WaitInv
<1>1. calls'[c] = r /\ \A d \in Calls : d # c => calls'[d] = calls[d]
  BY DEF WaitTypes
<1>2. \A d \in Calls : calls'[d].at \in Deciding => d # c /\ calls[d].at \in Deciding
  BY <1>1
<1>3. \A d \in Calls : calls'[d].at \in Deciding => admission' = d
  BY <1>2 DEF CapInv, ReleaseTurn
<1>4. \A d \in Calls : calls'[d].at = "count" => calls'[d].n <= peakCap'
  BY <1>1, <1>2 DEF CapInv, Deciding
<1>5. \A d \in Calls : calls'[d].at = "admit" => Cardinality(LetIn') < peakCap'
  BY <1>1, <1>2 DEF CapInv, Deciding
<1> QED  BY <1>3, <1>4, <1>5 DEF CapInv

\* A request that is not sending a mail afterwards leaves the links as they were.
LEMMA UnmailedKeepsLinks ==
    ASSUME WaitInv, NEW c \in Calls, NEW r, calls' = [calls EXCEPT ![c] = r],
           r.at # "mail", r.t \in 0 .. minted, Admitted' = Admitted,
           \A e \in Admitted : entries'[e].invite = entries[e].invite,
           UNCHANGED <<minted, inbox, withdrawn, accounts>>
    PROVE  LinksInv'
<1> USE DEF WaitInv
<1>1. calls'[c] = r /\ \A d \in Calls : d # c => calls'[d] = calls[d]
  BY DEF WaitTypes
<1>2. \A t \in inbox' \ withdrawn' : \E e \in Admitted' : entries'[e].invite = t
  BY SMT DEF LinksInv
<1>3. \A d \in Calls : calls'[d].at = "mail" /\ calls'[d].t \notin withdrawn'
          => calls'[d].t \in Invites /\ \E e \in Admitted' : entries'[e].invite = calls'[d].t
  BY <1>1, SMT DEF LinksInv
<1>4. \A d \in Calls : calls'[d].at = "mail" => calls'[d].t \in Invites
  BY <1>1 DEF LinksInv
<1>5. \A d \in Calls : calls'[d].t \in 0 .. minted'
  BY <1>1 DEF LinksInv
<1> QED  BY <1>2, <1>3, <1>4, <1>5 DEF LinksInv

-----------------------------------------------------------------------------
\* A request that finds its email listed, or begins to decide.
LEMMA SignupKeeps ==
    ASSUME Counting, WaitBounds, WaitInv, NEW c \in Calls, NEW e \in Emails, signup(c, e)
    PROVE  WaitInv'
<1> USE DEF WaitInv
<1>1. /\ UNCHANGED <<entries, minted, cap, peakCap, inbox, accounts, withdrawn, burnt, unsure>>
      /\ calls[c] = Free
  BY DEF signup, Begin
<1>2. CASE UNCHANGED <<calls, admission>>
  <2>1. WaitTypes'
    BY <1>1, <1>2 DEF WaitTypes
  <2>2. Quiet
    BY <1>1, <1>2 DEF Quiet, Holds
  <2>3. LinksInv' /\ CapInv'
    BY <1>1, <1>2, <2>2, QuietKeeps DEF LinksInv, CapInv
  <2> QED  BY <2>1, <2>2, <2>3, QuietKeeps
<1>3. CASE TakeTurn(c) /\ Go(c, "count", e, NoInvite, cap)
  <2> DEFINE r == [at |-> "count", e |-> e, t |-> NoInvite, n |-> cap]
  <2>1. /\ calls' = [calls EXCEPT ![c] = r]
        /\ admission = NoCall /\ admission' = c
    BY <1>3 DEF Go, TakeTurn
  <2>2. calls'[c] = r /\ \A d \in Calls : d # c => calls'[d] = calls[d]
    BY <2>1 DEF WaitTypes
  <2>3. WaitTypes'
    BY <1>1, <2>1, <2>2 DEF WaitTypes, CallShape, RowShape, Deciding
  <2>4. Quiet
    BY <1>1, <2>2, SMT DEF Quiet, Holds, Free
  <2>5. LinksInv'
    <3>1. r.at # "mail" /\ r.t \in 0 .. minted
      BY SMT DEF WaitTypes, NoInvite
    <3> HIDE DEF r
    <3> QED  BY <1>1, <2>1, <2>4, <3>1, UnmailedKeepsLinks, QuietKeeps
  <2>6. \A d \in Calls : calls[d].at \notin Deciding
    BY <2>1 DEF CapInv, WaitBounds
  <2>7. CapInv'
    <3>1. \A d \in Calls : calls'[d].at \in Deciding => d = c
      BY <2>2, <2>6
    <3>2. calls'[c].n <= peakCap' /\ calls'[c].at # "admit"
      BY <1>1, <2>2, SMT DEF WaitTypes
    <3>3. Cardinality(LetIn') <= peakCap'
      BY <1>1, <2>4, QuietKeeps DEF CapInv
    <3> QED  BY <2>1, <3>1, <3>2, <3>3 DEF CapInv, Deciding
  <2> QED  BY <2>3, <2>4, <2>5, <2>7, QuietKeeps
<1> QED  BY <1>2, <1>3 DEF signup

\* The count is of all who were admitted, and those who let themselves in are
\* among them.
LEMMA CountKeeps ==
    ASSUME Counting, WaitBounds, WaitInv, NEW c \in Calls, CountAdmitted(c)
    PROVE  WaitInv'
<1> USE DEF WaitInv
<1> DEFINE r == [at |-> IF Cardinality(Admitted) < calls[c].n THEN "admit" ELSE "queue",
                 e |-> calls[c].e, t |-> NoInvite, n |-> 0]
<1>1. /\ UNCHANGED <<entries, minted, cap, peakCap, inbox, accounts, withdrawn, burnt, unsure>>
      /\ admission' = admission /\ calls[c].at = "count" /\ calls' = [calls EXCEPT ![c] = r]
  BY DEF CountAdmitted, Go
<1>2. calls'[c] = r /\ \A d \in Calls : d # c => calls'[d] = calls[d]
  BY <1>1 DEF WaitTypes
<1>3. calls[c].e \in Emails /\ r.at \in {"admit", "queue"} /\ r.t = 0
  BY <1>1 DEF WaitTypes, Deciding, NoInvite
<1>4. WaitTypes'
  BY <1>1, <1>2, <1>3 DEF WaitTypes, CallShape, RowShape, Deciding
<1>5. Quiet
  BY <1>1, <1>2, <1>3 DEF Quiet, Holds
<1>6. LinksInv'
  <2>1. r.at # "mail" /\ r.t \in 0 .. minted
    BY <1>3, SMT DEF WaitTypes
  <2> HIDE DEF r
  <2> QED  BY <1>1, <1>5, <2>1, UnmailedKeepsLinks, QuietKeeps
<1>7. CapInv'
  <2>1. \A d \in Calls : calls'[d].at \in Deciding => admission' = d
    BY <1>1, <1>2 DEF CapInv, Deciding
  <2>2. \A d \in Calls : calls'[d].at = "count" => calls'[d].n <= peakCap'
    BY <1>1, <1>2, <1>3 DEF CapInv
  <2>3. Cardinality(LetIn) <= Cardinality(Admitted)
    <3>1. LetIn \subseteq Admitted
      BY DEF LetIn, Admitted
    <3>2. IsFiniteSet(Admitted)
      BY DEF WaitBounds, Admitted, Counting
    <3> QED  BY <3>1, <3>2 DEF Counting
  <2>4. /\ IsFiniteSet(Admitted) /\ IsFiniteSet(LetIn)
        /\ Cardinality(Admitted) \in Nat /\ Cardinality(LetIn) \in Nat
    BY DEF WaitBounds, Admitted, LetIn, Counting
  <2>5. r.at = "admit" => Cardinality(LetIn) < peakCap
    <3>1. calls[c].n \in Nat /\ calls[c].n <= peakCap /\ peakCap \in Nat
      BY <1>1 DEF CapInv, WaitTypes, CallShape, RowShape
    <3>2. r.at = "admit" => Cardinality(Admitted) < calls[c].n
      OBVIOUS
    <3> QED  BY <2>3, <2>4, <3>1, <3>2, SMT
  <2>6. \A d \in Calls : calls'[d].at = "admit" => Cardinality(LetIn') < peakCap'
    BY <1>1, <1>2, <1>5, <2>5, QuietKeeps DEF CapInv
  <2>7. Cardinality(LetIn') <= peakCap'
    BY <1>1, <1>5, QuietKeeps DEF CapInv
  <2> QED  BY <2>1, <2>2, <2>6, <2>7 DEF CapInv
<1> QED  BY <1>4, <1>5, <1>6, <1>7, QuietKeeps

\* The mail is sent, or is not.
LEMMA SendKeeps ==
    ASSUME Counting, WaitBounds, WaitInv, NEW c \in Calls, SendInvite(c)
    PROVE  WaitInv'
<1> USE DEF WaitInv
<1>1. /\ UNCHANGED <<entries, minted, cap, peakCap, accounts, withdrawn, burnt, unsure,
                     admission>>
      /\ calls[c].at = "mail" /\ calls' = [calls EXCEPT ![c] = Free]
      /\ inbox' = inbox \cup {calls[c].t} \/ inbox' = inbox
  BY DEF SendInvite, Done
<1>2. calls'[c] = Free /\ \A d \in Calls : d # c => calls'[d] = calls[d]
  BY <1>1 DEF WaitTypes
<1>3. Free.at = "free" /\ Free.t = 0 /\ Free.n = 0 /\ Free.e = NoEmail
  BY DEF Free, NoInvite
<1>4. calls[c].t \in Invites /\ calls[c].t \in 0 .. minted
  BY <1>1 DEF LinksInv
<1>5. WaitTypes'
  BY <1>1, <1>2, <1>4 DEF WaitTypes, CallShape, RowShape, Deciding, Free
<1>6. Quiet
  BY <1>1, <1>2, <1>3 DEF Quiet, Holds
<1>7. CapInv'
  <2>1. Free.at \notin Deciding /\ LetIn' = LetIn /\ admission' = admission /\ peakCap' = peakCap
    BY <1>1, <1>3, <1>6, QuietKeeps DEF Deciding
  <2> QED  BY <1>1, <2>1, UndecidedKeepsCap
<1>8. LinksInv'
  <2>1. inbox' \subseteq 1 .. minted'
    <3>1. calls[c].t \in 1 .. minted
      BY <1>4, SMT DEF Invites, WaitBounds, WaitTypes
    <3>2. inbox \subseteq 1 .. minted /\ minted' = minted
      BY <1>1 DEF LinksInv
    <3> QED  BY <1>1, <3>1, <3>2
  <2>2. \A t \in inbox' \ withdrawn' : \E e \in Admitted' : entries'[e].invite = t
    BY <1>1, <1>6, QuietKeeps DEF LinksInv
  <2>3. \A d \in Calls : calls'[d].at = "mail" => d # c
    BY <1>2, <1>3
  <2>4. \A d \in Calls : calls'[d].t \in 0 .. minted'
    BY <1>1, <1>2, <1>3, SMT DEF LinksInv, WaitTypes
  <2>5. \A d \in Calls : calls'[d].at = "mail" /\ calls'[d].t \notin withdrawn'
          => calls'[d].t \in Invites /\ \E e \in Admitted' : entries'[e].invite = calls'[d].t
    BY <1>1, <1>2, <1>6, <2>3, QuietKeeps, SMT DEF LinksInv
  <2>6. \A d \in Calls : calls'[d].at = "mail" => calls'[d].t \in Invites
    BY <1>2, <2>3 DEF LinksInv
  <2> QED  BY <1>1, <2>1, <2>2, <2>4, <2>5, <2>6 DEF LinksInv
<1> QED  BY <1>5, <1>6, <1>7, <1>8, QuietKeeps

\* A request that ends or goes on without a decision, a mail or a change to
\* what was spent.
LEMMA QuietMoveKeeps ==
    ASSUME WaitInv, NEW c \in Calls, NEW r, calls' = [calls EXCEPT ![c] = r], Quiet,
           r \in [at : {"free", "redeem", "create", "release"}, e : {NoEmail},
                  t : Invites \cup {NoInvite}, n : {0}],
           r.t \in 0 .. minted, UNCHANGED <<cap, peakCap, inbox>>,
           admission' = admission \/ ReleaseTurn(c)
    PROVE  WaitInv'
<1> USE DEF WaitInv
<1>1. calls'[c] = r /\ \A d \in Calls : d # c => calls'[d] = calls[d]
  BY DEF WaitTypes
<1>2. r.at \notin Deciding /\ r.at # "mail"
  BY DEF Deciding
<1>3. UNCHANGED <<entries, minted, withdrawn, accounts>>
  BY DEF Quiet
<1>4. CapInv'
  BY <1>2, UndecidedKeepsCap, QuietKeeps
<1>5. LinksInv'
  BY <1>2, <1>3, UnmailedKeepsLinks, QuietKeeps
<1>6. calls' \in [Calls -> CallShape]
  BY SMT DEF WaitTypes, CallShape, RowShape
<1>7. \A d \in Calls : calls'[d].at \in Deciding => calls'[d].e \in Emails
  BY <1>1, <1>2 DEF WaitTypes
<1>8. admission' \in Calls \cup {NoCall}
  BY DEF WaitTypes, ReleaseTurn
<1>9. WaitTypes'
  BY <1>3, <1>6, <1>7, <1>8 DEF WaitTypes
<1> QED  BY <1>4, <1>5, <1>9, QuietKeeps

\* The gate is read: a sign-up with an invite, or without one.
LEMMA GateKeeps ==
    ASSUME Counting, WaitBounds, WaitInv, NEW c \in Calls, NEW t \in Invites \cup {NoInvite}, ReadGate(c, t)
    PROVE  WaitInv'
<1> USE DEF WaitInv
<1>1. /\ UNCHANGED <<entries, minted, cap, peakCap, inbox, accounts, withdrawn, burnt, unsure,
                     admission>>
      /\ calls[c] = Free /\ t \in inbox \cup {NoInvite}
  BY DEF ReadGate, Begin
<1>2. PICK r : /\ calls' = [calls EXCEPT ![c] = r]
               /\ \/ r = [at |-> "redeem", e |-> NoEmail, t |-> t, n |-> 0]
                  \/ r = [at |-> "create", e |-> NoEmail, t |-> NoInvite, n |-> 0]
  BY DEF ReadGate, Go
<1>3. /\ r \in [at : {"free", "redeem", "create", "release"}, e : {NoEmail},
                 t : Invites \cup {NoInvite}, n : {0}]
      /\ r.t \in 0 .. minted /\ (r.at = "redeem" \/ r.t = NoInvite)
  BY <1>1, <1>2, SMT DEF LinksInv, WaitTypes, NoInvite
<1>4. calls'[c] = r /\ \A d \in Calls : d # c => calls'[d] = calls[d]
  BY <1>2 DEF WaitTypes
<1>5. Quiet
  BY <1>1, <1>3, <1>4, SMT DEF Quiet, Holds, Free, Invites, NoInvite
<1> QED  BY <1>1, <1>2, <1>3, <1>5, QuietMoveKeeps

\* The cap and the gate are set: the highest cap only rises.
LEMMA ConfigKeeps ==
    ASSUME Counting, WaitBounds, WaitInv, NEW n \in Caps, NEW on \in BOOLEAN, set_config(n, on)
    PROVE  WaitInv'
<1> USE DEF WaitInv
<1>1. /\ UNCHANGED <<entries, minted, calls, admission, inbox, accounts, withdrawn, burnt,
                     unsure>>
      /\ cap' = n /\ peakCap' = IF n > peakCap THEN n ELSE peakCap
  BY DEF set_config
<1>2. n \in Nat /\ peakCap \in Nat
  BY DEF WaitBounds, WaitTypes
<1>3. WaitTypes'
  BY <1>1, <1>2, SMT DEF WaitTypes
<1>4. Quiet
  BY <1>1 DEF Quiet, Holds
<1>5. LinksInv'
  BY <1>1, <1>4, QuietKeeps DEF LinksInv
<1>6. CapInv'
  <2>1. Cardinality(LetIn) \in Nat
    BY DEF WaitBounds, LetIn, Counting
  <2>2. \A d \in Calls : calls[d].n \in Nat
    BY DEF WaitTypes, CallShape, RowShape
  <2>3. LetIn' = LetIn
    BY <1>4, QuietKeeps
  <2> QED  BY <1>1, <1>2, <2>1, <2>2, <2>3, SMT DEF CapInv
<1> QED  BY <1>3, <1>4, <1>5, <1>6, QuietKeeps

\* A request is dropped: what it had spent is burnt.
LEMMA DroppedKeeps ==
    ASSUME Counting, WaitBounds, WaitInv, NEW c \in Calls, Dropped(c)
    PROVE  WaitInv'
<1> USE DEF WaitInv
<1>1. /\ UNCHANGED <<entries, minted, cap, peakCap, inbox, accounts, withdrawn, unsure>>
      /\ calls' = [calls EXCEPT ![c] = Free] /\ ReleaseTurn(c)
      /\ burnt' = IF calls[c].at \in {"create", "release"} THEN burnt \cup {calls[c].t} ELSE burnt
  BY DEF Dropped, Done
<1>2. calls'[c] = Free /\ \A d \in Calls : d # c => calls'[d] = calls[d]
  BY <1>1 DEF WaitTypes
<1>3. Free.at = "free" /\ Free.t = 0 /\ Free.n = 0 /\ Free.e = NoEmail
  BY DEF Free, NoInvite
<1>4. \A d \in Calls, t \in Invites : Holds(d, t)' <=> d # c /\ Holds(d, t)
  BY <1>2, <1>3 DEF Holds
<1>5. Admitted' = Admitted /\ LetIn' = LetIn
  BY <1>1 DEF Admitted, LetIn
<1>6. WaitTypes'
  BY <1>1, <1>2, <1>3 DEF WaitTypes, CallShape, RowShape, Deciding, ReleaseTurn, Free
<1>7. RowsInv'
  BY <1>1, <1>5 DEF RowsInv
<1>8. LinksInv'
  <2>1. Free.at # "mail" /\ Free.t \in 0 .. minted
    BY <1>3, SMT DEF WaitTypes
  <2> QED  BY <1>1, <1>5, <2>1, UnmailedKeepsLinks
<1>9. CapInv'
  <2>1. Free.at \notin Deciding
    BY <1>3 DEF Deciding
  <2> QED  BY <1>1, <1>5, <2>1, UndecidedKeepsCap
<1>10. SpentInv'
  BY <1>1, <1>4, <1>5 DEF SpentInv
<1>11. UsedInv'
  <2>1. \A t \in Invites \ burnt' : t \notin burnt /\ ~Holds(c, t)
    BY <1>1 DEF Holds
  <2> QED  BY <1>1, <1>4, <1>5, <2>1 DEF UsedInv
<1> QED  BY <1>6, <1>7, <1>8, <1>9, <1>10, <1>11

\* A mail about an admitted row.
LEMMA MailedKeepsLinks ==
    ASSUME WaitInv, NEW c \in Calls, NEW r, calls' = [calls EXCEPT ![c] = r], NEW f \in Admitted',
           r.at = "mail", r.t \in Invites, r.t = entries'[f].invite, minted' \in Nat, r.t <= minted',
           minted \in Nat, minted <= minted', Admitted \subseteq Admitted',
           \A e \in Admitted : entries'[e].invite = entries[e].invite,
           UNCHANGED <<inbox, withdrawn, accounts>>
    PROVE  LinksInv'
<1> USE DEF WaitInv
<1>1. calls'[c] = r /\ \A d \in Calls : d # c => calls'[d] = calls[d]
  BY DEF WaitTypes
<1>2. \A t \in inbox' \ withdrawn' : \E e \in Admitted' : entries'[e].invite = t
  BY DEF LinksInv
<1>3. \A d \in Calls : calls'[d].at = "mail" /\ calls'[d].t \notin withdrawn'
          => calls'[d].t \in Invites /\ \E e \in Admitted' : entries'[e].invite = calls'[d].t
  BY <1>1, SMT DEF LinksInv
<1>4. \A d \in Calls : calls'[d].at = "mail" => calls'[d].t \in Invites
  BY <1>1 DEF LinksInv
<1>5. \A d \in Calls : calls'[d].t \in 0 .. minted'
  <2>1. calls'[c].t \in 0 .. minted'
    BY <1>1, SMT DEF Invites
  <2>2. \A d \in Calls : d # c => calls'[d].t \in 0 .. minted'
    BY <1>1, SMT DEF LinksInv
  <2> QED  BY <2>1, <2>2
<1>6. withdrawn' \subseteq 1 .. minted' /\ inbox' \subseteq 1 .. minted'
  BY SMT DEF LinksInv
<1>7. \A t \in Invites : accounts'[t] > 0 => t <= minted'
  BY SMT DEF LinksInv, Invites
<1> QED  BY <1>2, <1>3, <1>4, <1>5, <1>6, <1>7 DEF LinksInv

\* A link is sent again.
LEMMA ResendKeeps ==
    ASSUME Counting, WaitBounds, WaitInv, NEW c \in Calls, NEW e \in Emails, resend_batch(c, e)
    PROVE  WaitInv'
<1> USE DEF WaitInv
<1> DEFINE r == [at |-> "mail", e |-> e, t |-> entries[e].invite, n |-> 0]
<1>1. /\ UNCHANGED <<entries, minted, cap, peakCap, inbox, accounts, withdrawn, burnt, unsure,
                     admission>>
      /\ calls[c] = Free /\ e \in Admitted /\ calls' = [calls EXCEPT ![c] = r]
  BY DEF resend_batch, Begin, Go
<1>2. entries[e].invite \in Invites /\ entries[e].invite <= minted
  BY <1>1, RowsOfInv, SMT DEF RowsInv
<1>3. calls'[c] = r /\ \A d \in Calls : d # c => calls'[d] = calls[d]
  BY <1>1 DEF WaitTypes
<1>4. Quiet
  BY <1>1, <1>3, SMT DEF Quiet, Holds, Free
<1>5. WaitTypes'
  BY <1>1, <1>2, <1>3 DEF WaitTypes, CallShape, RowShape, Deciding
<1>6. r.at = "mail" /\ r.at \notin Deciding /\ r.t = entries[e].invite
  BY DEF Deciding
<1> HIDE DEF r
<1>7. LinksInv'
  <2>1. minted \in Nat /\ minted' = minted
    BY <1>1, SMT DEF WaitTypes
  <2>2. Admitted' = Admitted
    BY <1>4, QuietKeeps
  <2>3. e \in Admitted' /\ r.t \in Invites /\ r.t = entries'[e].invite /\ r.t <= minted'
    BY <1>1, <1>2, <1>6, <2>1, <2>2
  <2>4. \A f \in Admitted : entries'[f].invite = entries[f].invite
    BY <1>1
  <2>5. minted' \in Nat /\ minted <= minted' /\ Admitted \subseteq Admitted'
    BY <2>1, <2>2, SMT
  <2> QED  BY <1>1, <1>6, <2>1, <2>3, <2>4, <2>5, MailedKeepsLinks
<1>8. CapInv'
  BY <1>1, <1>4, <1>6, UndecidedKeepsCap, QuietKeeps
<1> QED  BY <1>4, <1>5, <1>7, <1>8, QuietKeeps

-----------------------------------------------------------------------------
(* The steps that admit: a row gets the next invite.                       *)

\* What both ways of admitting an email do.
Admits(c, e, how) ==
    /\ minted < MaxInvites /\ minted' = minted + 1 /\ e \notin Admitted
    /\ entries' = [entries EXCEPT ![e] = Entry(how, minted')]
    /\ calls' = [calls EXCEPT ![c] = [at |-> "mail", e |-> e, t |-> minted', n |-> 0]]
    /\ calls[c].at \in {"free", "admit"}
    /\ UNCHANGED <<cap, inbox, accounts, peakCap, withdrawn, burnt, unsure>>

LEMMA AdmittingKeeps ==
    ASSUME Counting, WaitBounds, WaitInv, NEW c \in Calls, NEW e \in Emails, NEW how \in {"auto", "hand"},
           Admits(c, e, how), admission' = admission \/ ReleaseTurn(c)
    PROVE  WaitTypes' /\ RowsInv' /\ LinksInv' /\ SpentInv' /\ UsedInv'
<1> USE DEF WaitInv
<1>1. minted \in Nat /\ minted' = minted + 1 /\ minted' \in Invites /\ minted' \in 0 .. MaxInvites
  BY SMT DEF Admits, WaitTypes, WaitBounds, Invites
<1>2. /\ calls'[c] = [at |-> "mail", e |-> e, t |-> minted', n |-> 0]
      /\ \A d \in Calls : d # c => calls'[d] = calls[d]
  BY DEF Admits, WaitTypes
<1>3. /\ entries'[e] = [how |-> how, invite |-> minted', used |-> FALSE]
      /\ \A f \in Emails : f # e => entries'[f] = entries[f]
  BY DEF Admits, WaitTypes, Entry
<1>4. Admitted' = Admitted \cup {e} /\ e \notin Admitted
  BY <1>3, SMT DEF Admitted, Admits
<1>5. WaitTypes'
  <2>1. entries' \in [Emails -> RowShape]
    BY <1>1 DEF WaitTypes, CallShape, RowShape, Admits, Entry
  <2>2. calls' \in [Calls -> CallShape]
    BY <1>1 DEF WaitTypes, CallShape, RowShape, Admits
  <2>3. \A d \in Calls : calls'[d].at \in Deciding => calls'[d].e \in Emails
    BY <1>2, SMT DEF WaitTypes, CallShape, RowShape
  <2>4. admission' \in Calls \cup {NoCall}
    BY DEF WaitTypes, ReleaseTurn
  <2> QED  BY <1>1, <2>1, <2>2, <2>3, <2>4 DEF WaitTypes, Admits
<1>6. \A f \in Admitted : f \in Emails /\ entries[f].invite \in 1 .. minted
  BY DEF RowsInv, Admitted
<1>7. RowsInv'
  <2>1. \A f \in Emails : entries'[f].how = "none" => entries'[f] = NoEntry
    BY <1>3, SMT DEF RowsInv
  <2>2. \A f \in Emails : f \notin Admitted' => entries'[f].invite = NoInvite /\ ~entries'[f].used
    BY <1>3, <1>4 DEF RowsInv
  <2>3. \A f \in Admitted' : entries'[f].invite \in 1 .. minted'
    BY <1>1, <1>3, <1>4, <1>6, SMT
  <2>4. \A f, g \in Admitted' : entries'[f].invite = entries'[g].invite => f = g
    <3>1. \A f \in Admitted : entries[f].invite # minted'
      BY <1>1, <1>6, SMT
    <3> QED  BY <1>3, <1>4, <1>6, <3>1, SMT DEF RowsInv
  <2> QED  BY <2>1, <2>2, <2>3, <2>4 DEF RowsInv
<1>8. LinksInv'
  <2> DEFINE r == [at |-> "mail", e |-> e, t |-> minted', n |-> 0]
  <2>1. calls' = [calls EXCEPT ![c] = r] /\ UNCHANGED <<inbox, withdrawn, accounts>>
    BY DEF Admits
  <2>2. r.at = "mail" /\ r.t \in Invites /\ r.t = entries'[e].invite /\ r.t <= minted'
    BY <1>1, <1>3, SMT
  <2>3. e \in Admitted' /\ Admitted \subseteq Admitted' /\ minted' \in Nat /\ minted <= minted'
    BY <1>1, <1>4, SMT
  <2>4. \A f \in Admitted : entries'[f].invite = entries[f].invite
    BY <1>3, <1>4, <1>6
  <2> HIDE DEF r
  <2> QED  BY <1>1, <2>1, <2>2, <2>3, <2>4, MailedKeepsLinks
<1>9. \A d \in Calls, t \in Invites : Holds(d, t)' <=> Holds(d, t)
  BY <1>2, SMT DEF Holds, Admits
<1>10. /\ minted' \notin withdrawn /\ accounts[minted'] = 0
       /\ \A d \in Calls : ~Holds(d, minted')
  <2>1. minted' \notin 0 .. minted /\ ~(minted' <= minted)
    BY <1>1, SMT
  <2> QED  BY <1>1, <2>1, SMT DEF LinksInv, Holds, WaitTypes
<1>11. SpentInv'
  <2>1. \A f \in Admitted' : entries'[f].invite \notin withdrawn'
    BY <1>3, <1>4, <1>6, <1>10, SMT DEF SpentInv, Admits
  <2>2. ASSUME NEW t \in Invites \ unsure, NEW f \in Admitted', entries'[f].invite = t,
               accounts[t] > 0 \/ \E d \in Calls : Holds(d, t)
        PROVE  entries'[f].used
    <3>1. f # e
      BY <1>3, <1>10, <2>2, SMT
    <3> QED  BY <1>3, <1>4, <1>6, <2>2, <3>1 DEF SpentInv
  <2> QED  BY <1>9, <2>1, <2>2 DEF SpentInv, Admits
<1>12. UsedInv'
  <2>1. ASSUME NEW t \in Invites \ burnt, NEW f \in Admitted', entries'[f].invite = t, entries'[f].used
        PROVE  accounts[t] > 0 \/ \E d \in Calls : Holds(d, t)
    <3>1. f # e
      BY <1>3, <2>1, SMT
    <3> QED  BY <1>3, <1>4, <1>6, <2>1, <3>1 DEF UsedInv
  <2> QED  BY <1>9, <2>1 DEF UsedInv, Admits
<1> QED  BY <1>5, <1>7, <1>8, <1>11, <1>12

\* The decision is carried out: the request that counted lets itself in.
LEMMA InsertAdmittedKeeps ==
    ASSUME Counting, WaitBounds, WaitInv, NEW c \in Calls, InsertAdmitted(c)
    PROVE  WaitInv'
<1> USE DEF WaitInv
<1> DEFINE e == calls[c].e
<1>1. e \in Emails /\ entries[e] = NoEntry /\ calls[c].at = "admit" /\ ReleaseTurn(c)
  BY DEF InsertAdmitted, WaitTypes, Deciding
<1>2. Admits(c, e, "auto")
  BY <1>1, SMT DEF Admits, InsertAdmitted, Mint, Go, Admitted, NoEntry
<1>3. /\ calls'[c].at = "mail" /\ \A d \in Calls : d # c => calls'[d] = calls[d]
      /\ entries'[e].how = "auto" /\ \A f \in Emails : f # e => entries'[f] = entries[f]
  BY <1>1, <1>2 DEF Admits, WaitTypes, Entry
<1>4. LetIn' = LetIn \cup {e} /\ e \notin LetIn
  BY <1>1, <1>3, SMT DEF LetIn, NoEntry
<1>5. IsFiniteSet(LetIn) /\ Cardinality(LetIn) \in Nat
  BY DEF WaitBounds, LetIn, Counting
<1>6. Cardinality(LetIn') = Cardinality(LetIn) + 1
  BY <1>4, <1>5 DEF Counting
<1>7. \A d \in Calls : calls'[d].at \notin Deciding
  BY <1>1, <1>3 DEF CapInv, Deciding
<1>8. Cardinality(LetIn') <= peakCap'
  <2>1. Cardinality(LetIn) < peakCap /\ peakCap \in Nat /\ peakCap' = peakCap
    BY <1>1, <1>2 DEF CapInv, WaitTypes, Admits
  <2> QED  BY <1>5, <1>6, <2>1, SMT
<1>9. CapInv'
  BY <1>7, <1>8 DEF CapInv, Deciding
<1> HIDE DEF e
<1> QED  BY <1>1, <1>2, <1>9, AdmittingKeeps

\* A moderator admits a queued row, whatever the cap says.
LEMMA AdmitBatchKeeps ==
    ASSUME Counting, WaitBounds, WaitInv, NEW c \in Calls, NEW e \in Emails, admit_batch(c, e)
    PROVE  WaitInv'
<1> USE DEF WaitInv
<1> DEFINE r == [at |-> "mail", e |-> e, t |-> minted', n |-> 0]
<1>1. /\ calls[c] = Free /\ entries[e].how = "queued" /\ admission' = admission
      /\ calls' = [calls EXCEPT ![c] = r]
  BY DEF admit_batch, StillQueued, Begin, Go
<1>2. Admits(c, e, "hand")
  BY <1>1, SMT DEF Admits, admit_batch, Mint, Go, Admitted, Free
<1>3. entries'[e].how = "hand" /\ \A f \in Emails : f # e => entries'[f] = entries[f]
  BY <1>2 DEF Admits, WaitTypes, Entry
<1>4. LetIn' = LetIn
  BY <1>1, <1>3 DEF LetIn
<1>5. r.at \notin Deciding /\ peakCap' = peakCap
  BY <1>2 DEF Deciding, Admits
<1> HIDE DEF r
<1>6. CapInv'
  BY <1>1, <1>4, <1>5, UndecidedKeepsCap
<1> QED  BY <1>1, <1>2, <1>6, AdmittingKeeps

-----------------------------------------------------------------------------
\* The queue gets a row: nobody is admitted and nothing is spent by it.
LEMMA InsertQueuedKeeps ==
    ASSUME Counting, WaitBounds, WaitInv, NEW c \in Calls, InsertQueued(c)
    PROVE  WaitInv'
<1> USE DEF WaitInv
<1> DEFINE e == calls[c].e
<1>1. /\ e \in Emails /\ entries[e] = NoEntry /\ calls[c].at = "queue" /\ ReleaseTurn(c)
      /\ calls' = [calls EXCEPT ![c] = Free]
      /\ entries' = [entries EXCEPT ![e] = Entry("queued", NoInvite)]
      /\ UNCHANGED <<cap, minted, inbox, accounts, peakCap, withdrawn, burnt, unsure>>
  BY DEF InsertQueued, WaitTypes, Deciding, Done
<1>2. calls'[c] = Free /\ \A d \in Calls : d # c => calls'[d] = calls[d]
  BY <1>1 DEF WaitTypes
<1>3. /\ entries'[e] = [how |-> "queued", invite |-> NoInvite, used |-> FALSE]
      /\ \A f \in Emails : f # e => entries'[f] = entries[f]
  BY <1>1 DEF WaitTypes, Entry
<1>4. Admitted' = Admitted /\ LetIn' = LetIn /\ e \notin Admitted
  BY <1>1, <1>3, SMT DEF Admitted, LetIn, NoEntry
<1>5. \A f \in Admitted : f \in Emails /\ entries'[f] = entries[f]
  BY <1>3, <1>4 DEF Admitted
<1>6. WaitTypes'
  <2>1. entries' \in [Emails -> RowShape]
    BY <1>1 DEF WaitTypes, CallShape, RowShape, Entry
  <2>2. calls' \in [Calls -> CallShape]
    BY <1>1 DEF WaitTypes, CallShape, RowShape, Free
  <2>3. \A d \in Calls : calls'[d].at \in Deciding => calls'[d].e \in Emails
    BY <1>2, SMT DEF WaitTypes, Free, Deciding
  <2>4. admission' \in Calls \cup {NoCall}
    BY <1>1 DEF WaitTypes, ReleaseTurn
  <2> QED  BY <1>1, <2>1, <2>2, <2>3, <2>4 DEF WaitTypes
<1>7. RowsInv'
  <2>1. \A f \in Emails : entries'[f].how = "none" => entries'[f] = NoEntry
    BY <1>3, SMT DEF RowsInv
  <2>2. \A f \in Emails : f \notin Admitted' => entries'[f].invite = NoInvite /\ ~entries'[f].used
    BY <1>3, <1>4, SMT DEF RowsInv
  <2> QED  BY <1>1, <1>4, <1>5, <2>1, <2>2, SMT DEF RowsInv
<1>8. Free.at # "mail" /\ Free.t \in 0 .. minted /\ Free.at \notin Deciding
  BY SMT DEF Free, NoInvite, WaitTypes, Deciding
<1>9. LinksInv'
  BY <1>1, <1>4, <1>5, <1>8, UnmailedKeepsLinks
<1>10. CapInv'
  BY <1>1, <1>4, <1>8, UndecidedKeepsCap
<1>11. \A d \in Calls, t \in Invites : Holds(d, t)' <=> Holds(d, t)
  <2>1. Free.at \notin {"create", "release"} /\ calls[c].at \notin {"create", "release"}
    BY <1>1, SMT DEF Free
  <2>2. ASSUME NEW t \in Invites
        PROVE  ~Holds(c, t)' /\ ~Holds(c, t)
    BY <1>2, <2>1 DEF Holds
  <2>3. ASSUME NEW d \in Calls, NEW t \in Invites, d # c
        PROVE  Holds(d, t)' <=> Holds(d, t)
    BY <1>2, <2>3 DEF Holds
  <2> QED  BY <2>2, <2>3
<1>12. SpentInv'
  BY <1>1, <1>4, <1>5, <1>11, SMT DEF SpentInv
<1>13. UsedInv'
  BY <1>1, <1>4, <1>5, <1>11 DEF UsedInv
<1> QED  BY <1>6, <1>7, <1>9, <1>10, <1>12, <1>13

\* A row that is not used is deleted: no sign-up holds its invite, and no
\* account was opened with it.
LEMMA DeleteKeeps ==
    ASSUME Counting, WaitBounds, WaitInv, NEW e \in Emails, delete_batch(e)
    PROVE  WaitInv'
<1> USE DEF WaitInv
<1>1. /\ ~entries[e].used /\ entries' = [entries EXCEPT ![e] = NoEntry]
      /\ withdrawn' = withdrawn \cup ({entries[e].invite} \ {NoInvite})
      /\ UNCHANGED <<cap, admission, calls, minted, inbox, accounts, peakCap, burnt, unsure>>
  BY DEF delete_batch, Deletable
<1>2. entries'[e] = NoEntry /\ \A f \in Emails : f # e => entries'[f] = entries[f]
  BY <1>1 DEF WaitTypes
<1>3. Admitted' = Admitted \ {e} /\ LetIn' = LetIn \ {e}
  BY <1>2, SMT DEF Admitted, LetIn, NoEntry
<1>4. \A f \in Admitted' : f \in Admitted /\ f # e /\ f \in Emails /\ entries'[f] = entries[f]
  BY <1>2, <1>3 DEF Admitted
<1>5. e \in Admitted \/ withdrawn' = withdrawn
  BY <1>1 DEF RowsInv
<1>6. WaitTypes'
  <2>1. entries' \in [Emails -> RowShape]
    BY <1>1 DEF WaitTypes, CallShape, RowShape, NoEntry
  <2> QED  BY <1>1, <2>1 DEF WaitTypes
<1>7. RowsInv'
  <2>1. \A f \in Emails : entries'[f].how = "none" => entries'[f] = NoEntry
    BY <1>2 DEF RowsInv
  <2>2. \A f \in Emails : f \notin Admitted' => entries'[f].invite = NoInvite /\ ~entries'[f].used
    BY <1>2, <1>3, SMT DEF RowsInv, NoEntry
  <2> QED  BY <1>1, <1>4, <2>1, <2>2, SMT DEF RowsInv
<1>8. \A t \in Invites : t \notin withdrawn' =>
          t \notin withdrawn /\ \A f \in Admitted : entries[f].invite = t => f \in Admitted' /\ entries'[f].invite = t
  <2>1. \A t \in Invites : t # NoInvite
    BY SMT DEF Invites, NoInvite
  <2> QED  BY <1>1, <1>2, <1>3, <2>1 DEF Admitted
<1>9. LinksInv'
  <2>1. withdrawn' \subseteq 1 .. minted'
    BY <1>1, <1>5 DEF LinksInv, RowsInv
  <2>2. \A t \in inbox' \ withdrawn' : \E f \in Admitted' : entries'[f].invite = t
    BY <1>1, <1>8 DEF LinksInv, WaitTypes
  <2>3. \A c \in Calls : calls'[c].at = "mail" /\ calls'[c].t \notin withdrawn'
          => calls'[c].t \in Invites /\ \E f \in Admitted' : entries'[f].invite = calls'[c].t
    BY <1>1, <1>8, SMT DEF LinksInv
  <2> QED  BY <1>1, <2>1, <2>2, <2>3 DEF LinksInv
<1>10. CapInv'
  <2>1. IsFiniteSet(LetIn) /\ Cardinality(LetIn) \in Nat /\ LetIn' \subseteq LetIn
    BY <1>3 DEF WaitBounds, LetIn, Counting
  <2>2. Cardinality(LetIn') <= Cardinality(LetIn) /\ Cardinality(LetIn') \in Nat
    BY <2>1 DEF Counting
  <2>3. peakCap \in Nat /\ peakCap' = peakCap
    BY <1>1 DEF WaitTypes
  <2> QED  BY <1>1, <2>1, <2>2, <2>3, SMT DEF CapInv
<1>11. \A d \in Calls, t \in Invites : Holds(d, t)' <=> Holds(d, t)
  BY <1>1 DEF Holds
<1>12. \A t \in Invites \ unsure : accounts[t] > 0 \/ (\E d \in Calls : Holds(d, t)) => t \notin withdrawn'
  <2>1. \A t \in Invites \ unsure : accounts[t] > 0 \/ (\E d \in Calls : Holds(d, t)) => t \notin withdrawn
    BY DEF SpentInv
  <2>2. \A t \in Invites \ unsure : e \in Admitted /\ t = entries[e].invite
           => ~(accounts[t] > 0 \/ (\E d \in Calls : Holds(d, t)))
    BY <1>1 DEF SpentInv
  <2> QED  BY <1>1, <1>5, <2>1, <2>2
<1>13. \A f \in Admitted' : entries'[f].invite \notin withdrawn'
  BY <1>1, <1>4, <1>5, SMT DEF SpentInv, RowsInv
<1>14. SpentInv'
  BY <1>1, <1>4, <1>11, <1>12, <1>13 DEF SpentInv
<1>15. UsedInv'
  BY <1>1, <1>4, <1>11 DEF UsedInv
<1> QED  BY <1>6, <1>7, <1>9, <1>10, <1>14, <1>15

-----------------------------------------------------------------------------
(* The steps that spend an invite and give it back.                        *)

\* A sign-up's step: the rows keep how they were admitted and their invites.
SignupStep(c, r) ==
    /\ calls' = [calls EXCEPT ![c] = r]
    /\ r \in [at : {"free", "redeem", "create", "release"}, e : {NoEmail},
              t : Invites \cup {NoInvite}, n : {0}]
    /\ r.t \in 0 .. minted
    /\ entries' \in [Emails -> RowShape]
    /\ \A e \in Emails : entries'[e].how = entries[e].how /\ entries'[e].invite = entries[e].invite
    /\ \A e \in Emails : e \notin Admitted => entries'[e] = entries[e]
    /\ UNCHANGED <<cap, peakCap, admission, minted, inbox, withdrawn>>

LEMMA SignupStepKeeps ==
    ASSUME WaitInv, NEW c \in Calls, NEW r, SignupStep(c, r), accounts' \in [Invites -> Nat],
           \A t \in Invites : accounts'[t] > 0 => t <= minted
    PROVE  /\ Admitted' = Admitted
           /\ WaitTypes' /\ RowsInv' /\ LinksInv' /\ CapInv'
<1> USE DEF WaitInv
<1>1. Admitted' = Admitted /\ LetIn' = LetIn
  BY DEF SignupStep, Admitted, LetIn
<1>2. calls'[c] = r /\ \A d \in Calls : d # c => calls'[d] = calls[d]
  BY DEF WaitTypes, SignupStep
<1>3. r.at \notin Deciding /\ r.at # "mail"
  BY DEF Deciding, SignupStep
<1>4. WaitTypes'
  <2>1. calls' \in [Calls -> CallShape]
    BY SMT DEF WaitTypes, CallShape, RowShape, SignupStep
  <2>2. \A d \in Calls : calls'[d].at \in Deciding => calls'[d].e \in Emails
    BY <1>2, <1>3 DEF WaitTypes
  <2> QED  BY <2>1, <2>2 DEF WaitTypes, SignupStep
<1>5. RowsInv'
  <2>1. \A e \in Emails : entries'[e].how = "none" => entries'[e] = NoEntry
    BY DEF RowsInv, SignupStep, Admitted
  <2>2. \A e \in Emails : e \notin Admitted' => entries'[e].invite = NoInvite /\ ~entries'[e].used
    BY <1>1 DEF RowsInv, SignupStep
  <2>3. \A e \in Admitted : e \in Emails
    BY DEF Admitted
  <2> QED  BY <1>1, <2>1, <2>2, <2>3, SMT DEF RowsInv, SignupStep
<1>6. CapInv'
  BY <1>1, <1>3, UndecidedKeepsCap DEF SignupStep
<1>7. LinksInv'
  <2>1. \A e \in Admitted : entries'[e].invite = entries[e].invite
    BY DEF Admitted, SignupStep
  <2>2. \A t \in inbox' \ withdrawn' : \E e \in Admitted' : entries'[e].invite = t
    BY <1>1, <2>1, SMT DEF LinksInv, SignupStep
  <2>3. \A d \in Calls : calls'[d].at = "mail" /\ calls'[d].t \notin withdrawn'
          => calls'[d].t \in Invites /\ \E e \in Admitted' : entries'[e].invite = calls'[d].t
    BY <1>1, <1>2, <1>3, <2>1, SMT DEF LinksInv, SignupStep
  <2>4. \A d \in Calls : calls'[d].at = "mail" => calls'[d].t \in Invites
    BY <1>2, <1>3 DEF LinksInv
  <2>5. \A d \in Calls : calls'[d].t \in 0 .. minted'
    BY <1>2 DEF LinksInv, SignupStep
  <2>6. withdrawn' \subseteq 1 .. minted' /\ inbox' \subseteq 1 .. minted' /\ minted' = minted
    BY DEF LinksInv, SignupStep
  <2> QED  BY <2>2, <2>3, <2>4, <2>5, <2>6 DEF LinksInv
<1> QED  BY <1>1, <1>4, <1>5, <1>6, <1>7

\* An invite is redeemed by the row that is not used yet.
LEMMA RedeemKeeps ==
    ASSUME Counting, WaitBounds, WaitInv, NEW c \in Calls, redeem_invite(c)
    PROVE  WaitInv'
<1> USE DEF WaitInv
<1> DEFINE t == calls[c].t
<1>1. /\ calls[c].at = "redeem" /\ t \in Invites \cup {NoInvite} /\ t \in 0 .. minted
      /\ UNCHANGED <<cap, peakCap, admission, minted, inbox, withdrawn, accounts, burnt, unsure>>
  BY DEF redeem_invite, WaitTypes, CallShape, RowShape, LinksInv
<1>2. CASE Redeemable(t) = {}
  <2>1. calls' = [calls EXCEPT ![c] = Free] /\ entries' = entries
    BY <1>2 DEF redeem_invite, Done
  <2>2. calls'[c] = Free /\ \A d \in Calls : d # c => calls'[d] = calls[d]
    BY <2>1 DEF WaitTypes
  <2>3. Quiet
    BY <1>1, <2>1, <2>2, SMT DEF Quiet, Holds, Free
  <2>4. /\ Free \in [at : {"free", "redeem", "create", "release"}, e : {NoEmail},
                     t : Invites \cup {NoInvite}, n : {0}]
        /\ Free.t \in 0 .. minted
    BY SMT DEF Free, NoInvite, WaitTypes
  <2> QED  BY <1>1, <2>1, <2>3, <2>4, QuietMoveKeeps
<1>3. CASE Redeemable(t) # {}
  <2> DEFINE r == [at |-> "create", e |-> NoEmail, t |-> t, n |-> 0]
  <2>1. /\ calls' = [calls EXCEPT ![c] = r]
        /\ entries' = [e \in Emails |-> IF e \in Redeemable(t)
                                        THEN [entries[e] EXCEPT !.used = TRUE] ELSE entries[e]]
    BY <1>3 DEF redeem_invite, Go
  <2>2. PICK f \in Redeemable(t) : TRUE
    BY <1>3
  <2>3. f \in Admitted /\ f \in Emails /\ entries[f].invite = t /\ ~entries[f].used /\ t \in Invites
    BY <2>2, RowsOfInv DEF Redeemable, Admitted
  <2>4. \A e \in Emails : e \in Redeemable(t) <=> e = f
    BY <2>2, <2>3 DEF Redeemable, RowsInv
  <2>5. /\ \A e \in Emails : entries'[e].how = entries[e].how /\ entries'[e].invite = entries[e].invite
        /\ \A e \in Emails : e # f => entries'[e] = entries[e]
        /\ entries'[f].used
    BY <2>1, <2>3, <2>4, SMT DEF WaitTypes, CallShape, RowShape
  <2>6. SignupStep(c, r)
    <3>1. entries' \in [Emails -> RowShape]
      <4>1. \A e \in Emails : entries[e] \in RowShape
        BY DEF WaitTypes
      <4>2. \A x \in RowShape : [x EXCEPT !.used = TRUE] \in RowShape
        BY DEF RowShape
      <4> HIDE DEF t
      <4> QED  BY <2>1, <4>1, <4>2
    <3>2. r \in [at : {"free", "redeem", "create", "release"}, e : {NoEmail},
                 t : Invites \cup {NoInvite}, n : {0}] /\ r.t \in 0 .. minted
      BY <1>1
    <3> HIDE DEF r, t
    <3> QED  BY <1>1, <2>1, <2>3, <2>5, <3>1, <3>2 DEF SignupStep
  <2>7. accounts' \in [Invites -> Nat] /\ \A u \in Invites : accounts'[u] > 0 => u <= minted
    BY <1>1 DEF WaitTypes, LinksInv
  <2>8. calls'[c] = r /\ \A d \in Calls : d # c => calls'[d] = calls[d]
    BY <2>1 DEF WaitTypes
  <2>9. \A d \in Calls, u \in Invites : Holds(d, u)' <=> Holds(d, u) \/ (d = c /\ u = t)
    BY <1>1, <2>8, SMT DEF Holds
  <2> HIDE DEF r
  <2>10. Admitted' = Admitted /\ WaitTypes' /\ RowsInv' /\ LinksInv' /\ CapInv'
    BY <2>6, <2>7, SignupStepKeeps
  <2>11. t \notin withdrawn
    BY <2>3 DEF SpentInv
  <2>12. t \notin unsure => accounts[t] = 0 /\ \A d \in Calls : ~Holds(d, t)
    BY <2>3, SMT DEF SpentInv, WaitTypes, CallShape, RowShape
  <2> HIDE DEF t
  <2>13. SpentInv'
    <3>1. ASSUME NEW u \in Invites \ unsure, NEW d \in Calls, NEW b \in Calls, Holds(d, u)', Holds(b, u)'
          PROVE  d = b
      <4>1. CASE u = t
        BY <2>9, <2>12, <3>1, <4>1
      <4>2. CASE u # t
        <5>1. Holds(d, u) /\ Holds(b, u)
          BY <2>9, <3>1, <4>2
        <5> QED  BY <5>1 DEF SpentInv
      <4> QED  BY <4>1, <4>2
    <3>2. \A u \in Invites \ unsure : \A d \in Calls : Holds(d, u)' => accounts[u] = 0 /\ u \notin withdrawn
      BY <2>9, <2>11, <2>12 DEF SpentInv
    <3>3. \A e \in Admitted : entries'[e].invite \notin withdrawn
      BY <2>5 DEF SpentInv, Admitted
    <3>4. \A u \in Invites \ unsure : \A e \in Admitted :
             entries'[e].invite = u /\ (accounts[u] > 0 \/ \E d \in Calls : Holds(d, u)')
                => entries'[e].used
      <4>1. \A e \in Admitted : e \in Emails
        BY DEF Admitted
      <4>2. \A e \in Admitted : entries[e].invite = t => e = f
        BY <2>3 DEF RowsInv
      <4> QED  BY <2>5, <2>9, <4>1, <4>2 DEF SpentInv
    <3> QED  BY <1>1, <2>10, <3>1, <3>2, <3>3, <3>4 DEF SpentInv
  <2>14. UsedInv'
    <3>1. \A e \in Admitted : e \in Emails
      BY DEF Admitted
    <3>2. \A u \in Invites \ burnt : \A e \in Admitted :
             entries'[e].invite = u /\ entries'[e].used
                => accounts[u] > 0 \/ \E d \in Calls : Holds(d, u)'
      BY <2>3, <2>5, <2>9, <3>1, SMT DEF UsedInv
    <3> QED  BY <1>1, <2>10, <3>2 DEF UsedInv
  <2> QED  BY <2>10, <2>13, <2>14
<1> QED  BY <1>2, <1>3

\* The account is made, or refused, or made although the answer is lost.
LEMMA CreateKeeps ==
    ASSUME Counting, WaitBounds, WaitInv, NEW c \in Calls, create(c)
    PROVE  WaitInv'
<1> USE DEF WaitInv
<1> DEFINE t == calls[c].t
<1> DEFINE back == [at |-> "release", e |-> NoEmail, t |-> t, n |-> 0]
<1> DEFINE opened == [u \in Invites |-> accounts[u] + (IF u = t THEN 1 ELSE 0)]
<1> DEFINE doorway == [at : {"free", "redeem", "create", "release"}, e : {NoEmail},
                     t : Invites \cup {NoInvite}, n : {0}]
<1>1. /\ calls[c].at = "create" /\ t \in Invites \cup {NoInvite} /\ t \in 0 .. minted
      /\ UNCHANGED <<entries, cap, peakCap, admission, minted, inbox, withdrawn, burnt>>
  BY DEF create, WaitTypes, CallShape, RowShape, LinksInv
<1>2. back \in doorway /\ back.t \in 0 .. minted /\ Free \in doorway /\ Free.t \in 0 .. minted
  BY <1>1, SMT DEF Free, NoInvite, WaitTypes, CallShape, RowShape
<1>3. ASSUME NEW r, calls' = [calls EXCEPT ![c] = r], r \in doorway, r.t \in 0 .. minted
      PROVE  SignupStep(c, r) /\ calls'[c] = r /\ \A d \in Calls : d # c => calls'[d] = calls[d]
  BY <1>1, <1>3 DEF SignupStep, WaitTypes
<1>4. /\ opened \in [Invites -> Nat] /\ \A u \in Invites : opened[u] > 0 => u <= minted
      /\ \A u \in Invites : u # t => opened[u] = accounts[u]
      /\ t \in Invites => opened[t] = accounts[t] + 1
  BY <1>1, SMT DEF WaitTypes, LinksInv
<1>5. /\ accounts \in [Invites -> Nat] /\ \A u \in Invites : accounts[u] > 0 => u <= minted
  BY DEF WaitTypes, LinksInv
<1>6. \A u \in Invites : Holds(c, u) <=> u = t
  BY <1>1 DEF Holds
<1>7. CASE Done(c) /\ unsure' = unsure /\ accounts' = opened
  <2>1. SignupStep(c, Free) /\ calls'[c] = Free /\ \A d \in Calls : d # c => calls'[d] = calls[d]
    BY <1>2, <1>3, <1>7 DEF Done
  <2>2. \A d \in Calls, u \in Invites : Holds(d, u)' <=> d # c /\ Holds(d, u)
    BY <2>1, SMT DEF Holds, Free
  <2> HIDE DEF opened
  <2>3. Admitted' = Admitted /\ WaitTypes' /\ RowsInv' /\ LinksInv' /\ CapInv'
    BY <1>4, <1>7, <2>1, SignupStepKeeps
  <2> HIDE DEF t
  <2>4. SpentInv'
    <3>1. \A u \in Invites \ unsure : accounts'[u] <= 1
      BY <1>4, <1>5, <1>6, <1>7, SMT DEF SpentInv
    <3>2. \A u \in Invites \ unsure : \A d \in Calls : Holds(d, u)' => accounts'[u] = 0
      BY <1>4, <1>6, <1>7, <2>2 DEF SpentInv
    <3>3. \A u \in Invites \ unsure : accounts'[u] > 0 => u \notin withdrawn
      BY <1>4, <1>6, <1>7 DEF SpentInv
    <3>4. \A u \in Invites \ unsure : \A e \in Admitted :
             entries[e].invite = u /\ (accounts'[u] > 0 \/ \E d \in Calls : Holds(d, u)')
                => entries[e].used
      BY <1>4, <1>6, <1>7, <2>2 DEF SpentInv
    <3> QED  BY <1>1, <1>7, <2>2, <2>3, <3>1, <3>2, <3>3, <3>4 DEF SpentInv
  <2>5. UsedInv'
    <3>1. \A u \in Invites \ burnt : \A e \in Admitted :
             entries[e].invite = u /\ entries[e].used
                => accounts'[u] > 0 \/ \E d \in Calls : Holds(d, u)'
      BY <1>4, <1>5, <1>6, <1>7, <2>2, SMT DEF UsedInv
    <3> QED  BY <1>1, <2>3, <3>1 DEF UsedInv
  <2> QED  BY <2>3, <2>4, <2>5
<1>8. CASE Go(c, "release", NoEmail, t, 0) /\ accounts' = accounts /\ unsure' = unsure
  <2>1. calls' = [calls EXCEPT ![c] = back]
    BY <1>8 DEF Go
  <2>2. calls'[c] = back /\ \A d \in Calls : d # c => calls'[d] = calls[d]
    BY <1>2, <1>3, <2>1
  <2>3. Quiet
    BY <1>1, <1>8, <2>2, SMT DEF Quiet, Holds
  <2> HIDE DEF back
  <2> QED  BY <1>1, <1>2, <2>1, <2>3, QuietMoveKeeps
<1>9. CASE /\ Go(c, "release", NoEmail, t, 0) /\ accounts' = opened
           /\ unsure' = unsure \cup ({t} \ {NoInvite})
  <2>1. calls' = [calls EXCEPT ![c] = back]
    BY <1>9 DEF Go
  <2>2. SignupStep(c, back) /\ calls'[c] = back /\ \A d \in Calls : d # c => calls'[d] = calls[d]
    BY <1>2, <1>3, <2>1
  <2>3. \A d \in Calls, u \in Invites : Holds(d, u)' <=> Holds(d, u)
    BY <1>1, <2>2, SMT DEF Holds
  <2> HIDE DEF opened, back
  <2>4. Admitted' = Admitted /\ WaitTypes' /\ RowsInv' /\ LinksInv' /\ CapInv'
    BY <1>4, <1>9, <2>2, SignupStepKeeps
  <2>5. \A u \in Invites \ unsure' : u \notin unsure /\ u # t /\ accounts'[u] = accounts[u]
    BY <1>4, <1>9, SMT DEF Invites, NoInvite
  <2> HIDE DEF t
  <2>6. SpentInv'
    BY <1>1, <2>3, <2>4, <2>5 DEF SpentInv
  <2>7. \A u \in Invites : accounts[u] > 0 => accounts'[u] > 0
    BY <1>4, <1>5, <1>9, SMT
  <2>8. UsedInv'
    BY <1>1, <2>3, <2>4, <2>7 DEF UsedInv
  <2> QED  BY <2>4, <2>6, <2>8
<1> QED  BY <1>7, <1>8, <1>9 DEF create

\* The invite is given back, or the release fails and it stays spent.
LEMMA ReleaseKeeps ==
    ASSUME Counting, WaitBounds, WaitInv, NEW c \in Calls, release_invite(c)
    PROVE  WaitInv'
<1> USE DEF WaitInv
<1> DEFINE t == calls[c].t
<1>1. /\ calls[c].at = "release" /\ calls' = [calls EXCEPT ![c] = Free]
      /\ UNCHANGED <<cap, peakCap, admission, minted, inbox, withdrawn, accounts, unsure>>
  BY DEF release_invite, Done
<1>2. calls'[c] = Free /\ \A d \in Calls : d # c => calls'[d] = calls[d]
  <2>1. calls \in [Calls -> CallShape]
    BY DEF WaitTypes
  <2> QED  BY <1>1, <2>1
<1>3. \A d \in Calls, u \in Invites : Holds(d, u)' <=> d # c /\ Holds(d, u)
  <2>1. Free.at \notin {"create", "release"}
    BY SMT DEF Free
  <2>2. ASSUME NEW d \in Calls, NEW u \in Invites, d = c
        PROVE  ~Holds(d, u)'
    BY <1>2, <2>1, <2>2 DEF Holds
  <2>3. ASSUME NEW d \in Calls, NEW u \in Invites, d # c
        PROVE  Holds(d, u)' <=> Holds(d, u)
    BY <1>2, <2>3 DEF Holds
  <2> QED  BY <2>2, <2>3
<1>4. \A u \in Invites : Holds(c, u) <=> u = t
  BY <1>1 DEF Holds
<1>5. /\ Free \in [at : {"free", "redeem", "create", "release"}, e : {NoEmail},
                   t : Invites \cup {NoInvite}, n : {0}]
      /\ Free.t \in 0 .. minted
  BY SMT DEF Free, NoInvite, WaitTypes
<1>6. accounts' \in [Invites -> Nat] /\ \A u \in Invites : accounts'[u] > 0 => u <= minted
  BY <1>1 DEF WaitTypes, LinksInv
<1>7. \A e \in Admitted : e \in Emails /\ entries[e].invite \in Invites
  BY RowsOfInv
<1>8. CASE /\ entries' = [e \in Emails |-> IF e \in Admitted /\ entries[e].invite = t
                                          THEN [entries[e] EXCEPT !.used = FALSE] ELSE entries[e]]
           /\ burnt' = burnt
  <2>1. /\ \A e \in Emails : entries'[e].how = entries[e].how /\ entries'[e].invite = entries[e].invite
        /\ \A e \in Emails : e \in Admitted /\ entries[e].invite = t => ~entries'[e].used
        /\ \A e \in Emails : ~(e \in Admitted /\ entries[e].invite = t) => entries'[e] = entries[e]
    BY <1>8 DEF WaitTypes, CallShape, RowShape
  <2>2. entries' \in [Emails -> RowShape]
    <3>1. \A e \in Emails : entries[e] \in RowShape
      BY DEF WaitTypes
    <3>2. \A x \in RowShape : [x EXCEPT !.used = FALSE] \in RowShape
      BY DEF RowShape
    <3> HIDE DEF t
    <3> QED  BY <1>8, <3>1, <3>2
  <2>3. SignupStep(c, Free)
    BY <1>1, <1>5, <2>1, <2>2 DEF SignupStep
  <2>4. Admitted' = Admitted /\ WaitTypes' /\ RowsInv' /\ LinksInv' /\ CapInv'
    BY <1>6, <2>3, SignupStepKeeps
  <2> HIDE DEF t
  <2>5. \A u \in Invites \ unsure : u = t => accounts[u] = 0 /\ \A d \in Calls : d # c => ~Holds(d, u)
    BY <1>4 DEF SpentInv
  <2>6. SpentInv'
    <3>1. ASSUME NEW u \in Invites \ unsure, NEW e \in Admitted, entries'[e].invite = u,
                 accounts[u] > 0 \/ \E d \in Calls : Holds(d, u)'
          PROVE  entries'[e].used
      <4>1. u # t
        BY <1>3, <2>5, <3>1, SMT DEF WaitTypes
      <4>2. entries[e].invite = u /\ entries'[e] = entries[e]
        BY <1>7, <2>1, <3>1, <4>1
      <4>3. accounts[u] > 0 \/ \E d \in Calls : Holds(d, u)
        BY <1>3, <3>1
      <4> QED  BY <4>2, <4>3 DEF SpentInv
    <3>2. \A e \in Admitted : entries'[e].invite \notin withdrawn
      BY <1>7, <2>1 DEF SpentInv
    <3> QED  BY <1>1, <1>3, <2>4, <3>1, <3>2 DEF SpentInv
  <2>7. UsedInv'
    <3>1. \A u \in Invites \ burnt : \A e \in Admitted :
             entries'[e].invite = u /\ entries'[e].used
                => accounts[u] > 0 \/ \E d \in Calls : Holds(d, u)'
      BY <1>3, <1>4, <1>7, <2>1 DEF UsedInv
    <3> QED  BY <1>1, <1>8, <2>4, <3>1 DEF UsedInv
  <2> QED  BY <2>4, <2>6, <2>7
<1>9. CASE entries' = entries /\ burnt' = burnt \cup {t}
  <2>1. SignupStep(c, Free)
    BY <1>1, <1>5, <1>9 DEF SignupStep, WaitTypes
  <2>2. Admitted' = Admitted /\ WaitTypes' /\ RowsInv' /\ LinksInv' /\ CapInv'
    BY <1>6, <2>1, SignupStepKeeps
  <2> HIDE DEF t
  <2>3. SpentInv'
    BY <1>1, <1>3, <1>9, <2>2 DEF SpentInv
  <2>4. UsedInv'
    BY <1>1, <1>3, <1>4, <1>9, <2>2 DEF UsedInv
  <2> QED  BY <2>2, <2>3, <2>4
<1> QED  BY <1>8, <1>9 DEF release_invite

-----------------------------------------------------------------------------
\* Every step keeps the invariant.
LEMMA WaitInvStep ==
    ASSUME Counting, WaitBounds, WaitInv, [WaitNext]_waitVars
    PROVE  WaitInv'
<1>1. CASE UNCHANGED waitVars
  <2>1. Quiet /\ UNCHANGED <<cap, peakCap, admission, calls, inbox>>
    BY <1>1 DEF Quiet, Holds, waitVars
  <2>2. WaitTypes' /\ LinksInv' /\ CapInv'
    BY <2>1, QuietKeeps DEF WaitInv, WaitTypes, LinksInv, CapInv, Quiet
  <2> QED  BY <2>1, <2>2, QuietKeeps DEF WaitInv
<1>2. ASSUME NEW c \in Calls, NEW e \in Emails, signup(c, e) \/ admit_batch(c, e) \/ resend_batch(c, e)
      PROVE  WaitInv'
  BY <1>2, SignupKeeps, AdmitBatchKeeps, ResendKeeps
<1>3. ASSUME NEW c \in Calls,
             CountAdmitted(c) \/ InsertAdmitted(c) \/ InsertQueued(c) \/ SendInvite(c)
      PROVE  WaitInv'
  BY <1>3, CountKeeps, InsertAdmittedKeeps, InsertQueuedKeeps, SendKeeps
<1>4. ASSUME NEW c \in Calls, NEW t \in Invites \cup {NoInvite}, ReadGate(c, t)
      PROVE  WaitInv'
  BY <1>4, GateKeeps
<1>5. ASSUME NEW c \in Calls, redeem_invite(c) \/ create(c) \/ release_invite(c) \/ Dropped(c)
      PROVE  WaitInv'
  BY <1>5, RedeemKeeps, CreateKeeps, ReleaseKeeps, DroppedKeeps
<1>6. ASSUME NEW e \in Emails, delete_batch(e)
      PROVE  WaitInv'
  BY <1>6, DeleteKeeps
<1>7. ASSUME NEW n \in Caps, NEW on \in BOOLEAN, set_config(n, on)
      PROVE  WaitInv'
  BY <1>7, ConfigKeeps
<1> QED  BY <1>1, <1>2, <1>3, <1>4, <1>5, <1>6, <1>7 DEF WaitNext

-----------------------------------------------------------------------------
(* Submissions.                                                            *)

DeskBounds == MaxDeskEvents \in Nat

\* What is left of a moderator's call.
PatchTodos == {<<"precheck", "update">>, <<"update">>, <<"ship">>}
PublishTodos == {<<"load", "promote", "link">>, <<"promote", "link">>, <<"link">>}

PatchCall ==
  [op : {"patch"}, row : Installs, arg : Patches, todo : PatchTodos, who : {Nobody},
   stale : BOOLEAN]
PublishCall ==
  [op : {"publish"}, row : Installs, arg : {"credit", "force_anonymous"},
   todo : PublishTodos, who : Users \cup {COMMUNITY, Nobody}, stale : BOOLEAN]
ShapeRow == [st : RowStatus, rule : BOOLEAN, link : BOOLEAN, who : Users \cup {Nobody}]
FlagCall ==
  [at : {"none", "insert", "commit"}, prior : PostStatus \cup {"none"}, escalates : BOOLEAN]

DeskTypes ==
  /\ shape \in [Installs -> {NoRow} \cup ShapeRow]
  /\ desk \in [Desks -> {NoDesk} \cup PatchCall \cup PublishCall]
  /\ raced \in SUBSET Installs /\ missed \in SUBSET Installs
  /\ deskEvents \in Nat /\ deskEvents <= MaxDeskEvents
PostTypes ==
  /\ copies \in {0, 1} /\ flags \in SUBSET Users /\ cleared \in SUBSET Users
  /\ post \in [status : PostStatus, author : Users \cup {COMMUNITY, Nobody}]
  /\ flagTx \in [Users -> FlagCall]

At(c, s) == c.op # "none" /\ Head(c.todo) = s

\* What the call c knows of the rows s and of the number n of submissions: its
\* row exists, the author it credits sent it, the submission it links is there,
\* and a patch that is not stale may still be applied.
Knows(c, s, n) ==
  /\ c.op # "none" => s[c.row] # NoRow
  /\ At(c, "promote") => c.who = COMMUNITY \/ (c.who # Nobody /\ s[c.row].who = c.who)
  /\ At(c, "link") => n = 1
  /\ At(c, "update") /\ NeedsCheck(c.arg) /\ ~c.stale => ~PatchRefused(s[c.row], c.arg)

CallsKnow == \A m \in Desks : Knows(desk[m], shape, copies)

\* A row is linked to a submission that is there, and until then nothing of it is.
LinksHold ==
  /\ \A i \in Installs : shape[i].link => copies = 1
  /\ copies = 0 => flags = {} /\ post.status = "review"
  /\ copies = 1 => post.author = COMMUNITY \/ post.author # Nobody

Escalates(u) ==
  u \notin flags /\ post.status = "review" /\ Cardinality(flags \cup {u}) >= AUTO_FLAG_THRESHOLD

\* A flag transaction is alone, and the status it read is still the status.
FlagsAlone ==
  \A u \in Users : flagTx[u].at # "none" =>
    /\ copies = 1 /\ flagTx[u].prior = post.status
    /\ \A v \in Users : v # u => flagTx[v].at = "none"
    /\ flagTx[u].at = "commit" => flagTx[u].escalates = Escalates(u)

SubmissionInv ==
  /\ DeskTypes /\ PostTypes /\ CallsKnow /\ LinksHold /\ FlagsAlone
  /\ PublishedOnce /\ RuleIsNamed /\ RuleShips /\ FlagsEscalate

\* The steps of a call follow one another.
LEMMA TodosOrdered ==
  /\ Head(<<"precheck", "update">>) = "precheck" /\ Tail(<<"precheck", "update">>) = <<"update">>
  /\ Head(<<"update">>) = "update" /\ Tail(<<"update">>) = <<>>
  /\ Head(<<"ship">>) = "ship" /\ Tail(<<"ship">>) = <<>>
  /\ Head(<<"load", "promote", "link">>) = "load"
  /\ Tail(<<"load", "promote", "link">>) = <<"promote", "link">>
  /\ Head(<<"promote", "link">>) = "promote" /\ Tail(<<"promote", "link">>) = <<"link">>
  /\ Head(<<"link">>) = "link" /\ Tail(<<"link">>) = <<>>
  /\ <<"update">> # <<>> /\ <<"ship">> # <<>> /\ <<"promote", "link">> # <<>>
  /\ <<"link">> # <<>> /\ <<"precheck", "update">> # <<>>
  /\ <<"load", "promote", "link">> # <<>>
  BY SMT

\* A step of a call says what is left of it.
LEMMA StepsTell ==
  ASSUME NEW c \in {NoDesk} \cup PatchCall \cup PublishCall
  PROVE  /\ At(c, "precheck") => c \in PatchCall /\ Tail(c.todo) = <<"update">>
         /\ At(c, "update") => c \in PatchCall /\ Tail(c.todo) = <<>>
         /\ At(c, "ship") => c \in PatchCall /\ Tail(c.todo) = <<>>
         /\ At(c, "load") => c \in PublishCall /\ Tail(c.todo) = <<"promote", "link">>
         /\ At(c, "promote") => c \in PublishCall /\ Tail(c.todo) = <<"link">>
         /\ At(c, "link") => c \in PublishCall /\ Tail(c.todo) = <<>>
         /\ c = NoDesk \/ c.todo # <<>>
<1>1. CASE c = NoDesk
  BY <1>1, SMT DEF At, NoDesk
<1>2. CASE c \in PatchCall
  <2>1. c.todo \in PatchTodos
    BY <1>2 DEF PatchCall
  <2>. QED BY <1>2, <2>1, TodosOrdered DEF At, PatchTodos
<1>3. CASE c \in PublishCall
  <2>1. c.todo \in PublishTodos
    BY <1>3 DEF PublishCall
  <2>. QED BY <1>3, <2>1, TodosOrdered DEF At, PublishTodos
<1>. QED BY <1>1, <1>2, <1>3

\* One call moves, and nothing else: it knows what it must, and does not leave a
\* shipment behind unless that is recorded.
LEMMA CallMoves ==
  ASSUME SubmissionInv, NEW m \in Desks, NEW c \in {NoDesk} \cup PatchCall \cup PublishCall,
         desk' = [desk EXCEPT ![m] = c], Knows(c, shape, copies),
         UNCHANGED <<shape, copies, post, flags, flagTx, raced, cleared>>,
         missed' \in SUBSET Installs, missed \subseteq missed',
         At(desk[m], "ship") => desk[m].row \in missed',
         deskEvents' \in Nat, deskEvents' <= MaxDeskEvents
  PROVE  SubmissionInv'
<1>1. /\ desk' \in [Desks -> {NoDesk} \cup PatchCall \cup PublishCall]
      /\ \A d \in Desks : desk'[d] = IF d = m THEN c ELSE desk[d]
  BY DEF SubmissionInv, DeskTypes
<1>2. DeskTypes' /\ PostTypes'
  BY <1>1 DEF SubmissionInv, DeskTypes, PostTypes
<1>3. CallsKnow'
  BY <1>1 DEF SubmissionInv, CallsKnow
<1>4. LinksHold' /\ FlagsAlone' /\ PublishedOnce' /\ RuleIsNamed' /\ FlagsEscalate'
  BY DEF SubmissionInv, LinksHold, FlagsAlone, Escalates, PublishedOnce, RuleIsNamed, FlagsEscalate
<1>5. RuleShips'
  <2>. SUFFICES ASSUME NEW i \in Installs, i \notin missed', shape[i].link,
                       shape[i].st = "rule_written",
                       \A d \in Desks : desk'[d].row = i => ~At(desk'[d], "ship")
                PROVE  post.status = "shipped"
    BY DEF RuleShips, AtDesk, At
  <2>1. ASSUME NEW d \in Desks, desk[d].row = i PROVE ~At(desk[d], "ship")
    BY <1>1, <2>1
  <2>2. i \in Installs \ missed /\ RuleShips
    BY DEF SubmissionInv
  <2>. QED BY <2>1, <2>2 DEF RuleShips, AtDesk, At
<1>. QED BY <1>2, <1>3, <1>4, <1>5 DEF SubmissionInv

\* No call is at no step, and there is nothing it must know.
LEMMA IdleAtNothing == \A s : ~At(NoDesk, s)
  BY SMT DEF At, NoDesk

LEMMA IdleKnows == \A s, n : Knows(NoDesk, s, n)
  BY DEF Knows, At, NoDesk

LEMMA CallBegins ==
  ASSUME SubmissionInv, DeskBounds, NEW m \in Desks, NEW q \in DeskRequests, BeginDesk(m, q)
  PROVE  SubmissionInv'
<1>. DEFINE c == [op |-> q.op, row |-> q.row, arg |-> q.arg, todo |-> q.todo,
                  who |-> Nobody, stale |-> FALSE]
<1>1. /\ desk' = [desk EXCEPT ![m] = c] /\ shape[q.row] # NoRow /\ desk[m].op = "none"
      /\ UNCHANGED <<shape, copies, post, flags, flagTx, raced, missed, cleared>>
  BY DEF BeginDesk, shapeRow, community, deskGhosts
<1>2. deskEvents' \in Nat /\ deskEvents' <= MaxDeskEvents
  BY SMT DEF BeginDesk, Spend, SubmissionInv, DeskTypes, DeskBounds
<1>3. CASE q.op = "patch"
  <2>1. PICK d \in Installs \X Patches :
          q = [op |-> "patch", row |-> d[1], arg |-> d[2], todo |-> patch_submission(d[2])]
    BY <1>3, SMT DEF DeskRequests
  <2>2. c \in PatchCall
    BY <2>1, SMT DEF PatchCall, PatchTodos, patch_submission
  <2>3. /\ c.row = q.row /\ c.todo = patch_submission(c.arg)
    BY <2>1, SMT
  <2>4. Knows(c, shape, copies)
    BY <1>1, <2>3, TodosOrdered DEF Knows, At, patch_submission
  <2>. QED BY <1>1, <1>2, <2>2, <2>4, CallMoves DEF At, SubmissionInv, DeskTypes
<1>4. CASE q.op # "patch"
  <2>1. q \in [op : {"publish"}, row : Installs, arg : {"credit", "force_anonymous"},
               todo : {publish_to_community}]
    BY <1>4, SMT DEF DeskRequests
  <2>2. c \in PublishCall
    BY <2>1, SMT DEF PublishCall, PublishTodos, publish_to_community
  <2>3. c.row = q.row /\ c.todo = <<"load", "promote", "link">>
    BY <2>1, SMT DEF publish_to_community
  <2>4. Knows(c, shape, copies)
    BY <1>1, <2>3, TodosOrdered DEF Knows, At
  <2>. QED BY <1>1, <1>2, <2>2, <2>4, CallMoves DEF At, SubmissionInv, DeskTypes
<1>. QED BY <1>3, <1>4

\* A call that goes on keeps all but its steps.
LEMMA CallGoesOn ==
  ASSUME SubmissionInv, NEW m \in Desks, NEW s \in PatchTodos \cup PublishTodos,
         desk[m] \in PatchCall => s \in PatchTodos,
         desk[m] \in PublishCall => s \in PublishTodos, desk[m] # NoDesk
  PROVE  LET c == [desk[m] EXCEPT !.todo = s]
         IN  /\ c \in PatchCall \cup PublishCall
             /\ c.op = desk[m].op /\ c.row = desk[m].row /\ c.arg = desk[m].arg
             /\ c.who = desk[m].who /\ c.stale = desk[m].stale /\ c.todo = s
<1>1. desk[m] \in PatchCall \cup PublishCall
  BY DEF SubmissionInv, DeskTypes
<1>2. CASE desk[m] \in PatchCall
  BY <1>2, SMT DEF PatchCall
<1>3. CASE desk[m] \in PublishCall
  BY <1>3, SMT DEF PublishCall
<1>. QED BY <1>1, <1>2, <1>3

LEMMA Prechecked ==
  ASSUME SubmissionInv, NEW m \in Desks, Precheck(m)
  PROVE  SubmissionInv'
<1>0. desk[m] \in {NoDesk} \cup PatchCall \cup PublishCall /\ At(desk[m], "precheck")
  BY DEF SubmissionInv, DeskTypes, Precheck, AtDesk, At
<1>1. /\ desk[m] \in PatchCall /\ Tail(desk[m].todo) = <<"update">> /\ desk[m] # NoDesk
      /\ ~At(desk[m], "ship")
  BY <1>0, StepsTell, IdleAtNothing DEF At
<1>2. /\ UNCHANGED <<shape, copies, post, flags, flagTx, raced, missed, cleared, deskEvents>>
      /\ IF PatchRefused(shape[desk[m].row], desk[m].arg)
         THEN desk' = [desk EXCEPT ![m] = NoDesk]
         ELSE desk' = [desk EXCEPT ![m] = [desk[m] EXCEPT !.todo = <<"update">>]]
  BY <1>1, TodosOrdered DEF Precheck, DeskDo, DeskOn, shapeRow, community, deskGhosts
<1>3. /\ deskEvents' \in Nat /\ deskEvents' <= MaxDeskEvents
      /\ missed' \in SUBSET Installs /\ missed \subseteq missed'
  BY <1>2 DEF SubmissionInv, DeskTypes
<1>4. CASE PatchRefused(shape[desk[m].row], desk[m].arg)
  BY <1>1, <1>2, <1>3, <1>4, IdleKnows, CallMoves
<1>5. CASE ~PatchRefused(shape[desk[m].row], desk[m].arg)
  <2>. DEFINE c == [desk[m] EXCEPT !.todo = <<"update">>]
  <2>1. /\ c \in PatchCall \cup PublishCall /\ c.todo = <<"update">>
        /\ c.op = desk[m].op /\ c.row = desk[m].row /\ c.arg = desk[m].arg
    <3>1. <<"update">> \in PatchTodos /\ ~(desk[m] \in PublishCall)
      BY <1>1, SMT DEF PatchTodos, PatchCall, PublishCall
    <3>. QED BY <1>1, <3>1, CallGoesOn
  <2>. HIDE DEF c
  <2>2. Knows(c, shape, copies)
    BY <1>0, <1>5, <2>1, TodosOrdered DEF Knows, At, SubmissionInv, CallsKnow
  <2>3. desk' = [desk EXCEPT ![m] = c]
    BY <1>2, <1>5 DEF c
  <2>. QED BY <1>1, <1>2, <1>3, <2>1, <2>2, <2>3, CallMoves
<1>. QED BY <1>4, <1>5

LEMMA AuthorChosen ==
  ASSUME NEW e \in PublishCall, NEW a \in Users \cup {COMMUNITY, Nobody}
  PROVE  LET c == [e EXCEPT !.todo = <<"promote", "link">>, !.who = a]
         IN  /\ c \in PublishCall /\ c.todo = <<"promote", "link">> /\ c.who = a
             /\ c.row = e.row
<1>. DEFINE b == [e EXCEPT !.todo = <<"promote", "link">>]
            c == [e EXCEPT !.todo = <<"promote", "link">>, !.who = a]
<1>1. <<"promote", "link">> \in PublishTodos
  BY DEF PublishTodos
<1>2. b \in PublishCall
  BY <1>1, SMT DEF PublishCall
<1>3. c = [b EXCEPT !.who = a]
  BY SMT DEF PublishCall
<1>4. ASSUME NEW f \in PublishCall PROVE [f EXCEPT !.who = a] \in PublishCall
  BY <1>4, SMT DEF PublishCall
<1>5. c.todo = <<"promote", "link">> /\ c.who = a /\ c.row = e.row
  BY SMT DEF PublishCall
<1>. QED BY <1>2, <1>3, <1>4, <1>5

LEMMA Loaded ==
  ASSUME SubmissionInv, NEW m \in Desks, Load(m)
  PROVE  SubmissionInv'
<1>. DEFINE r == shape[desk[m].row]
            w == IF r.who # Nobody /\ desk[m].arg = "credit" THEN r.who ELSE COMMUNITY
            c == [desk[m] EXCEPT !.todo = <<"promote", "link">>, !.who = w]
<1>0. desk[m] \in {NoDesk} \cup PatchCall \cup PublishCall /\ At(desk[m], "load")
  BY DEF SubmissionInv, DeskTypes, Load, AtDesk, At
<1>1. /\ desk[m] \in PublishCall /\ Tail(desk[m].todo) = <<"promote", "link">>
      /\ ~At(desk[m], "ship") /\ desk[m].row \in Installs /\ desk[m].op = "publish"
  BY <1>0, StepsTell DEF At, PublishCall
<1>2. UNCHANGED <<shape, copies, post, flags, flagTx, raced, missed, cleared, deskEvents>>
  BY DEF Load, shapeRow, community, deskGhosts
<1>3. /\ deskEvents' \in Nat /\ deskEvents' <= MaxDeskEvents
      /\ missed' \in SUBSET Installs /\ missed \subseteq missed'
  BY <1>2 DEF SubmissionInv, DeskTypes
<1>4. CASE r.link
  <2>1. desk' = [desk EXCEPT ![m] = NoDesk]
    BY <1>4 DEF Load
  <2>. QED BY <1>1, <1>2, <1>3, <2>1, IdleKnows, CallMoves
<1>5. CASE ~r.link
  <2>1. desk' = [desk EXCEPT ![m] = c]
    BY <1>1, <1>5 DEF Load
  <2>2. r \in {NoRow} \cup ShapeRow
    BY <1>1 DEF SubmissionInv, DeskTypes
  <2>3. w \in Users \cup {COMMUNITY, Nobody}
    BY <2>2, SMT DEF NoRow, ShapeRow
  <2>4. r # NoRow
    BY <1>1 DEF SubmissionInv, CallsKnow, Knows
  <2>5. w = COMMUNITY \/ (w # Nobody /\ r.who = w)
    OBVIOUS
  <2>. HIDE DEF w
  <2>6. /\ c \in PublishCall /\ c.todo = <<"promote", "link">> /\ c.who = w
        /\ c.row = desk[m].row
    BY <1>1, <2>3, AuthorChosen
  <2>. HIDE DEF c
  <2>7. Knows(c, shape, copies)
    BY <2>4, <2>5, <2>6, TodosOrdered DEF Knows, At
  <2>. QED BY <1>1, <1>2, <1>3, <2>1, <2>6, <2>7, CallMoves
<1>. QED BY <1>4, <1>5

LEMMA CallFails ==
  ASSUME SubmissionInv, DeskBounds, NEW m \in Desks, DeskFails(m)
  PROVE  SubmissionInv'
<1>1. /\ desk' = [desk EXCEPT ![m] = NoDesk] /\ desk[m].op # "none"
      /\ UNCHANGED <<shape, copies, post, flags, flagTx, raced, cleared>>
      /\ missed' = IF At(desk[m], "ship") THEN missed \cup {desk[m].row} ELSE missed
  BY DEF DeskFails, DeskDo, AtDesk, At, shapeRow, community
<1>2. deskEvents' \in Nat /\ deskEvents' <= MaxDeskEvents
  BY SMT DEF DeskFails, Spend, SubmissionInv, DeskTypes, DeskBounds
<1>3. desk[m].row \in Installs /\ missed \in SUBSET Installs
  BY <1>1, SMT DEF SubmissionInv, DeskTypes, NoDesk, PatchCall, PublishCall
<1>4. /\ missed' \in SUBSET Installs /\ missed \subseteq missed'
      /\ At(desk[m], "ship") => desk[m].row \in missed'
  BY <1>1, <1>3
<1>. QED BY <1>1, <1>2, <1>4, IdleKnows, CallMoves

LEMMA Shipped ==
  ASSUME SubmissionInv, NEW m \in Desks, mark_shipped_by_source(m)
  PROVE  SubmissionInv'
<1>0. desk[m] \in {NoDesk} \cup PatchCall \cup PublishCall /\ At(desk[m], "ship")
  BY DEF SubmissionInv, DeskTypes, mark_shipped_by_source, AtDesk, At
<1>1. Tail(desk[m].todo) = <<>>
  BY <1>0, StepsTell
<1>2. /\ UNCHANGED <<shape, copies, flags, flagTx, raced, missed, cleared, deskEvents>>
      /\ desk' = [desk EXCEPT ![m] = NoDesk] /\ Unlocked
      /\ post' = IF copies = 0 THEN post ELSE [post EXCEPT !.status = "shipped"]
  BY <1>1 DEF mark_shipped_by_source, DeskOn, DeskDo, shapeRow, deskGhosts
<1>3. /\ desk' \in [Desks -> {NoDesk} \cup PatchCall \cup PublishCall]
      /\ \A d \in Desks : desk'[d] = IF d = m THEN NoDesk ELSE desk[d]
  BY <1>2 DEF SubmissionInv, DeskTypes
<1>4. /\ post' \in [status : PostStatus, author : Users \cup {COMMUNITY, Nobody}]
      /\ post'.author = post.author
      /\ copies = 1 => post'.status = "shipped"
      /\ copies = 0 => post' = post
  BY <1>2, SMT DEF SubmissionInv, PostTypes, PostStatus
<1>5. DeskTypes' /\ PostTypes'
  BY <1>2, <1>3, <1>4 DEF SubmissionInv, DeskTypes, PostTypes
<1>6. CallsKnow'
  BY <1>2, <1>3, IdleKnows DEF SubmissionInv, CallsKnow
<1>7. FlagsAlone'
  BY <1>2 DEF FlagsAlone, Unlocked
<1>8. copies = 0 \/ copies = 1
  BY DEF SubmissionInv, PostTypes
<1>9. LinksHold' /\ PublishedOnce' /\ RuleIsNamed'
  BY <1>2, <1>4 DEF SubmissionInv, LinksHold, PublishedOnce, RuleIsNamed
<1>10. FlagsEscalate'
  BY <1>2, <1>4, <1>8 DEF SubmissionInv, FlagsEscalate
<1>11. RuleShips'
  BY <1>2, <1>4, <1>8 DEF SubmissionInv, LinksHold, RuleShips
<1>. QED BY <1>5, <1>6, <1>7, <1>9, <1>10, <1>11 DEF SubmissionInv

LEMMA Promoted ==
  ASSUME SubmissionInv, NEW m \in Desks, create_promoted(m)
  PROVE  SubmissionInv'
<1>. DEFINE c == [desk[m] EXCEPT !.todo = <<"link">>]
<1>0. desk[m] \in {NoDesk} \cup PatchCall \cup PublishCall /\ At(desk[m], "promote")
  BY DEF SubmissionInv, DeskTypes, create_promoted, AtDesk, At
<1>1. /\ desk[m] \in PublishCall /\ Tail(desk[m].todo) = <<"link">> /\ desk[m] # NoDesk
      /\ ~At(desk[m], "ship") /\ desk[m].row \in Installs
      /\ desk[m].who \in Users \cup {COMMUNITY, Nobody}
  BY <1>0, StepsTell, IdleAtNothing DEF At, PublishCall
<1>2. /\ UNCHANGED <<shape, flags, flagTx, raced, missed, cleared, deskEvents>>
      /\ desk' = [desk EXCEPT ![m] = c]
      /\ copies = 0 => /\ copies' = 1
                       /\ post' = [status |-> "review", author |-> desk[m].who]
      /\ copies # 0 => UNCHANGED <<copies, post>>
  <2>1. 0 + 1 = 1
    BY SMT
  <2>. QED BY <1>1, <2>1, TodosOrdered
           DEF create_promoted, NoConflict, DeskOn, DeskDo, shapeRow, deskGhosts
<1>3. /\ deskEvents' \in Nat /\ deskEvents' <= MaxDeskEvents
      /\ missed' \in SUBSET Installs /\ missed \subseteq missed'
      /\ copies = 0 \/ copies = 1
  BY <1>2 DEF SubmissionInv, DeskTypes, PostTypes
<1>4. c \in PatchCall \cup PublishCall /\ c.todo = <<"link">> /\ c.row = desk[m].row
  <2>1. <<"link">> \in PublishTodos /\ ~(desk[m] \in PatchCall)
    BY <1>1, SMT DEF PublishTodos, PatchCall, PublishCall
  <2>. QED BY <1>1, <2>1, CallGoesOn
<1>. HIDE DEF c
<1>5. shape[desk[m].row] # NoRow
  BY <1>0 DEF SubmissionInv, CallsKnow, Knows, At
<1>6. desk[m].who = COMMUNITY \/ (desk[m].who # Nobody /\ shape[desk[m].row].who = desk[m].who)
  BY <1>0 DEF SubmissionInv, CallsKnow, Knows
<1>7. Knows(c, shape, 1)
  BY <1>4, <1>5, TodosOrdered DEF Knows, At
<1>8. CASE copies = 1
  <2>1. copies # 0
    BY <1>8, SMT
  <2>. QED BY <1>1, <1>2, <1>3, <1>4, <1>7, <1>8, <2>1, CallMoves
<1>9. CASE copies = 0
  <2>1. /\ desk' \in [Desks -> {NoDesk} \cup PatchCall \cup PublishCall]
        /\ \A d \in Desks : desk'[d] = IF d = m THEN c ELSE desk[d]
    BY <1>2, <1>4 DEF SubmissionInv, DeskTypes
  <2>2. copies # 1 /\ copies' = 1 /\ copies' # 0 /\ copies' <= 1 /\ copies' \in {0, 1}
    BY <1>2, <1>9, SMT
  <2>3. /\ post' \in [status : PostStatus, author : Users \cup {COMMUNITY, Nobody}]
        /\ post'.author = desk[m].who
    BY <1>1, <1>2, <1>9, SMT DEF PostStatus
  <2>4. DeskTypes' /\ PostTypes'
    BY <1>2, <2>1, <2>2, <2>3 DEF SubmissionInv, DeskTypes, PostTypes
  <2>5. CallsKnow'
    BY <1>2, <1>7, <2>1, <2>2 DEF SubmissionInv, CallsKnow, Knows
  <2>6. FlagsAlone'
    BY <1>2, <2>2 DEF SubmissionInv, FlagsAlone
  <2>7. LinksHold' /\ PublishedOnce' /\ RuleIsNamed'
    BY <1>1, <1>2, <1>6, <2>2, <2>3 DEF SubmissionInv, LinksHold, PublishedOnce, RuleIsNamed
  <2>8. FlagsEscalate'
    BY <1>2, <1>9 DEF SubmissionInv, LinksHold, FlagsEscalate
  <2>9. RuleShips'
    BY <1>2, <2>2 DEF SubmissionInv, LinksHold, RuleShips
  <2>. QED BY <2>4, <2>5, <2>6, <2>7, <2>8, <2>9 DEF SubmissionInv
<1>. QED BY <1>3, <1>8, <1>9

\* A call knows what it knew if its row is still there, its sender is who it was,
\* and its patch, unless stale, applies as before.
LEMMA KnowsStill ==
  ASSUME NEW c, NEW s, NEW t, NEW n, Knows(c, s, n),
         c.op # "none" /\ s[c.row] # NoRow => t[c.row] # NoRow,
         c.op # "none" /\ s[c.row].who # Nobody => t[c.row].who = s[c.row].who,
         At(c, "update") /\ ~c.stale
           => /\ t[c.row].st = s[c.row].st /\ t[c.row].rule = s[c.row].rule
              /\ s[c.row] \in ShapeRow /\ t[c.row] \in ShapeRow
  PROVE  Knows(c, t, n)
<1>1. ASSUME NEW p, NEW a \in ShapeRow, NEW b \in ShapeRow, a.st = b.st, a.rule = b.rule
      PROVE  PatchRefused(a, p) = PatchRefused(b, p)
  BY <1>1, SMT DEF PatchRefused, RuleMissing, Applied, ShapeRow
<1>2. /\ c.op # "none" => t[c.row] # NoRow
      /\ At(c, "promote") => c.who = COMMUNITY \/ (c.who # Nobody /\ t[c.row].who = c.who)
      /\ At(c, "link") => n = 1
  BY DEF Knows, At
<1>3. At(c, "update") /\ NeedsCheck(c.arg) /\ ~c.stale => ~PatchRefused(t[c.row], c.arg)
  BY <1>1 DEF Knows
<1>. QED BY <1>2, <1>3 DEF Knows

\* A call c whose row i is overwritten by r is gone, as it was (but stale, if its
\* patch might apply otherwise now), or has yet to ship the row.
Heeds(e, c, i, r) ==
  \/ e = NoDesk
  \/ /\ e.op = c.op /\ e.row = c.row /\ e.arg = c.arg /\ e.who = c.who /\ e.todo = c.todo
     /\ c.stale => e.stale
     /\ c.row = i /\ At(c, "update") /\ ~e.stale
          => shape[i] \in ShapeRow /\ r.st = shape[i].st /\ r.rule = shape[i].rule
  \/ e.todo = <<"ship">> /\ e.row = i

\* A row is written, and the calls that had checked it are stale.
LEMMA RowWritten ==
  ASSUME SubmissionInv, NEW i \in Installs, NEW r \in ShapeRow, r # NoRow,
         shape' = [shape EXCEPT ![i] = r],
         shape[i].who # Nobody => r.who = shape[i].who,
         UNCHANGED <<copies, post, flags, flagTx, cleared>>,
         desk' \in [Desks -> {NoDesk} \cup PatchCall \cup PublishCall],
         \A d \in Desks : Heeds(desk'[d], desk[d], i, r),
         r.link => copies = 1
  PROVE  CallsKnow' /\ LinksHold' /\ FlagsAlone' /\ PublishedOnce' /\ FlagsEscalate'
<1>1. /\ shape' \in [Installs -> {NoRow} \cup ShapeRow]
      /\ \A j \in Installs : shape'[j] = IF j = i THEN r ELSE shape[j]
  BY DEF SubmissionInv, DeskTypes
<1>2. CallsKnow'
  <2>. SUFFICES ASSUME NEW d \in Desks PROVE Knows(desk'[d], shape', copies)
    BY DEF CallsKnow
  <2>0. desk'[d] = NoDesk \/ (desk'[d].row \in Installs /\ desk'[d].op # "none")
    BY SMT DEF PatchCall, PublishCall
  <2>1. CASE desk'[d] = NoDesk
    BY <2>1, IdleKnows
  <2>2. CASE desk'[d] # NoDesk /\ desk'[d].todo = <<"ship">> /\ desk'[d].row = i
    BY <1>1, <2>2, TodosOrdered DEF Knows, At
  <2>3. CASE /\ desk'[d].op = desk[d].op /\ desk'[d].row = desk[d].row
             /\ desk'[d].arg = desk[d].arg /\ desk'[d].who = desk[d].who
             /\ desk'[d].todo = desk[d].todo /\ desk'[d] # NoDesk
             /\ desk[d].stale => desk'[d].stale
             /\ desk[d].row = i /\ At(desk[d], "update") /\ ~desk'[d].stale
                  => /\ shape[i] \in ShapeRow
                     /\ r.st = shape[i].st /\ r.rule = shape[i].rule
    <3>1. Knows(desk[d], shape, copies) /\ shape[desk[d].row] \in {NoRow} \cup ShapeRow
      BY <2>0, <2>3 DEF SubmissionInv, CallsKnow, DeskTypes
    <3>2. Knows(desk'[d], shape, copies)
      BY <2>3, <3>1 DEF Knows, At
    <3>3. /\ shape'[desk[d].row] # NoRow
          /\ shape[desk[d].row].who # Nobody => shape'[desk[d].row].who = shape[desk[d].row].who
      BY <1>1, <2>0, <2>3, <3>1 DEF Knows
    <3>4. At(desk[d], "update") /\ ~desk'[d].stale
            => /\ shape'[desk[d].row].st = shape[desk[d].row].st
               /\ shape'[desk[d].row].rule = shape[desk[d].row].rule
               /\ shape[desk[d].row] \in ShapeRow /\ shape'[desk[d].row] \in ShapeRow
      BY <1>1, <2>0, <2>3, <3>1 DEF Knows, At
    <3>. QED BY <2>3, <3>2, <3>3, <3>4, KnowsStill DEF At
  <2>. QED BY <2>1, <2>2, <2>3 DEF Heeds
<1>3. LinksHold' /\ FlagsAlone' /\ FlagsEscalate'
  BY <1>1 DEF SubmissionInv, LinksHold, FlagsAlone, Escalates, FlagsEscalate
<1>4. PublishedOnce'
  BY <1>1 DEF SubmissionInv, LinksHold, PublishedOnce
<1>. QED BY <1>2, <1>3, <1>4

LEMMA RowOpened ==
  ASSUME NEW w \in Users \cup {Nobody}
  PROVE  LET r == [st |-> "open", rule |-> FALSE, link |-> FALSE, who |-> w]
         IN  r \in ShapeRow /\ r # NoRow /\ r.st = "open" /\ r.link = FALSE /\ NoRow.who = Nobody
<1>. DEFINE a == [st |-> "open", rule |-> FALSE, link |-> FALSE, who |-> w]
<1>1. a \in ShapeRow /\ a.st = "open" /\ a.link = FALSE
  BY DEF ShapeRow, RowStatus
<1>2. NoRow.st = "none" /\ NoRow.who = Nobody
  BY DEF NoRow
<1>. HIDE DEF a
<1>3. a # NoRow
  BY <1>1, <1>2
<1>. QED BY <1>1, <1>2, <1>3 DEF a

LEMMA SenderNamed ==
  ASSUME NEW a \in ShapeRow, NEW w \in Users \cup {Nobody}
  PROVE  LET r == [a EXCEPT !.who = w]
         IN  /\ r \in ShapeRow /\ r # NoRow /\ r.who = w
             /\ r.st = a.st /\ r.rule = a.rule /\ r.link = a.link
  BY SMT DEF ShapeRow, NoRow, RowStatus

LEMMA Sent ==
  ASSUME SubmissionInv, DeskBounds, NEW i \in Installs, NEW who \in Users \cup {Nobody},
         upsert(i, who)
  PROVE  SubmissionInv'
<1>. DEFINE r == IF shape[i] = NoRow
                 THEN [st |-> "open", rule |-> FALSE, link |-> FALSE, who |-> who]
                 ELSE [shape[i] EXCEPT !.who = coalesce(@, who)]
<1>1. /\ shape' = [shape EXCEPT ![i] = r]
      /\ UNCHANGED <<copies, post, flags, flagTx, cleared, desk, raced, missed>>
  BY DEF upsert, community, deskGhosts
<1>2. deskEvents' \in Nat /\ deskEvents' <= MaxDeskEvents
  BY SMT DEF upsert, Spend, SubmissionInv, DeskTypes, DeskBounds
<1>3. shape[i] \in {NoRow} \cup ShapeRow
  BY DEF SubmissionInv, DeskTypes
<1>4. CASE shape[i] = NoRow
  <2>1. /\ r \in ShapeRow /\ r # NoRow /\ r.st = "open" /\ r.link = FALSE
        /\ shape[i].who = Nobody
    <3>1. r = [st |-> "open", rule |-> FALSE, link |-> FALSE, who |-> who]
      BY <1>4
    <3>. HIDE DEF r
    <3>. QED BY <1>4, <3>1, RowOpened
  <2>2. \A d \in Desks : At(desk[d], "update") => desk[d].row # i
    BY <1>4 DEF SubmissionInv, CallsKnow, Knows, At
  <2>. HIDE DEF r
  <2>3. CallsKnow' /\ LinksHold' /\ FlagsAlone' /\ PublishedOnce' /\ FlagsEscalate'
    <3>1. \A d \in Desks : Heeds(desk'[d], desk[d], i, r)
      BY <1>1, <2>1, <2>2 DEF Heeds
    <3>. QED BY <1>1, <2>1, <2>2, <3>1, RowWritten DEF SubmissionInv, DeskTypes
  <2>4. /\ shape' \in [Installs -> {NoRow} \cup ShapeRow]
        /\ \A j \in Installs : shape'[j] = IF j = i THEN r ELSE shape[j]
    BY <1>1, <2>1 DEF SubmissionInv, DeskTypes
  <2>5. DeskTypes' /\ PostTypes'
    BY <1>1, <1>2, <2>4 DEF SubmissionInv, DeskTypes, PostTypes
  <2>6. RuleIsNamed'
    BY <1>1, <2>1, <2>4 DEF SubmissionInv, RuleIsNamed, RuleMissing
  <2>7. RuleShips'
    <3>1. RuleShips /\ UNCHANGED <<missed, desk, post>>
      BY <1>1 DEF SubmissionInv
    <3>2. \A j \in Installs : shape'[j].link /\ shape'[j].st = "rule_written"
                              => shape[j].link /\ shape[j].st = "rule_written"
      BY <2>1, <2>4
    <3>. QED BY <3>1, <3>2 DEF RuleShips, AtDesk
  <2>. QED BY <2>3, <2>5, <2>6, <2>7 DEF SubmissionInv
<1>5. CASE shape[i] # NoRow
  <2>1. /\ r \in ShapeRow /\ r # NoRow /\ shape[i] \in ShapeRow
        /\ r.st = shape[i].st /\ r.rule = shape[i].rule /\ r.link = shape[i].link
        /\ shape[i].who # Nobody => r.who = shape[i].who
    <3>1. shape[i] \in ShapeRow
      BY <1>3, <1>5
    <3>. DEFINE w == coalesce(shape[i].who, who)
    <3>2. w \in Users \cup {Nobody} /\ (shape[i].who # Nobody => w = shape[i].who)
      BY <3>1 DEF coalesce, ShapeRow
    <3>3. r = [shape[i] EXCEPT !.who = w]
      BY <1>5
    <3>. HIDE DEF w, r
    <3>. QED BY <3>1, <3>2, <3>3, SenderNamed
  <2>. HIDE DEF r
  <2>2. r.link => copies = 1
    BY <2>1 DEF SubmissionInv, LinksHold
  <2>3. CallsKnow' /\ LinksHold' /\ FlagsAlone' /\ PublishedOnce' /\ FlagsEscalate'
    <3>1. \A d \in Desks : Heeds(desk'[d], desk[d], i, r)
      BY <1>1, <2>1, <2>2 DEF Heeds
    <3>. QED BY <1>1, <2>1, <2>2, <3>1, RowWritten DEF SubmissionInv, DeskTypes
  <2>4. /\ shape' \in [Installs -> {NoRow} \cup ShapeRow]
        /\ \A j \in Installs : shape'[j] = IF j = i THEN r ELSE shape[j]
    BY <1>1, <2>1 DEF SubmissionInv, DeskTypes
  <2>5. DeskTypes' /\ PostTypes'
    BY <1>1, <1>2, <2>4 DEF SubmissionInv, DeskTypes, PostTypes
  <2>6. \A j \in Installs : /\ shape'[j].st = shape[j].st /\ shape'[j].rule = shape[j].rule
                            /\ shape'[j].link = shape[j].link
    BY <2>1, <2>4
  <2>7. RuleIsNamed'
    BY <1>1, <2>6 DEF SubmissionInv, RuleIsNamed, RuleMissing
  <2>8. RuleShips'
    <3>1. RuleShips /\ UNCHANGED <<missed, desk, post>>
      BY <1>1 DEF SubmissionInv
    <3>2. \A j \in Installs : shape'[j].link /\ shape'[j].st = "rule_written"
                              => shape[j].link /\ shape[j].st = "rule_written"
      BY <2>6
    <3>. QED BY <3>1, <3>2 DEF RuleShips, AtDesk
  <2>. QED BY <2>3, <2>5, <2>7, <2>8 DEF SubmissionInv
<1>. QED BY <1>4, <1>5

LEMMA RowLinked ==
  ASSUME NEW a \in ShapeRow
  PROVE  LET r == [a EXCEPT !.link = TRUE]
         IN  /\ r \in ShapeRow /\ r # NoRow /\ r.link
             /\ r.st = a.st /\ r.rule = a.rule /\ r.who = a.who
<1>1. [a EXCEPT !.link = TRUE] \in ShapeRow
  BY DEF ShapeRow
<1>. QED BY <1>1, SMT DEF ShapeRow, NoRow, RowStatus

LEMMA Linked ==
  ASSUME SubmissionInv, NEW m \in Desks, link_community(m)
  PROVE  SubmissionInv'
<1>. DEFINE i == desk[m].row
            r == [shape[i] EXCEPT !.link = TRUE]
<1>0. desk[m] \in {NoDesk} \cup PatchCall \cup PublishCall /\ At(desk[m], "link")
  BY DEF SubmissionInv, DeskTypes, link_community, AtDesk, At
<1>1. /\ desk[m] \in PublishCall /\ Tail(desk[m].todo) = <<>> /\ i \in Installs
      /\ ~At(desk[m], "ship")
  BY <1>0, StepsTell DEF At, PublishCall
<1>2. shape[i] # NoRow /\ copies = 1
  BY <1>0 DEF SubmissionInv, CallsKnow, Knows, At
<1>3. shape[i] \in ShapeRow /\ raced \in SUBSET Installs
  BY <1>1, <1>2 DEF SubmissionInv, DeskTypes
<1>4. /\ UNCHANGED <<copies, post, flags, flagTx, cleared, raced, deskEvents>>
      /\ desk' = [desk EXCEPT ![m] = NoDesk]
      /\ shape' = [shape EXCEPT ![i] = r]
      /\ missed' = IF shape[i].st = "rule_written" /\ ~shape[i].link THEN missed \cup {i} ELSE missed
  BY <1>1 DEF link_community, DeskOn, DeskDo, community
<1>5. /\ r \in ShapeRow /\ r # NoRow /\ r.link /\ r.who = shape[i].who
      /\ r.st = shape[i].st /\ r.rule = shape[i].rule
  BY <1>3, RowLinked
<1>. HIDE DEF r
<1>6. /\ desk' \in [Desks -> {NoDesk} \cup PatchCall \cup PublishCall]
      /\ \A d \in Desks : desk'[d] = IF d = m THEN NoDesk ELSE desk[d]
  BY <1>4 DEF SubmissionInv, DeskTypes
<1>7. CallsKnow' /\ LinksHold' /\ FlagsAlone' /\ PublishedOnce' /\ FlagsEscalate'
  <2>1. \A d \in Desks : Heeds(desk'[d], desk[d], i, r)
    BY <1>3, <1>5, <1>6 DEF Heeds
  <2>. HIDE DEF i
  <2>. QED BY <1>1, <1>2, <1>4, <1>5, <1>6, <2>1, RowWritten
<1>8. /\ shape' \in [Installs -> {NoRow} \cup ShapeRow]
      /\ \A j \in Installs : shape'[j] = IF j = i THEN r ELSE shape[j]
  BY <1>1, <1>4, <1>5 DEF SubmissionInv, DeskTypes
<1>9. DeskTypes' /\ PostTypes'
  BY <1>1, <1>4, <1>6, <1>8 DEF SubmissionInv, DeskTypes, PostTypes
<1>10. RuleIsNamed'
  BY <1>4, <1>5, <1>8 DEF SubmissionInv, RuleIsNamed, RuleMissing
<1>11. RuleShips'
  <2>. SUFFICES ASSUME NEW j \in Installs, j \notin missed', shape'[j].link,
                       shape'[j].st = "rule_written",
                       \A d \in Desks : desk'[d].row = j => ~At(desk'[d], "ship")
                PROVE  post.status = "shipped"
    BY <1>4 DEF RuleShips, AtDesk, At
  <2>1. j \in Installs \ missed /\ shape[j].st = "rule_written" /\ shape[j].link
    BY <1>4, <1>5, <1>8
  <2>2. \A d \in Desks : desk[d].row = j => ~At(desk[d], "ship")
    BY <1>1, <1>6
  <2>. QED BY <2>1, <2>2 DEF SubmissionInv, RuleShips, AtDesk, At
<1>. QED BY <1>7, <1>9, <1>10, <1>11 DEF SubmissionInv

LEMMA PatchApplied ==
  ASSUME NEW a \in ShapeRow, NEW p \in Patches
  PROVE  LET r == Applied(a, p)
         IN  /\ r \in ShapeRow /\ r # NoRow /\ r.link = a.link /\ r.who = a.who
             /\ r.st = IF p.st = "keep" THEN a.st ELSE p.st
<1>. DEFINE s == IF p.st = "keep" THEN a.st ELSE p.st
            u == IF p.rule = "keep" THEN a.rule ELSE p.rule = "set"
            r == Applied(a, p)
            b == [a EXCEPT !.st = s]
<1>1. s \in RowStatus /\ u \in BOOLEAN
  <2>1. a.st \in RowStatus /\ a.rule \in BOOLEAN /\ p.st \in RowStatus \cup {"keep"}
    BY SMT DEF ShapeRow, Patches
  <2>. QED BY <2>1
<1>2. r = [a EXCEPT !.st = s, !.rule = u]
  BY DEF Applied
<1>. HIDE DEF s, u, r
<1>3. b \in ShapeRow /\ b.link = a.link /\ b.who = a.who /\ b.st = s
  BY <1>1, SMT DEF ShapeRow
<1>4. r = [b EXCEPT !.rule = u]
  BY <1>2 DEF ShapeRow
<1>. HIDE DEF b
<1>5. [b EXCEPT !.rule = u] \in ShapeRow
  BY <1>1, <1>3 DEF ShapeRow
<1>6. r.link = a.link /\ r.who = a.who /\ r.st = s
  BY <1>3, <1>4, SMT DEF ShapeRow
<1>7. r # NoRow
  BY <1>1, <1>6, SMT DEF NoRow, RowStatus
<1>. QED BY <1>4, <1>5, <1>6, <1>7 DEF s, r

\* A call that is told its row has moved keeps all but that mark.
LEMMA CallStaled ==
  ASSUME NEW c \in {NoDesk} \cup PatchCall \cup PublishCall, NEW b \in BOOLEAN, b => c # NoDesk
  PROVE  LET e == [c EXCEPT !.stale = @ \/ b]
         IN  /\ e \in {NoDesk} \cup PatchCall \cup PublishCall /\ (c = NoDesk => e = NoDesk)
             /\ e.op = c.op /\ e.row = c.row /\ e.arg = c.arg /\ e.who = c.who /\ e.todo = c.todo
             /\ e.stale = (c.stale \/ b)
<1>. DEFINE s == c.stale \/ b
            e == [c EXCEPT !.stale = s]
<1>0. [c EXCEPT !.stale = @ \/ b] = e /\ s \in BOOLEAN
  OBVIOUS
<1>1. CASE c = NoDesk
  <2>1. NoDesk.stale = FALSE /\ s = FALSE
    BY <1>1 DEF NoDesk
  <2>2. e = NoDesk
    BY <1>1, <2>1 DEF NoDesk
  <2>. QED BY <1>0, <1>1, <2>1, <2>2
<1>. HIDE DEF s
<1>2. CASE c \in PatchCall
  <2>1. e \in PatchCall
    BY <1>0, <1>2 DEF PatchCall
  <2>2. /\ e.op = c.op /\ e.row = c.row /\ e.arg = c.arg /\ e.who = c.who /\ e.todo = c.todo
        /\ e.stale = s
    BY <1>2, SMT DEF PatchCall
  <2>3. c # NoDesk
    BY <1>2, SMT DEF PatchCall, NoDesk
  <2>. QED BY <1>0, <2>1, <2>2, <2>3 DEF s
<1>3. CASE c \in PublishCall
  <2>1. e \in PublishCall
    BY <1>0, <1>3 DEF PublishCall
  <2>2. /\ e.op = c.op /\ e.row = c.row /\ e.arg = c.arg /\ e.who = c.who /\ e.todo = c.todo
        /\ e.stale = s
    BY <1>3, SMT DEF PublishCall
  <2>3. c # NoDesk
    BY <1>3, SMT DEF PublishCall, NoDesk
  <2>. QED BY <1>0, <2>1, <2>2, <2>3 DEF s
<1>. QED BY <1>1, <1>2, <1>3

LEMMA Updated ==
  ASSUME SubmissionInv, NEW m \in Desks, Update(m)
  PROVE  SubmissionInv'
<1>. DEFINE i == desk[m].row
            p == desk[m].arg
            r == Applied(shape[i], p)
            others == {d \in Desks \ {m} : desk[d].row = i /\ AtDesk(d, "update")}
            c == [desk[m] EXCEPT !.todo = <<"ship">>]
<1>0. desk[m] \in {NoDesk} \cup PatchCall \cup PublishCall /\ At(desk[m], "update")
  BY DEF SubmissionInv, DeskTypes, Update, AtDesk, At
<1>1. /\ desk[m] \in PatchCall /\ i \in Installs /\ p \in Patches /\ desk[m] # NoDesk
      /\ ~At(desk[m], "ship") /\ desk[m].op # "none"
  BY <1>0, StepsTell, IdleAtNothing DEF At, PatchCall
<1>2. shape[i] \in ShapeRow
  BY <1>0, <1>1 DEF SubmissionInv, CallsKnow, Knows, At, DeskTypes
<1>3. /\ shape' = [shape EXCEPT ![i] = r]
      /\ UNCHANGED <<copies, post, flags, flagTx, cleared, deskEvents>>
      /\ raced' = IF desk[m].stale /\ RuleMissing(r) THEN raced \cup {i}
                  ELSE IF RuleMissing(r) THEN raced ELSE raced \ {i}
      /\ missed' = IF p.st = "rule_written" /\ r.link THEN missed \ {i} ELSE missed
  BY DEF Update, community
<1>4. desk' = [d \in Desks |-> IF d = m THEN IF Ships(r, p) THEN c ELSE NoDesk
                               ELSE [desk[d] EXCEPT !.stale = @ \/ d \in others]]
  BY TodosOrdered DEF Update
<1>5. /\ r \in ShapeRow /\ r # NoRow /\ r.link = shape[i].link /\ r.who = shape[i].who
      /\ r.st = IF p.st = "keep" THEN shape[i].st ELSE p.st
  BY <1>1, <1>2, PatchApplied
<1>6. RuleMissing(r) => desk[m].stale
  <2>1. CASE NeedsCheck(p)
    BY <1>0, <2>1 DEF SubmissionInv, CallsKnow, Knows, PatchRefused
  <2>2. CASE ~NeedsCheck(p)
    <3>1. p.st = "open"
      BY <1>1, <2>2, SMT DEF NeedsCheck, Patches, RowStatus
    <3>. QED BY <1>5, <3>1 DEF RuleMissing
  <2>. QED BY <2>1, <2>2
<1>. HIDE DEF r, others
<1>7. c \in PatchCall \cup PublishCall /\ c.op = desk[m].op /\ c.row = i /\ c.todo = <<"ship">>
  <2>1. <<"ship">> \in PatchTodos /\ ~(desk[m] \in PublishCall)
    BY <1>1, SMT DEF PatchTodos, PatchCall, PublishCall
  <2>. QED BY <1>1, <2>1, CallGoesOn
<1>. HIDE DEF c
<1>8. desk'[m] = IF Ships(r, p) THEN c ELSE NoDesk
  BY <1>4
<1>9. ASSUME NEW d \in Desks, d # m
      PROVE  /\ desk'[d] \in {NoDesk} \cup PatchCall \cup PublishCall
             /\ desk[d] = NoDesk => desk'[d] = NoDesk
             /\ desk'[d].op = desk[d].op /\ desk'[d].row = desk[d].row
             /\ desk'[d].arg = desk[d].arg /\ desk'[d].who = desk[d].who
             /\ desk'[d].todo = desk[d].todo
             /\ desk'[d].stale = (desk[d].stale \/ d \in others)
  <2>1. desk[d] \in {NoDesk} \cup PatchCall \cup PublishCall
    BY DEF SubmissionInv, DeskTypes
  <2>2. d \in others => desk[d] # NoDesk
    BY IdleAtNothing DEF others, AtDesk, At
  <2>. DEFINE b == d \in others
  <2>3. b \in BOOLEAN
    BY SMT
  <2>4. desk'[d] = [desk[d] EXCEPT !.stale = @ \/ b]
    BY <1>4, <1>9
  <2>5. b => desk[d] # NoDesk
    BY <2>2
  <2>. HIDE DEF b
  <2>6. /\ desk'[d] \in {NoDesk} \cup PatchCall \cup PublishCall
        /\ desk[d] = NoDesk => desk'[d] = NoDesk
        /\ desk'[d].op = desk[d].op /\ desk'[d].row = desk[d].row
        /\ desk'[d].arg = desk[d].arg /\ desk'[d].who = desk[d].who
        /\ desk'[d].todo = desk[d].todo
        /\ desk'[d].stale = (desk[d].stale \/ b)
    BY <2>1, <2>3, <2>4, <2>5, CallStaled, SMT
  <2>. QED BY <2>6 DEF b
<1>10. desk' \in [Desks -> {NoDesk} \cup PatchCall \cup PublishCall]
  BY <1>4, <1>7, <1>8, <1>9
<1>11. /\ shape' \in [Installs -> {NoRow} \cup ShapeRow]
       /\ \A j \in Installs : shape'[j] = IF j = i THEN r ELSE shape[j]
  BY <1>1, <1>3, <1>5 DEF SubmissionInv, DeskTypes
<1>12. /\ raced' \in SUBSET Installs /\ missed' \in SUBSET Installs
       /\ RuleMissing(r) => i \in raced'
       /\ \A j \in Installs : j # i => (j \in raced' <=> j \in raced)
       /\ \A j \in Installs : j # i => (j \in missed' <=> j \in missed)
  BY <1>1, <1>3, <1>6 DEF SubmissionInv, DeskTypes
<1>13. DeskTypes' /\ PostTypes'
  BY <1>3, <1>10, <1>11, <1>12 DEF SubmissionInv, DeskTypes, PostTypes
<1>14. CallsKnow' /\ LinksHold' /\ FlagsAlone' /\ PublishedOnce' /\ FlagsEscalate'
  <2>1. ASSUME NEW d \in Desks PROVE Heeds(desk'[d], desk[d], i, r)
    <3>1. CASE d = m
      BY <1>7, <1>8, <3>1 DEF Heeds
    <3>2. CASE d # m
      <4>1. desk[d].row = i /\ At(desk[d], "update") => d \in others
        BY <3>2 DEF others, AtDesk, At
      <4>. QED BY <1>9, <3>2, <4>1 DEF Heeds
    <3>. QED BY <3>1, <3>2
  <2>2. r.link => copies = 1
    BY <1>1, <1>5 DEF SubmissionInv, LinksHold
  <2>3. /\ i \in Installs /\ r \in ShapeRow /\ r # NoRow /\ shape' = [shape EXCEPT ![i] = r]
        /\ shape[i].who # Nobody => r.who = shape[i].who
        /\ UNCHANGED <<copies, post, flags, flagTx, cleared>>
    BY <1>1, <1>3, <1>5
  <2>. HIDE DEF i, p
  <2>. QED BY <1>10, <2>1, <2>2, <2>3, RowWritten
<1>15. RuleIsNamed'
  BY <1>11, <1>12 DEF SubmissionInv, RuleIsNamed
<1>16. RuleShips'
  <2>. SUFFICES ASSUME NEW j \in Installs, j \notin missed', shape'[j].link,
                       shape'[j].st = "rule_written",
                       \A d \in Desks : desk'[d].row = j => ~At(desk'[d], "ship")
                PROVE  post.status = "shipped"
    BY <1>3 DEF RuleShips, AtDesk, At
  <2>1. \A d \in Desks : desk[d].row = j => ~At(desk[d], "ship")
    BY <1>1, <1>9 DEF At
  <2>2. CASE j # i
    <3>1. j \in Installs \ missed /\ shape[j].st = "rule_written" /\ shape[j].link
      BY <1>11, <1>12, <2>2
    <3>. QED BY <2>1, <3>1 DEF SubmissionInv, RuleShips, AtDesk, At
  <2>3. CASE j = i
    <3>1. r.link /\ r.st = "rule_written"
      BY <1>11, <2>3
    <3>2. p.st # "rule_written"
      <4>. SUFFICES ASSUME p.st = "rule_written" PROVE FALSE
        OBVIOUS
      <4>1. desk'[m] = c
        BY <1>8, <3>1 DEF Ships
      <4>. QED BY <1>1, <1>7, <2>3, <4>1, TodosOrdered DEF At
    <3>3. shape[i].st = "rule_written" /\ shape[i].link
      BY <1>5, <3>1, <3>2
    <3>4. i \in Installs \ missed
      BY <1>3, <2>3, <3>2
    <3>. QED BY <2>1, <2>3, <3>3, <3>4 DEF SubmissionInv, RuleShips, AtDesk, At
  <2>. QED BY <2>2, <2>3
<1>. QED BY <1>13, <1>14, <1>15, <1>16 DEF SubmissionInv

\* A flag transaction moves, and nothing else.
LEMMA FlagMoves ==
  ASSUME SubmissionInv, NEW u \in Users, NEW f \in FlagCall,
         flagTx' = [flagTx EXCEPT ![u] = f],
         UNCHANGED <<shape, copies, post, flags, desk, deskEvents, raced, missed, cleared>>,
         copies = 1, f.prior = post.status,
         \A v \in Users : v # u => flagTx[v].at = "none",
         f.at = "commit" => f.escalates = Escalates(u)
  PROVE  SubmissionInv'
<1>1. /\ flagTx' \in [Users -> FlagCall]
      /\ \A v \in Users : flagTx'[v] = IF v = u THEN f ELSE flagTx[v]
  BY DEF SubmissionInv, PostTypes
<1>2. DeskTypes' /\ PostTypes'
  BY <1>1 DEF SubmissionInv, DeskTypes, PostTypes
<1>3. CallsKnow' /\ LinksHold' /\ PublishedOnce' /\ RuleIsNamed' /\ FlagsEscalate'
  BY DEF SubmissionInv, CallsKnow, LinksHold, PublishedOnce, RuleIsNamed, FlagsEscalate
<1>4. RuleShips'
  BY DEF SubmissionInv, RuleShips, AtDesk
<1>5. FlagsAlone'
  BY <1>1 DEF FlagsAlone, Escalates
<1>. QED BY <1>2, <1>3, <1>4, <1>5 DEF SubmissionInv

LEMMA FlagBegun ==
  ASSUME SubmissionInv, NEW u \in Users, FlagBegins(u)
  PROVE  SubmissionInv'
<1>. DEFINE f == [at |-> "insert", prior |-> post.status, escalates |-> FALSE]
<1>1. /\ flagTx' = [flagTx EXCEPT ![u] = f] /\ Unlocked /\ copies > 0
      /\ UNCHANGED <<shape, copies, post, flags, desk, deskEvents, raced, missed, cleared>>
  BY DEF FlagBegins, ForUpdate, shapeRow, community, deskGhosts
<1>2. copies = 1
  BY <1>1, SMT DEF SubmissionInv, PostTypes
<1>3. post.status \in PostStatus
  BY DEF SubmissionInv, PostTypes
<1>4. f \in FlagCall /\ f.prior = post.status /\ f.at # "commit"
  BY <1>3, SMT DEF FlagCall
<1>. HIDE DEF f
<1>. QED BY <1>1, <1>2, <1>4, FlagMoves DEF Unlocked

LEMMA FlagCounted ==
  ASSUME SubmissionInv, NEW u \in Users, FlagCounts(u)
  PROVE  SubmissionInv'
<1>. DEFINE f == [at |-> "commit", prior |-> post.status, escalates |-> Escalates(u)]
<1>1. /\ flagTx[u].at = "insert" /\ flagTx[u].prior = post.status /\ copies = 1
      /\ \A v \in Users : v # u => flagTx[v].at = "none"
  BY DEF FlagCounts, SubmissionInv, FlagsAlone
<1>2. /\ flagTx' = [flagTx EXCEPT ![u] = f]
      /\ UNCHANGED <<shape, copies, post, flags, desk, deskEvents, raced, missed, cleared>>
  BY <1>1 DEF FlagCounts, Escalates, shapeRow, community, deskGhosts
<1>3. post.status \in PostStatus /\ Escalates(u) \in BOOLEAN
  BY DEF SubmissionInv, PostTypes, Escalates
<1>4. f \in FlagCall /\ f.prior = post.status /\ f.escalates = Escalates(u)
  BY <1>3 DEF FlagCall
<1>. HIDE DEF f
<1>. QED BY <1>1, <1>2, <1>4, FlagMoves

\* The status moves while no flag transaction is open, from review or flagged.
LEMMA StatusMoves ==
  ASSUME SubmissionInv, Unlocked, copies > 0, NEW s \in PostStatus,
         post' = [post EXCEPT !.status = s], post.status \in {"review", "flagged"},
         UNCHANGED <<shape, copies, flags, flagTx, desk, deskEvents, raced, missed>>,
         cleared' \in SUBSET Users,
         s = "review" => flags \subseteq cleared'
  PROVE  SubmissionInv'
<1>1. /\ post' \in [status : PostStatus, author : Users \cup {COMMUNITY, Nobody}]
      /\ post'.author = post.author /\ post'.status = s
  BY SMT DEF SubmissionInv, PostTypes
<1>2. copies # 0
  BY SMT DEF SubmissionInv, PostTypes
<1>3. DeskTypes' /\ PostTypes'
  BY <1>1 DEF SubmissionInv, DeskTypes, PostTypes
<1>4. CallsKnow' /\ LinksHold' /\ PublishedOnce' /\ RuleIsNamed'
  BY <1>1, <1>2 DEF SubmissionInv, CallsKnow, LinksHold, PublishedOnce, RuleIsNamed
<1>5. FlagsEscalate' /\ FlagsAlone'
  BY <1>1 DEF FlagsEscalate, FlagsAlone, Unlocked
<1>6. RuleShips'
  BY DEF SubmissionInv, RuleShips, AtDesk
<1>. QED BY <1>3, <1>4, <1>5, <1>6 DEF SubmissionInv

LEMMA Withdrawn ==
  ASSUME SubmissionInv, NEW u \in Users, withdraw(u)
  PROVE  SubmissionInv'
<1>1. /\ Unlocked /\ copies > 0 /\ post' = [post EXCEPT !.status = "withdrawn"]
      /\ post.status \in {"review", "flagged"} /\ "withdrawn" \in PostStatus
      /\ UNCHANGED <<shape, copies, flags, flagTx, desk, deskEvents, raced, missed, cleared>>
  BY DEF withdraw, shapeRow, deskGhosts, PostStatus
<1>2. cleared' \in SUBSET Users
  BY <1>1 DEF SubmissionInv, PostTypes
<1>. QED BY <1>1, <1>2, StatusMoves

LEMMA Judged ==
  ASSUME SubmissionInv, NEW s \in {"accepted", "rejected", "review"}, admin_transition(s)
  PROVE  SubmissionInv'
<1>1. LegalPriors(s) \subseteq {"review", "flagged"}
  BY SMT DEF LegalPriors
<1>2. /\ Unlocked /\ copies > 0 /\ post' = [post EXCEPT !.status = s]
      /\ post.status \in {"review", "flagged"} /\ s \in PostStatus
      /\ UNCHANGED <<shape, copies, flags, flagTx, desk, deskEvents, raced, missed>>
      /\ cleared' = IF s = "review" THEN flags ELSE cleared
  BY <1>1 DEF admin_transition, shapeRow, PostStatus
<1>3. cleared' \in SUBSET Users
  BY <1>2 DEF SubmissionInv, PostTypes
<1>. QED BY <1>2, <1>3, StatusMoves

LEMMA FlagCommitted ==
  ASSUME SubmissionInv, NEW u \in Users, FlagCommits(u)
  PROVE  SubmissionInv'
<1>1. /\ flagTx[u].at = "commit" /\ flags' = flags \cup {u}
      /\ flagTx' = [flagTx EXCEPT ![u] = NoFlagTx]
      /\ post' = IF flagTx[u].escalates THEN [post EXCEPT !.status = "flagged"] ELSE post
      /\ UNCHANGED <<shape, copies, desk, deskEvents, raced, missed, cleared>>
  BY DEF FlagCommits, shapeRow, deskGhosts
<1>2. /\ copies = 1 /\ flagTx[u].escalates = Escalates(u)
      /\ \A v \in Users : v # u => flagTx[v].at = "none"
  BY <1>1 DEF SubmissionInv, FlagsAlone
<1>3. NoFlagTx \in FlagCall /\ NoFlagTx.at = "none"
  BY SMT DEF NoFlagTx, FlagCall
<1>4. /\ flagTx' \in [Users -> FlagCall] /\ \A v \in Users : flagTx'[v].at = "none"
  BY <1>1, <1>2, <1>3 DEF SubmissionInv, PostTypes
<1>5. /\ post' \in [status : PostStatus, author : Users \cup {COMMUNITY, Nobody}]
      /\ post'.author = post.author
      /\ Escalates(u) => post'.status = "flagged"
      /\ ~Escalates(u) => post' = post
  <2>1. CASE Escalates(u)
    <3>1. post' = [post EXCEPT !.status = "flagged"]
      BY <1>1, <1>2, <2>1
    <3>. QED BY <2>1, <3>1, SMT DEF SubmissionInv, PostTypes, PostStatus
  <2>2. CASE ~Escalates(u)
    <3>1. post' = post
      BY <1>1, <1>2, <2>2
    <3>. QED BY <2>2, <3>1 DEF SubmissionInv, PostTypes
  <2>. QED BY <2>1, <2>2
<1>6. DeskTypes' /\ PostTypes'
  BY <1>1, <1>4, <1>5 DEF SubmissionInv, DeskTypes, PostTypes
<1>7. copies # 0
  BY <1>2, SMT
<1>8. CallsKnow' /\ LinksHold' /\ PublishedOnce' /\ RuleIsNamed'
  BY <1>1, <1>5, <1>7 DEF SubmissionInv, CallsKnow, LinksHold, PublishedOnce, RuleIsNamed
<1>9. FlagsAlone'
  BY <1>4 DEF FlagsAlone
<1>10. RuleShips'
  <2>1. post.status = "shipped" => post'.status = "shipped"
    BY <1>5 DEF Escalates
  <2>2. RuleShips
    BY DEF SubmissionInv
  <2>. QED BY <1>1, <2>1, <2>2 DEF RuleShips, AtDesk
<1>11. FlagsEscalate'
  <2>. SUFFICES ASSUME post'.status = "review", Cardinality(flags \cup {u}) >= AUTO_FLAG_THRESHOLD
                PROVE  flags \cup {u} \subseteq cleared
    BY <1>1 DEF FlagsEscalate
  <2>1. ~Escalates(u) /\ post.status = "review"
    BY <1>5
  <2>2. u \in flags
    BY <2>1 DEF Escalates
  <2>3. flags \cup {u} = flags
    BY <2>2
  <2>. QED BY <2>1, <2>3 DEF SubmissionInv, FlagsEscalate
<1>. QED BY <1>6, <1>8, <1>9, <1>10, <1>11 DEF SubmissionInv

LEMMA SubmissionStarts ==
  ASSUME DeskBounds, SubmissionInit
  PROVE  SubmissionInv
<1>1. /\ NoRow.link = FALSE /\ NoRow.st = "none" /\ NoDesk.op = "none" /\ NoFlagTx.at = "none"
      /\ NoFlagTx \in FlagCall
  BY SMT DEF NoRow, NoDesk, NoFlagTx, FlagCall
<1>2. DeskTypes
  <2>1. 0 \in Nat /\ 0 <= MaxDeskEvents
    BY SMT DEF DeskBounds
  <2>. QED BY <2>1 DEF SubmissionInit, DeskTypes
<1>3. PostTypes
  <2>1. post \in [status : PostStatus, author : Users \cup {COMMUNITY, Nobody}]
    BY SMT DEF SubmissionInit, PostStatus
  <2>. QED BY <1>1, <2>1 DEF SubmissionInit, PostTypes
<1>4. copies = 0 /\ copies # 1 /\ copies <= 1 /\ post.status = "review" /\ flags = {}
  BY SMT DEF SubmissionInit
<1>5. /\ \A i \in Installs : shape[i] = NoRow
      /\ \A m \in Desks : desk[m] = NoDesk
      /\ \A u \in Users : flagTx[u] = NoFlagTx
  BY DEF SubmissionInit
<1>6. CallsKnow /\ LinksHold /\ FlagsAlone
  BY <1>1, <1>4, <1>5, IdleKnows DEF CallsKnow, LinksHold, FlagsAlone
<1>7. PublishedOnce /\ RuleIsNamed /\ RuleShips /\ FlagsEscalate
  BY <1>1, <1>4, <1>5 DEF PublishedOnce, RuleIsNamed, RuleMissing, RuleShips, FlagsEscalate
<1>. QED BY <1>2, <1>3, <1>6, <1>7 DEF SubmissionInv

LEMMA SubmissionSteps ==
  ASSUME DeskBounds, SubmissionInv, [SubmissionNext]_submissionVars
  PROVE  SubmissionInv'
<1>1. CASE UNCHANGED submissionVars
  <2>1. UNCHANGED <<shape, copies, post, flags, flagTx, desk, deskEvents, raced, missed, cleared>>
    BY <1>1 DEF submissionVars, deskGhosts
  <2>2. DeskTypes' /\ PostTypes' /\ CallsKnow' /\ LinksHold' /\ FlagsAlone'
    BY <2>1 DEF SubmissionInv, DeskTypes, PostTypes, CallsKnow, LinksHold, FlagsAlone, Escalates
  <2>3. PublishedOnce' /\ RuleIsNamed' /\ RuleShips' /\ FlagsEscalate'
    BY <2>1 DEF SubmissionInv, PublishedOnce, RuleIsNamed, RuleShips, FlagsEscalate, AtDesk
  <2>. QED BY <2>2, <2>3 DEF SubmissionInv
<1>2. CASE \E i \in Installs, who \in Users \cup {Nobody} : upsert(i, who)
  BY <1>2, Sent
<1>3. CASE \E m \in Desks :
             \/ \E q \in DeskRequests : BeginDesk(m, q)
             \/ Precheck(m) \/ Update(m) \/ mark_shipped_by_source(m)
             \/ Load(m) \/ create_promoted(m) \/ link_community(m) \/ DeskFails(m)
  BY <1>3, CallBegins, Prechecked, Updated, Shipped, Loaded, Promoted, Linked, CallFails
<1>4. CASE \E u \in Users : FlagBegins(u) \/ FlagCounts(u) \/ FlagCommits(u) \/ withdraw(u)
  BY <1>4, FlagBegun, FlagCounted, FlagCommitted, Withdrawn
<1>5. CASE \E s \in {"accepted", "rejected", "review"} : admin_transition(s)
  BY <1>5, Judged
<1>. QED BY <1>1, <1>2, <1>3, <1>4, <1>5 DEF SubmissionNext

LEMMA SubmissionInvHolds ==
  ASSUME DeskBounds
  PROVE  SubmissionSpec => []SubmissionInv
<1>1. SubmissionInit => SubmissionInv
  BY SubmissionStarts
<1>2. SubmissionInv /\ [SubmissionNext]_submissionVars => SubmissionInv'
  BY SubmissionSteps
<1>. QED BY <1>1, <1>2, PTL DEF SubmissionSpec

LEMMA SubmissionInvSuffices ==
  ASSUME DeskBounds, SubmissionInv
  PROVE  SubmissionsSound
<1>1. copies \in Nat
  BY SMT DEF SubmissionInv, PostTypes
<1>2. deskEvents \in 0 .. MaxDeskEvents
  BY SMT DEF SubmissionInv, DeskTypes, DeskBounds
<1>3. \A m \in Desks : desk[m] = NoDesk \/ desk[m].todo # <<>>
  BY StepsTell DEF SubmissionInv, DeskTypes
<1>4. SubmissionTypeOK
  BY <1>1, <1>2, <1>3 DEF SubmissionInv, DeskTypes, PostTypes, SubmissionTypeOK, ShapeRow, FlagCall
<1>. QED BY <1>4 DEF SubmissionInv, SubmissionsSound

\* However many trays, moderators and users are at it, a shape becomes one
\* submission that credits a sender, its rule is named and ships it, and as many
\* flags as the threshold reach a moderator.
THEOREM SubmissionsAreSound ==
  ASSUME DeskBounds
  PROVE  SubmissionSpec => []SubmissionsSound
<1>1. SubmissionInv => SubmissionsSound
  BY SubmissionInvSuffices
<1>. QED BY <1>1, SubmissionInvHolds, PTL

LEMMA VerdictStepHolds ==
  ASSUME SubmissionInv, SubmissionNext
  PROVE  VerdictStep
<1>. SUFFICES ASSUME post.status \in {"accepted", "rejected", "withdrawn", "shipped"}
              PROVE  post'.status \in {post.status, "shipped"}
  BY DEF VerdictStep
<1>1. CASE post' = post
  BY <1>1
<1>2. ASSUME NEW m \in Desks, mark_shipped_by_source(m)
      PROVE  post'.status \in {post.status, "shipped"}
  BY <1>2, SMT DEF mark_shipped_by_source, SubmissionInv, PostTypes
<1>3. ASSUME NEW m \in Desks, create_promoted(m) PROVE post' = post
  BY <1>3 DEF create_promoted, NoConflict, SubmissionInv, LinksHold
<1>4. ASSUME NEW u \in Users, FlagCommits(u) PROVE post' = post
  BY <1>4 DEF FlagCommits, SubmissionInv, FlagsAlone, Escalates
<1>5. ASSUME NEW u \in Users, withdraw(u) PROVE FALSE
  BY <1>5 DEF withdraw
<1>6. ASSUME NEW s \in {"accepted", "rejected", "review"}, admin_transition(s) PROVE FALSE
  BY <1>6, SMT DEF admin_transition, LegalPriors
<1>7. ASSUME NEW i \in Installs, NEW who \in Users \cup {Nobody}, upsert(i, who)
      PROVE  post' = post
  BY <1>7 DEF upsert, community
<1>8. ASSUME NEW m \in Desks, \/ \E q \in DeskRequests : BeginDesk(m, q)
                              \/ Precheck(m) \/ Update(m) \/ Load(m) \/ link_community(m)
                              \/ DeskFails(m)
      PROVE  post' = post
  BY <1>8 DEF BeginDesk, Precheck, Update, Load, link_community, DeskFails, community
<1>9. ASSUME NEW u \in Users, FlagBegins(u) \/ FlagCounts(u) PROVE post' = post
  BY <1>9 DEF FlagBegins, FlagCounts, community
<1>. QED BY <1>1, <1>2, <1>3, <1>4, <1>5, <1>6, <1>7, <1>8, <1>9 DEF SubmissionNext

LEMMA AttributionStepHolds ==
  ASSUME SubmissionInv, SubmissionNext
  PROVE  AttributionStep
<1>1. CASE shape' = shape
  BY <1>1 DEF AttributionStep
<1>2. ASSUME NEW m \in Desks, Update(m) PROVE AttributionStep
  <2>0. desk[m] \in {NoDesk} \cup PatchCall \cup PublishCall /\ At(desk[m], "update")
    BY <1>2 DEF SubmissionInv, DeskTypes, Update, AtDesk, At
  <2>1. desk[m] \in PatchCall
    BY <2>0, StepsTell
  <2>2. desk[m].row \in Installs /\ desk[m].arg \in Patches
    BY <2>1 DEF PatchCall
  <2>3. shape[desk[m].row] \in ShapeRow
    BY <2>0, <2>2 DEF SubmissionInv, CallsKnow, Knows, At, DeskTypes
  <2>4. shape' = [shape EXCEPT ![desk[m].row] = Applied(shape[desk[m].row], desk[m].arg)]
    BY <1>2 DEF Update
  <2>5. Applied(shape[desk[m].row], desk[m].arg).who = shape[desk[m].row].who
    BY <2>2, <2>3, PatchApplied
  <2>. QED BY <2>2, <2>4, <2>5 DEF SubmissionInv, DeskTypes, AttributionStep
<1>3. ASSUME NEW m \in Desks, link_community(m) PROVE AttributionStep
  <2>0. desk[m] \in {NoDesk} \cup PatchCall \cup PublishCall /\ At(desk[m], "link")
    BY <1>3 DEF SubmissionInv, DeskTypes, link_community, AtDesk, At
  <2>1. desk[m] \in PublishCall
    BY <2>0, StepsTell
  <2>2. desk[m].row \in Installs
    BY <2>1 DEF PublishCall
  <2>3. shape[desk[m].row] \in ShapeRow
    BY <2>0, <2>2 DEF SubmissionInv, CallsKnow, Knows, At, DeskTypes
  <2>4. shape' = [shape EXCEPT ![desk[m].row] = [shape[desk[m].row] EXCEPT !.link = TRUE]]
    BY <1>3 DEF link_community
  <2>5. [shape[desk[m].row] EXCEPT !.link = TRUE].who = shape[desk[m].row].who
    BY <2>3, RowLinked
  <2>. QED BY <2>2, <2>4, <2>5 DEF SubmissionInv, DeskTypes, AttributionStep
<1>4. ASSUME NEW i \in Installs, NEW who \in Users \cup {Nobody}, upsert(i, who)
      PROVE  AttributionStep
  <2>1. shape[i] \in {NoRow} \cup ShapeRow /\ NoRow.who = Nobody
    BY DEF SubmissionInv, DeskTypes, NoRow
  <2>2. CASE shape[i] = NoRow
    BY <1>4, <2>1, <2>2 DEF upsert, AttributionStep, SubmissionInv, DeskTypes
  <2>3. CASE shape[i] # NoRow
    <3>1. shape' = [shape EXCEPT ![i] = [shape[i] EXCEPT !.who = coalesce(shape[i].who, who)]]
      BY <1>4, <2>3 DEF upsert
    <3>2. coalesce(shape[i].who, who) \in Users \cup {Nobody}
      BY <2>1, <2>3 DEF coalesce, ShapeRow
    <3>3. [shape[i] EXCEPT !.who = coalesce(shape[i].who, who)].who = coalesce(shape[i].who, who)
      BY <2>1, <2>3, <3>2, SenderNamed
    <3>. QED BY <3>1, <3>3 DEF coalesce, AttributionStep, SubmissionInv, DeskTypes
  <2>. QED BY <2>2, <2>3
<1>5. ASSUME NEW m \in Desks, \/ \E q \in DeskRequests : BeginDesk(m, q)
                              \/ Precheck(m) \/ mark_shipped_by_source(m) \/ Load(m)
                              \/ create_promoted(m) \/ DeskFails(m)
      PROVE  shape' = shape
  BY <1>5 DEF BeginDesk, Precheck, mark_shipped_by_source, Load, create_promoted, DeskFails, shapeRow
<1>6. ASSUME NEW u \in Users, FlagBegins(u) \/ FlagCounts(u) \/ FlagCommits(u) \/ withdraw(u)
      PROVE  shape' = shape
  BY <1>6 DEF FlagBegins, FlagCounts, FlagCommits, withdraw, shapeRow
<1>7. ASSUME NEW s \in {"accepted", "rejected", "review"}, admin_transition(s)
      PROVE  shape' = shape
  BY <1>7 DEF admin_transition, shapeRow
<1>. QED BY <1>1, <1>2, <1>3, <1>4, <1>5, <1>6, <1>7 DEF SubmissionNext

\* No step takes back a verdict, nor the name a shape was sent under.
THEOREM VerdictsAreKept ==
  ASSUME DeskBounds
  PROVE  SubmissionSpec => VerdictsKept
<1>1. SubmissionInv /\ [SubmissionNext]_submissionVars => [VerdictStep]_post
  <2>. SUFFICES ASSUME SubmissionInv, [SubmissionNext]_submissionVars PROVE [VerdictStep]_post
    OBVIOUS
  <2>1. CASE SubmissionNext
    BY <2>1, VerdictStepHolds
  <2>2. CASE UNCHANGED submissionVars
    BY <2>2 DEF submissionVars
  <2>. QED BY <2>1, <2>2
<1>2. SubmissionInv /\ [SubmissionNext]_submissionVars => [AttributionStep]_shape
  <2>. SUFFICES ASSUME SubmissionInv, [SubmissionNext]_submissionVars PROVE [AttributionStep]_shape
    OBVIOUS
  <2>1. CASE SubmissionNext
    BY <2>1, AttributionStepHolds
  <2>2. CASE UNCHANGED submissionVars
    BY <2>2 DEF submissionVars
  <2>. QED BY <2>1, <2>2
<1>. QED BY <1>1, <1>2, SubmissionInvHolds, PTL
         DEF SubmissionSpec, VerdictsKept, VerdictStands, AttributionKept

-----------------------------------------------------------------------------
INSTANCE FiniteSetTheorems

LEMMA CountingHolds == Counting
<1>1. ASSUME NEW S, NEW T, IsFiniteSet(S), T \subseteq S
      PROVE  /\ IsFiniteSet(T) /\ Cardinality(T) \in Nat /\ Cardinality(S) \in Nat
             /\ Cardinality(T) <= Cardinality(S)
  BY <1>1, FS_Subset, FS_CardinalityType
<1>2. ASSUME NEW S, NEW x, IsFiniteSet(S), x \notin S
      PROVE  Cardinality(S \cup {x}) = Cardinality(S) + 1
  BY <1>2, FS_AddElement
<1>3. Cardinality({}) = 0
  BY FS_EmptySet
<1> QED  BY <1>1, <1>2, <1>3 DEF Counting

\* What the gate of the beta promises, however many requests are in flight:
\* the cap is kept by those who let themselves in, a mailed link works until
\* its row is deleted, an invite opens one account, the row behind an account
\* is kept, and no invite stays spent without an account but for a fault.
THEOREM InvitesAreSound ==
    ASSUME WaitBounds
    PROVE  WaitSpec => []InvitesSound
<1>1. WaitInit => WaitInv
  BY CountingHolds, WaitInvInit
<1>2. WaitInv /\ [WaitNext]_waitVars => WaitInv'
  BY CountingHolds, WaitInvStep
<1>3. WaitInv => InvitesSound
  BY CountingHolds, WaitInvSound
<1> QED  BY <1>1, <1>2, <1>3, PTL DEF WaitSpec
=============================================================================
