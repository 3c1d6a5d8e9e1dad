---------------------------- MODULE HandleIndex ----------------------------
(***************************************************************************)
(* Which handle a token acts as after its account was renamed:             *)
(* HandleIndex of handle_renames.rs on each server, its refresh loop, the  *)
(* tokens auth.rs signs and the extractor that asks the index about them.  *)
(* One account; a token keeps the handle its account had when it was       *)
(* signed.  A tick of the clock stands for what `iat` can tell apart.      *)
(***************************************************************************)
EXTENDS Integers, Sequences, FiniteSets

CONSTANTS Servers, Handles, NoHandle, RESERVATION, DEVICE_TTL, LEEWAY,
          MaxRenames, MaxTokens, MaxClock, MaxIndexFaults

VARIABLES handle,      \* users.claimed_handle of the account
          log,         \* its handle_renames, oldest first
          index,       \* server -> the last rename its index holds, 0: none
          reading,     \* server -> the rename its refresh has read, -1: no refresh
          unrecorded,  \* server -> the rename its route has still to record, 0: none
          signing,     \* the handle a sign-in has read and will sign
          tokens, clock, indexFaults,
          asked,       \* history: servers whose refresh read after the last rename
          caughtUp,    \* history: servers whose index was loaded or told since
          straddled    \* history: a sign-in read the handle before a rename
                       \* and signed in a later tick

indexVars == <<handle, log, index, reading, unrecorded, signing, tokens, clock, indexFaults,
               asked, caughtUp, straddled>>

IndexInit ==
    /\ handle \in Handles /\ log = <<>>
    /\ index = [s \in Servers |-> 0] /\ reading = [s \in Servers |-> -1]
    /\ unrecorded = [s \in Servers |-> 0]
    /\ signing = NoHandle /\ tokens = {} /\ clock = 1 /\ indexFaults = 0
    /\ asked = {} /\ caughtUp = Servers /\ straddled = {}

-----------------------------------------------------------------------------
(* A rename commits on one server, whose route then records it.  The       *)
(* cooldown keeps two renames of one account in different ticks, the       *)
(* second begun long after the first was recorded.                         *)

CommitRename(s, new) ==
    /\ Len(log) < MaxRenames /\ new # handle
    /\ \A r \in Servers : unrecorded[r] = 0
    /\ \A i \in DOMAIN log : log[i].at < clock
    /\ handle' = new
    /\ log' = Append(log, [old |-> handle, new |-> new, at |-> clock])
    /\ unrecorded' = [unrecorded EXCEPT ![s] = Len(log) + 1]
    /\ asked' = {} /\ caughtUp' = {}
    /\ UNCHANGED <<index, reading, signing, tokens, clock, indexFaults, straddled>>

record(s) ==
    /\ unrecorded[s] # 0
    /\ index' = [index EXCEPT ![s] = unrecorded[s]]
    /\ unrecorded' = [unrecorded EXCEPT ![s] = 0]
    /\ caughtUp' = IF reading[s] = -1 THEN caughtUp \cup {s} ELSE caughtUp
    /\ UNCHANGED <<handle, log, reading, signing, tokens, clock, indexFaults, asked, straddled>>

-----------------------------------------------------------------------------
(* The refresh loop: read the renames of the last RESERVATION, rebuild.    *)

\* Mutant: only the renames of this tick.
RecentFew(i) == log[i].at >= clock
Recent(i) == log[i].at >= clock - RESERVATION

RefreshReads(s) ==
    /\ reading[s] = -1
    /\ reading' = [reading EXCEPT ![s] =
          IF log # <<>> /\ Recent(Len(log)) THEN Len(log) ELSE 0]
    /\ asked' = asked \cup {s}
    /\ UNCHANGED <<handle, log, index, unrecorded, signing, tokens, clock, indexFaults,
                   caughtUp, straddled>>

replace_all(s) ==
    /\ reading[s] # -1
    /\ index' = [index EXCEPT ![s] = reading[s]]
    /\ reading' = [reading EXCEPT ![s] = -1]
    /\ caughtUp' = IF s \in asked THEN caughtUp \cup {s} ELSE caughtUp \ {s}
    /\ UNCHANGED <<handle, log, unrecorded, signing, tokens, clock, indexFaults, asked, straddled>>

IndexFault == indexFaults < MaxIndexFaults /\ indexFaults' = indexFaults + 1

\* The query fails: the index stays as it was.
RefreshFails(s) ==
    /\ reading[s] # -1 /\ IndexFault
    /\ reading' = [reading EXCEPT ![s] = -1]
    /\ UNCHANGED <<handle, log, index, unrecorded, signing, tokens, clock, asked, caughtUp,
                   straddled>>

\* A server starts with an empty index; its first refresh is at once.
RestartServer(s) ==
    /\ IndexFault
    /\ index' = [index EXCEPT ![s] = 0] /\ reading' = [reading EXCEPT ![s] = -1]
    /\ unrecorded' = [unrecorded EXCEPT ![s] = 0]
    /\ caughtUp' = IF log = <<>> THEN caughtUp ELSE caughtUp \ {s}
    /\ UNCHANGED <<handle, log, signing, tokens, clock, asked, straddled>>

-----------------------------------------------------------------------------
(* Tokens: the row is read, then the token is signed.                      *)

SignInReads ==
    /\ signing = NoHandle /\ signing' = handle
    /\ UNCHANGED <<handle, log, index, reading, unrecorded, tokens, clock, indexFaults,
                   asked, caughtUp, straddled>>

\* exp, and the verifier's leeway past it.
Unexpired(t) == clock <= t.iat + DEVICE_TTL
Accepted(t) == clock <= t.iat + DEVICE_TTL + LEEWAY

sign_device ==
    LET token == [handle |-> signing, iat |-> clock]
    IN  /\ signing # NoHandle /\ signing' = NoHandle
        /\ Cardinality(tokens) < MaxTokens /\ tokens' = tokens \cup {token}
        /\ straddled' = IF signing # handle /\ log[Len(log)].at < clock
                        THEN straddled \cup {token} ELSE straddled
        /\ UNCHANGED <<handle, log, index, reading, unrecorded, clock, indexFaults, asked,
                       caughtUp>>

\* Swapped when the index has a rename no older than the token.
resolve(s, t) ==
    IF index[s] # 0 /\ t.iat <= log[index[s]].at THEN log[index[s]].new ELSE t.handle

Tick ==
    /\ clock < MaxClock /\ clock' = clock + 1
    /\ tokens' = {t \in tokens : clock < t.iat + DEVICE_TTL + LEEWAY}
    /\ straddled' = straddled \cap tokens'
    /\ UNCHANGED <<handle, log, index, reading, unrecorded, signing, indexFaults, asked, caughtUp>>

-----------------------------------------------------------------------------
IndexNext ==
    \/ \E s \in Servers :
        \/ \E h \in Handles : CommitRename(s, h)
        \/ record(s) \/ RefreshReads(s) \/ replace_all(s) \/ RefreshFails(s) \/ RestartServer(s)
    \/ SignInReads \/ sign_device \/ Tick

IndexSpec == IndexInit /\ [][IndexNext]_indexVars

-----------------------------------------------------------------------------
(* Properties.                                                             *)

\* Type invariant.
IndexTypeOK ==
    /\ handle \in Handles /\ signing \in Handles \cup {NoHandle}
    /\ \A i \in DOMAIN log : log[i] \in [old : Handles, new : Handles, at : 1 .. MaxClock]
    /\ index \in [Servers -> 0 .. MaxRenames] /\ unrecorded \in [Servers -> 0 .. MaxRenames]
    /\ reading \in [Servers -> -1 .. MaxRenames]
    /\ tokens \subseteq [handle : Handles, iat : 1 .. MaxClock]
    /\ clock \in 1 .. MaxClock /\ asked \subseteq Servers /\ caughtUp \subseteq Servers

\* On a server that has recorded the last rename or loaded it since, every unexpired token acts as
\* the account's current handle, through any number of renames, refreshes and
\* restarts: the window the refresh reads is as long as a token lives.  Excused
\* is a token whose sign-in read the handle before a rename and signed after it.
TokensFollow ==
    \A s \in caughtUp, t \in tokens \ straddled : Unexpired(t) => resolve(s, t) = handle

\* What the index keeps: a token signed under an old handle acts as the new one.
TokensSound == IndexTypeOK /\ TokensFollow
=============================================================================
