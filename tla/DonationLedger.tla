--------------------------- MODULE DonationLedger ---------------------------
(***************************************************************************)
(* What the donate flow promises: coverage is granted for orders that were *)
(* paid, and for each of them at most once.                                *)
(***************************************************************************)
EXTENDS Sequences, FiniteSets

CONSTANT Orders

VARIABLES paid,     \* orders the payer has paid
          ledger    \* grants of coverage, in order

ledgerVars == <<paid, ledger>>

Granted == {ledger[i] : i \in DOMAIN ledger}

LedgerInit == paid = {} /\ ledger = <<>>

Pay(o) == o \notin paid /\ paid' = paid \cup {o} /\ UNCHANGED ledger
Grant(o) == o \in paid \ Granted /\ ledger' = Append(ledger, o) /\ UNCHANGED paid

LedgerNext == \E o \in Orders : Pay(o) \/ Grant(o)
LedgerSpec == LedgerInit /\ [][LedgerNext]_ledgerVars
=============================================================================
