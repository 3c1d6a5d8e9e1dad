------------------------------ MODULE Donations ------------------------------
(***************************************************************************)
(* Donations through Revolut: the checkout that creates an order here and  *)
(* there (revolut_routes.rs, orders.rs), the payer, and the webhook        *)
(* deliveries that make a paid order a supporter's coverage                *)
(* (supporters.rs).                                                        *)
(*                                                                         *)
(* Revolut delivers each event at least once, in any order, and again      *)
(* until it is answered with 200; two deliveries of one event may be       *)
(* handled at once.  A handler may fail, or its server stop, at any await. *)
(***************************************************************************)
EXTENDS Integers, Sequences, FiniteSets

CONSTANTS Orders,          \* one checkout each
          Hooks,           \* webhook requests in flight
          MaxRepeats,      \* deliveries of events already answered with 200
          MaxDonateFaults

VARIABLES desk,       \* checkout: how far the order's request got
          orderRow,   \* revolut_orders: state of the order's row
          attached,   \* orders whose row has its revolut_order_id
          paid,       \* Revolut: orders paid
          dispatched,    \* Revolut: events to deliver, <<order, event>>
          acked,      \* Revolut: those answered with 200
          recorded,   \* revolut_webhook_events
          hook,       \* deliveries being handled
          ledger,     \* the upserts of supporter_status, in order
          repeats, donateFaults,
          lost        \* history: events whose handler stopped after recording

donationVars == <<desk, orderRow, attached, paid, dispatched, acked, recorded, hook,
                  ledger, repeats, donateFaults, lost>>
revolut == <<paid, dispatched>>

Acted == {"COMPLETED", "FAILED", "CANCELLED"}
EventKinds == Acted \cup {"AUTHORISED"}
States == {"none", "pending"} \cup Acted
NoHook == [order |-> "none", event |-> "none", at |-> "idle"]

DonationInit ==
    /\ desk = [o \in Orders |-> "none"] /\ orderRow = [o \in Orders |-> "none"]
    /\ attached = {} /\ paid = {} /\ dispatched = {} /\ acked = {} /\ recorded = {}
    /\ hook = [h \in Hooks |-> NoHook] /\ ledger = <<>>
    /\ repeats = 0 /\ donateFaults = 0 /\ lost = {}

DonateFault == donateFaults < MaxDonateFaults /\ donateFaults' = donateFaults + 1

-----------------------------------------------------------------------------
(* checkout: local row, Revolut's order, its id attached, url returned.    *)

CreatePending(o) ==
    /\ desk[o] = "none"
    /\ desk' = [desk EXCEPT ![o] = "local"] /\ orderRow' = [orderRow EXCEPT ![o] = "pending"]
    /\ UNCHANGED <<attached, revolut, acked, recorded, hook, ledger, repeats,
                   donateFaults, lost>>

CreateOrder(o) ==
    /\ desk[o] = "local" /\ desk' = [desk EXCEPT ![o] = "ordered"]
    /\ UNCHANGED <<orderRow, attached, revolut, acked, recorded, hook, ledger, repeats,
                   donateFaults, lost>>

\* Mutant: the url is returned before the id is attached.
AttachLater(o) ==
    /\ \/ desk[o] = "ordered" /\ desk' = [desk EXCEPT ![o] = "url"] /\ UNCHANGED attached
       \/ desk[o] = "url" /\ attached' = attached \cup {o} /\ UNCHANGED desk
    /\ UNCHANGED <<orderRow, revolut, acked, recorded, hook, ledger, repeats,
                   donateFaults, lost>>
AttachRevolutDetails(o) ==
    /\ desk[o] = "ordered" /\ desk' = [desk EXCEPT ![o] = "url"]
    /\ attached' = attached \cup {o}
    /\ UNCHANGED <<orderRow, revolut, acked, recorded, hook, ledger, repeats,
                   donateFaults, lost>>

\* Any of the three calls fails, for the last two with or without effect.
CheckoutFails(o) ==
    /\ desk[o] \in {"local", "ordered"} /\ DonateFault
    /\ \/ desk' = [desk EXCEPT ![o] = IF @ = "local" THEN "failed" ELSE "unpaid"]
       \/ desk[o] = "local" /\ desk' = [desk EXCEPT ![o] = "unpaid"]
    /\ UNCHANGED <<orderRow, attached, revolut, acked, recorded, hook, ledger, repeats, lost>>

-----------------------------------------------------------------------------
(* Revolut.                                                                *)

\* An order with a url may be declined and tried again, then paid; one that
\* is never paid is cancelled, whether or not its url reached anyone.
RevolutEmits(o) ==
    /\ \/ /\ desk[o] = "url" /\ <<o, "CANCELLED">> \notin dispatched /\ o \notin paid
          /\ paid' = paid \cup {o}
          /\ dispatched' = dispatched \cup {<<o, "AUTHORISED">>, <<o, "COMPLETED">>}
       \/ /\ desk[o] = "url" /\ <<o, "CANCELLED">> \notin dispatched /\ o \notin paid
          /\ dispatched' = dispatched \cup {<<o, "FAILED">>} /\ UNCHANGED paid
       \/ /\ desk[o] \in {"url", "unpaid"} /\ o \notin paid
          /\ dispatched' = dispatched \cup {<<o, "CANCELLED">>} /\ UNCHANGED paid
    /\ UNCHANGED <<desk, orderRow, attached, acked, recorded, hook, ledger, repeats,
                   donateFaults, lost>>

RevolutDelivers(h, m) ==
    /\ hook[h] = NoHook /\ m \in dispatched
    /\ IF m \in acked THEN repeats < MaxRepeats /\ repeats' = repeats + 1
       ELSE UNCHANGED repeats
    /\ hook' = [hook EXCEPT ![h] = [order |-> m[1], event |-> m[2], at |-> "record"]]
    /\ UNCHANGED <<desk, orderRow, attached, revolut, acked, recorded, ledger,
                   donateFaults, lost>>

-----------------------------------------------------------------------------
(* webhook.                                                                *)

Message(h) == <<hook[h].order, hook[h].event>>
Moves(h, at) == hook' = [hook EXCEPT ![h].at = at] /\ UNCHANGED acked
Answers(h) == hook' = [hook EXCEPT ![h] = NoHook] /\ acked' = acked \cup {Message(h)}

\* Mutant: every delivery counts as the first.
FirstAlways(m) == TRUE
FirstSeen(m) == m \notin recorded

\* Mutant: events of an order that was declined before are refused.
RecordUnlessFailed(h) ==
    /\ hook[h].at = "record"
    /\ IF orderRow[hook[h].order] = "FAILED"
       THEN hook' = [hook EXCEPT ![h] = NoHook] /\ UNCHANGED <<acked, recorded>>
       ELSE /\ recorded' = recorded \cup {Message(h)}
            /\ IF FirstSeen(Message(h)) THEN Moves(h, "find") ELSE Answers(h)
    /\ UNCHANGED <<desk, orderRow, attached, revolut, ledger, repeats, donateFaults, lost>>
RecordWebhookEvent(h) ==
    /\ hook[h].at = "record"
    /\ recorded' = recorded \cup {Message(h)}
    /\ IF FirstSeen(Message(h)) THEN Moves(h, "find") ELSE Answers(h)
    /\ UNCHANGED <<desk, orderRow, attached, revolut, ledger, repeats, donateFaults, lost>>

FindByRevolutId(h) ==
    /\ hook[h].at = "find"
    /\ IF hook[h].order \in attached /\ hook[h].event \in Acted
       THEN Moves(h, "mark") ELSE Answers(h)
    /\ UNCHANGED <<desk, orderRow, attached, revolut, recorded, ledger, repeats,
                   donateFaults, lost>>

MarkState(h) ==
    /\ hook[h].at = "mark"
    /\ orderRow' = [orderRow EXCEPT ![hook[h].order] = hook[h].event]
    /\ IF hook[h].event = "COMPLETED" THEN Moves(h, "pay") ELSE Answers(h)
    /\ UNCHANGED <<desk, attached, revolut, recorded, ledger, repeats,
                   donateFaults, lost>>

MarkPaymentReceived(h) ==
    /\ hook[h].at = "pay"
    /\ ledger' = Append(ledger, hook[h].order) /\ Answers(h)
    /\ UNCHANGED <<desk, orderRow, attached, revolut, recorded, repeats,
                   donateFaults, lost>>

\* The handler answers 5xx or nothing, before or after recording the event.
WebhookFails(h) ==
    /\ hook[h] # NoHook /\ DonateFault
    /\ hook' = [hook EXCEPT ![h] = NoHook]
    /\ \/ hook[h].at = "record" /\ UNCHANGED <<recorded, lost>>
       \/ /\ hook[h].at # "record" \/ Message(h) \notin recorded
          /\ recorded' = recorded \cup {Message(h)} /\ lost' = lost \cup {Message(h)}
    /\ UNCHANGED <<desk, orderRow, attached, revolut, acked, ledger, repeats>>

-----------------------------------------------------------------------------
CheckoutStep(o) == CreatePending(o) \/ CreateOrder(o) \/ AttachRevolutDetails(o)
WebhookStep(h) ==
    \/ RecordWebhookEvent(h) \/ FindByRevolutId(h) \/ MarkState(h)
    \/ MarkPaymentReceived(h)
Redelivery(m) == m \notin acked /\ \E h \in Hooks : RevolutDelivers(h, m)

DonationNext ==
    \/ \E o \in Orders : CheckoutStep(o) \/ CheckoutFails(o) \/ RevolutEmits(o)
    \/ \E h \in Hooks :
        \/ \E m \in Orders \X EventKinds : RevolutDelivers(h, m)
        \/ WebhookStep(h) \/ WebhookFails(h)

DonationSpec == DonationInit /\ [][DonationNext]_donationVars

-----------------------------------------------------------------------------
(* Properties.                                                             *)

Ledger == INSTANCE DonationLedger

Handled(m) == \E h \in Hooks : hook[h].at # "idle" /\ Message(h) = m

\* Type invariant.
DonationTypeOK ==
    /\ desk \in [Orders -> {"none", "local", "ordered", "url", "failed", "unpaid"}]
    /\ orderRow \in [Orders -> States]
    /\ attached \subseteq Orders /\ paid \subseteq Orders
    /\ \A s \in {dispatched, acked, recorded, lost} : s \subseteq Orders \X EventKinds
    /\ hook \in [Hooks -> [order : Orders, event : EventKinds,
                           at : {"record", "find", "mark", "pay"}] \cup {NoHook}]
    /\ ledger \in Seq(Orders)
    /\ repeats \in 0 .. MaxRepeats /\ donateFaults \in 0 .. MaxDonateFaults

\* The webhook implements the ledger: coverage is granted for paid orders only
\* and once for each, whatever is redelivered, repeated or handled twice at the
\* same time; the primary key of revolut_webhook_events is the only fence.
GrantsAsPromised == Ledger!LedgerSpec

\* An ORDER_COMPLETED that Revolut will not send again has been turned into
\* coverage, unless a handler stopped between recording it and granting.  A
\* payer holds the url only after the order's id is attached, so the event of
\* a payment never meets an unknown order.
AckedIsGranted ==
    \A o \in Orders :
        LET m == <<o, "COMPLETED">>
        IN  m \in acked \ lost /\ ~Handled(m) => o \in Ledger!Granted

\* What a payment becomes: coverage, with the same exception.
Covered(o) == o \in Ledger!Granted \/ <<o, "COMPLETED">> \in lost

\* What the webhook keeps: an answered payment is coverage.
DonationsSound == DonationTypeOK /\ AckedIsGranted
=============================================================================
